# A formal model of the SRv6 MRC emulator

This directory holds TLA+ specifications of the control logic of the emulator
under `src/srv6_mrc`, TLC configurations that check them on small instances, and
proofs for TLAPS. Paths below are relative to the repository root; `mrc/x.py`
stands for `src/srv6_mrc/mrc/x.py` and `x.py` for `src/srv6_mrc/x.py`.

## 1. What the program is

A lab emulation of MRC: every packet of a flow is sprayed over *entropy values*
(EVs), an EV being a (plane, path) pair reached by an SRv6 source route. A sender
keeps a health state per EV, fed by two signals that do not know of each other:
its own probes, which loop through the fabric and back, and loss reports from
the receiver. An EV judged bad gets weight 0 until probes bring it back.

```
   spray --role send                      spray --role mrc-daemon
   run_sender, MrcSnapshot policy         MrcDaemon: one SenderMrcAgent per flow
     |  ^                                   emit loop, window loop, dispatch loop
     |  |  <flow>.json (weights)  <-------- snapshot loop     |
     |  +-- <flow>.sent (counts)  --------> SentCounterReader v
     |                                                 EVStateTable
     | data (sprayed)                         probes | ^  ^ loss reports
     v                                               v |  |
  ===================== fabric (planes x paths) ==================
     |                                                    ^
     v                                                    |
   spray --role recv: run_receiver, ReceiverMrcAgent -----+ (and NACKs)
```

## 2. Inventory

| Component | State | Operations | Hard part | What must be right |
|---|---|---|---|---|
| EV health table, `mrc/ev_state.py` | per EV: health, probe ring, two streaks, backoff level; cached weights | `record_probe_sent/recv`, `tick`, `record_loss_window`, lock-free `weights_ev`, `state` | three threads; two signals; latches and backoff over long histories | capacity floor, weights one move behind at most, no early recovery, backoff doubles, bounded detection, eventual recovery |
| Loss fusion, `mrc/loss_compute.py`, `mrc/loss_window.py`, `mrc/agent.py` | open sent window, ring of closed ones; the receiver's open window | `_rotate_window`, `_emit_one_round`, `apply_loss_report` | windows of two hosts out of phase, lost reports, sender's weights lag | isolated bad windows take no healthy EV out, a black hole is found, next to nothing counts against an EV that is out |
| Trimming and NACK, `trim.py`, `runner.py` | recent sends and their retransmit counts, request queue, receiver's pending set | `emit`, `note_sent`, `on_nack`, `take`, drain | two threads, loss, reordering and duplicates, bounded memory | budget, no copies but the fabric's, no trimmed packet forgotten |
| Sent counters, `mrc/sent_counters.py` | cumulative counts, the published file, the reader's last grid | `record`, `publish`, `read_delta` | two processes, failed writes and reads, restarts, an earlier run's file | no packet is counted in two windows; nothing is lost |
| Weight snapshot, `policy.py` `MrcSnapshot`, `mrc/daemon.py` `_snapshot_loop` | file, its mtime, the loaded grid, the CDF cache | `_publish_all_snapshots`, `_refresh_once`, `pick_ev` | cache keyed by object identity, mtime granularity, a file an earlier run left | the cached CDF is that of the grid in use, no publish is missed, the table's weights arrive |
| Spray policies, `policy.py` | per-flow spine subsets | `pick`, `pick_ev` | the floor counts the table's EVs, a flow uses some of them | what a bad EV loses its flow's other EVs get, in proportion |
| MRC daemon and agents, `mrc/daemon.py`, `mrc/agent.py`, `mrc/transport.py`, `mrc/probe.py` | agents by flow, sockets, the receivers' windows and the reverse EV they remember | start, emit, dispatch, report, NACK, stop | four kinds of threads per host, one listener for several flows, EVs that go down under the reports | every echo, report and NACK reaches its flow's agent once; feedback survives a dead EV |
| Scenario orchestrator, `mrc/run.py` | docker clients, records, messages | spawn, wait, signal, kill, collect | a client may end before the process in the container; files of earlier runs; hangs | every process leaves a record or a message; a report is this run's; the run ends |
| Netem and faults, `netem.py`, `fault.py`, `cli/srctl.py` | qdiscs on NICs, interfaces down, fault records on disk | apply, revert; shutdown, netem, clear | failure half-way, several processes on the same NICs | what was applied is what is reverted; a run measures under the impairment it asked for |
| Receiver accounting, `reorder.py`, `runner.py` | per flow: next seq, window, reorder histogram | `observe`, `loss` | reordering, retransmits, duplicates, unlocked capture threads | loss = never seen |
| Packet bytes, `encap.py`, `rdma.py` | none | encode, decode | - | round trip |
| Addresses and fabric, `topo.py`, `generators/fabric.py`, `cli/routes.py` | routes in hosts and switches | SID and address helpers, generated tables, RouteSets | addresses written in three places must agree hop by hop; commands in a thread pool | a packet stays on its EV's links, arrives at the right place and never loops |
| Scenario files, `mrc/scenario.py`; report, `report.py` | none | validate; merge | - | schedules well-formed; totals add up |
| CLIs `cli/spray.py`, `cli/srctl.py`, `cli/routes.py`; `visibility/scraper` | none, or the kernel's | wiring, tables, metrics | mostly I/O | - |

`PROJECT.json` lists the components with their status, and under `hazards` the
lines at which this code is hard to test, each with the properties that would
catch it going wrong.

## 3. Modules

| Module | Models | Built on |
|---|---|---|
| `EVState` | `EVStateTable` of one tenant | - |
| `EVPool` | abstract: a pool of EVs taken out and brought back | - |
| `EVStateHistory` | `EVState` with history variables; its refinement mapping to `EVPool` | `EVState` |
| `SprayPick` | which EV a packet goes over, given the table's weights | `EVState` |
| `MCEVStateLive` | `EVState` under its threads and their fairness | `EVState` |
| `LossFusion` | one flow's loss path: spray, windows of both hosts, pairing, fusion | `EVState` |
| `LossHistory` | `LossFusion` with history variables that follow bursts of the load | `LossFusion` |
| `SentCounters` | the data sender's counts, the published file, the daemon's reader | - |
| `FlowFiles` | both files a data sender and its daemon share, with their threads | `SentCounters` |
| `NackRetransmit` | sender loop, NACK thread, receiver, lossy fabric, for one flow | - |
| `FlowReport` | the receiver's capture threads and the statistics they share | `NackRetransmit` |
| `ControlPlane` | probes, loss reports and NACKs of several flows between hosts | - |
| `Fabric` | the generated wiring, addresses and tables, a packet walking through them | - |
| `RouteSets` | route commands, and what the kernels then send | `Fabric` |
| `ScenarioRun` | `run_flows` and the processes it starts, run after run | - |
| `LabFaults` | netem, shut interfaces and the fault file, several processes at once | - |
| `EVStateProofs` (with `EVStateHistory`, `EVPool` and `SprayPick`), `LossProofs` (with `LossHistory`), `NackProofs` (with `FlowReport`), `FlowFilesProofs` (with `SentCounters`), `LabProofs`, `ScenarioProofs`, `ControlProofs`, `RouteProofs` (with `Fabric`) | theorems and proofs | the modules they name; `LossProofs` also on `EVStateProofs` |

The other `MC*` modules give values to constants and state the properties that
need those values. What a module takes as given of another part of the system is
what that part's own module establishes: `ControlPlane` says that a report reaches
the agent of its flow, `LossFusion` what the agent makes of it, `EVState` what the
table makes of that, `EVPool` what a sprayer may rely on, `FlowFiles` how the
weights get to the sprayer and the counts back, `SprayPick` what the sprayer does
with them.

### EVState

An EV is its row-major index `plane * num_paths + path + 1`, the order of the two
`for` loops of `tick()`. `state`, `healthy`, `lossStreak`, `lossDemoted`,
`backoffLevel` are the fields of `_EVRecord` with their code names shortened;
`buckets` is the deque, `curSent`/`curRecv` the bucket in progress, `weights` the
cache `weights_ev()` serves. A `record_*` call is one critical section and one
action. `tick()` is one critical section as well, but `weights_ev()` and
`state()` take no lock, so it is one action per EV and `tickPos` says which is
next. `_transition_locked` stores the EV's state well before it rebuilds the weights,
so a transition is two actions as well: `Demote` and `Promote` end where the rebuild
begins and leave the EV in `changed`; `RebuildWeights` is the rebuild with the callback
after it. `LockFree` (no tick under way, no EV changed) is what the `record_*` actions
wait for. `Evaluate` is `_evaluate_locked`. With `LoggerRaises` the transition
callback may raise, which cuts the tick short once the weights are rebuilt. Exact data
abstractions: ratios are compared by cross-multiplication in percent; counters that
are only compared with a limit saturate at it; `ticks - last_loss_recover_tick` is
kept as a saturating age; a weight is the raw state weight in halves (the code
divides all of them by one total). The hold's shift by the backoff level is the recursive
function `Hold`, as the provers know nothing of powers. Lifetime totals and
diagnostics are left out.

### EVPool

What a sprayer may rely on, without probes, reports, streaks or backoff: EVs go
out one at a time, never below the floor; an EV comes back no earlier than
`MinRest` rounds after it went out; and each of these moves reaches the set that gets
traffic (`Serve`) before the next one is made. Under the mapping of `EVStateHistory`
(`out` the bad EVs, `served` those with a weight, `rest` the ticks since the demote)
each step of the table is one of its four actions or a stutter.

### SprayPick

Pure operators over the weights of `EVState`. `WeightedEV` is the body of
`HealthAwareMrc.pick_ev` and of its snapshot twin: the flow's part of the grid
flattened, its cumulative weights, the first of them above the draw; without any
weight, the uniform fallback. `RoundRobinPick` is `EvSpray.pick_ev`. A draw, which
the code takes from a hash in [0, 1), is the integer part of `u * total`: the CDF's
thresholds are multiples of 1/total. The hashes behind the spine subset and the draw
may give any value they can give.

### LossFusion

Time goes in units; both hosts cut windows of `Window` units, the receiver's
`Phase` units later. In `Unit` the sender sprays each EV its copy of the weights
allows, and each packet arrives, is trimmed, is lost (on a `Faulty` EV) or stays
under way into the next unit (`MaxLate` bounds those). The boundaries are
`RotateSent` (`_rotate_window` and `SentWindowRing.push`, which keeps no idle
window) and `EmitReport` (`_emit_one_round`, whose counters are reset whether or
not the report gets through). `ReceiveReport` pairs (`Paired`: of the windows within
the skew, the `Closest` one, as `find_closest` has it) and makes the set of the
`record_loss_window` calls of `apply_loss_report`, one for an EV at most, of which
`IsNext` is the next in the loop's order; `CheckAbsent` is the lock-free read of an
absent EV's state and `ApplyCall` the call itself, so that a tick may fall between any
two. Probes, their echoes and the ticks (`ProbeStep`) come each at a time of its own;
`TransitionEnds` is the table's `RebuildWeights`. `RefreshWeights` is the data sender's
reload of the weights, at a time of its own. The 50 ms delay of the sent counters
is a packet counted one unit late; it is covered by `MaxLate`.

Three specifications share these actions: `FSpec` has all of them, `DataSpec` leaves
out probes and ticks, and `RaceSpec` of `MCLossFusion` has the probes of the faulty EVs
and every tick, with fairness.

### LossHistory

A unit is *rough* for an EV when it offers the EV fewer packets than `CalmLow` or more
than `CalmHigh`, a window when it has a rough unit, and a report when its own window or
the one it is paired with is. The history variables carry this along `LossFusion`'s
windows, ring, report and calls; `roughRun` counts the rough reports fused for an EV
since the last one that was not. The loads themselves are not restricted.
`CalmAssumption` only says what calm means: beside the heaviest calm window the lightest
one, short of what is late, is still a clean report. It is the loss path alone
(`DataSpec`): probes have no part in the argument.

### SentCounters and FlowFiles

In `SentCounters`, `counts` is the writer's grid, `draft` the copy `publish()` is
writing to its temporary file, `file` what `os.replace` last moved into place,
`last` and `folded` the reader's reference grid and the sum of its deltas. `Copy` and
`Replace` are two actions: the sender counts on in between, and an `OSError` leaves
the old file. `Kill` and `Start` end the sender process without its final publish
and start the next one from zero; the file and the reader live on. A read that fails
changes nothing and is a stutter. Nothing ever removes the file, so `Init` has either
none or what a sender of an earlier run left; the reader, which is new, takes that whole
as its first delta. The field `base` of a grid and the variable
`before` are history: what earlier processes had sent.

`FlowFiles` adds the file that goes the other way. `Reweigh` is any change of the
table's weights; `Snapshot` and `PublishSnapshot` are the daemon's snapshot and its
`os.replace`, which may fail or, within one tick of the file system's clock, leave
the mtime as it was. `DaemonStop` is `stop()`: a snapshot loop that waits ends at
once, one that is publishing ends that publish (`stopping`) and makes one more
(`last`), as does one that has published and not yet looked at the event. In the
sender the refresh thread stats (`RefreshStat`), reads and swaps (`RefreshSwap`),
and clears the cache of CDFs (`RefreshClear`), or fails (`RefreshFails`), while the
sender loop captures the grid (`Capture`) and stores the CDF under the grid's
`id()` (`Lookup`). An id is any that no grid in use has, the one a pick still holds
included. Of mtimes only the order is kept: `newer` says that the file's exceeds
`_last_mtime`, `moved` that the file was replaced since the stat. What falls between
the read and the swap might as well come after both, so they are one action. A
daemon is stopped after a sender has ended, as the orchestrator does it; picks whose
packets would be beyond `MaxSent` go on uncounted. A grid of the wrong dimensions is
a failed read.

### NackRetransmit and FlowReport

`phase` and `pc` are the position of the sender thread in `run_sender`; `recent`
and `count` are the `OrderedDict` of `NackListener`, `queue` its deque. `emit()` is
two actions, the `sendto()` and the `note_sent()` after it, since the listener
thread may run in between. Data packets and NACKs are sets of frames: any order,
possibly lost (`Lose`), and possibly duplicated, as a netem `duplicate` fault does it
(`Duplicate`); the fields `copy` and `twin` tell the copies of a seq apart, the
sender's and the fabric's. The table evicts its oldest seq when it is full. The drain
ends at any time. `resent`, `entered`, `lost`, `unknown` and `dups` are history
variables.

`FlowReport` replaces the receiver by `run_receiver`'s threads, one per NIC, every
EV being on a NIC of its own. `Handle` is a thread's work on a packet up to the
look-up of the flow in `ReorderTracker`; a thread that finds nothing stores new
`FlowStats` in a second step (`Store`), over another thread's perhaps; and in a step of
its own (`Count`) it observes its packet in the statistics it found or made, whichever
the tracker holds by then. `hand` is what a thread has in hand between these. `Observe`
tells duplicates; its window is taken to hold every seq of the flow, so that none is
forgotten. Histograms are left out. The flow's row is made of the statistics that the
tracker holds in the end.

### ControlPlane

A host runs a daemon for the flows it sends and a receiver for those it receives.
`life` is the daemon's stage (`StartAgents`, `StartDispatcher`, `Stop`, `Close`);
`inbox` the messages in every socket, oldest first. `SendProbe` is the `sendto()` of
`_emit_loop`, `NoteProbe` the `record_probe_sent` after it: an echo may be heard in
between, and those of earlier rounds need not be back (`Probes` are the identities of
an EV's probes, the least free one taken next). `Dispatch` is one turn of
`_dispatch_loop`: a probe names its flow in its payload, a report by its source
address (`Demux`), a NACK comes to a port of its own (`HearNack`). At the receiver
`DataArrives` counts and `Learn` notes the EV for the reverse path, two steps of
`record_data` with no lock over both; `Snapshot` closes a window, `SendReport` sends
it or loses it. An EV that has gone down takes whatever is sent on it from then on.

Reductions: the workloads are split into flows that only probe and a flow that carries
data, since in the model the two share nothing but the listener, which each workload
has; a host that sends no flow of the workload has no daemon, as `MrcDaemon` refuses
an empty list of flows; when a probe, a tick or a report is due is left open; a host
that has stopped stays so, and only the hosts in `Stopped` may stop; `Stop` is the
moment at which the dispatcher ends; a packet's identity either arrives in full or
trimmed; `record_trimmed` and the NACK it sends are one step. What an agent makes of a
message is in the modules above.

### Fabric and RouteSets

`Links`, the address tables and `LeafSids`, `SpineSids`, `LeafHops`, `SpineHops`,
`HostSids` translate what `generators/fabric.py` writes; `UsidOuterDst`,
`ProbeOuterDst`, `ProbeEvAddr` what `topo.py` computes for the senders. A node is a
kind, a plane and an index; an address is its prefix and the numbers in it; an outer
destination a list of 16-bit uSIDs. `Forward` moves the one packet in flight by one
hop: what a switch or kernel does with a uSID (uA, uN, uDT6, End.DT6) or a route is
external and taken from the behaviours the configuration names. `Cut` takes a link
down for good. Records and functions are given by constructors, and `Route` by the
ports towards an address, so that both can be reasoned about for a fabric of any size.

`RouteSets` adds the operator. `Accepted` is a command getting as far as its first
route: `load_spec_file` refuses a spec without pairs, and in `cmd_apply`, past
`load_spec_file` and its `try`, `usid_outer_dst` raises in `Pair.routes()` for a spine the
fabric does not have, which the reference pairs name in a fabric of nine or more leaves
and fewer than eight spines. A command's routes are done in any order, each by a
`docker exec` that may fail; the failure of a delete may go unsaid (`missed`), since any
output with "No such" in it, docker's "No such container" too, is taken for an absent
route. `SpecRoutes` is
`expand_spec` with its replacement of earlier pairs; `KernelSend` sends a packet over
the encap route a host has. To keep
the product small the packet in flight is forgotten when a command is given, and the
hosts' raw sends happen before the first command: a raw send does not look at the
routes, nor a command at the packet.

### ScenarioRun

`pc` is the place in `run_flows`. A process is in `inside` while it runs in its
container; `client` is the local `docker exec` of it, the only thing the
orchestrator sees: terminating a client ends the client alone, and `pkill` in the
container (`Terminated`) ends every spray process there. Senders are threads that
block in `docker_exec` with a timeout; receivers end when they have heard data and
then silence. `Visit`, `Waited`, `Cat`, `CatGivesUp` and `CollectReceiver` follow
the collection host by host with its retries; `files` is the final report that lies
in each container, whose path never changes; `Mishap` bounds crashes, hangs and
calls that fail. The dry run and the printing are left out.

### LabFaults

A process is a scenario run or one `srctl` command after another, each `tc` or
docker call a step of its own. `Apply`, `Add`, `Del`, `DelFails`, `Reverted` are
`Netem.apply` with its unwinding and `revert`; `AddRaises` is an exception that
`apply` does not catch. `Shutdown`, `Clear` and `Record` load the fault file, act
interface by interface, and save what was loaded, changed: with several operators
at once the last save wins. `Found` is `find_by_node` and `find_by_interface`,
written with `FlattenSeq` since the provers know nothing of `SelectSeq`.

## 4. Runs

`None` in `MinActiveEVs` is the default floor, half of the EVs. All bounds are
constants of the configurations.

| Run | Checks | Instance and why it is enough |
|---|---|---|
| `history` | `NoEarlyRecovery`, `BackoffDoubles`, `DarkEVTakenOut`, `ImplementsPool`, `SprayFollowsHealth` | 4 EVs, one of them driven through relapses up to the backoff cap (holds 2, 4, 8) and its reset, the others idle so that the floor does not interfere (that `ImplementsPool` holds where it does is for the theorem); 4 EVs are every shape (1x4, 2x2, 4x1) with every spine subset, some of them wholly out |
| `live` | `FloorInv`, `WeightsOneBehind`, `ProbesRecover`, `SuppressedDemoteRetried` | 2 EVs and a floor of 1: the floor refuses whichever is to go second; a tick at any moment of a probe round, any echo early, late or lost; clean and lossy windows for any EV at any moment until the data end; a logger that may raise |
| `bursts` | `BurstsInARow` | 2 EVs; a unit offers each 5 packets or 6, or the first of them 20, one late: the lightest calm window, short of the late one, beside the heaviest is exactly a clean report; 2 bad reports demote; trims; reports lost |
| `blackhole` | `OneReportLate`, `SilentEVDemoted` | an EV that swallows data and some, all or none of its probes, ticks between any two steps of the fusion: 4 sends per window and 50 % coverage are the minima the inference asks for; demote, recovery, relapse |
| `straggler` (violation) | `GateStaysOpen` | partial loss on one EV |
| `files` | `CacheFresh`, `NoneMissed`, `NoneTwice`, `NothingLost`, `WeightsArrive` | 3 ids, so that one is free beside those of the grid in use and of the grid a pick holds, and is reused; 4 grids with the cold and the earlier one; 2 sender processes, one of an earlier run perhaps, with its file; 1 failure |
| `flow` | `TypeOK`, `BudgetPerEntry`, `CopiesAreTheFabrics`, `Pursued`, `CountedOnce`, `RaceEnds` | 2 packets, 2 EVs and so 2 threads, budget 1, a table of 1: the second packet evicts the first, whose retransmit enters again; 1 duplicate of each packet |
| `control` | `EchoesAccounted`, `CountedInOnePlace`, `EveryEchoHeard`, `FeedbackRecovers` | 3 flows among 3 hosts, two of which both send and receive; 2 EVs, one of which may go down; 2 messages waiting, which may be two probes of one EV; the daemon of the host that sends two flows may stop |
| `fabric` | `RightPlace`, `OnItsPath`, `LostByTheEv`, `ProbeCoversData`, `BothWays`, `EveryWalkEnds` | 2 planes of 2 spines and 3 leaves, every EV and SID mode, any one link down; two RouteSets that overlap, two commands, one failing exec, said or unsaid |
| `scenario` | `AllAccounted`, `OwnReportIfEnded`, `Finishes` | 2 hosts that send to each other, 2 runs, 1 mishap: a run that meets what another left |
| `ownreport` (violation) | `OwnReport` | the same without mishaps |
| `lab` | `NoStray`, `FaultsHold`, `DownRecorded`, `OnlyOwner` | two scenario runs and an operator on two NICs, links with and without a peer, a call that fails |

`CHECK_DEADLOCK FALSE` is used where the modelled processes really end: the sender
after its drain (`flow`), the last sender process and its daemon (`files`), hosts
that have stopped and packets that have all been heard (`control`), the last packet
and command (`fabric`), the last run (`scenario`, `ownreport`).

Every property has a mutant: a plausible bug in one definition, kept in the module
beside it and named `<definition>_<bug>`, that breaks the property on the run's own
configuration.

Why the bounds are enough: the thresholds the code compares with
(`probe_recover_ticks`, `loss_demote_consecutive`, the ring length, the backoff
cap) are set low so that each is reached, passed and reached again; a count
saturates only above the largest limit it meets, so saturation hides no
comparison; and all safety and action properties of the runs that pass are proved for
every value (section 5). What is left to the bounds is liveness.

### What the violated properties show

* `straggler`: a demoted EV can be shut out for good. A report paired with a window
  in which it was still sprayed starts a loss streak that no later window clears,
  and the recovery gate wants a streak of 0. The design document
  says that no such window arrives; `apply_loss_report` leaves an `ASSUMED_BAD` EV
  alone only when it is absent from the report.
* `ownreport`: the comment in `run_flows` says that the daemon writes its report
  before it exits, and so before it is read. The orchestrator waits for the docker
  client, which its own `terminate()` ends at once; the file at the fixed path may
  be that of an earlier run and is merged without a message.

### Limits of what passes

* `OneReportLate` is for EVs whose data all vanish (`Blackhole`); `straggler` shows what
  happens otherwise. Of those EVs one report at most counts while they are out, and one
  is enough to shut the recovery gate: the module docstring of `loss_compute.py`
  (line 66) says that EVs that are out are skipped, lest they be counted against again,
  but the state is read without the table's lock and not looked at again under it, so
  that a tick may demote the EV on its probes between the look (`CheckAbsent`) and the
  call (`ApplyCall`). The property says how far this goes, not that it is harmless.
* `BurstsInARow` is for EVs whose path works and which probes leave alone. It does not
  say that such an EV stays: an EV drawn at random for every packet may be offered loads
  that look like loss `loss_demote_consecutive` times running, and the code claims
  nothing else. Nor are the rough reports those of windows next to each other: with
  reports lost between them, three bad windows may be far apart, since a missing report
  leaves the streak as it is.
* `ProbesRecover` and `SuppressedDemoteRetried` are conditional, as nothing makes a probe
  come back: the first is for an EV whose windows come to be healthy or empty for good
  once the data have ended, and excepts one whose loss streak a straggling report has
  left above 0, which no probe clears; the second is for an EV that goes on failing,
  when the floor lets go of it for good.
* `WeightsOneBehind`: a reader without the lock may find the EV of the transition under
  way with its former weight, a bad one too. The module docstring
  (`mrc/ev_state.py:40-43`) promises no more than slightly stale values; this says how
  stale they are.
* `NoneTwice` is about packets, not about single windows. The window after a failed read
  carries two windows' packets, and that of a daemon's first read the whole file, an
  earlier run's included, so that one window's count may well exceed what was sent in it.
* `BudgetPerEntry` is not what the docstring of `NackListener` says ("a seq is
  retransmitted at most `max_retransmits` times", `trim.py:133-135`). That holds as long
  as nothing is evicted, since then a seq enters once; a seq evicted while its NACK is
  queued enters again with its retransmit (`trim.py:168-173`) and has a fresh budget.
  With the constants of `flow` a packet is resent twice on a budget of one. The code's
  table holds 4096 seqs, with no bound on how many a flow sends while a NACK is under way.
* `Pursued` allows what the code does not prevent: a NACK handled before `note_sent()`, or
  after an eviction, is ignored and nothing repeats it; whatever is under way when the
  drain's time is over stays behind.
* `NothingLost` is for a single sender process: when the counts of a restarted
  sender have reached the last ones read, the reader sees no step backwards and the
  packets before it are lost to the windows.
* `CacheFresh` excepts the moment between the swap of a grid and the clearing of the
  cache, in which a pick may hit the CDF of a freed grid whose id was given again.
* `RaceEnds` speaks of what follows the flow's first packets: what threads counted
  in `FlowStats` that another thread overwrote is reported as lost, and `CountedOnce`
  counts it still.
* `NoStray`, `DownRecorded` are for docker and tc calls that do not fail: a shutdown that
  fails half-way returns before it records what is down (`cli/srctl.py:521`);
  `DownRecorded` also for one operator, since two processes load and save the fault file
  without a lock.
* `BothWays` is for commands none of whose docker calls failed, said or unsaid.
* In `control` an EV that is down is down in both directions; a netem fault on a host's
  NIC impairs what the host sends only. With one direction the reverse path is cut less
  often, but a receiver may then go on using an EV that brings data and takes no reports.
* `ProbeCoversData` excepts the link to a green destination host: those probes turn
  around at its leaf.

### Fairness

* `live`: weak fairness of the window loop, which is driven by a timer (a tick once begun
  goes on, with its rebuilds), and the flow's data end. Nothing is assumed of probes, of
  echoes, or of when in a round of them a tick comes, nor of loss reports; what the
  properties need of probes is in their premises.
* `blackhole`: `RaceSpec` is weak fairness of ticks, of the end of a transition and of the
  data sender's refresh, and strong fairness of the loss path as a whole. Strong, because
  the table's lock is held for the length of a tick and a loss call is disabled then: a
  thread that waits for a lock that is free for nearly all of each 500 ms gets it. Which
  event of the loss path comes next is not assumed, nor anything of probes.
* `files`: weak fairness of the snapshot loop and of the refresh loop, both driven
  by timers. `WeightsArrive` also supposes that daemon and sender stay up; failures
  are finitely many by their bound.
* `control`: weak fairness of start-up, the dispatcher, the NACK thread and the
  learning step, which are threads that run on; strong fairness of arriving data and
  of the report timer, each of which the other disables for a moment again and
  again. Nothing is assumed of probes, of stops or of EVs going down.
* `fabric`: weak fairness of forwarding. `scenario`: weak fairness of the
  orchestrator, whose waits all have timeouts, and of senders, which have a duration;
  none of receivers and daemons, which may hang.

## 5. Proofs

Eight modules hold the proofs. Each uses only the named assumptions of the modules it
is about (`ShapeAssumption`, `TunableAssumption`, `LossReportAssumption`,
`HoldAssumption`; `FusionAssumption`, `CalmAssumption`; `NackAssumption`,
`ReportAssumption`; `CountersAssumption`; `FilesAssumption`; `LabAssumption`;
`RunAssumption`; `ControlAssumption`; `FabricAssumption`, `RouteAssumption`), which
TLC evaluates on every run. They say that sizes are numbers within the address plan,
that sets the code iterates over are finite, and that the value `None` is not one of
the data; `CalmAssumption` says which loads are calm.

| Module | Theorem | States |
|---|---|---|
| `EVStateProofs` | `TypeCorrect` | `Spec => []TypeOK` |
| | `FloorHolds` | `Spec => []FloorInv` |
| | `WeightsFollowStates` | `Spec => []WeightsOneBehind` |
| | `RecoveryNotEarly` | `HSpec => NoEarlyRecovery` |
| | `BackoffOwed` | `HSpec => BackoffDoubles` |
| | `DarkIsDetected` | `HSpec => DarkEVTakenOut`, if `ProbeFailPct > 0` |
| | `PoolImplemented` | `HSpec => ImplementsPool` |
| | `SprayFollowsWeights` | `Spec => SprayFollowsHealth` |
| `LossProofs` | `LossPathIsTable` | `FSpec` of `LossFusion` implies `Spec` of `EVState`, with every pair of counts a report |
| | `LossPathKeepsFloor` | `FSpec => [](FloorInv /\ WeightsOneBehind)` |
| | `AtMostOneReportLate` | `FSpec => []OneReportLate` |
| | `BurstsTakeOut` | `BSpec` of `LossHistory` implies `BurstsInARow` |
| `NackProofs` | `TypeCorrect` | `Spec => []TypeOK` |
| | `CopiesKept` | `Spec => []CopiesAreTheFabrics` |
| | `BudgetKept` | `Spec => []BudgetPerEntry` |
| | `TrimmedArePursued` | `Spec => []Pursued` |
| | `ReportKeepsToTheFlow` | `RSpec` of `FlowReport` implies `Spec` |
| | `CountedEachOnce` | `RSpec => []CountedOnce` |
| | `RaceIsOver` | `RSpec => RaceEnds` |
| `FlowFilesProofs` | `CountersCountOnce` | `Spec` of `SentCounters` implies `NoneTwice` |
| | `CountersLoseNothing` | `Spec` of `SentCounters` implies `[]NothingLost` |
| | `FilesImplementCounters` | `FilesSpec => Spec` of `SentCounters` |
| | `FilesCountOnce`, `FilesLoseNothing` | the two properties of the composition |
| | `CacheStaysFresh` | `FilesSpec => []CacheFresh` |
| | `NoPublishMissed` | `FilesSpec => []NoneMissed` |
| `ControlProofs` | `NoEchoMiscredited` | `Spec => []EchoesAccounted` |
| | `NothingCountedTwice` | `Spec => []CountedInOnePlace` |
| `RouteProofs` | `AnswersKeepToTheSpine` | `RouteSpec => []BothWays` |
| | `ComesToTheRightPlace` | `RouteSpec => []RightPlace` |
| | `KeepsToItsPath` | `RouteSpec => []OnItsPath` |
| | `LostOnlyByTheEv` | `RouteSpec => []LostByTheEv` |
| | `ProbeGoesWhereDataGoes` | `RouteSpec => []ProbeCoversData` |
| `ScenarioProofs` | `NothingDropped` | `RunSpec => []AllAccounted` |
| | `ReadReportsOwn` | `RunSpec => []OwnReportIfEnded` |
| `LabProofs` | `NothingStray` | `LabSpec => []NoStray` |
| | `FaultsStay` | `LabSpec => []FaultsHold` |
| | `OwnersOnly` | `LabSpec => OnlyOwner` |
| | `DownAccounted` | `LabSpec => []DownRecorded` |

**EVState.** `TypeOK` is inductive by itself. `FloorInv` is inductive relative to it:
the only action that shrinks `Usable` is a demote, which checks `Usable \ {e}`, and
the initial state needs `MinActive <= NumEVs`. `WeightsOneBehind` needs the floor in
two places: a rebuild gives weight by the states only if some EV is usable (`MinActive
>= 1`), or else the uniform fallback of `_rebuild_weights_locked` would hand weight to
bad EVs; and between a demote and the rebuild it is an EV other than the one demoted
that has the weight. That no second EV moves before the rebuild is `changed` and the
lock. `NoEarlyRecovery` is an action property: `LatchInv` says that the healthy-window
count of a bad EV never exceeds the ticks that visited it since its demote, which
holds since every demote resets the count; a promotion wants at least `Hold(level) >=
ProbeRecoverTicks` of them. `PoolImplemented` puts the three together: `StateCases`
says that a step demotes one EV, promotes the EV a tick is visiting, or leaves all
states alone; the first is `TakeOut` with the floor's leave, the second `BringBack` by
`PromotedRested` (or a stutter, for an EV that was not out), the third a `Round` or a
stutter; `RebuildWeights` is `Serve`, or a stutter when the weights were right
already; and each of the first three finds the pool settled, since no EV is half-way
through a transition when one begins.

`BackoffOwed` is about what an EV owes (`BackoffInv`): while it is out, the hold of
its backoff level, and after a recovery from a loss its level still gives the hold it
owed last, for as long as a relapse would count; so a relapse raises the level of that
hold, and `Hold[l + 1]` is twice `Hold[l]` or the level is at its maximum. Only levels
up to the maximum occur, where `Hold` is defined and at most `HealthyCap`, which is
why the saturated count is compared as the real one would be. `DarkIsDetected` needs
the ring: `DarkInv` says that as many of its last buckets are unanswered as the EV has
been dark for, so that after `ProbeWindowTicks` of them it holds nothing else, the
sums of its buckets are some probes sent and none received, and the ratio is below any
threshold but 0. With a `probe_fail_ratio` of 0, which `EVStateConfig` allows, no
ratio is below the threshold and probes take no EV out; hence the hypothesis.

**SprayPick.** `SprayFollowsWeights` is arithmetic over the invariant of the weights.
Dividing a place of the flat vector by the flow's number of spines gives its plane and
its spine, and no two places the same EV (`FlatIs`). A sum over a set does not depend
on the order in which its indices are taken (`SumOne`), so the last threshold is the
weight of the flow's EVs (`SumAlong`, `CdfShape`), and the draws between one threshold
and the next, which are as many as the weight, are those of one EV (`PickIs`,
`DrawnByWeight`). Weights move at the end of a transition (`WeightsMoveAtEnd`), when
they tell the usable EVs. With no weight at all, and under round robin, places are
residues and each is met once (`EvenWithoutWeight`, `RoundRobinCovers`).

**LossFusion.** The steps of the loss path are steps of the table or leave it alone:
probes and ticks are `EVState`'s own, and a call is a `RecordLossWindow` with counts
that are numbers (`FTypes`), and a transition ends with the table's own rebuild; that is all
`LossPathIsTable` needs. The table's
invariant is proved under any such call (`AnyLoss`), so floor and weights carry over.

`BurstsTakeOut` counts packets. `Sound` says of an EV without faults, for what is not
rough, that a closed window, and the open one for the units it has, holds at most the
heaviest calm load (`SentBound`); that what the receiver has counted plus what is under
way is at least the lightest calm load of the units since its window began
(`SeenBound`); hence that a report under way, and the calls made of it, are clean beside
any window they may be paired with (`FairReport`, `FairCalls`); and so that the loss
streak never outgrows the rough reports since the last calm one (`Counted`): a clean
call clears the streak, a rough one adds one to both at most. The receiver's first window
has `Phase` units only; it does no harm since the sender's ring is still empty when it is
reported (`Started`). Nothing is assumed of the loads, the faulty paths, the skew, the
ring or the phase.

`AtMostOneReportLate` is about a call that was looked at. An EV whose data all vanish is
in no report and has no packet at the receiver, so that only its absence counts against
it, and it has one call waiting at most (`OneCall`). When the look let a call through the
EV was in; if it is out by the time of the call, a tick has taken it out since and cleared
its streak (`Silent`). So the late call is the first to count, and the next look finds the
EV out and drops the call.

**NackRetransmit.** `CopiesAreTheFabrics` is a count of tokens: the frames, requests and
arrivals of a seq are one, and one more for each that the fabric made, and each action
moves one from one place to another, drops it, or, `Duplicate`, adds one to both sides.
It is inductive together with `TypeOK`, `Control` (where `noting` and `todo` may be
non-empty) and `Unsent` (of a seq not yet used there is nothing), and needs nothing of
the table: eviction cannot copy. `BudgetPerEntry` is not inductive: `Account` adds that
no more is granted than was asked for, and that a seq in the table has the rest of its
entry's budget left, which an eviction only takes away. `Pursued` is inductive beside it:
a NACK of a pending seq that is not granted finds it unknown, or its budget spent, and
then by `Account` it was resent as often as that or is about to be. These theorems are
about the `Spec` of `NackRetransmit`, for every size of the table; by
`ReportKeepsToTheFlow` they hold of `RSpec` too.

**FlowReport.** The delivered seqs are those in a window or in a thread's hands.
`CountedOnce` is inductive only together with what a thread may wipe out: by `Own`,
statistics that a thread is still to store are empty and no other thread counts in them,
and until one thread has stored its own none has any; so a store that replaces another's
loses no count of its own. `RaceIsOver` follows: when every thread at work counts in the
statistics the tracker holds, each delivery goes there. Recovered and pending packets
together are never more than the trimmed ones, since a seq leaves `pending` when it is
recovered.

**SentCounters.** A published grid *follows* another if on each EV it is of the
same process and at least as large, or of a later one. `Chain` says that the
reader's reference, the file, the draft and the present counts follow each other. A delta
then never exceeds what was sent between the copies of the two grids, whichever branch of
`read_delta` computed it (`DeltaFits`), and that is `NoneTwice`; for the first read,
`Unread` says that nothing is in a window before. For `NothingLost`, with a
single process the deltas telescope (`Single`).

**FlowFiles.** `StepCounts`: every step of the two processes is a step of
`SentCounters` or leaves its variables alone; with the initial states that is
`FilesImplementCounters`, and the two properties of the counts carry over.
`CacheFresh` is not inductive: a pick that stores a CDF writes under the id of the
grid it captured earlier, and what is cached under the id in use stays right only
because two grids that are not freed differ in their ids (`Ids`). `NoneMissed` is
not inductive either: `Files` says that there is a file whenever one is about to be
read, and `Seen` that the grid in use is the file's at every place of the refresh
thread at which no newer mtime is to be seen, the places between a swap and the
clearing of the cache included.

**ControlPlane.** Messages are told apart by the socket they are in and the flow they
are of. `ControlInv` holds the types, that every message lies once in the one socket
its kind and its flow's sender give it (`Sorted`), that every report says something
and no two NACKs of a flow speak of the same packet (`Apart`), and that a receiver
closes only windows of its own flows in which something was counted (`Closes`).
`NoEchoMiscredited` then rests on the demux: a probe names its flow, a flow is known
by its sender and the id of its destination within a tenant (`FlowKnown`), and a new
probe is none of those under way, so that their number goes up and down by one
(`AwayGrows`, `AwayShrinks`). `OnePlace` is the token argument for a packet seen or
trimmed: it is in the open window, the closed one, or one report under way.

**RouteSets and Fabric.** `RouteInv` is about commands: while one works, the routes it
is still to do are part of a set that has every route's converse (`TwoWay`), what it
has done is there or gone (`Done`), and the rest of the kernels' routes have their
converses (`BackBut`); so whenever it ends without a failure all of them do. `WalkInv`
is about the packet: at every place on its way, what is left of its outer destination
is what the table of the next node on its EV's path takes off, for each kind of packet,
mode and plane (`OnTheWay`), and it has crossed the links before and no other. From it
follow the four theorems on where packets go, for fabrics of up to 15 planes, 8 spines and
16 leaves, the sizes the address plan has room for. The proofs are by the cases of
`Forward` at each place; that addresses differ where they must (`LeafUA`, `HostUA`, ...)
are lemmas on the arithmetic of uSIDs.

**ScenarioRun.** `NothingDropped`: each process that was started has a record or a
message, or is due (`Due`) in what the rest of `run_flows` is still to visit: the
daemons of the hosts left, then the receivers of the hosts left. It rests on
`SetToSeq` listing every host once. `ReadReportsOwn` adds, for a host whose daemon is to be
collected and that no earlier run has left a daemon on (`Watched`), that the daemon in
its container is this run's and has written the file before it is gone (`Own`).

**LabFaults.** Each of the three properties needs to know whose a qdisc is. `Holds`
says that the NICs in the `_applied` of a process carry its netem, each once (or a
revert would delete the same NIC twice, the second time perhaps another's); it is kept
because `tc qdisc add` wants a NIC without one, and because a `del` takes the last
entry off together with the qdisc. So the process that takes a qdisc away is the one
whose it is: a step changes one process's job only, and `OwnersOnly` names it. `JobOK`
says that a target of a Netem that is being applied is up or still to come, and all
are up in a run; with `Holds` this is `FaultsHold`. `NoStray` is inductive beside
them. `DownAccounted` is about the fault file and the only operator's command
(`Good`): the ids of the file increase, so that a new record's is its own and
`remove_fault` by id removes the fault that was found and no other (`SparedKeeps`);
while a command shuts or records, it has the file in memory; while one clears, each
interface that is down is recorded in what it will save or is still to be brought up
(`Reverting`, `GoodClear`). With two operators none of this holds, as one saves over
the other's records.

Recursive definitions of the community modules (`FoldLeft`, `FlattenSeq`) and `Hold` are
`CHOOSE`n functions, of which nothing follows until one is shown to exist: each proof
that unfolds one begins with a lemma that does so by the least-number principle
(`Least`), as the induction theorems of the library cannot be instantiated.

Only model-checked: liveness (`ProbesRecover`, `SuppressedDemoteRetried`,
`SilentEVDemoted`, `WeightsArrive`, `EveryEchoHeard`, `FeedbackRecovers`,
`EveryWalkEnds`, `Finishes`), which the prover cannot treat. Every other property of a
run that passes has a theorem above.

## 6. What was seen on the way

Places where the code differs from what a text of the repository says, with no run of
their own:

* `_revert_fault` (`cli/srctl.py:629`) reverts a netem record with a fresh `Netem`,
  which has applied nothing: `fault clear` drops the record, says that it has reverted
  the netem (line 636, and the docstring at line 620), and leaves the qdisc. `Clear` of
  `LabFaults` does the same.
* The docstring of `NackListener` (`trim.py:133-135`) bounds the retransmits of a seq;
  the code bounds those of an entry in its table (section 4).
* The module docstring of `loss_compute.py` (line 66) says that EVs that are out are
  skipped; one call may slip through between look and lock (section 4).
* `spine_for` uses the reference pairs of the 16-leaf, 8-spine shape for every shape;
  a comment (`topo.py:237`) says that other shapes use the hash. In a fabric of nine
  leaves or more and fewer than eight spines it names spines that do not exist.
  `load_spec_file` lets such a spec pass; the `ValueError` comes from `usid_outer_dst`,
  when `cmd_apply` asks for `Pair.routes()`, where nothing catches it.

Places where code and intention differ that no text promises otherwise of, or that are
outside the models:

* The logger of `SRV6_MRC_LOG_TRANSITIONS=1` (`cli/spray.py:253`) reads a key that
  `inspect()` does not return; the `KeyError` leaves `tick()` half-way through the
  EVs and is swallowed in `mrc/agent.py:448`. The runs `live` and `history` allow it.
* `routes delete --all` says nothing of a host whose scan fails.
* `leaf_gateway_addr` names for yellow an address that no leaf configures
  (`topo.py:511`, `generators/fabric.py:300`).
* A `probe_fail_ratio` of 0 is accepted and turns detection by probes off.
* A flow all of whose packets arrive trimmed has no statistics and no row; a flow's
  first seq is the first to arrive, so that packets lost before it are not counted.
* A receiver window that is reported between the count and the learning of its first
  packet has no reverse path yet and is dropped (`mrc/agent.py:599`).
* `record_sent` (`mrc/agent.py:305`) increments without the lock of
  `_rotate_window`; no deployment calls it, the counters file replaces it.
* The last CDF entry is forced to 1.0: with rounding, an EV of weight 0 in the last
  place may get a share of about 1e-16.
* A sender retransmits "on a different EV" only if its policy offers one:
  `pick_other_ev` asks eight times and takes its last answer.

## 7. What is not modelled, and why

* Pure I/O and text: packet timestamps, the scraper's metrics, the shell scripts,
  `srctl get` and `ping`, tables and argument parsing.
* Byte layouts (`encap.py`, `rdma.py`), malformed messages and the caps of u16 and
  u32 fields: no state, and unit tests cover the round trips.
* `scenario.py` and `report.py`: validation and merging of finished records; what the row
  of a flow is made of is in `FlowReport`.
* The plane-only policies (`round_robin`, `hash5tuple`, `weighted`): as `SprayPick`
  with one path per plane.
* Real time. Skews, windows and delays are orders of events or counts of units;
  `SentCounters` takes the writer's join to end before its timeout.
* Several tenants in one table set: the tables are independent; what they share
  is the demux of reports, which `ControlPlane` has for several flows of a tenant.

## 8. Plan

What would come next, in this order: the fault file with two operators, against an
abstract set of faults in force; and the composition of `FlowFiles` with `EVPool`, so
that an EV taken out is out of the spray one publish and one refresh later.
