# TLA+ models of asb-tui

asb-tui is the terminal frontend of the ASB benchmark runner: a Rust program that
is installed and started as an *extension* by ASB, talks to the runner over an
authenticated local control stream, lets an operator configure providers,
agents, benchmarks and recordings, launches runs and shows them. The runner is
not part of the repository; here it is *external* and modelled from what the
frontend expects of it.

This directory holds TLA+ specifications of the parts of asb-tui whose
correctness depends on order, failure or concurrency, the TLC configurations
that check them on small instances, and TLAPS proofs for the theorems that are
worth having for every instance. `PROJECT.json` maps every definition to the
source lines it models. Paths below are relative to the repository.

## Inventory

### Parts, state, operations

| Part | Source | State it keeps | Operations |
|---|---|---|---|
| Production installer | `src/lifecycle.rs`, `src/delegated.rs` | `active.json`, `versions/<digest>/`, stages, a lock file | install, upgrade, remove, launch, status; self-test of a candidate process |
| Development installer | `src/development_lifecycle.rs` (+ `development_preflight`, `development_channel_manifest`) | `asb-tui`, `provenance.json`, `channel-manifest.json`; backup and trash directories | preflight, install, upgrade, status, remove, with cancellation |
| Bundle retrieval | `src/bundle.rs`, `src/release_channel.rs`, `src/compatibility.rs`, `src/bin/verify-release-lock.rs` | a shared cache of artifacts and partial downloads | fetch, resume, verify signature, digests, inventory, release lock |
| Interactive loop | `src/runtime.rs` | worker handle, refresh deadline, fan-out and recording state | signals, polling, key dispatch |
| Terminal session | `src/main.rs`, `src/top_level.rs`, `src/channel_selection.rs`, `src/runtime.rs`, `src/terminal.rs`, `src/terminal_handoff.rs` | raw mode, alternate screen, cursor; the recorded channel | enter, suspend, resume, restore |
| Workspace | `src/ui.rs`, `src/actions.rs`, `src/landing.rs`, `src/shell.rs` | screen, drafts, preflight bundle, launch state, selections | key handlers, `apply_live_snapshot` |
| Launch statistics | `src/launch_statistics.rs` | `LaunchState` | begin, cancel, fail, reconnect, apply event |
| Control client | `src/control_client.rs`, `src/broker_adoption.rs` | negotiated limits, request ledger, cursor | adopt, establish, begin/complete, reconnect plan |
| Control transport | `src/control_transport.rs`, `src/control_codec.rs`, `src/protocol_compatibility.rs` | one framed stream, negotiated session | one round trip per call, polls, launches, recordings, authentication |
| Live projection | `src/live_projection.rs` | `ControlProjection`: catalogs, runs, recording, auth | `apply`, `snapshot` |
| Recording | `src/recording_campaign.rs`, `src/recording_dispatch.rs`, `src/benchmark_route.rs` | campaign review, estimate, lifecycle generation | estimate, plan, start, poll, cancel, resume, recover |
| Fan-out | `src/fanout_dispatch.rs` | admission, status, selection | admit, cancel |
| Agents | `src/agent_lifecycle.rs`, `src/agent_catalog.rs`, `src/asb_lifecycle.rs` | lifecycle state of one agent | refresh, install, progress, cancel, remove, reconnect |
| Provider setup and wizard | `src/wizard.rs`, `src/wizard_stepper.rs`, `src/wizard_catalog.rs`, `src/provider_setup.rs`, `src/provider_catalog.rs`, `src/adapter_catalog.rs`, `src/credential_helper.rs` | draft values, step, applied flag | edit, navigate, review, apply once |
| Configuration | `src/configuration.rs`, `src/configuration_materialization.rs`, `src/revision.rs` | configuration file, materialized bundle | load, save, materialize, restore |
| Selection | `src/selection.rs`, `src/selection_control.rs` | tri-state tree of pools, benchmarks, measures | toggle, search, cursor |
| State models in the code | `src/formal_state.rs`, `src/app.rs`, `src/startup.rs`, `src/top_level.rs` | screen, focus, overlays | one `apply` per event |
| Development journey | `src/development_*.rs` (auth, broker, handoff, journey, onboarding, router) | phases of the development profile | phase transitions |
| Probes | `src/system_probe.rs` | none | bounded child processes |
| Reports, help, rendering | `src/reports.rs`, `src/help.rs`, `src/renderer.rs`, `src/visual.rs`, `src/output_contract.rs` | none | formatting |

### How the parts interact

ASB starts `asb-tui lifecycle <op>` processes against one owner-private root;
several may run at once and any of them may be killed. `launch` runs the
installed frontend from sealed bytes and holds the root's lock while it runs.
The frontend's interactive loop is one thread: it drains signals, polls the
runner when a launch is shown, draws, and handles one key. A key may start a
control operation: a sequence of blocking round trips on the one framed stream.
What the runner answers goes through the projection into the workspace, which
drops or keeps its review, its preflight and its launch state. Development
operations run on a worker thread that the loop polls through a channel.

### What is hard

* several installer processes, kills between any two durable steps, failed
  fsyncs and renames, power loss, files changed from outside;
* a development installer without a lock, with a rollback that may itself fail;
* replies that come after their read timed out, on a stream whose request
  identifiers repeat; a peer that closes the stream; retries of a launch;
* events that are repeated, reordered or belong to another run, around cancels,
  local failures and reconnects;
* catalogs that change between review, preflight and launch;
* two copies of the wizard's draft, a selection and its rows, a screen and its help list: pairs
  that keys and snapshots must keep in step;
* configuration, bundle, cache and channel files that several processes replace and that a kill
  or a power loss interrupts;
* child processes that hang, flood their pipe or leave children; worker threads whose handle is
  replaced; a terminal that must be given back by every way out;
* a recording campaign that other frontends change, lost and repeated replies to its
  mutations, and confirmations that outlive what they were given for.

## Modules

| Module | What it is |
|---|---|
| `Lifecycle` | The production installer: one action per durable step of install, upgrade, remove, launch and status, for any number of processes |
| `Extension` | What the installer promises: an installed record that changes in one step |
| `LifecycleInv` | The inductive invariant of `Lifecycle`, in named parts |
| `Lifecycle_proofs` | Its proof, and the theorems that follow from it |
| `DevLifecycle` | The development installer: its renames, rollback and kills |
| `Development_proofs` | The theorems about it and about the handoff |
| `LaunchState` | `LaunchState` of `launch_statistics.rs` as operators: one operator per method |
| `LaunchMachine` | That value under every order of calls and events |
| `Frontend_proofs` | The theorems about the launch, the client and the configuration |
| `RunControl` | Interactive loop, workspace, projection, framed stream and runner together; uses `LaunchState` |
| `RunControl_proofs` | The theorems about it |
| `Recording` | Recording campaigns: dispatcher, gates, projection, mutations, replay, and the runner with its generations |
| `Recording_proofs` | The theorems about it |
| `Guided` | The guided campaign of `benchmark_route.rs` and the replay key that makes one |
| `Session` | The authenticated connection: how it is established, every entry point with its version and request identifier, the poll that replaces the projection |
| `Client` | Negotiated limits, request ledger, cursor and reconnect plan of `control_client.rs` |
| `Wizard`, `Setup` | The draft, its picker and its stepper as operators; the wizard's keys, refreshes, review and the one application |
| `Picker` | The nested and the flat selection, the rows that show them, search, bulk keys, handoff |
| `Config` | The configuration editor, and the files of configuration and bundle across kills and power loss |
| `FormalUi` | The interpreter of the documented state graph and the gate of every destination |
| `Keys` | Every key of every screen, the legality of actions, the help list; uses `FormalUi` |
| `Views` | Shell, landing, refresh gate, startup, screens, offline fence, revision ledger, help list; uses `FormalUi` |
| `Fanout` | The fan-out and the installation of agents, with the runner's side of both |
| `Handoff` | The development handoff: screen, worker threads, preflight, toolchain, bounded commands |
| `SelfTest` | The supervised self-test of a candidate and the sweep of what killed tests left |
| `SystemProbe` | The probes of the system and the verdict on them |
| `Bundle` | Retrieval of a signed bundle through a shared cache; the release lock |
| `Entry` | The entry points: commands, recorded channel, terminal, signals |
| `Probes_proofs` | The theorems about self-test, probes, retrieval, terminal, command line and recorded channel; and about the machines of the suite together |
| `Workspace_proofs` | The theorems about the setup, the picker and the control session, alone and together |
| `Services_proofs` | The theorems about fan-out, agents, guided campaign, keyboard and views, alone and together |
| `MCMachines`, `MCWorkspace`, `MCServices` | Suites: machines that share no state, each explored alone from its own initial states, so that one run checks several of them. A step belongs to the machine the first state chose |
| other `MC*` | The small instances the `.cfg` files refer to |

### Lifecycle

A process is an element of `Proc` with a program counter. `Request` is `execute()` of
`delegated.rs`; `OpenExclusive`, `OpenReadOnly` and `OpenRefused` are the lock of
`open_with_mode`; `CleanStage` is its sweep of stale stages. Install and upgrade
go through `Admit` (the release comparison of `enforce_operation`), `MakeStage`,
`WriteExecutable`, `WriteRecord`, `VerifyStage`, `SelfTest`, `Publish`, `DropStage`,
`SyncVersions`, `CreateTemporary`, `Swap` and `SyncRoot`, in the order of
`stage()` and `activate()`. Remove is `UnlinkActive`, `SyncRoot` and
`SweepVersion`; launch and status are `Load`, `FrontendExits`, `ReadActive` and
`ReadExecutable`. `IoError` is the error path of whichever step is next.
`Kill`, `Damage` (a file changed from outside) and `PowerLoss` are the
environment. A bundle stands for the record built from an authenticated
manifest; bytes are abstracted to the digest they hash to. `durActive` and
`durVersions` are what the last fsync made durable, so that a power loss may give
back either. The self-test of a candidate is an outcome (pass or fail) here; how it
supervises its child process is `SelfTest`.

### DevLifecycle

There is no lock. A worker checks the root, builds (an outcome), backs up the
files one by one, renames the new ones in one by one, and on a failure undoes:
removes the new ones and moves the old ones back, ignoring errors of either (`UndoFails`, `RestoreFails`), as the code
does. Remove moves the files into a trash directory and deletes it.

### LaunchState, LaunchMachine

Every method is an operator from launch states (and an event) to launch states;
`apply_event` keeps the order of its early returns (`Outdated`, `WrongRun`,
`WrongAttempt`, `Plausible`). `LaunchMachine` adds a set of events that are
delivered in any order, any number of times, and ghost variables for what was
accepted (`heard`) and reported.

### RunControl

The frontend is one thread. An operation (`Poll`, `Reconnect`, `StartRun`,
`CancelRun`) is a list of calls; `write_request`, `read_response`, `Timeout` and `Closed`
are the framed stream, with requests and replies in two queues. The request
identifier of a call is fixed in the code, so it is the call. A read that timed
out leaves its reply in the queue, as `FramedControlStream` does. A partially read
frame is abstracted away: a timeout leaves whole replies. `FinishOperation` and
`FailOperation` are what the loop's arm does with the outcome, `apply_live_snapshot`
included. The constant `Admits` is what the interpreter of the documented graph answers to the keys of a
run: the code asks it so that it always refuses (`Keys`, run `start_key`), and with `Admits = FALSE` no run is
ever started. The run uses TRUE, to check the arms that lie behind the keys. The runner serves requests in order, plans and launches once per
idempotency key, and moves runs on; all of that is external. One generation
stands for the provider catalog, the benchmark catalog and the configuration.


### Recording

The runner numbers the states of its campaign; `hist[g]` is what it was at
generation `g`. Every recording key of the workspace is one action: its gate in
the workspace (`Legal`, on the snapshot shown), the dispatcher's own check on the
projection (`Requestable`), the request with its `ExpectedGeneration`, the round trip
(`Exchange`), what the projection accepts of the reply (`Accepts`) and the
dispatcher's bookkeeping, in the order of `dispatch_with_backend`. A round trip is
refused, served, served with its reply lost, or answered as an earlier request of the same action was,
since the key of a request names only the action. `Poll` may deliver
the status of any earlier generation, as a stream that is out of step does
(`RunControl`). `RunnerStep` is the capture itself and other frontends. What the
runner does with a mutation is external: it carries it out only at the
generation it names, and activating or sealing leaves the generation alone. A
complete campaign with missing tuples is the phase "Incomplete", which is the only thing coverage is
asked for. `request`, `acknowledged` and `confirmed` are history variables.

### Session, Client

`Session` has one action per entry point of `AuthenticatedBrokerSession`, with the version it asks for, the
codec's own minimum, the identifier it uses and the results it accepts; two pairs of entry points share an identifier. A
read that times out leaves its answer for the next call (`late`). The poll is a list of slots (`PollRequest`): the bootstrap calls, one slot for every agent of the catalog read on the way, the setup
calls and the authentication; the identifiers count the slots from two. `Skip` is the loop's `continue` at an agent that is not
available. The poll works on a copy of the projection that replaces it as a whole or not at all. `Client` keeps the ledger across reconnects to a runner whose window of revisions has moved on
or that is another instance.

### Wizard, Setup, Picker, Config

`Wizard` returns, for each operation, the set of its results; the empty set is an error. `Setup` holds the wizard twice, as
the workspace does: events change `formal`, the guards of the keys read `shown`. Snapshots with other catalogs arrive
between any two keys. A prepared bundle is restored into `shown` only, at the start and when a catalog was replaced, as `restore_materialized_bundle` does
(run `restored_draft`). `Picker` is the same for the selection: catalogs, rows, cursor, search and the `all` mark; the rows a search leaves are a set of places in the catalog, and the runs marked for a comparison a set, since
no property asks for their order. `Config` keeps a file
as what a reader would get and what survives a power loss, and lets every call fail.

### Keys, FormalUi, Views

`Keys` has one operator per section of the key handler, in its order, and the two other functions that must agree with
it: legality and the help list. A key is a class of characters that the code treats alike. `FormalUi` has the
transitions of `docs/ui-state-model.json` and what `validate_document` demands of them. `Views` has the models behind the screens; they share
nothing and a behaviour is of one of them. The workspace of today runs the startup decision, the landing
projection and the action registry; the shell of `app.rs`, the refresh gate, the offline fence, the revision ledger and the
help model are library types that the renderers and tests use, and are checked as such.

### Fanout, Guided

The runner's side is external: it admits a fan-out once per key and refuses other requests under it; it works at one
installation at a time. The frontend's error path of a fan-out is the end of the event loop, so a next process begins. `Guided` gives for each call of
`GuidedCampaign` the campaigns it may lead to; the history fields `starts`, `handed` and `under` record how it was
started. `start_with_handoff` replaces the measures and looks neither at the mode nor at the attached catalog; that is modelled as it is, and the
property says so. The replay key is a campaign made, started and sent in one handler; the runner's cassettes change between two presses.

### Handoff, SelfTest, SystemProbe, Bundle, Entry

In these the actors are processes and threads with a program counter each: workers of the handoff that a second key
leaves behind; a tester, its supervisor and its candidate; commands and terminals under a clock; processes that share a
cache and may get the pid of a dead one; frontends that take a terminal, are stopped, continued and signalled, and record a channel
through one temporary file. Time is a budget of steps. A sweep goes through the directories one by one, with one budget of entries for all of them. Bytes are abstracted to whether they are the right ones and how many.

Where the code looks and then acts, the model has two steps. In `SystemProbe` a directory is made and then looked at, checked and then removed, and another
process may put its own there in between; a command whose `wait` failed leaves its group to itself. In `Bundle` the manifest that is obtained is any that parses and
passes the document policy: `obtain_verified_bundle` verifies no signature, the installation does, with the identity asked for and the permission of the channel; every
write, fsync, link and unlink of the cache may fail. In `Entry` the guard's drop tries each of the modes it holds, and each restore may fail; a mode that stays on is
one whose restore was tried and failed. Two processes that record a channel at once may lose the file to each other: the property speaks of one at a time.

## Runs

| Run | Instance | What it shows |
|---|---|---|
| `lifecycle` | two processes, two releases, one fault | active.json names only complete versions; a verified status is current; no downgrade but through a remove; the stepwise installer implements `Extension`; every operation ends |
| `lifecycle_power` | two processes, two records of one executable, two faults, power loss among them | only verified bytes are launched; a remove that succeeds removed everything |
| `machines` | nine machines, each alone (`Machines.cfg`) | `DevKeptOrRepaired`, `DevOperationsEnd`: a failed development upgrade gives back what was there, and from every torn state an upgrade repairs. `LaunchAsReported`, `NothingIsForgotten`: a launch shows its own run as reported, each event once. `CliLedgerSafe`: no mutation is sent twice, no limit is passed. `CfgSafe`, `CfgBundleKept`: a configuration reported as saved survives and is never torn. `HandAsShown`, `HandSettles`: the handoff screen is right at rest, and comes to rest. `SelfTestSound`: a pass is earned and nothing is left. `ProbeHonest`: a verdict is earned, and what stays behind is accounted for. `BundleSound`: only right bytes are handed out, and only signed, permitted releases installed. `EntrySound`: every way out tries to give the terminal back, the recorded channel is kept |
| `workspace` | three parts, each alone (`Workspace.cfg`) | `SesSound`: the answer applied is of the right operation and a poll applies as a whole. `SetDraftWhole`, `SetAppliedSupported`: both copies of the draft agree but for what a restored bundle put into the one shown, a stage shown as complete has its value, and what is applied fits the catalogs. `PickCampaignShown`, `PickOnlyAsked`: the campaign is what the rows show; only a key on what is shown changes it |
| `services` | seven parts, each alone (`Services.cfg`) | `ActsAsShown`, `LifecycleNeverGoesBack`, `ActivatedOnce`: the recording campaign. `KeysAsShown`: what the help lists works and what is sent was listed. `ViewsSound`: the models behind the screens. `FanoutHonest`: what is called admitted, cancelled or installed is so, and nothing runs twice. `GuidedSound`: `start()` gives no launch in the replay mode, a launch names the mode and the policy selected, and a replay that is sent is of a cassette the runner has |
| `run_control` | two runs, three revisions, two generations, one late reply, one foreign run | one session launches one run; ends shown are true; the projection never goes back; a run that ended is shown as ended |
| `lifecycle_durability` | one bundle, one kill | **violated**: a retry makes active.json durable before the directory it names |
| `dev_concurrent` | two workers, no fault | **violated**: two overlapping operations leave a pair that belongs to no build |
| `session_answers` | the connection alone | **violated**: a late reply is accepted for a later request with the same identifier |
| `start_key` | the keys alone | **violated**: the documented start key starts nothing, because the interpreter is asked without capabilities |
| `recording_capture` | two campaigns | **violated**: a capture armed for a cancelled campaign starts the next one at a single press |
| `restored_draft` | the workspace alone | **violated**: the draft restored from the prepared bundle is shown until the first key, which replaces it by the empty draft of the checked wizard |

The findings of `PROJECT.json` quote, for each violated run, the comment or document
the code disagrees with. Every property of a passing run has a mutant: a careless variant of a definition,
under which TLC finds the property violated.

### Bounds, and why they are enough

Two installer processes are enough for every pairwise interleaving, which is
what a lock can get wrong; two releases contain an upgrade and a refused
downgrade, and two records of one executable share a version directory. One fault reaches
every single point of failure and two reach a failure during the recovery from
one; three are used where the property is about recovery. In the run control
model two runs separate "mine" from "another's", two catalog generations make a
review stale, and one late reply puts the stream out of step; more of them
repeat the same situation. `MaxProjected = 4` is above what two runs reach, so the
history limit does not interfere (see the hazards). Five generations take a campaign from
nothing to complete and leave one for an interference or a reopening; two
campaigns are what "another campaign" needs. Processes and campaigns are
interchangeable where symmetry is used: `lifecycle_power` and the campaigns of `services`, neither of
which checks liveness.

In the suites: one development worker and three faults (a failure, one of the rollback, a kill); two
requests in flight and versions on both sides of every threshold for the connections; two values of a
setting and texts of two characters, which contain a valid one, an invalid one and the prefix of a valid one; two faults on
a save; two handoff workers, so that one is left behind; one tester beside one process that sweeps; two chunks and two attempts per artifact,
so that a download is interrupted and resumed; two processes that record a channel; a prepared bundle or none for the wizard; catalogs that
gain and lose an entry for wizard and picker, with one search term; log, records and edits of length two to four for the views; for
the fan-out one to three workloads and two agents against a limit of three requests and one member, so that each limit is passed;
three processes, so that a lost answer is followed by a retry and by another selection; two catalogs and two
installations for the agents; four generations of cassettes, one out of order, one with a digest that two agents share.
A suite stops (`CHECK_DEADLOCK FALSE`) where processes end for good: installer, probe and entry points, and
the session's budget of calls.

### Fairness

`Lifecycle!FairSpec` and `DevLifecycle!FairSpec`: a process that is alive goes on with its next step; its
operations are loops without waiting, since the lock is taken with `LOCK_NB`. A
launched frontend is assumed to exit. `RunControl!FairSpec`: requests are written, replies that
arrived are read, and the runner serves what it was sent (weak fairness); `Poll`
is strongly fair because the loop looks at its refresh deadline before it looks at the
keyboard, so that keys cannot keep it from polling. `Handoff`: a
worker goes on (its commands are bounded by a timeout) and the loop looks for its answer before it waits for a key.

## Proofs

`Lifecycle_proofs` proves, for any set of processes, bundles, digests and any
number of faults, that `Lifecycle!Spec` keeps its type invariant, `ActiveIsComplete`,
`LaunchIsVerified`, `StatusIsCurrent`, `RemoveIsComplete` and `NeverDowngraded`, and that it
implements `Extension` under the mapping `ext <- visible`. The assumption is
`LifecycleAssumption`: digest and release are functions of the bundle, and None and Damaged
are neither bundles nor digests. None of the invariants is inductive alone. `LifecycleInv!Inv`
adds: a process that holds the lock exclusively is alone (`LockInv`); version
directories are well formed (`WellFormed`); and, for each program counter, what the
process has established so far: an admitted upgrade is still newer than the active
record (`AdmissionInv`), a stage past `verify` is complete (`PublishInv`), the
versions a remove has left are what it has still to sweep (`RemoveInv`), a loaded or read
executable hashes to the record it was read for (`LaunchInv`, `StatusInv`). The lock is
what makes these stable under the steps of other processes: every step that
changes the disk is made by an exclusive holder, `Damage` apart, which the invariant
allows for by admitting `Damaged` content.

`Frontend_proofs` proves the properties of a launch for any runs,
attempts, events and revisions (`LaunchStateAssumption`): the parts of `LaunchAsReported` one by one, their
conjunction (`LaunchFollowsRunner`) and `NothingIsForgotten`. Its inductive invariant adds that
the revision shown is the highest one accepted (`KnownRevisions`), without which
`NoEventTwice` does not survive a step.

`Recording_proofs` proves types, `ActsAsShown`, `LifecycleNeverGoesBack` and `ActivatedOnce` for any campaigns,
cassettes, generations, progress budget and interference (`RecordingAssumption`: None is
none of the values it stands beside, and the bounds are positive). The invariant says that
everything the frontend keeps of the runner *was true at the generation it is kept
with*: plan and lifecycle (`ShownInv`), the replies the runner may repeat (`AnsweredInv`),
the catalog and the acknowledged activation (`CatalogInv`). That is stable because the runner's
history only grows (`WasStays`), and the runner's generation fence turns "was true" into
"is true" at the moment a request is carried out, which is `ActsAsShown`. `ActivatedOnce`
needs `AckInv` as well: an acknowledged activation is remembered for as long as the
lifecycle shown has not moved past its generation.

`RunControl_proofs` proves the types, `NoSecondRun`, `EndShownIsTrue` and `ProjectionNeverGoesBack` for any runs, generations, revisions and
any number of late replies (`RunControlAssumption`). The invariant is about what is still under way: every request and every reply in the two
queues tells the truth about the runner as it was when it was made (`StreamInv`), and the runner's runs only grow and an end stays
an end (`Grew`), so that a reply that is read operations later still shows nothing false. `CountInv` counts the runs: those of
other frontends and at most one under the key that every launch of a session carries.

`Frontend_proofs` also proves `CliLedgerSafe` for the client (`CliAssumption`) and `CfgSafe` and `CfgBundleKept` for the configuration
(`CfgAssumption`). The client's invariant ties the ledger to the history of what was sent: a request in flight has its class in the history, and
what a reconnect plans to repeat was only ever read. The configuration's says at which step of a write the temporary and the target file hold what
(`CfgWriting`), of what a reader gets and of what survives a power loss; without the durable half, "reported as saved" is not stable.
Its types (`ConfigTypes`) need that the text of every number within the bounds is made of digits and fits into the editor. The second is the assumption
`CfgTextAssumption`, which the bounds of the settings and `MAX_STRING_SCALARS` justify; the first is proved of the recursive `CfgText`. The library's
induction theorems are out of reach, so a recursion is resolved by hand: solutions of the equation up to n exist for every n and agree where both are
defined (each by a *least counterexample*, `LeastNat`), hence there is one for all numbers, and the `CHOOSE` behind the definition is it.

`Development_proofs` proves the types of the development installer for any number of workers and `DevKeptOrRepaired` under the hypothesis
`OneWorker`: without a lock the property is false for two of them, which is run `dev_concurrent`. The invariant says, per program counter, which of
the files are still the old ones, which are backed up and which are new. For the handoff (`HandAssumption`) it proves `HandAsShown` for any
number of threads that a second key leaves behind; what the screen shows at rest is tied to the worker that was alone when it was
started (`AloneInv`), and what was built to the tools that were checked before (`ThreadInv`, `RootInv`).

`Services_proofs` proves `FanoutHonest` (any workloads, agents, processes and limits), `GuidedSound` and `KeysAsShown`. The fan-out rests on the
runner knowing at most one admission, since the key of every process is the same; the agents on a statement about every word still on
the wire (`AgentWireInv`): which phases it can meet and that a last word is the last. A guided campaign has started exactly when its stage is past the
open ones, and its intent was made of what was selected then, or of the handoff it was started with. The keyboard: for each screen, the help list and the handler of its keys are compared entry
by entry, once and for every state; the invariant adds to the types that an open overlay belongs to the screen below it and
that no launch is ever there, because the interpreter of the documented graph refuses the keys of a run (`KeyGateShut`, the fact behind run
`start_key`). Assumptions: `FanAssumption`, `GuAssumption`, `KeySnapshotsAssumption` (the shape of a snapshot)
and `KeyNoneAssumption`. The views (`ViewsSound`, `ViewAssumption`) are eight small machines in one variable, and so is their invariant: a disjunction by kind
(`ViewInv`), each part with what its machine has to remember. Two of them count: the landing page's records are sorted by the number of records
before each, which is a bijection because the order is total (`Place`), and the selection in the help list is below the number of entries
after every query, since a filtered list is never longer.

`Probes_proofs` proves `SelfTestSound` (any number of testers; `StAssumption`), `ProbeHonest` (`PbAssumption`), `BundleSound` (any number of processes
that crash, resume and get the pid of a dead one; `BunAssumption`), and of the entry points `EntrySound` (`EnAssumption`). For the self-test the invariant adds that every test holds a share of the lock for as long as its directory is in use
(`StLocked`) and, per step, what is left of the process tree; for the probes, that what the verdict will be given on was observed
(`PbLearnt`, `PbEarned`), and at each step of a directory's life which one has its name, depending on when it was moved (`PbDirOwned`); for the retrieval, what each process has checked by its program counter (`BunBacked`, `BunWhole`); for the terminal, that
the modes a session has noted are the modes that are on. A temporary file in use is not the file in force as long as
no two processes record at once (`EnFileInv`): with two it may be, which is why the property speaks of one. That an operation is one of the channel
in force (`EnNoFallback`) is about command lines of any length: `Reading` reads the flags one by one, `EnRead` says what is known of the channel after n of
them, and `ParseAsks` that what a command line that is taken asks for is the choice in force; both go by least counterexample. `EnAskInv` carries it from
there to the operation. That what is written to the channel's file is a channel (`EntryTypes`) holds even with two processes recording at once.

The three suites, whose machines share no state, are treated alike: `MachinesAlone`, `ServicesAlone` and `WorkspaceAlone` show that a behaviour of the suite is,
seen from each machine, one of that machine alone, so everything that is proved of a machine holds in its suite; and `MachinesTypes`, `ServicesTypes` and
`WorkspaceTypes` conclude the conjunctions of types that the runs check.

`Workspace_proofs` proves `SetDraftWhole` for every catalog, bundle, text and order of keys and refreshes (`WizAssumption`, `SetAssumption`), and
`PickCampaignShown` and `PickOnlyAsked` for any catalogs, searches and refreshes (`PickAssumption`). A draft is whole when no step
that was passed lacks its value *and* the picker agrees with the values of the steps passed (`PickerAgrees`); the second part is what a catalog
that arrives between two keys could break, and it has to hold of the formal draft and of the shown one. The two are at the same step with the same authentication; their values agree
unless the formal wizard is still fresh (`WsFresh`), which is when a bundle may have been restored into the one shown. For the
selection: the rows, the marks and both selections are of one catalog, what is chosen is available in it, the `all` mark stands only on a
full selection (`PickWhole`), and the catalog is the last usable one that was served (`PickFresh`).

`SetAppliedSupported` is proved with the types of the setup (`SetTypeInv`). The draft that is applied is checked against the catalogs of the projection, so the
theorem has to know that what was served is what the workspace works with: where a projection carries catalogs, the workspace has a picker of its
own and not a fallback, unless the catalogs make none (`SetServed`), and a runner of the full version has given both catalogs (`SetKnown`). That None is no picker and no
generation is an assumption (`SetAssumption`) that the runs evaluate, as is its like for the selection (`PickAssumption`). The types of the selection
(`PickTyped`) are in three parts that the keys disturb one at a time: the shape (`PickBase`), rows and marks that are of the catalog shown (`PickLaid`),
and a cursor on a row that is visible (`PickPlaced`), which needs that the visible rows are finitely many whatever the search is.

It also proves `SesSound` and `SesTypeOK` for any runner versions, agent catalogs, providers and late answers (`SesAssumption`: a catalog has one
to `MAX_CATALOG_AGENTS` agents, as `agent_catalog.rs` validates). `SesInv` says of the wire what a read may meet: every answer to come is one that *some*
request of this session asked for (`SesAnswerOK`). A late answer can therefore be taken for another request only if identifier and kind agree,
and `SesSameOperation` shows that then the operation agrees too: the identifiers of a poll stay below those of the entry points because a
catalog is bounded, and the two pairs of entry points that share an identifier are answered with results of different kinds. An agent's
status has the slot of its agent for an identifier, so even a late one is of the agent it is taken for. The other half is the copy a poll works on: for
every available agent it has passed it holds the status of an available agent of the same catalog (`SesPassed`), which at the last slot
is what is shown. `SesTable` is the check of every entry point against the minimum the codec has for its operation.

Every invariant and every action property that a passing run checks is stated by a theorem. Only model-checked, and why:

* liveness (`OperationsEnd`, `DevOperationsEnd`, `HandSettles`, `EndIsShown`): fairness is out of this prover's reach;
* everything under `PowerLoss` of the installer: the invariant does not hold across a power loss, see `lifecycle_durability`;
* `SesAnswersItsRequest`, that the answer taken is the one to this very request, does not hold (run `session_answers`): what is proved is what survives of it.

## Not modelled

`PROJECT.json` lists every part with its status. Left out:

* rendering, reports, output formats and the texts of the help: formatting of values that other parts computed;
* the byte level of the control codec (framing, JSON, lengths of texts): a message is a model value, and what a
  response is *checked* for (identifier, operation, generation, limits) is in `Session`, `RunControl`, `Recording` and `Fanout`;
* the validation of the agents' catalog and requests (`agent_catalog.rs`, `asb_lifecycle.rs`), the construction of the
  provider and adapter catalogs, and the fixtures of `development_journey.rs`, `development_onboarding.rs`,
  `development_router.rs` and `development_broker.rs`: functions from one document to one answer;
* the hash function, the identity of a host and the arguments of a launch;
* retry and comparison of runs (`RetryRun`, `CompareLiveOffline`): one request each, without a state of their own in the frontend;
* a history long enough to reach `MAX_PROJECTED_RUNS`.

## Disagreements without a run of their own

The violated runs are one per disagreement that a single property states. These were met as well; the models have the code's
behaviour, and the properties and hazards say what they leave out:

* `start_with_handoff` (`benchmark_route.rs:380`) takes the measures of the handoff whatever catalog is attached and whatever the mode is, although
  `benchmark_route.rs:44-45` has the route never accept an identifier absent from an attached catalog and lines 5-7 have a replay never silently become a live run. Nothing
  dispatches a launch intent today;
* a snapshot of an unconfigured runner opens the wizard again after it was dismissed (`ui.rs:1155-1161`), which `startup.rs:60` rules out for a controller that nothing calls;
* two processes that record a channel share one temporary file, and `channel_selection.rs:111-112` says `replaced atomically`;
* an upgrade may report a failure although the new release is active (`lifecycle.rs:1296`);
* the run that is bound is the first of the history, not necessarily the launched one (`runtime.rs:847`);
* a handoff worker left behind by a second key goes on publishing, and its end is shown nowhere (`runtime.rs:890`);
* after a refresh the search text stays on the screen although all rows are shown again (`ui.rs:1105`).

## Composition

The suites explore their machines alone. The interactions that matter are composed where they are: stream, projection, workspace and
launch in `RunControl`; dispatcher, projection and runner in `Recording`; wizard, catalogs, review and application in `Setup`; screens,
keys, help and interpreter in `Keys`.
