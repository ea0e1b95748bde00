# A TLA+ model of Corade, the CPanel node agent

Corade runs on a server, takes its orders from a panel (the "device platform")
and drives proxy kernels, sing-box and xray, inside its own process. This
directory models the parts of the agent where steps interleave, fail, are
repeated or are interrupted by a restart, checks them with TLC on small
instances and proves the central results with TLAPS for every instance.
`PROJECT.json` lists the source lines behind every definition, the hazards the
properties are aimed at, and the findings.

## The system

One process runs one generation of *instances*. A device-platform instance is an
*orchestrator*: it opens an encrypted session with its private identity, keeps a
stream of change events open, and runs one *service* for every node assigned to
the machine. A service is a select loop with helper goroutines: it pulls the
node's specification and users, applies them to its kernel, counts traffic and
devices, and reports. The panel may also command an upgrade of the agent itself.
Beside the agent stands `coradectl`, which installs releases and edits the agent's
files.

| part | sources (`src/`) | module |
|---|---|---|
| process, configuration reload | `cmd/corade/main.go`, `internal/config/watcher.go` | `ConfigReload` |
| enrollment, identity | `internal/platformclient/v2_credentials.go`, `client.go`, `internal/config/enrollment_cleanup.go` | `Enrollment` |
| encrypted session | `internal/agentv2/protocol.go` | `AgentSession`, an implementation of `SecureChannel` |
| calls to the panel | `internal/platformclient/client.go` | `PlatformCalls` |
| configuration file | `internal/config/config.go`, `standalone.go`, `enrollment_cleanup.go` | `ConfigLayout` |
| orchestrator | `internal/deviceplatform/orchestrator.go`, `internal/platformclient/stream.go` | `Orchestrator` |
| agent upgrade | `internal/deviceplatform/upgrade.go`, `upgrade_state.go`, `install.sh` | `AgentUpgrade` |
| node service | `internal/service/service.go`, `internal/controlplane/device_platform.go` | `NodeService` |
| traffic accounting | `internal/tracker/tracker.go`, `internal/service/service.go` | `TrafficReport` |
| device reports | `internal/controlplane/device_platform.go`, `internal/tracker/tracker.go` | `DeviceReports` |
| application results | `internal/controlplane/device_platform.go` | `ApplicationReports` |
| xray users | `internal/kernel/xray/xray.go`, `internal/kernel/kernel.go` | `XrayUsers` |
| xray device limits | `internal/kernel/xray/dispatcher.go` | `XrayDispatcher` |
| sing-box reload | `internal/kernel/singbox/singbox.go`, `reload.go` | `SingboxReload` |
| sing-box connections | `internal/kernel/singbox/conntracker.go`, `internal/limiter/limiter.go` | `SingboxConns` |
| speed limits and byte counts | `internal/limiter/speedtracker.go`, `conntracker.go` | `SpeedLimits` |
| certificates | `internal/cert/cert.go`, `internal/service/service.go` | `Certificates` |
| `coradectl` upgrade | `cmd/xbctl/main.go`, `release.go`, `internal/releaseverify/verify.go` | `CtlUpgrade` |
| `coradectl` bindings | `cmd/xbctl/main.go` | `CtlBindings` |

`MC*.tla` modules and `.cfg` files instantiate these for TLC. Five of the `MC`
modules put components that share no state into one run: `MCReports`
(`ApplicationReports`, `DeviceReports`), `MCProcess` (`Enrollment`,
`ConfigReload`), `MCAgentUpgrade` (`AgentUpgrade`, `CtlUpgrade`), `MCKernels`
(`XrayDispatcher`, `XrayUsers`, `SingboxConns`, `SpeedLimits`, `SingboxReload`,
`Certificates`) and `MCAgent` (`AgentSession`, `PlatformCalls`, `NodeService`,
`CtlBindings`, `ConfigLayout`). There a behaviour is one of a single component,
chosen by the variable `side` in the initial state; the others stay as they began,
and only the moving one is assumed fair. Their invariants carry each component's
type invariant along with one of its properties.
Eight modules `<component>Proofs` hold the proofs, each extending its component.

How the parts interact: `ConfigReload` starts and stops orchestrators,
`Enrollment` gives them their session, `Orchestrator` starts and stops services
and notifies them, `NodeService` is such a service with its kernel, and
`TrafficReport`, `DeviceReports` and `ApplicationReports` are what it reports.
Each module contains as much of its neighbours as it reacts to: a service in
`Orchestrator` is only its life, the stream in `NodeService` only its
notifications, the kernel in `TrafficReport` only its counters.

## How state and actions correspond to the code

A mutex-protected section, or the work of one goroutine between two points
where it can be overtaken (a request, a channel operation, an unlock, a rename),
is one action. Requests are split into sending, arrival at the panel, and the
answer, so that an answer can be lost after the request took effect. Values that
the code only compares (specifications, user lists, snapshots, tokens, keys) are
model values; hashes are assumed to be injective. Random
keys and batch numbers are drawn from a counter.

* `TrafficReport`: `cum` are the kernel's counters, `lastSeen` and
  `pendingTraffic` the tracker's maps, `pendingReport` the batch under its
  idempotency key. `from` and `to` in a batch, `used`, `unseen`, `tracked` and
  `lost` are history.
* `NodeService`: the pull goroutine's two requests, the buffered result, the
  restore of the last good runtime, and a kernel that may be left down by a
  failed reload. Certificate renewals arrive as a callback.
* `Orchestrator`: `nodes` maps a node to a handle, `svc` is the life of each
  service, and `tasks` are the goroutines (main loop, stream handlers) with their
  program counters, because `stopNode` and `startNode` wait outside the mutex.
* `AgentSession`: the 64-bit replay bitmap is the set of its bit positions, its
  width `W` a constant.
* `DeviceReports`, `ApplicationReports`: the retained report, what is set aside
  meanwhile, and the single sender.
* `AgentUpgrade`: the two files on disk, the process's version, the detached
  installer with its rollback, and the panel's tasks.
* `XrayUsers`: the wanted list, the list the kernel recorded, and the accounts
  inside the instance; `XrayDispatcher`: the two tables of reference counts and
  the connections that are really open.
* `Enrollment`: `config.yml`, `agent.env` and the identity files survive a crash,
  `mem` and `penv` do not; each rename is a step of its own.
* `SecureChannel`: what one direction of a session promises: an envelope is sent,
  may be delivered once, in any order, and never again. `AgentSession` maps its
  opened numbers to the delivered ones.
* `PlatformCalls`: the client's current session under its lock, the calls in
  progress, each with the session it was sealed with, and the panel's sessions; a
  412 drops the session only if it is still the current one.
* `SingboxReload`: the outbound, route and inbound managers call by call, the list
  of what is still to be done, and the previous runtime put back when a call fails.
  `stale` are the outbounds that hold a replaced upstream. The order of the
  outbounds is the code's recursive descent.
* `SingboxConns`: one user's connections through the gate, step by step, with one
  tracker per instance, an old one draining while a new one counts.
* `SpeedLimits`: the map of limiters and the connections that hold one; a read or
  write waits for tokens, is cut short, or moves its bytes.
* `Certificates`: the manager's configuration, material and ACME instance, the two
  persisted files, the store of certmagic, the service's poll that carries the
  material to the kernel, and a crash between any two writes.
* `CtlUpgrade`: the installed binaries and their backups, the release behind a tag
  (which may be published again), the service and what is reported.
* `CtlBindings`: `config.yml`, the credentials and the metadata, written one after
  the other, by commands that may fail between them.
* `ConfigLayout`: the file's top level and instances as written, the instances and
  directories derived from them, and the erasure of used tokens while the file is
  edited.
* `ConfigReload`: the main loop's phase, the watcher with its timer and the
  channel of capacity one, the signal goroutine of each generation.

Actions are named after the functions they model. A definition whose comment
begins with "Mutant" is not part of the model: it is a deliberately wrong variant
of the definition that follows it, and `PROJECT.json` says which property it
violates when it takes that definition's place.

## The runs

| run | module | distinct states | what it shows |
|---|---|---|---|
| `traffic` | `MCTrafficReport` | 368,309 | no user is billed for more than crossed the kernel; a key never changes its contents; batches are disjoint; what is counted is billed in the end |
| `node_live` | `MCNodeService` | 182,396 | polling converges to the panel's last valid specification and users |
| `orchestrator` | `MCOrchestrator` | 167,836 | no service is forgotten, doubled or started after `stopAll`; the assigned nodes are the served ones in the end |
| `reports` | `MCReports` | 166,252 | results arrive in order and none is lost; a device report's key never changes its contents; the platform ends up with the last snapshot |
| `upgrade` | `MCAgentUpgrade` | 433,956 | a task in progress stays on disk, success is reported only if it happened, an acknowledged task ends; `coradectl upgrade` leaves both programs of one release or says that it did not |
| `process` | `MCProcess` | 155,934 | a registered machine keeps its identity through every crash and gets its session again; generations never overlap, the configuration never goes back, and a file saved outside a reload is run in the end |
| `kernels` | `MCKernels` | 2,451,442 | xray: the reference counts are exact, the accounts in the instance follow the list; sing-box: the counts of the trackers are exact, a device online is not refused, a user's connections share one limiter, every byte is counted once, a reload ends with one whole runtime and is refused only for a cause; certificate and key always fit, and are the ones served once all is quiet |
| `agent` | `MCAgent` | 1,435,340 | the session implements a channel that delivers once and refuses nothing inside the window; a call is executed at most once and a forgotten session replaced once; the baseline of the next poll is what the kernel serves, retries stop only at the acknowledged revision and revisions never go back; the files hold what the finished `coradectl` commands ask for; directories are never shared and an enrolled machine keeps its own |
| `node_ack` | `MCNodeService` | violation | a revision is acknowledged that the kernel does not run |
| `xray_users_changed` | `XrayUsers` | violation | a user whose UUID changed in a hot update keeps the old one |
| `config_reload_signal` | `ConfigReload` | violation | a signal during a reload is swallowed |
| `singbox_chains` | `MCKernels` | violation | an unchanged outbound goes on using the upstream that a reload replaced |

The last four state what a comment, a log line or a test says of the code, and TLC
shows a behaviour of the code that contradicts it; `PROJECT.json` quotes the line
under `findings`.

### Bounds and why they are enough

* `traffic`: two users share three units of traffic, so that one user's counter can
  go back (two units, a restart, one unit) and so that both users can be in one
  batch; three batch keys, so that a retried batch, the shutdown's batch and a later
  one coexist; two kernel starts.
* `agent`, the node: two valid specifications and an invalid one, two user lists and
  the empty one, two edits (there and back again), one renewal, a status channel of
  one place (the smallest that can be full). `node_live` leaves out the invalid
  specification and the second user list, and has two changes: two edits, or an edit
  and a renewal.
* `agent`, the rest: a window of three bits and six numbers: jumps smaller than,
  equal to and larger than the window; three callers, so that a late 412 meets a
  session that two others have renewed and the panel forgets twice, and one fault;
  three binding names, a doubled one, two tokens, three commands and one failure;
  instances with and without a directory or token of their own, two edits and two
  nodes.
* `orchestrator`: one node, two kernels, the main loop and one event goroutine, three
  service handles, one edit. That gives two starters and a service that
  is still leaving on one entry of the map. Races between nodes are not explored; the
  code treats the entries separately.
* `reports`: two revisions, two different failures and four results (received,
  applied and two late ones) by three goroutines; three device snapshots, three
  changes, five keys and a crash.
* `upgrade`: two valid tasks and an invalid one in any order, one crash or reboot;
  for `coradectl`, two versions, a tag published twice, two upgrades and two faults
  (a step and its undoing).
* `kernels`, xray: three addresses, limits of one and two, two connections of each
  address, three changes of the limit; two users, two UUIDs and a malformed one, two
  managed configurations and one without a UserManager.
* `kernels`, sing-box: three connections of two addresses at a limit of one, two
  instances, two changes; two streams, two limiter generations and two bytes; four
  runtimes (a chain, its upstream changed, a group over another chain, a circle),
  three reloads and two failing calls (one of the reload, one of putting it back).
* `kernels`, certificates: every mode, content that does not fit, two domains, two
  certificates issued, three polls and a crash.
* `process`: one reset, two faults, three ways to supply a token, three identities;
  three edits, two signals and two instances.

No symmetry is used where liveness is checked; `agent` and `node_ack` use it for the
valid specifications and the user lists, which are only compared.

### Fairness

Weak fairness stands for goroutines that run, tickers and timers that fire and
requests that are answered one way or the other. Strong fairness is assumed only of
an outcome that is tried again and again: a request or kernel operation that is
repeated for ever does not fail for ever, and a lock that is released again and again
is obtained.

* `TrafficReport`: weak for the report ticker, the end of a push, arrival at the
  panel and the end of a shutdown; strong for a successful push.
* `NodeService`: weak for the start, the delivery of changes, status handling, the end
  of a pull and the application of a result; strong for the pull ticker, the two
  requests of a pull, handing over its result, a successful start and a successful
  application. Nothing is assumed of the stream: convergence is
  claimed for behaviours in which it stays down, because with a healthy stream the
  service does not poll.
* `Orchestrator`: weak for every goroutine; strong for the two requests it repeats
  (discovery and changes), for a service registering and for a start whose request
  is answered with the kernel the node wants. A service is not assumed to end by
  itself.
* `DeviceReports`, `ApplicationReports`: weak for ticker and arrival; strong for a
  confirmed send and, in `ApplicationReports`, for obtaining the send lock.
* `AgentUpgrade`: weak for the agent and the clock, strong for a terminal report;
  nothing is assumed of the installer.
* `Enrollment`: weak for agent and panel; strong for the watcher and for the
  administrator, who can only act between steps of the agent. Faults are bounded.
* `ConfigReload`: weak for everything but edits, signals and failing services.
* The other components are checked for safety only and no fairness is assumed.

## What is proved

TLAPS checks the following for every value of the constants.

* `TrafficReportProofs`. From `TrafficAssumption` (the bounds are numbers) and the
  specification: `TypeOK`, `OneKeyOneContent`, `CountedOnce` and the action property
  `BatchKeptUntilReceived` (no push forgets its batch before the panel has it).
  `CountedOnce` is not inductive. The invariant `Accounting`
  adds that every batch ever sent has a key below `nextId` and ends no later than the
  unflushed traffic begins, that the pending batch has been sent, and `NeverAhead`:
  what the next tick would count is at most what crossed the kernel since the last
  one, and that together with what has been counted is at most what was used.
  `NeverAhead` holds also when a restarted kernel's counter has caught up unnoticed.
* `AgentSessionProofs`. From `SessionAssumption` (the width is a positive number): `TypeOK`,
  `NoReplay`, `FreshPasses` and `SessionIsChannel`: the session implements
  `SecureChannel`. The invariant `WindowExact` says that the bitmap is
  exactly the set of distances from the newest number to the opened ones within
  the window; the proof splits the slide into a jump past the window, a shorter one
  and a late arrival. The refinement follows from it: initial states map to initial
  states, and a step that opens an envelope is a delivery of one not delivered yet,
  because its bit is clear; every other step is a send or a stutter.
* `XrayDispatcherProofs`. From `DispatcherAssumption`: `TypeOK` and `RefCountsExact`,
  which are inductive together: a counter is only decremented when it is positive
  because the two counters of an address sum to its connections.
* `SingboxConnsProofs`. From bounds that are numbers: `CountsExact` and
  `OnlineNotRejected`. `CountsExact` needs `Attached`: a connection with statistics has
  those of an instance already started, which keeps them, so the decrement meets the
  increment and a new tracker has nothing to count. `OnlineNotRejected` needs
  `Remembered`: what keeps an address online while a connection is being decided on is
  counted until the address is looked up, and the lookup then lets the connection in.
* `SpeedLimitsProofs`. With no assumption: `SharedLimiter` and `BytesCounted`, inductive
  together with the types.
* `PlatformCallsProofs`. From the stand-in for "nobody" not being a caller: `CallsOnce`.
  The invariant says that a request on its way has not been executed and is its
  caller's only one (`Flights`), that the holder of `sessionMu` alone shakes hands
  (`Handshakes`), that each session installed before the living one was forgotten
  (`Paid`), and what a call may conclude from a refusal: a newer session is alive unless
  the panel forgot its sessions since the call began (`Newer`, `Causes`).
* `DeviceReportsProofs`. From `Nil` being no snapshot and no report: `OneKeyOneSnapshot`
  and `QuietMeansKnown`. The invariant says that the pending report has the newest key
  and that what was sent under it is that report (`Newest`), that what is pending leads
  to the last snapshot given (`Leads`), and that when nothing is pending the report with
  the newest key has arrived (`Settled`), so a late older request does no harm.
* `EnrollmentProofs`. From `EnrollmentAssumption`: `IdentityKept`. The invariant says that
  a running agent works in the directory it would find again after a crash (`Found`),
  that the token is erased only once the identity is marked as enrolled and, with
  several instances, config.yml names the directory (`Erasing`), and that a token not
  handed out yet is nowhere on the machine (`HandedOut`), so nothing registers with it.

Only model-checked: liveness, which depends on fairness and is out of the prover's
reach; the order of outbounds in `SingboxReload`, which is recursive; the action
property `SecretForgotten` of `Enrollment`; and the safety of the other modules.

## What is not modelled

* Cryptography (key agreement, signatures, encryption) and TLS.
* The legacy panel, its WebSocket and the machine mode: `ValidateStartupLayout`
  refuses them at start.
* Builders of kernel configurations and field validation: sequential conversions
  without state.
* The kernels' incremental AddUsers and RemoveUsers, and closing single connections:
  only the legacy panel's deltas call them.
* Reading commands of `coradectl` (status, list, logs), its service files, downloads;
  logging, monitoring, geodata and DNS providers: input and output.
* `coradectl` and the panel's installer at the same time: nothing in the code
  excludes it, and the two components are explored one at a time.
* Time: timeouts are choices that may happen at any moment.
* A token supplied to a running agent. `SupplyToken` stops the agent first.
* Several open upgrade tasks. `PanelIssues` waits for the previous one to end.

The definitions stand for 32% of the agent's Go lines. What remains is mostly the
configuration builders, the field checks, the legacy modes and generated or printed
text listed above.

## Observations

While modelling, the following places were met where the code and a comment or
document beside it disagree (paths below `src/`). No run states them. The models
follow the code, and a property that would be affected says which case it excludes;
the cases outside the models are digests that collide, a token supplied to a running
agent, several open upgrade tasks, and those marked "not in the model" below.

* `internal/tracker/tracker.go:95`: "Guard against counter reset (kernel restart)."
  A restarted kernel whose counter has caught up with the last one seen is not
  recognised; the traffic below the old value is not counted.
* `internal/service/service.go:104`: "simple exponential backoff": a retry is only
  made once the skip counter is back at zero, so each failure sets it to one and it
  never doubles.
* `internal/service/service.go:227`: "missed reconciliation keeps the REST retry
  path active": a resync requested while a pull is in flight is cleared by that
  older pull's result.
* `internal/service/service.go:709`: "A failed replacement must not become the new
  baseline": when the restore fails as well, the baseline names a runtime whose
  listeners are gone, and a matching poll acknowledges it. (`PollingConverges`
  excludes a kernel that stays down.)
* `internal/service/service.go:613`: the renewal flag is consumed before the poll
  that should carry it; after a failed poll no reload follows.
* `README.md:15`: "cursor-based REST reconciliation": an event of a reconnected
  stream moves the cursor past changes published while it was down
  (`orchestrator.go:277`).
* `internal/controlplane/device_platform.go:114`: a node is said to wait for the
  orchestrator's restart, but `reconcileNodeSpec` makes one request and does not
  repeat it (`orchestrator.go:352`).
* `internal/controlplane/device_platform.go:247`: "Keep the newest snapshot aside":
  a snapshot equal to the one in retry does not replace the one set aside, which is
  then sent last. (`QuietMeansKnown` excludes this.)
* `internal/tracker/tracker.go:163`: "Returns nil if unchanged": the digest writes
  addresses without a separator, so two sets can share one (`tracker.go:227`).
* `internal/deviceplatform/upgrade_state.go:19`: an acknowledged task should not
  remain "upgrading" for ever; `failUpgrade` of a second open task removes the one
  state file (`orchestrator.go:484`).
* `internal/deviceplatform/orchestrator.go:538`: "retry Agent upgrade failure":
  `failUpgrade` persists with an empty version, which `saveUpgradeState` rejects, so
  that state is never on disk.
* `internal/kernel/xray/dispatcher.go:271`: "enforces per-user device limits": an
  address below those in use is admitted at the limit and nobody is disconnected.
* `SECURITY.md:70`: the token is erased from `agent.env`: not if it is in a variable
  of another name and the process ends between the two rewrites
  (`enrollment_cleanup.go:60`). (`SecretForgotten` excludes such variables.)
* `internal/platformclient/v2_credentials.go:65`: a replacement token is kept until
  used: the cleanup reads the file as it is when it runs, so one supplied to a
  running agent may be erased.
* `cmd/corade/main.go:57`: services restart "when the config file changes": not if
  it changes while a reload is under way. (`ChangeReaches` excludes this.)
* `internal/config/watcher.go:27`: "invalid reloads are logged and ignored": a file
  that only `ValidateStartupLayout` refuses ends the process.
* `internal/limiter/speedtracker.go:46`: "syncs existing limiters": one created from
  the speed read before an update and stored after it keeps the old rate until the
  next update (`speedtracker.go:143`).
* `internal/kernel/singbox/conntracker.go:706`: what is read from the inbound is the
  user's upload, but the unwrapped packet reader counts it as download (790-802).
  (`BytesCounted` adds both directions.)
* `internal/config/config.go:603`: a child's own certificate file is overridden by
  its parent's `cert_mode`. (Not in the model.)
* `cmd/xbctl/main.go:839`: after the last binding is removed, one written at the top
  level in the legacy form is written again (893-896). (`FilesFollowCommands` starts
  without such files.)
* `internal/config/config.go`: a token inherited from the top level is never erased,
  and an instance without a directory of its own moves when a single instance
  becomes several or back. (`ConfigLayout` keeps several instances.)
