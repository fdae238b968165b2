# dnslab in TLA+

`dnslab` starts and stops DNS servers for a lab of notebooks: as containers on
a local docker daemon, or as Windows boxes on EC2, each described by a manifest
under `src/dnslab/servers`. The notebooks call `start`, `stop`, `status`
and `nuke`, whose contract is convergence: call `start` again and an unchanged,
healthy instance is reused, anything else is replaced; call `nuke` and nothing
is left. On top of that the package and the notebooks conclude things from what
they see: that a path is TLS all the way, that a client used DoT, that a server
pipelines, that a forwarder is transparent. This directory holds TLA+ models of
both, the contract and the conclusions, TLC configurations that check them on
small instances, and TLAPS proofs of what holds for every size.

The package has no daemon and takes no lock. Every notebook kernel and
every terminal imports its own copy; they share a workspace directory, a docker
daemon and an AWS account. A cell may be interrupted and a kernel restarted
between any two requests. These interleavings and cuts are what the models are
about.

## 1. Inventory

| component | source | state it keeps | operations | module |
|---|---|---|---|---|
| lab CA and leaf certificates | `certs.py` | `<owner>.pem`, `<owner>.key` for the CA and each instance | `ensure_ca`, `ensure_cert`, `regen` | `Certs` |
| docker provider | `providers/docker.py` | containers with labels `dnslab.profile`, `dnslab.confhash`; rendered config files | `start`, `stop`, `discover`, `_wait_healthy` | `DockerProvider` |
| provider base class | `providers/base.py`, `providers/__init__.py` | none | `nuke` = `discover` and `stop` each | in `DockerProvider` |
| facade | `__init__.py` | none | plan over declared instances, `start`, `stop`, `status`, `target`, `targets`, `nuke` | `Lab` over both providers, `Registry` over the manifests; calls of one provider in the provider modules |
| EC2 provider | `providers/ec2.py` | instances and their tags, security groups, state file entries | `start`, `stop`, `discover`, `nuke` | `Ec2Provider` |
| SSM role, instance profile and Run Command | `providers/ec2.py` | IAM role, policy, profile, member; commands | `_ensure_ssm_profile`, `run_command` | `Ec2Provider`, `DotClientReport` |
| state files and paths | `state.py` | `state.json`, directories | `load_state`, `save_state` | partly, in `Certs` and `Ec2Provider` |
| on-box DoT report | `checks.py` 227-356 | firewall rules, resolver cache and connections on the box | `windows_dot_client_report` | `DotClientReport` |
| checks and matrices | `checks.py` | none | verdict of each check and query | `Checks`, run by `Lab` |
| registry and datatypes | `registry.py`, `model.py` | none; the directories are the registry | `load_manifest`, `discover`, `get`, `profile_for` | `Registry` |
| self check | `selfcheck.py` | none | lint of the manifests | `Registry` |
| external provider | `providers/external.py` | none | no-ops over a manifest | its targets, in `Checks`, `Lab`, `Registry` |
| test plan notebook | `data/dot-functionality-test-plan.ipynb` | `RESULTS`, `FWD_TARGETS` | sections TP-1 to TP-7b, summary, report | `TestPlan`, TP-6 in `Pipelining` |
| migration notebook | `data/dns-dot-migration-test.ipynb` | `scaling_results`, `scaling_df` | the scaling cell | `ScalingTest`; the other cells are not modelled |
| fuzzer and walkthrough notebooks | the other `data/*.ipynb` | none | calls of the facade, single queries | not modelled |
| manifests, templates, images | `dnslab/servers` | none | configuration text of third-party servers | not modelled |
| notebook image, entrypoint, CI | `Dockerfile`, `entrypoint.sh`, `.github` | none | build and deployment | not modelled |

How they interact. The facade resolves a name to a server and profile and calls
the provider the profile names. The docker provider calls `certs.ensure_cert`
at the start of every start, and its health probe, through `ca_file()`,
validates against the CA on disk when the profile has only a DoT listener. Its
`render` asks `discover` for the addresses of an upstream pair. The EC2
provider uses the state file to remember which security group belongs to an
instance and reconciles it against tags on every `discover`. Nobody calls back
and nothing is pushed: all state of another process is found by asking docker,
AWS or the file system.

What is hard, and what makes each part correct:

- *Certificates.* A pair is two files and the CA two more. Writes truncate
  first. Reuse is decided on issue times of one-second resolution and never on
  the signature. Correct when every leaf that the reuse test accepts is
  accepted by a TLS client too, whatever crashed before.
- *Docker.* The fingerprint is computed from a file which the server reads
  several requests later; replacement is remove-then-create under one name;
  a created container may never have been started; listing and inspecting are
  separate requests. Correct when labels are true, the name is free at
  creation, a start that waited hands out what was asked, teardown is complete
  and every call returns.
- *EC2.* Two searches decide one start; the state file is overwritten whole; an
  instance is billed before anything but its tags remembers it; users pause
  instances in the console and the lab's public address changes. Correct when
  no name is billed twice, a matching instance is never torn down, the right
  group is authorised and deleted, and a nuke leaves nothing.
- *Facade.* Several instances are started in sequence, a forwarder's config
  holds addresses that docker gives to somebody else later, and errors of one
  provider read as "not there". Correct when a lab that was set up in order
  raises no false alarm, and a verdict that claims TLS is never drawn from stale
  addresses.
- *Registry.* Manifests are edited while others are in use. Correct when one in
  progress disturbs nobody else, and a faulty one is refused before anything of
  it runs.
- *On-box report.* The timeout of the caller and the script on the box race, the
  box resolves names for other programs too, a second report uses the same rule
  names, and commands of the script fail without anybody being told. Correct when
  PASS proves DoT and the box gets its plaintext DNS back, as far as its commands
  took effect.
- *Notebooks.* Cells are run in any order, run again and interrupted (those of the
  test plan and the scaling cell), servers answer in any order or not at all, two
  load tools run side by side. Correct when PASS is earned, nothing hangs, and
  summary, report and table are about all rows of what ran to its end.

`PROJECT.json` lists these hazards one by one, each at its line and with the
properties that cover it.

## 2. Modules

| module | what it is |
|---|---|
| `Certs` | file by file model of `certs.py` |
| `MCCerts` | instances of it |
| `Certs_proofs` | theorems about it |
| `DockerProvider` | request by request model of the docker provider and the facade calls over it |
| `MCDockerProvider` | instances of it |
| `LabService` | the promise of `start` without containers, files or labels |
| `DockerService` | refinement mapping from `DockerProvider` to `LabService` |
| `MCDockerService` | instances of it |
| `DockerService_proofs` | theorems about the provider, and the refinement as a theorem |
| `Ec2Provider` | request by request model of the EC2 provider with state file and IAM |
| `MCEc2Provider` | instances of it |
| `Ec2Provider_proofs` | theorems about it: types, payment, and what `nuke` removes with any number of kernels |
| `Ec2OneKernel_proofs` | what one kernel can rely on |
| `StartPlan` | the list of instances that a start works off, shared by `Checks` and `Registry` |
| `Checks` | the verdicts of the checks and matrices as functions of a target and its replies |
| `Lab` | facade, lab-auth pair, forwarders, EC2 tier and the matrices, container by container |
| `MCLab` | a catalogue of five servers |
| `Lab_proofs` | theorems about it |
| `Registry` | manifests under edit, `load_manifest`, the facade calls that load them, `selfcheck` |
| `DotClientReport` | statement by statement model of the on-box report |
| `Pipelining` | TP-6: message by message model of the sessions |
| `Pipelining_proofs` | theorems about it |
| `TestPlan` | the cells, verdict rules, summary and report of the test plan notebook |
| `ScalingTest` | the scaling cell of the migration notebook |
| `MCNotebooks` | instances of `DotClientReport`, which it extends, and of `Pipelining`, `TestPlan`, `ScalingTest` and `Registry` |
| `Notebooks_proofs` | theorems about `DotClientReport`, and about all five of them in `MCNotebooks` |
| `RecursionFacts` | what it takes to reason about the recursive functions of the models |

Shared conventions. `pc[k]` is where kernel `k` is within a call; `call[k]`
holds the arguments, the other locals what the Python frame holds; `Return`
drops the frame and records the outcome in `result[k]`. One action is one
request to docker or AWS, or one file operation. What Python does between two
requests belongs to the action of the request before or after it. `Raise` is an
exception that leaves the call. `Crash` is a kernel restart, possible at every
place. Definitions marked `mutant` are not used by any specification: each is
the changed form of a definition with a plausible bug, and shows that the
property paired with it in `PROJECT.json` can be violated.

### Certs

`pem` and `key` hold the two files of every owner: absent, torn (opened for
writing, not yet filled), or content. A certificate is the key pair it
certifies, the key that signed it, the authority key identifier, its issue time
and its extra names. The clock advances in seconds of X.509 time.

| action | code |
|---|---|
| `CallEnsureCa`, `EnsureCaReuse`, `EnsureCaUnreadable`, `EnsureCaIssue` | `ensure_ca` |
| `CallEnsureCert`, `EnsureCertReuse`, `EnsureCertReissue`, `EnsureCertUnreadable` | `ensure_cert`, up to the reuse decision |
| `LoadCaCert`, `LoadCaKeyAndSign` | the two loads of the CA, then the signature |
| `OpenKey`, `WriteKey`, `OpenCert`, `WriteCert` | `_write`: `open` truncates, `write` fills; key first |
| `CallRegenWipe`, `WipeCert`, `ListKeys`, `WipeKey`, `WipeDone` | the two globs and unlinks of `regen(force=True)`, then `ensure_ca(force=True)` |
| `CallRegenKeep` | `regen(force=False)`: `ensure_ca(force=True)` at once |
| `Tick`, `Crash` | time passes; a kernel dies |

`Asks[i]` are the sets of extra names that callers ask for. The only caller
(`docker.py:158`) asks for none, ever; the runs ask for the same set every time.

`Forces[op]` are the values of the argument `force` that callers pass. No call in
the repository passes it to `ensure_ca` or `ensure_cert` (but for `regen` itself),
and `PROMPTS.md:254` documents `regen(force=True)`; `certs_regen_race` allows just
these values, `certs_sequential` allows all. A forced reissue overwrites a pair
that is still good, key first, so a crash between the two files (`certs.py:96-97`,
`161-162`) leaves a good certificate beside another key, which the next call takes
for a pair: the history variable `cut` remembers that this has happened, and the
three properties about pairs say that it is the only way to break one. A
`regen(force=True)` ends it (`WipeDone`). No guard reads `cut`.

`SameSecond = FALSE`, as in both runs, means that no call begins within the
second in which a certificate was issued. With `TRUE` the reuse test, which
compares whole seconds with `>=`, takes a leaf of the old CA for one of the new
CA when both were issued in the same second; `ReusableLeafVerifies` is then
violated with a single kernel.

### DockerProvider

`box[c]` is the container with id `c`: status, name, the two labels, the text
and the leaf the server loaded, and what a query would meet. `configFile` is
the rendered file of each instance, `ca` the generation of the CA and
`leaf[i]` the generation that signed the leaf of `i`, which is what remains of
`Certs` here: `Certs` shows that a leaf of `ensure_cert` verifies, this
module what a server does with it.

| action | code |
|---|---|
| `CallStart` | `ensure_network`, `ensure_cert` |
| `Render`, `Confhash` | `render`, then `_confhash`, which reads the file back |
| `LookupReuse`, `LookupRecreate` | `_get` and the comparison of status and labels |
| `WaitReadCa`, `WaitAnswered`, `WaitRetry`, `WaitFailed`, `WaitGone` | `_wait_healthy`, for the reused (`reuse_wait`) and the new container (`wait`); a probe over DoT reads the CA, then connects |
| `Image`, `RemoveOld`, `Create`, `CreateConflict`, `Connect`, `Boot`, `Inspect` | build or pull, `remove(force)`, `create`, network `connect`, `start`, `reload` |
| `NewContainerGone`, `StartRaises` | a 404 on the container in hand; any other refused request |
| `CallStop`, `Discover`, `DiscoverRaises`, `StopGet`, `StopRemove`, `StopRemoveGone`, `StopDone` | `stop` and `nuke`: list, inspect, then get and remove by name |
| `Regen` | `certs.regen()` by another notebook |
| `ServerReady`, `ServerHangs`, `ServerExits` | the servers |

A probe over DoT is two steps: `WaitReadCa` loads the CA of that moment into
`trusted[k]`, and the server is asked later, when the CA may be another one. So a
start may hand out a leaf that the CA on disk no longer signed.
`since[k]` is the generation that was on disk when the call began: what
`HandsOutTrustedTls` says is that the leaf is of a CA that was on disk during the
call.

Of the rendering, addresses of upstreams are left out here (a config is a
member of `Configs`); they are what `Lab` is about.

`Starters[i]` is the set of kernels that start `i`. With two starters the
second one can rewrite the config file between the first one's fingerprint and
its boot, and `LabelsTellConfig`, `StartDelivers` and `NoNameConflict` fail;
this is a precondition of the code, made explicit as `OneStarter`. Stops, nukes
and regenerations by any kernel are allowed all the same.

`result = "launched"` stands for a start with `wait=False`, where the code
says "running" without having looked.

### LabService and DockerService

`LabService` states the docstring of `start`: an instance serves one
configuration or nothing, comes up with the configuration of a start under way,
keeps it until it goes down, and a start that waited reports an instance that
serves what was asked. `DockerService` maps containers to it: `serving[i]` is
the text that the running container named `i` has loaded. Everything else,
containers created and never started, config files rewritten under a running
server, retries, crashes, is a stutter. `ImplementsLabService` is
`Lab!Spec`, checked as a property.

### Ec2Provider

`box[b]` is an instance with the states AWS reports, `group[g]` a security
group with the addresses it lets in, `iam` the parts of the role and instance
profile that exist, `file[n]` the group that the state file names for `n`.

| action | code |
|---|---|
| `CallStart`, `CallStop`, `CallStatus`, `CallNuke` | the facade's calls |
| `LoadKnown`, `Describe` | `discover`: the file, the tags, the group of the file before that of AWS |
| `LoadState`, `SaveForget`, `SaveRemember`, `SaveDone` | `_forget` and `_remember`, each a load and a save; a reader may meet the file between truncate and write |
| `MatchNone`, `MatchFound`, `AwaitStopped`, `Resume`, `AwaitResumed` | the first search of `start` and the resumption of a paused match |
| `Reuse`, `ReuseVanished`, `Authorize` | the second search and the ingress of the caller's present address |
| `WaitReady`, `WaitTimeout`, `WaitNoAddress` | `_wait_healthy`; a client waits for its SSM agent |
| `Select`, `Terminate`, `DeleteSg`, `StopDone` | `stop`, also of what a start replaces |
| `CreateSg`, `Ingress`, `RunInstances`, `RunRefused`, `AwaitRunning` | the launch |
| `CreateRole`, `AttachPolicy`, `CreateProfile`, `AddRole` | `_ensure_ssm_profile`, two requests in each `try` |
| `NukeTerminate`, `NukeAwait`, `NukeGroup`, `NukeDone` | `nuke` |
| `AwsFails`, `DescribeFails`, `Crash` | a refused request; one that the facade swallows; a dead kernel, perhaps in the middle of `save_state` |
| `GetsAddress`, `Boots`, `ComesUp`, `Pauses`, `Paused`, `Ends`, `Roam` | AWS, the server, the user's hands, the lab's address |

Assumed of AWS, which is not under `src/`: a request that returns has taken
effect and later requests see it; ids of groups and instances are not reused
while anything refers to them; an instance is reported with its group until it
is terminated; a group that an instance holds cannot be deleted. Waits have no
clock: one may give up whenever what it waits for is not there, which covers
every length of timeout. An address that changes between stop and start is
covered only as far as having one or none.

The properties about starts (`OneLivePerName`, `MatchingSurvives`) are about one
kernel: two that start the same name at the same time each search before the
other one launches, and may launch twice or tear each other's instance down.

### Checks and Lab

`Checks` has no state: `QueryDo53`, `QueryDot`, `CheckCert`, `CheckForwarding`,
`CheckDotUpstreamMarker` and `QueryReport` are the functions of `checks.py`, with
the replies told apart as far as they are there: no reply, an rcode other than
NOERROR, NOERROR without or with answers, and which transport marker.

`Lab` puts containers on addresses. `box[i]` is the container of instance `i`:
its profile, its address, the upstream address that its rendered config holds,
the CA generation of the `leaf` its server loaded (0: none), the generation it
`trusts` as a client (0: it does not validate), and whether it `answers`. An
address that is free is given out again, so a stale config may point at nobody,
at another server or at the forwarder itself. `ca` is the generation on disk.

A query names an address, a transport and a client (`Client`: the name that it
expects and the generation that it validates with, or `Anybody`). `Owners` are the
containers that take it: over TLS, one that answers, has the name and presents a
leaf of the client's CA. `Says` is what one of them answers when its upstream would
answer so or so, and `Marker[n]` are the answers to all queries when they may pass
`n` servers after the first one: each round is `Answers` of the one before. The
notebook validates with the CA on disk, a validating forwarder with the one
that was there when it started.

| action | code |
|---|---|
| `CallStart`, `Render`, `StartRaises` | `start`: the plan, the choice of the profile, required capabilities, the leaf, `upstreams()` |
| `Reuse`, `Replace`, `LaunchFails`, `StartCloud` | `provider.start` as one step each: unchanged and answering, new container (with or without a wait, so it may not answer), half-way failure, EC2 |
| `Stop` | `stop` and `nuke` over both providers, one removal a step; either provider may be unavailable, and others start in between |
| `Regen` | `certs.regen()`: servers keep what they loaded |
| `CallTarget` | `target`, or one of `targets` |
| `Check`, `Query`, `CheckRaises` | one row of `run_matrix` or `run_query_matrix`; kdig fails or raises for any target |
| `Exits`, `Turns` | a server exits, its container stays; one of `Hangs` stops answering or answers again |

`fresh` is a history variable: the forwarders that were started, or found
unchanged, after the pair last changed. The documented order is pair first, so
`NoFalseAlarm` is about those, as far as they know the lab zone (`KnowsLab`: by a
zone of their own or with one of the pair as upstream; `recursive` and
`global-forwarder-dot` do not). After a `regen` the servers that were not
restarted are still `fresh`, and their checks over DoT do fail, rightly:
`Sound` names what a FAIL may point at, a server (or one of the pair) that
does not run, does not answer or has the TLS files of an older CA. That
`start` reuses such a container is the finding of `docker_stale_leaf`.

Four assumptions say what the manifests, zones and templates under
`src/dnslab/servers` give. `CatalogueAssumption`: an instance is declared by one
server, with a profile the server has; EC2 servers declare none.
`PairAssumption`: `servers/lab-auth/manifest.yaml` and the two files in
`lab-auth/zones`. `ProfilesAssumption`: listeners of a profile are within the
capabilities of its server; the DoT marker (`lab-auth`, `knot` and `nsd`, zone
`lab.test.dot.zone`) is served by profiles that listen on 853 alone, and the
`auth-both` profiles serve the other zone; servers with a role of
`forwarder` or `recursive` have no zone with a marker; their profiles with a
name in `dot` forward over TLS, to the pair or to public resolvers.
`BoundsAssumption` is about the model. TLC evaluates all four for
the catalogue of `MCLab`.

### Registry

`manifest[d]` is what `manifest.yaml` of directory `d` holds: one of the drafts
an author may have saved on the way. `Load` gives the exception of
`load_manifest` in the order in which it looks; `Get` and `Discover` are `get`
and `discover`. `CallStart` loads once, `StartInstance` then starts one instance
after the other with templates as they are on disk by then; `ProviderRaises`
covers every other error of a provider. `Selfcheck` renders with
`DummyContext`, the starts with `DockerContext` or `UserdataContext`. `Save` is
the author, at any time. `vetted` remembers which directories passed selfcheck
and have not changed since.

### DotClientReport

Every statement of the PowerShell script that can change the box is an action:
`Ensure` (registration of the upstreams), `BlockUdp`, `BlockTcp`, `ClearCache`,
`Resolve` once per name, `Look` at the connections, `FreeUdp`, `FreeTcp`, `End`.
`Send`, `GiveUp`, `Return` and `Refused` are the caller in `run_command` and after
it; `Deliver` and `Kill` are SSM. `OtherProgram` and `Expire` are the rest of the
box: names get into the cache by any way the stub resolver has at that moment.

The script runs under `$ErrorActionPreference = "Continue"`, pipes what the new
rules say to `Out-Null` and removes them with `-ErrorAction SilentlyContinue`, so
each of these commands may fail and the next one runs (`PassedOver`). The verdict
does not know: it goes by the parameter `block_plaintext` (`checks.py:354`).
Rules go by name, and two reports use the same names, so one lifts the block of
the other. `amiss[r]` is a history variable that remembers both: `"block"`, a
rule or the flush of the cache failed, or another report removed a rule while `r`
counted on it; `"lift"`, a removal failed. No guard reads it. The registration in
`Ensure` changes nothing that is modelled: it may fail, or have been done by user data,
and a lookup over TLS is always possible and may always fail.

### Pipelining

One row of TP-6. `sent` are the message ids in the order of the queries,
`asked` what the server has not answered, `wire` the responses on their way.
`Send`, `Receive`, `ReceiveUnmatched`, `ReceiveRaises` and `Finish` are the three
runners (sequential, pipelined, a session per query); `Answer`, `Repeat` and
`HangUp` the server. Message ids are drawn anew for each query and may collide,
as dnspython's do: `sent[q.id] = q` then keeps the later one.

### TestPlan

The verdict of every row is a function of the reply (`Verdict`, and for the
forwarded tier `ForwardedVerdict`). `Run` starts a cell: one of the direct
sections (`Starts`), TP-7a, TP-7b or the summary, in any order and any number of
times. Cells are walked through row by row (`Direct`; `StartForwarder`,
`StartRaises`, `StartsDone`; `Forwarded`, `NoForwarders`, `ForwardedDone`;
`Summary`). `Interrupt` ends one between any two rows, and in TP-7a also between
`FWD_TARGETS.append` and the row (`except Exception` in notebook line 1016 does not
catch a KeyboardInterrupt: no SKIP row is made). `Harness` is `RESULTS = []`, the
cell with `record` again or a new kernel. `RESULTS` is kept as what the summary
asks of it (`verdicts`: whether a row is FAIL, whether there is another one;
`skipped`: whether the row about missing forwarders is there), and the report is
asked row by row. `whole` is a history variable: which of TP-7a and, after it,
TP-7b ran to its end since `RESULTS` was empty.

### ScalingTest

`RunCell`, `Submit`, `Collect`, `Complete` are the cell, `Interrupt` and `Leave`
the KeyboardInterrupt that leaves the `with` block of the thread pool only when
its tools have ended; `ToolEnds` and `TimesOut` are dnsperf and dnspyre.

## 3. Runs

Passing runs. All of them set `CHECK_DEADLOCK FALSE`: ids of containers, groups
and instances, key pairs, the clock and runs of a cell are bounded in the
models, and once they are used up, or a kernel that may only make one kind of
call has made it, or a row is recorded, there may be nothing left to do. That no call hangs
is checked as `CallsReturn`, `CellEnds` and `ScalingEnds`.

| run | instance | properties |
|---|---|---|
| `certs_sequential` | one kernel, every value of `force`, two instances, one extra name, 7 key pairs, 5 seconds, CA life 3, leaf life 2 | `TypeOK`, `ReusableLeafVerifies`, `IssuedLeafVerifies`, `CaPairAtRest`, `RegenLeavesOnlyFreshCa` |
| `docker_sole` | k1 starts, k1 and k2 stop and crash, k2 regenerates the CA; two configs, a plain and a DoT-only profile, 3 containers | `TypeOK`, `LabelsTellConfig`, `NoNameConflict`, `StartDelivers`, `HandsOutTrustedTls`, `ImplementsLabService` |
| `docker_returns` | two kernels that both start and stop, 2 containers, fairness | `CallsReturn`, `TeardownComplete` |
| `ec2_sole` | one kernel with all four calls, two configs, 2 instances, 3 groups, 2 addresses | `TypeOK`, `OneLivePerName`, `MatchingSurvives`, `HandsOutMatch`, `StopRemovesGroup`, `NukeLeavesNothing`, `CallerLetIn`, `StateTellsTags` |
| `ec2_nuke` | k1 launches a client, k2 nukes | `NukeRemovesFound` |
| `lab` | one kernel, the pair, two forwarders, one EC2 and one external server, 3 addresses, 2 CA generations, `lab-auth-dot` may hang, queries through up to 3 servers in a row | `TypeOK`, `NoFalseAlarm`, `MarkerProvesTls` |
| `notebooks` | two reports that block, of which one looks up a name; 3 queries with 3 message ids; 2 forwarders, one with DoT; 3 steps of load, the cell run twice; two modules with 7 and 9 drafts; fairness | `PassProvesDot`, `BlockLifted`, `PassIsEarned`, `CorrectServerPasses`, `CellEnds`, `TierComplete`, `ForwardedNoStricter`, `ReportShowsEachRowOnce`, `LoadWithinTotal`, `TableOfOneRun`, `ScalingEnds`, `OthersUnaffected`, `ManifestFaultsShowEarly`, `TypesOK`, the types of each |

- `certs_sequential`: after any sequence of issue, renewal, expiry,
  regeneration and crash between any two file operations, forced or not, no leaf
  is left that passes the reuse test and fails verification, and the CA is a
  pair. The reason is the order (key before certificate, and certificates before
  keys when wiping) and that a certificate is only replaced when it no longer
  counts. `force` takes the second reason away: a crash between key and
  certificate of a forced reissue is the one exception. TLC finds it in 13 steps
  when `~cut` is left out of `CaPairAtRest`. A completed `regen`, of either kind,
  leaves a CA pair all the same.
- `docker_sole`: the label is true although it is computed from a file that is
  read again later; a start always finds its name free; it hands out what was
  asked; and the provider implements `LabService`. For profiles whose probe goes
  over DoT it never hands out a server with a leaf of a CA that had been replaced
  before the call began, though the other kernel may regenerate the CA between
  `ensure_cert`, the boot, the reading of the CA and the probe: the probe
  validates, and against a CA that this call read. `docker_stale_leaf` is the
  same property with a plain listener beside.
- `docker_returns`: every wait is bounded and every teardown that says it is
  complete is, with two kernels that race for the same instance.
- `ec2_sole`: tags alone are enough to find what crashed or failed calls left
  behind; paused instances are resumed rather than doubled; the two searches of
  one start agree; the file says what the tags say after each `status`.
- `ec2_nuke`: concurrent launches do not make a nuke report what it did not do.
- `lab`: a forwarder that was started after the pair asks the pair that runs, so
  while it and the pair are `Sound` no check of a fresh forwarder fails but one
  whose kdig failed; and `dot-upstream`
  passes only for a forwarder that asks over TLS, while a server runs that has the
  DoT marker and no plain listener. Stale addresses may break the path but cannot
  forge the marker: a plain server answers with its own marker, and a forwarder
  in between hands on what it gets.
- `notebooks`: five modules in one run. Each behaviour opens one of them and
  leaves the others in their initial state, so that their state spaces add up; a
  property of one module is that of its own specification. `PassProvesDot` holds,
  as long as nothing is amiss with the block, because the cache is cleared after
  the block is up, whatever other programs resolve and however the script ends;
  `BlockLifted` because the script, not the caller, removes it, unless it is
  killed or the removal fails. `PassIsEarned` and `CorrectServerPasses`
  say what the pipelining row is worth, both ways. `TierComplete` holds because
  the row about missing forwarders stays in `RESULTS`, and because a TP-7b that
  followed a whole TP-7a tested all targets, whatever a later, interrupted
  run leaves in `FWD_TARGETS`. `LoadWithinTotal` holds after an interruption because leaving
  the thread pool waits for the tools of the interrupted step.

The bounds. Five seconds hold an expiry of a leaf and of the CA and the reissue
of both; seven key pairs are a CA and two leaves twice over, and a third CA. Two
kernels are enough for each race of two actors; the third actor is a server, AWS or a user, and those are actions of their own. One instance
name is enough where instances do not share state: containers, config files and
certificates are per name, and for EC2 only the state file is shared, whose
other entries a save writes back as it read them. Three containers (`docker_sole`) let a
start create one, crash, replace it by the next and start again after the other
kernel removed that; two (`docker_returns`) let a start replace one that does not
come up, which is where the waits are; two EC2
instances are what a second billed instance takes; three groups leave one
behind from a failed launch while two are in use. `ReuseBudget` and
`StartBudget` of one or two probes reach success at the first and at the last
probe, and timeout. Three addresses for four containers make docker give an
address out again and run out of them; three servers in a row is the longest
way (forwarder, forwarder by a stale address, authority), and a forwarder that
asks itself needs one. Two generations of the CA are an old leaf and a new client,
or the other way round; one server that hangs is enough for a FAIL of every
row that depends on it. Three queries give six orders of answers, ids may be
drawn twice, and the second one may hang. One name
is enough for the report, since names do not share anything but the flush and the
rules; the other report blocks and frees the port, and its lookups would be like
those of any other program. When ids are used up, `Create` and `RunInstances` can only
fail. Symmetry is over ids, addresses, configs and groups in safety runs alone. The
run `lab` has a `VIEW` without `row`, which no step reads: TLC checks the action
properties on every step that it makes.

Fairness. In `docker_returns`, `FairSpec` obliges a kernel that is inside a call to take its next
step: requests to the daemon have timeouts of their own and the loop sleeps
half a second at most. Nothing obliges a server to come up or to stay up, and
nobody to begin a call, crash or regenerate. In `notebooks`, a script that SSM
has started runs on unless it is killed (PowerShell has no wait in it but two
sleeps; nothing is asked of SSM, the caller or the rest of the box), the client
of TP-6 takes its next step (every read has a timeout; nothing is asked of the
server), and the scaling cell goes on while a tool that hangs is killed when
its time is up (`subprocess.run` with a timeout).

Violations. Each of these runs checks a sentence of the repository that the
code does not keep; TLC's trace is the scenario.

| run | sentence | what happens |
|---|---|---|
| `certs_regen_race` | `certs.py:167` "Wipe and reissue the CA; leaf certs regenerate on next start()" | a start that has loaded the old CA writes its leaf after the wipe; issue times say it is new enough, so it is reused until it expires |
| `docker_stale_leaf` | `docker.py:138` "Fingerprint of everything that shapes a running container" | the leaf is not part of it; after `regen` a container with a plain listener is reused with the old leaf |
| `docker_relaunch` | `__init__.py:41` "A matching instance that is still coming up is waited for, never relaunched" | it is waited for 15 seconds, then relaunched |
| `ec2_stale_group` | `ec2.py:19` "treating tags as the source of truth" | the group of the file wins; after a `status` that overlapped a replacement, `stop` deletes a group long gone and leaves the one in use |
| `ec2_ssm_profile` | `ec2.py:245` "Create the dnslab SSM role + instance profile if missing (idempotent)" | after a failure between role and policy the policy is never attached |

Other observations, which the models have but no run of its own shows:

- `ec2.py:506`: a `pending` match without a public address goes straight to
  `_wait_healthy`, which raises at once and blames the subnet, while
  `ec2.py:353` says that re-running `start()` "keeps waiting" for an instance
  that is still booting (`WaitNoAddress` in `Ec2Provider`).
- `regen(force=False)` and `ensure_ca(force=True)` replace a good CA in place: cut
  short between the key and the certificate they leave the new key beside the old
  certificate, and every leaf issued from then on is refused, until `regen()`
  (`CallRegenKeep`, `Halfway` in `Certs`). Nothing in the repository calls them
  that way.
- A caller that asks for other extra names than the last one has the leaf
  reissued while the old one is still good: cut short after the key file was
  opened, it leaves the old certificate, which a caller with the old names
  reuses, beside a torn or another key. TLC finds it with
  `Asks = {{}, {ip}}` and `LeafLife >= 3`; nobody asks for names today.
- `checks.py:297` says "With block_plaintext=True a successful resolution is proof
  DoT was used". A `New-NetFirewallRule` or `Clear-DnsClientCache` that fails is
  passed over (`checks.py:250`, `265-266`), and the verdict asks the parameter
  (`354`) and not the box: PASS over plaintext. So do two reports that both block
  port 53 of one box, which use the same rule names: the first one to finish removes
  the block of the second. TLC finds such a PASS in 9 steps when
  `"block" \notin amiss[r]` is left out of `PassProvesDot`.
- `checks.py:299` says that "the 53 block is always removed before it returns". A
  removal that fails (`281-282`) and a script that SSM kills leave it behind until the
  next report, and a caller that gives up returns before the script does.
- The name of the profile `global-forwarder-dot` ends in `dot`, so
  `check_dot_upstream_marker` looks for the lab's marker though it forwards to
  public resolvers: a FAIL for a server that does forward over TLS.
- `checks.py:181` reports "DoT-only upstream answered" when the marker is `dot`.
  The `auth-dot` profiles of `knot` and `nsd` serve the same marker: a
  forwarder that does not validate (`pdns-recursor`) and whose rendered address
  of `lab-auth-dot` now belongs to one of those gets a PASS while `lab-auth-dot` is
  down. It does ask over TLS all the same, which is what `MarkerProvesTls` says, beside
  that some server of the marker that speaks TLS alone runs. The run's catalogue has no `knot`; the theorem
  covers any catalogue.
- A kdig that hangs raises `TimeoutExpired` out of the matrix (`CheckRaises`).
- One broken manifest of a server that runs ends `targets()` for all
  (`CallTargets` in `Registry`); `OthersUnaffected` is therefore about calls
  that name a server.
- The user data of an EC2 instance is rendered without `upstream_ca_path`, which
  selfcheck supplies: a template can pass the check and fail on EC2.
- When two pipelined queries draw the same id, a correct server gets a FAIL.
- When dnspyre is missing or killed its figures are zeros, and a row of the table
  reads like a measurement of an idle server.
- An interrupted TP-7a leaves the first of the forwarders in `FWD_TARGETS` and no row
  about the others; TP-7b then tests those, and the summary says PASS. An
  interrupted TP-7b leaves no row either. (`TierComplete` is about tiers that ran to
  their end once; TLC finds a PASS of less when `"7b" \in whole` is left out of it.)
- TP-7b tests what TP-7a of an earlier run has started when it is run alone; the SKIP
  row about missing forwarders stays in `RESULTS` even when a later run of TP-7a has
  all of them.
- After a `regen`, the DoT checks of all servers that were not started anew fail, and
  those with a plain listener keep failing after another `start`, which
  reuses them (`docker_stale_leaf`; `Sound` in `Lab`). The matrix names the server
  that was asked, though it may be the pair that has the old leaf.

## 4. Proofs

Everything here holds for any number of kernels, instances, profiles,
configurations, containers, groups, keys, queries and reports, except as the
last column says.

| module | theorem | states | assumes |
|---|---|---|---|
| `DockerService_proofs` | `TypeCorrect` | `Spec => []TypeOK` | `DockerAssumption` |
| | `TeardownIsComplete` | `Spec => TeardownComplete` | `DockerAssumption` |
| | `LabelsAreTrue` | `Spec => []LabelsTellConfig` | and `OneStarter` |
| | `NameIsFree` | `Spec => []NoNameConflict` | and `OneStarter` |
| | `StartsDeliver` | `Spec => StartDelivers` | and `OneStarter` |
| | `TlsIsTrusted` | `Spec => HandsOutTrustedTls` | and `ProbesTls` |
| | `ProviderImplementsService` | `Spec => ImplementsLabService` | and `OneStarter`, `ServiceAssumption` |
| `Certs_proofs` | `CertTypes` | `Spec => []TypeOK` | `CertsAssumption`, `FilesAssumption` |
| | `ReuseIsSafe` | `Spec => []ReusableLeafVerifies` | and `Sole` |
| | `IssuedIsGood` | `Spec => []IssuedLeafVerifies` | and `Sole` |
| | `CaPairBelongs` | `Spec => []CaPairAtRest` | and `Sole` |
| | `RegenIsThorough` | `Spec => []RegenLeavesOnlyFreshCa` | and `Sole` |
| `Ec2Provider_proofs` | `ProviderTypes` | `Spec => []TypeOK` | `Ec2Assumption` |
| | `PaidOnce` | `Spec => []OneLivePerName` | and `Alone` |
| | `NukeClearsFound` | `Spec => NukeRemovesFound` | `Ec2Assumption` |
| `Ec2OneKernel_proofs` | `StartSparesMatch` | `Spec => MatchingSurvives` | and `Alone` |
| | `StartHandsOutMatch` | `Spec => HandsOutMatch` | and `Alone` |
| | `StartLetsCallerIn` | `Spec => CallerLetIn` | and `Alone` |
| | `StopDeletesItsGroup` | `Spec => StopRemovesGroup` | and `Alone` |
| | `NukeClears` | `Spec => NukeLeavesNothing` | and `Alone` |
| | `StatusWritesTags` | `Spec => StateTellsTags` | and `Alone` |
| `Lab_proofs` | `LabTypes` | `Spec => []TypeOK` | the four of `Lab` |
| | `MarkerIsProof` | `Spec => MarkerProvesTls` | the same |
| | `NoAlarmIsFalse` | `Spec => NoFalseAlarm` | the same |
| `Pipelining_proofs` | `SessionTypes` | `Spec => []TypeOK` | `Setting` |
| | `PassCountsAll` | `Spec => []PassIsEarned` | `Setting` |
| | `CorrectServersPass` | `Spec => []CorrectServerPasses` | `Setting` |
| `Notebooks_proofs` | `ReportTypes` | `Spec => []TypeOK` (of the report) | `Setting` |
| | `PassIsProof` | `Spec => []PassProvesDot` (of the report) | `Setting` |
| | `PassIsProofToo` | `NotebooksSpec => []PassProvesDot` | the six of `MCNotebooks` |
| | `SessionPassIsEarned`, `SessionFailIsEarned` | `NotebooksSpec => []PassIsEarned`, `[]CorrectServerPasses` | the six of `MCNotebooks` |
| | `SummaryIsComplete`, `ForwardingIsTransparent`, `RowsHaveOneHeading` | `... []TierComplete`, `[]ForwardedNoStricter`, `[]ReportShowsEachRowOnce` | the same |
| | `LoadIsShared`, `TableIsOfOneRun` | `... []LoadWithinTotal`, `[]TableOfOneRun` | the same |
| | `FailuresAreOwn`, `FaultsShowEarly` | `... []OthersUnaffected`, `[]ManifestFaultsShowEarly` | the same |
| | `NotebookTypes` | `NotebooksSpec => []TypesOK` | the same |

The assumptions named `...Assumption` stand beside the constants and TLC
evaluates them in every run. `OneStarter`: no two kernels start the same
instance. `Sole`: one process, and what the runs set too, the same extra names
every time and no call within the second of an issue. `Alone`: one kernel.
`Setting`: the constants have their types. `ProbesTls`: a profile with a DoT listener
has no plain one, so that the health probe is over TLS; with both listeners the
statement is false (`docker_stale_leaf`). The four of `Lab` are described in section
2. The six of `MCNotebooks` give the constants their types: `None` is no string,
queries per row and the list of their types are not empty, forwarders, servers and
steps are lists, each manifest with `instances` lists instances with a profile, and
the reports that block are reports.

### Docker provider

The argument:

1. *Types.* `TypeOK` is not inductive: `Boot` updates the container that
   `cid[k]` names, which must be one. `TypeInv` adds `Control`, what a kernel
   has at hand at each label (a start call, a stop call, a container).
2. *Containers.* `BoxChanges` classifies every step by what it does to the
   containers: nothing, remove one, create one under a free name with an unused
   id, or change one that is or becomes running. From it alone follow `LabelsForLife` (an id is
   never reused and labels never change), `StartedForLife`, and the invariance
   of `UniqueName` (a name belongs to one container at a time). `Frame`
   says that a step of one kernel touches no other kernel's locals.
3. *Teardown.* `Accounted(k)`: each container that `k` has listed and that
   still exists has its name in `pending[k]`, or is the one `k` is about to
   remove. It needs `UniqueName`, because the code removes by name what it
   listed by id. When `pending` is empty at the end, nothing listed
   exists. No assumption about who else starts or stops is needed.
4. *Starts.* `Promise(k)`: from `render` to `boot` the config file is the one
   this start wrote and the fingerprint is that of what was asked; at `create`
   the name is free; a container in hand, as long as it exists, is labelled
   with what was asked. Other kernels may remove and regenerate but, under
   `OneStarter`, neither write this config file nor create under this name
   (`OthersKeepOut`). `LabelsTellConfig` closes the induction: labels are what
   was asked, and the server loaded what the labels say.
5. *Outcomes.* `HandsOutAnswered`: a waiting start ends with a server only by the
   answer to a probe, so what is handed out is what was probed. `StartsDeliver` adds
   the promise. `TlsIsTrusted` rests on `ReadSince`: in a call the CA on disk is not
   older than the one at its beginning, and what a probe has read lies between
   the two. It needs no `OneStarter`, and holds whoever regenerates the CA meanwhile,
   between the reading and the answer too.

### The docker provider implements `LabService`

`ServiceInv` is the invariant behind `StartsDeliver` with two facts that the
mapping needs: a server that runs has loaded a config of `Configs`, and a kernel
that is idle has no call. Every step is then one of few kinds: one that touches
no running server and no outcome is a stutter (`QuietStep`); a removal, an exit
or a replacement takes servers down (`DownStep`); the boot of a container brings
one up (`BootStep`); the entry of a call and its outcome are the steps of the
same name (`CallStep`, `ReturnStep`), and `DeliverStep` is the only one that
needs the invariant: the server handed out is what was asked, because the label
is.

### Certificates

`TypeOK` is inductive. `CertsInv` adds what each label of a call has at hand
(the CA pair in memory or on disk, its authority key identifier) and `PemHasKey`:
where there is a certificate there is a key file, which is the order of the two
writes and of the two globs of `regen`. `LeafInv` and `PairInv` are the reason the
reuse test suffices: a leaf not older than the CA was signed by it and has its
key, and an older one is not reused. `PairInv` and `CaInv` leave out the pair
that a forced call is overwriting at this moment (`Halfway`), which is what a
crash turns into `cut`; `SamePairs` is the lemma for all the steps that touch no
file. There is one lemma per group of steps (`EnsureCaLocals`, `LeafLocals`,
`WriteKeyLocals`, `WipeLocals`, ...); `Crash` drops the locals, so `CertsInv` must
hold of the files alone at any label. `WipeDone` resets `cut`: with no file left,
every part of the invariant holds again.

### EC2

`Ec2Provider_proofs`. `TypeInv` adds to `TypeOK` what is at hand at each label (`AtHand`: an instance
or a group), what the two searches found (`Found`), and that an instance that
was launched has a name and a group (`Born`). It holds for any number of
kernels. `PayInv` adds `OneLivePerName` and `Cover`: between the description and
the launch every live instance of the name is in the list that the start works
off, and at the launch that list is empty. Nothing else launches
(`NoNewLive`), so `LaunchPaysOnce` is the only step that counts. With a second
kernel `Cover` is false, as the code is.

`NukeClearsFound` needs no assumption on the kernels: a terminated instance stays
terminated with its group (`StaysOver`), a group that an instance ever had is
never made again (`NotAgain`), so while a `nuke` deletes groups each group of
what it found is deleted or still on its list (`Clearing`).

With one kernel the rest follows from `SoleInv`. Of the account and the file:
an active instance (live or shutting down) is the only one of its name
(`OneActive`), and a file entry for its name names its group (`FileTells`): an
entry may be missing or stale, but never names a wrong group, because a launch
waits until the entries of the name are gone. Of the call, by label: what it has
in hand was launched and has the group AWS reports (`Truth`); the file is as it
was loaded (`Filing`, false with two kernels); a list that is being stopped or
replaced overlooks nothing (`Covered`, `Forgets`) and holds nothing else, for a
start that is not forced no match (`Spares`); the match of the first search is
still there for the second, which finds it and nothing else under the name
(`Matched`; so `ReuseVanished` takes a second kernel, or a user who terminates
instances in the console, which the model leaves out); what is about to be handed
out was asked for and lets the caller in (`Handed`, `LetIn`). Steps of AWS
and the users are `Calm`: they end and begin no live instance and rename none
(`LocalKept`). There is one lemma per step of a call, and `SoleNext` joins them.

### Report

`ProofInv`, for each report that blocks and with whose block nothing is amiss:
between `BlockTcp` and `FreeUdp` both rules are up, and while it resolves no name is
in the cache but over DoT (`Shielded`); what it resolved was so or failed
(`Transcript`), also when it was killed; a PASS was drawn from such a transcript
(`Earned`). What went amiss is never forgotten (`NextAmiss`), and a
removal by another report is noted by all that count on the rule (`OtherRemoves`).
There is no assumption on how many reports block.

### Pipelining

`Traced`: there is a map from the responses that were read or are on their way to
the queries (`Tracks`). It is one to one, each response carries the server's answer
to its query, and every query that the server answered is reached, so it is a
bijection with the answered queries; unless the server repeats itself. `Answer`
extends the map by a query that had none; `Receive` moves a response, and the
map with it. A row says PASS after `N` responses, and `N` responses reach all
`N` queries (`PassCountsAll`). The other way round, a client that is left without a
response has a query that the server has not answered, or two with one id
(`CorrectServersPass`): an id that is drawn twice is the only way to lose a
response, and with different ids the number of ids is the number of queries.

### Notebooks

`NotebooksSpec` opens one module and keeps the others where they are, so an
invariant of a module is kept by its own steps and by everything else.

- *Session.* `Sess` is `Pipelining_proofs` over the variables of the notebook,
  so its lemmas are used as they are, with `Sess!Inv`.
- *Test plan.* `PlanInv`: the targets are a first part of the forwarders
  (`TargetsKnown`), wherever a cell was interrupted; while TP-7b runs, the pairs
  before the current row are tested; as long as TP-7a ran to its end when it was
  last run, the targets are all of the forwarders unless a row says that some are
  missing, and what a whole tier tested stays tested (`TierKnown`). The last row is
  of a section of the report (`RowKnown`). The verdict tables are compared case by case, and the headings of
  the report against the sections that rows can have (`ShownOnce`).
- *Scaling.* `ScalingInv`: the tools that run are of the current step, results
  are the rows before it, all of the current run. The load is a fold over a set
  of at most two tools, unfolded as such (`LoadSums`).
- *Registry.* `RegistryInv`: a start in progress has a manifest that was valid when it
  was loaded, and its plan names profiles of it or nothing was started yet
  (`StartKnown`); what passed selfcheck and did not change since would pass again
  (`VettedKnown`). `RegistryHere` adds what the last call said.

`AllInv` joins them for `TypesOK`.

### Lab

The invariant is `Inv`. `BoxesKnown` and `Unshared`: containers have profiles of their
server, those of the pair their own, and no two that run have one address.
`CallsKnown`: what a start has before it are instances and profiles of its server
(`Entries`), and a launch that is still `tidy` was rendered for the pair as it is now
(`UpToDate`). `FreshKnown`: the config of a fresh forwarder holds the address that
the pair's instance has now, which is what `fresh` and `tidy` are kept for:
every step that changes the pair's addresses empties `fresh` and marks all launches
(`Restaled`), and no other step changes what `upstreams()` would say (`PairSame`).
What a server loaded and whether it answers are in no part of the invariant: they
change under everybody, and `Sound` asks for them when a row is made.

- `MarkerIs`: `Marker` is what its definition says, for any `Depth`, which takes the
  existence of the recursive function (below).
- `MarkerIsProof`: `Sourced`, the sets of answers that say `dot` only if a server of
  the DoT marker runs, contains the silence at first and is kept by `Answers`,
  because a forwarder hands on what it gets, whether it validates or not. The owner of the target's
  address is the target alone (`SoleOwner`), so it was its own upstream that
  said `dot`, over TLS.
- `NoAlarmIsFalse`: the upstream address of a fresh forwarder is that of the running
  instance of the pair for its transport (`UpstreamSays`), which answers, has the
  name that a validating forwarder expects and, all three being `Sound`, a leaf of the
  CA that it trusts; so the forwarder has the marker of its
  transport (`LabAnswers`), and every cell of either matrix follows from that.

The model was changed in three places on the way. `Running("lab-auth-dot")` in the
conclusion of `MarkerProvesTls` is false for a catalogue with `knot` (section 3) and
gave way to a server of the marker that speaks TLS alone. The exception of
`NoFalseAlarm` for `global-forwarder-dot` became `KnowsLab`, since `recursive`
profiles need it too. `ListenersOf` was a CASE with overlapping guards, whose value
TLA+ does not fix.

### Recursive functions

What a recursive function computes needs induction, and before that the existence
of a function with that recursion, both of which the library's theorems state with an
operator as a parameter. `RecursionFacts` states them for sets and functions
instead: `Induction` (a subset of `Nat` with 0 and all successors is `Nat`, from the
well-foundedness of `<`), `Recursion` (given a first value and a function for
each step, the sequence of values exists), `Reaches` (a set with the first value that
every step keeps has all values). `PlannedType` and `FlattenElements` apply them to the
plan of a start and to concatenated lists.

### What is only model-checked

`BlockLifted`, `CallsReturn`, `CellEnds` and `ScalingEnds`: liveness under fairness
is beyond the prover. Every other property of a passing run is a theorem, under the
assumptions in the table.

## 5. Not modelled

- Sockets and the insides of queries, handshakes and commands. What comes of them is
  modelled: a handshake succeeds by name and CA generation (`DockerProvider`, `Lab`), a
  probe or kdig may fail, a firewall command may fail unseen (`DotClientReport`),
  and replies from outside the docker network are any.
- Template rendering, the text of configurations, manifests: a member of
  `Configs` or `Confs`, equal or not equal; in `Registry` the names a template
  uses; in `Lab` the upstream address in it.
- `logs()`, `ensure_network`, the expiry tag, colours, charts and tables: change
  no state a property sees.
- The functional, baseline and summary cells of the migration notebook and the
  resolver fuzzer: one command or query after the other, and drawings of the results;
  nothing outlives a query but a log. The walkthrough notebooks: fixed sequences
  of the facade calls which the models allow in any order.
- Build scripts, entrypoint, CI: without state of their own.
- The lab-auth pair, forwarders and matrices with several kernels at once: two
  that start the same instance are already outside the precondition of the
  docker provider (`OneStarter`; the theorems of `Lab` allow any number), and the matrix of one kernel beside the starts
  of another is only a target that is not `StillTrue`.
- The composition of edited manifests with the checks: `target()` takes listeners
  from the manifest as it is now (`docker.py:324`).

## 6. Plan

Order of work, the most important behaviour first. All of it is done.

1. `Certs`: what every DoT check rests on.
2. `DockerProvider` with `LabService`/`DockerService`: reuse and replacement.
3. `Ec2Provider`: the part that costs money when it is wrong.
4. First theorems: types, teardown and starts of the docker provider.
5. `DotClientReport`: the block on port 53, the capture and the cleanup on the
   box against the caller's timeout and a second report.
6. `Lab`: the plan over the declared instances of a server, the pair and
   forwarders with their upstream addresses, `stop` and `nuke` over two providers
   that may be unavailable; one step per `provider.start`, as `LabService`
   promises. With `Checks`, the verdicts, and the notebooks that rest on them
   (`TestPlan`, `Pipelining`, `ScalingTest`); `Registry` beside it.
7. Proofs: the refinement of `LabService`; `Certs`; every property of
   `Ec2Provider` that a run shows to hold; the report; TP-6 both ways; the test
   plan, the scaling cell and the registry; the lab.

Open: the composition of `Registry` with `Lab`, so that a manifest edited between
`start` and `targets()` changes what is checked; a theorem that two kernels on EC2
keep what they keep when they work on different names.
