# FabFed in TLA+

FabFed (`src/`) is a Python program that reads a YAML *workflow* of nodes,
networks and services spread over several testbeds (FABRIC, Chameleon, Cloudlab,
SENSE, AWS, GCP, Janus), creates them in an order that respects the dependencies
between them, remembers what it created in a *session* file, and deletes it on
request. This directory is a specification of that program: TLA+ modules
translated from the Python source, model-checked with TLC on small instances,
and theorems checked with TLAPS for every value of the constants.

The program is a single thread per command. What makes it hard is not thread
interleaving but: the order in which creation events reach resources that wait
for them in other providers; provider calls that fail half-way, with the loops
going on and collecting the exceptions; an interrupt or a kill between any two
calls; the session file, which drifts from what exists in the testbeds over a
series of commands; and the configuration being edited in between.

## 1. Inventory

| Component | State it keeps | Operations | Interacts with |
|---|---|---|---|
| **Configuration parser, variables** (`util/parser.py`, `variable_evaluator.py`, `config_models.py`) | provider and resource configurations, references `{{ type.label.attr }}` | parse, substitute variables, collect references | dependency evaluator |
| **Dependency graph and order** (`util/resource_dependency_helper.py`) | map from a resource to the resources it needs; ordered list | `evaluate`, `order_resources` | called by the parser, again by the policy |
| **Stitching policy** (`policy/policy_helper.py`) | policy per provider, chosen stitch port per network | `find_stitch_port_for_network`, `handle_stitch_info`, `peer_layer3` | rewrites dependencies, re-orders resources |
| **Controller** (`controller/controller.py`) | ordered resources, providers | `init`, `plan`, `add`, `apply`, `destroy`, `get_states` | calls every provider; collects exceptions; receives saved states |
| **Layer 3 partition** (`controller/helper.py`) | IP range per network | `partition_layer3_config` | run in `Controller.init` |
| **Provider base class** (`provider/api/provider.py`) | `_added`, `_pending`, `_no_longer_pending`, `pending_internal`, `_failed`, `creation_details`, saved state | `validate_resource`, `add_resource`, `create_resource`, `wait_for_create_resource`, `delete_resource`, `on_created`, `get_state` | calls the concrete provider's `do_...` methods; publishes events |
| **Listener** (`controller/helper.py`) | the providers | `on_added`, `on_created`, `on_deleted` | delivers an event to its own provider first and to every other afterwards, synchronously |
| **DependencyResolver** (`provider/api/dependency_reslover.py`) | values collected for each dependency | `resolve_dependency`, `extract_values`, `check_if_internal_dependencies_resolved` | called by the provider base class |
| **Concrete providers** (`provider/fabric`, `chi`, `cloudlab`, `sense`, `aws`, `gcp`, `janus`, `dummy`) | slice, leases, experiment, service instances, VPC/gateway, routers | `do_validate/add/create/wait_for_create/delete_resource` | testbed APIs, with polling and retries; report instances with `on_created` |
| **State and session persistence** (`util/state.py`, `model/state.py`) | the session directory and its state file | `load_states`, `save_states`, `reconcile_states`, `destroy_session` | CLI and manager before and after the controller |
| **CLI** (`tools/fabfed.py`), **FabfedManager** (`fabfed_manager.py`) | — | `-validate`, `-init`, `-plan`, `-apply`, `-destroy`, `-show`, ... | controller and persistence; exit status |
| **SSH node tester** (`util/node_tester.py`) | list of nodes | `run_tests` | between the wait phase and the services |
| **Statistics and dumps** (`util/stats.py`, `util/state.py`) | durations | print and write | none that changes the rest |

What makes each component correct, and the behaviour that makes it hard:

* **order**: a dependency comes before what needs it; a cycle is refused, and
  only a cycle. The map is modified while the loop goes through it.
* **provider base class**: a resource is in one queue at a time, is added only
  with the values it needs, and is never lost silently. Queues are emptied into
  temporary lists whose members may be put back; a raise in the middle drops
  the rest of the list.
* **controller, create phase**: creation respects external and internal
  dependencies; exit status 0 means that everything was created; it ends.
  There are four loops (what other providers wait for, the rest, the
  wait calls, the services), each collecting its exceptions.
* **controller, destroy phase**: nothing is deleted while what needs it stays;
  what could not be deleted is remembered.
* **persistence**: the file never forgets what exists, never makes `-destroy`
  impossible, and is removed only when there is nothing left. Every command may
  be cut short, and the next one trusts the file.
* **stitching policy**: the port a network gets is the best of those on offer,
  both ends are told the same, and the one who waits is the consumer. The
  result rewrites the dependencies, which are ordered a second time.
* **layer 3 partition**: networks that share a range never share an address.
* **concrete providers**: one slice, lease, experiment, service instance, gateway
  or router is made once, adopted when it is there, waited for within
  limits, and a failure is not taken for a success. Each polls a remote state
  that may change between two polls, and meets what runs that were cut short
  have left behind.

The hazards found in the source, each with its line and the properties that
cover it, are listed in `PROJECT.json`.

## 2. Modules

| Module | What it is |
|---|---|
| `Workflow` | resources numbered in the order the controller goes through them, providers, kinds, counts, dependencies; external and internal dependencies. Constants and assumptions only. |
| `ResourceOrder` | `order_resources`, key by key, on any dependency map, cyclic ones included |
| `Policy` | the pure part of the stitching policy: `parse_policy`, the ports on offer between two types of providers, and the one that is found |
| `Stitching` | `Controller.init` on a parsed configuration: stitches, the second ordering, sites, layer 3 ranges, peerings, and the ports FABRIC builds from them |
| `CreationOrder` | abstract specification of the create phase: what is created may only rest on complete resources of other providers, and is never taken back |
| `Apply` | one `-apply` command: `Controller.add` and `apply`, the queues of the providers, the creation events, the exit status |
| `Session` | a series of `-apply` and `-destroy` commands over the session file, with crashes, interrupts, failures and edits of the configuration; `Controller.plan` and `destroy`, `reconcile_states`, `save_states` |
| `ProviderSession` | the same series as one provider sees it: variables and operations the next four extend |
| `FabricSlice` | the FABRIC provider over a series of commands: one slice for all its resources, built locally, submitted once, waited for, reported and deleted as a whole |
| `ChiLease` | the Chameleon provider: a lease for everything that has a name, with a subnet and a router, or a server |
| `CloudlabExperiment` | the Cloudlab provider: one experiment, read by its nodes, terminated and started again when counts change |
| `SenseInstance` | the Sense provider: a service instance found by its alias, made, provisioned, modified, cancelled |
| `AwsNetwork` | the AWS provider: gateway, attachment, route table and virtual interface of one network |
| `GcpNetwork` | the GCP provider: router, VLAN attachment and MD5 key, each an operation that ends in its own time |
| `MC...` | the small instances TLC checks, one for each module with a run but `ResourceOrder`, which has all its maps already |
| `..._proofs` | theorems and proofs about the module of that name; `Stitching_proofs` is about `ResourceOrder` and `Policy` as well, `CloudNetworks_proofs` about `AwsNetwork` and `GcpNetwork` |

`Apply` and `Session` extend `Workflow`. `Apply` implements `CreationOrder`
(property `CreatesInOrder`, theorem `Implements`), which is what allows `Session` to
take the create phase at that level: it creates a resource when the resources of
other providers it depends on are complete, and says nothing about phases and
queues. `Stitching` extends `Policy` and `ResourceOrder`: the variables of the order
are among those of `Controller.init`, which starts `order_resources` (`OrderInit'`)
and takes its steps (`OrderNext`) for the second ordering. `ChiLease`,
`CloudlabExperiment`, `SenseInstance`, `AwsNetwork` and `GcpNetwork` extend
`ProviderSession`: the first lines of `StartApply`, `EndApply`, `Die` and so on are
its operations. `FabricSlice` stands alone: it is what one provider sees of the
commands, with the queues of `Apply` reduced to sets and the other providers reduced
to what they release and need. Operators whose comment starts with "Variant of" are
not used by the specifications: each is a definition changed the way a plausible bug
would change it, and each property is shown to fail under one of them.

### Apply and the code

The program is deterministic once the workflow and the outcomes of the provider
calls are fixed, so a step is the code between two calls that may fail or
change queues, and `phase`, `cur` and `step` are the program counter.

| Code | In `Apply` |
|---|---|
| `Controller.add`: validation loop, add loop, one exception at the end of each | `Validate`, `Add`, `PlanFails`, `PlanInterrupted` |
| the loops of `Controller.apply` | `phase` (`first`, `rest`, `wait`, `test`, `service`), `Selected`, `Skip`, `EndPhase`, `PhaseRaises` |
| `Provider.add_resource` | `AddPending`, `AddParked`, `AddDone`, `AddRaises` |
| `Provider.create_resource`: draining `_no_longer_pending` | `EnterCreate`, `Drain`, `DrainFails`, `EndDrain` |
| ... and retrying `pending_internal` | `StartRetry`, `Retry`, `EndRetry` |
| `do_create_resource` / `do_wait_for_create_resource` | `MakeOne` (an instance is reported), `CallFails`, `EndCall`, `EnterWait` |
| `ControllerResourceListener.on_created` and `Provider.on_created` | `OnCreated`, one pending resource at a time; no other action is enabled before they have all heard (`heard`) |
| `DependencyResolver` | `got[r][d]`: how many values `r` has collected for its dependency on `d`; `Visible`, `Resolved`, `IntFull` |
| Ctrl-C | `Interrupt` |
| `get_counters`, saving and the exit status | `SomePending`, `SomeFailed`, `Save` |

Resource kinds matter only in that services are created last. `late` are the
dependencies read through an attribute that is empty until the instance is
created (an internal dependency on such an attribute parks the resource),
`blank` those read through an attribute that is never set, `async` the
resources whose provider reports instances from the wait call (FABRIC, Chameleon
nodes, Cloudlab) instead of the create call (Chameleon networks, SENSE, AWS, GCP,
Janus, the dummy's services).

### Session and the code

| Code | In `Session` |
|---|---|
| `Controller.plan` | `Planned`, `StartApply`: what is configured, and what has a state but is no longer configured |
| `Controller.apply`, at the level of `CreationOrder` | `Create`, `CreateFails`, `Drop` |
| `reconcile_state(s)`, `save_states` | `AllCreated`, `KeptState`, `Reconciled`, `EndApply`, `Crash` |
| `Controller.destroy`: state map, external states, backward loop, `skip_resources`, `remaining_resources`, what is left of the states | `MissingState`, `StartDestroy`, `Skip`, `Delete`, `DeleteFails`, `Stays`, `Remembered`, `EndDestroy`, `StopDestroy` |
| `destroy_session`; a destroy without a session, or with one that has no states | `NoFile`, `DestroyNothing` |

`cloud` is what exists in the testbeds, which the program sees only through
`saved`. A resource of the plan whose creation was not reached, by an exception in
an earlier loop or by an interrupt, stays in `todo`; `EndApply` saves what is
known. A plan or an add that fails saves nothing, which is `Crash` as far as the
file is concerned. `Drop` is what the Chameleon, FABRIC, Cloudlab, SENSE and
Janus providers do with a planned resource that has left the configuration.
`AllCreated` compares resource by resource where the code compares two sums over
the provider; the two agree because no resource has more instances than it asks
for (theorem `TypeCorrect`).

### ResourceOrder and the code

`deps` is what `ResourceDependencyEvaluator.evaluate` returned, `left` and
`waits` the map as the loop consumes it, `ordered` the list, `raised` the
exception. A `Take` is one turn of the loop. The definitions that `Stitching`
takes up are named `OrderInit`, `OrderNext`, `OrderSpec`.

### FabricSlice and the code

| Code | In `FabricSlice` |
|---|---|
| `fabric_slice_helper.init_slice`, `FabricProvider._init_slice`, `FabricSlice.init` | `InitFound`, `InitNew` (also when the look-up fails), `InitReplace`, `InitFails` |
| `FabricSlice.add_resource` | `AddToSlice`, called from `Add` during the plan and from `Drain` afterwards |
| `FabricSlice.create_resource` | `Refuse`, `HoldBack`, `KeyError`, `Unchanged`, `Submit` |
| `FabricSlice.wait_for_create_resource` | `ReportExisting`, `AlreadyReported`, `NetworkingFails`, `ReportNew`, `NewNetworkingFails`, `WaitFails` |
| `FabricSlice.delete_resource`, in the loop of `Controller.destroy` | `StartDestroy`, `Spare`, `Leave`, `Delete`, `EndDestroy`, `StopDestroy` |
| FABRIC itself (external) | `Settle`; `Accepted`: a slice is accepted unless one of that name exists |

A resource is one instance. What is built inside the slice (facility ports,
interfaces, addresses, routes) either works or raises. `slice.found` says
whether the local object stands for the slice that exists: the code takes any
exception of the look-up for a slice that is not there. Draining the queues is
one step, with any set of failures: `Apply` has its order in detail.

### Stitching and the code

| Code | In `Policy` and `Stitching` |
|---|---|
| `parse_policy`, with what FABRIC and the details file know of a port | `Refine`, `Known`, `Named`, `Effective`, `parse_policy` |
| `find_stitch_port_for_providers`, `peer_stitch_ports` | `Collected`, `Ranked`, `Distinct`, `Faces` |
| `find_stitch_port`, `find_stitch_port_for_network` | `ByOption`, `ByAttribute`, `Criteria`, `find_stitch_port`, `find_site`, `find_profile` |
| `handle_stitch_info`, `clean_up_port`, `Controller.init` | `Across`, `Found`, `clean_up_port`, `Chosen`, `Consumer`, `Seen`, `Stitch`, `NotFound`, `Evaluate`, `Reorder`, `EndOrder` |
| `fix_node_site`, `fix_network_site` | `NodeSites`, `StitchSite`, `FixSite` |
| `populate_layer3_config`, `partition_layer3_config` | `Whole`, `Part`, `Partition`, `NoSubnet` |
| labels and keys of peerings, `peer_layer3`, the network builder of FABRIC | `Label`, `Introduce`, `StitchOf`, `Keys`, `Build`, `Unmatched` |

A type of provider is a number, in the order in which Python sorts the names;
the attributes of a port are a function from names to values. Where the code
iterates over a Python set, the choice is nondeterministic (`find_site`, `Build`).
Lists that the code sorts or filters are functions of the place: `Sorted` is the
sequence of a finite set, each member at the place given by how many come before it, and
`Picked` is a sequence without the places that are left out. `Filled` is a range
with its defaults, `Turn` the place of a network among those of its layer 3
configuration.

What is assumed of a configuration is what the code makes sure of or what it does
not survive: `parse_policy` gives ports and groups the type they are listed under,
and each port a preference and a name (`WellFormed`); a stitch that is spelled out is
one between the types of its two networks (`WellFormedEntry`), with ports that have a
name or not, as in the example of `docs/workflow_design.md:366`; a resource refers to
earlier ones only; and a DHCP range has an address (`StitchingAssumption`).

A stitch found in the policy is cleaned up before the networks are told: the port
loses its preference and its groups, the peer its name as well. One that is spelled
out is taken as it stands. The assertion that only networks of different providers
are stitched is `Across`; a configuration that violates it fails (`NotFound`).

### The provider modules and the code

| Code | In the modules |
|---|---|
| a command begins, its resources are dealt with, it ends, it is killed | `Begins`, `Reached`, `Succeeds`, `Fails`, `SaveApply`, `SaveDestroy`, `Dies` of `ProviderSession` |
| `reconcile_states` for one provider | `Reconciled`, `SaveApply` |
| `Provider.modified`, the counts in the session file | `Modified`, `savedConfig` |
| `ChiProvider.do_create_resource`, `_compute_added_map` | `Create`, `StillPending`, `Computed`, `Deletes`, `Surplus` |
| `LeaseHelper`, `ChiNetwork`, `ChiNode` | `LeaseFound` ... `LeaseActive`, `Subnet` ... `Attach`, `Server`, `Up`, `Report`, `UnmakePart`, `UnmakeLease` |
| `CloudNetwork.create`, `wait_for_create`, `delete`, `CloudlabNode` | `StartExperiment`, `FindExperiment`, `NetworkReady`, `Terminate`, `Terminated`, `NodeRead`, `NodeReported` |
| `SenseNetwork.create`, `sense_utils`, `SenseNode` | `Find` ... `Provision`, `NetworkCreated`, `NodeFound`, `NodeCreated`, `DeleteCompiled`, `Cancel` ... `DeleteInstance` |
| `AwsNetwork.create`, `delete`, `aws_utils` | the actions of `Creates` and `Deletes`, in the order of the code |
| `GcpNetwork.create`, `delete`, `gcp_utils` | `FindVpc` ... `KeyRead`, `NoAttachment` ... `RouterDeleted`; `Waits` is `check_operation_result` |

A step is the code between two calls to the testbed; `step` is the program counter
(`stage` in `GcpNetwork`, where names that `AwsNetwork` has too begin with `Gcp`,
because `CloudNetworks_proofs` extends both). A command may be killed between any
two steps: at AWS, after the subnet has been taken from its table (`Disassociate`)
and before there is a new one (`CreateTable`). A poll loop is one action that is
enabled when the loop would end, plus the possibility to raise; that a wait times
out is `Raise` (`GivesUp` in `GcpNetwork`) wherever the code raises and an action of
its own where it goes on (Cloudlab, GCP). Actions of the testbed (`Chameleon`,
`Server`, `Works`, `Aws`, `OperationDone`) are external: they are what the code
waits for, and they go on between commands. `kept`, `twice`, `late`, `erred`,
`gaveUp` and `hidden` record that something has happened which the code does not
notice; no guard reads them, only the properties do.

## 3. Runs

Every property of a passing run has a mutant in `PROJECT.json`: a changed
definition under which TLC finds the property violated by the same configuration.

| Run | Instance | Shows |
|---|---|---|
| `apply` | 4 resources, 2 providers, every dependency graph and every spread (up to the symmetry of the providers), nodes and services, counts 1 and 2, late and blank attributes, both kinds of reporting | `TypeOK`, `ExternalFirst`, `AddedHasValues`, `OnePlace`, `LostIsReported`, `CleanExit`, `Terminates`, `CreatesInOrder` |
| `session` | 3 resources, one of them asked for twice; chain, fan-in, fan-out; three ways to spread them over up to three providers; four commands, crashes and edits | `StatesClosed`, `KeepsNeeded`, `RemovedWhenGone`, `Survives` |
| `session_leak` | the same, no crashes, no edits | `DestroyDeletes` is violated (finding 1) |
| `resource_order` | every one of the 65536 dependency maps on 4 keys | `Topological`, `RaisesIffCircular`, `Decides` |
| `fabric` | 3 resources in five layouts (one or two networks, nodes on them or not, pending or waited for by others, in both orders); three commands, edits, failures, interrupts, kills | `TypeOK`, `ReportedExists`, `MatchesConfig`, `KeepsConfigured` |
| `stitching` | two networks under 109 policies with every kind of wish; up to four networks around shared peerings and ranges | `TypeOK`, `ProducerFirst`, `Mirrored`, `BestOffer`, `EitherWay`, `DisjointRanges`, `PeeringOfStitch` |
| `stitching_preference` | the same | `HighestPreference` is violated (finding 2) |
| `chi` | a network and a second one, or up to two nodes; three commands, edits, leases that end | `TypeOK`, `LeavesNothing`, `Reported`, `Spares` |
| `cloudlab` | a network and its node; four commands, three configurations | `LeavesNothing`, `Reported`, `CommandEnds` |
| `sense` | a network and its node; three commands, three instances, two configurations | `OneInstance`, `Current` |
| `aws` | one network; six commands, three objects of each kind | `TypeOK`, `LeavesNothing`, `Ready` |
| `gcp` | one network; four commands, three attachments | `GcpLeavesNothing`, `Usable` |

The type invariants of `ResourceOrder`, `Session`, `CloudlabExperiment`, `GcpNetwork` and
`SenseInstance` are in no run: they are theorems (`TypeCorrect`, `OrderTypeCorrect`,
`GcpTypeCorrect`), for every instance.

What the properties of the passing runs say:

* `ExternalFirst` — whatever fails and in whichever order events arrive, a
  resource is handed to its provider only when every instance of its external
  dependencies exists. `AddedHasValues` — and with every value of them.
* `OnePlace` — the assertions at the top of `add_resource` never fire.
* `LostIsReported` — `create_resource` can drop resources from every queue, but
  then the command is bound to fail visibly.
* `CleanExit` — exit status 0 means that the states were saved and that everything was
  created, but for a node above a service, and for a resource whose chain of
  dependencies on its own provider has one that is read through late attributes or is
  overtaken in the list of parked resources.
* `CreatesInOrder` — the whole implements `CreationOrder`. `Terminates` — the
  command ends although resources are put back in the list being drained.
* `StatesClosed` — the unguarded lookup in `Controller.destroy` never raises
  `KeyError`, after any series of failed, interrupted and killed commands and
  edits of the configuration.
* `KeepsNeeded` — what could not be deleted keeps its external dependencies.
* `RemovedWhenGone` — the session directory is removed only when everything the
  file knew of, and the configuration lists, is gone.
* `Survives` — an apply that follows one that created something forgets nothing
  that exists.
* `Topological`, `RaisesIffCircular`, `Decides` — the list respects the
  dependencies, the exception is raised for a cycle and only for one, and one
  of the two happens.
* `ReportedExists` — a FABRIC resource is reported, and so remembered and handed to
  what depends on it, only if it is in the slice at FABRIC.
* `MatchesConfig` — after an apply that succeeds the slice is stable and holds
  exactly what is configured, whatever earlier commands left behind.
* `KeepsConfigured` — an apply takes nothing from a working slice that is still
  configured, although what has not been added when the request is built is
  removed from it.
* `ProducerFirst` — after the second ordering every consumer of a stitch comes
  after its producer, or the command fails. `Mirrored` — the two networks are
  told the same of their stitch, with the ends exchanged and each its own port first,
  and what they are told answers to an entry of `stitch_with`: the ports are a pair
  that the policy offers for the two types, in either direction and cleaned up, or
  what is spelled out as it stands; the consumer is the one offered with that pair;
  and what comes from the policy keeps its name at exactly one end, which is what
  `-stitch-info` prints. Nothing is said of the names in a stitch that is spelled out.
* `BestOffer` — against a reference definition in sets: the stitch is one the
  policy offers, the most important wish that can be met is met, and the best
  port that meets it is taken. It is about options that mean one thing (`Plainly`): not
  about one that names a group when its ports are in several groups, nor about one
  that fits both ports and groups (hazard at line 315).
  `EitherWay` — it does not matter which network says `stitch_with`.
* `DisjointRanges` — networks that share a layer 3 configuration never share an
  address or leave its range, for ranges as short as the networks are many.
* `PeeringOfStitch` — the port of a peering is that of its stitch, although the
  two are labelled by different passes, and the key is that of the other end,
  unless the network waits for another one of the same type (`lone`).
* `Ready` (AWS), `Usable` (GCP), `Current` (Sense), `Reported` (Cloudlab, Chameleon)
  — an apply reports only what is so in the testbed at that moment (ready, attached,
  up, of the configuration at hand), over series of commands cut short anywhere.
  `LeavesNothing`, `GcpLeavesNothing` — a destroy that succeeds leaves nothing of
  what it was about; for Sense it is part of `OneInstance`, with never more than one
  instance of the alias. Each names the exceptions the code has, and they are all
  there is (finding section, last list).
* `Spares` — an apply takes down nothing that is up and asked for, but a
  Chameleon network that is late.
* `CommandEnds` — every Cloudlab command ends, though one of its loops has no bound.

### Findings

Two statements of the documentation are refuted by a run:

1. **A destroy that succeeds leaves an instance** (`controller.py:468`, run
   `session_leak`). A failed apply leaves an instance and remembers only the
   failure; a second, interrupted apply replaces the file; destroy then has
   nothing to do.
2. **Not the highest preference** (`policy_helper.py:278`, run
   `stitching_preference`). Only the preferences on the side of the type of
   provider that is later in the alphabet are compared.

The following is visible in the models, as an exception a property names or as
an action; the repository does not say otherwise, or not in so many words:

* What other providers wait for is created in a first loop, before its own internal
  dependencies (`controller.py:312`); on destroy, only external dependencies
  of what could not be deleted are spared (line 465).
* Services come last; a node above one is never added or created, and the exit
  status is 0 (line 384). A parked resource is retried only as a side effect of
  draining another one, possibly after its turn (`provider.py:324`); and the list of
  parked resources is tried in the order in which they were parked, so that one
  may be tried, and parked again, before the one it needs is added (`Overtaken`: it takes
  seven resources, and was found by the proof of `CleanExitHolds`, not by a run).
  These are the exceptions of `CleanExit`.
* A FABRIC slice that was held back is waited for all the same
  (`fabric_slice.py:509`), and a look-up that fails counts as a slice that is not
  there, for a destroy as well (`fabric_slice_helper.py:130`): actions `WaitFails`,
  `InitNew` and `StartDestroy` of `FabricSlice`.
* Adding a network to a slice that keeps another one, and removing a node that
  no saved state mentions as long as the copy has networks, is a `KeyError` (lines 470
  and 438): action `KeyError`.
* Cloudlab's attempt counter never equals `CLOUDLAB_RETRY` (`cloudlab_network.py:133`):
  a wait that runs out of polls reports the network (`gaveUp`). An apply interrupted at
  the node leaves a file with a failed node only, which no destroy connects with
  the experiment.
* A GCP operation that ends in error counts as done (`gcp_utils.py:46`), and one
  that outlives its poll changes what the next command looked at (`erred`, `late`).
* An instance of Sense is created again when the answer is lost (`twice`); an
  old instance that could not be deleted is adopted and its counts replaced, so
  that it is never modified again (`kept`).
* A Chameleon network that was pending when `added_map` was computed is deleted
  by the next apply and not created again (`Spares`); a router found without its
  attachment is never attached (`kept` of `ChiLease`).
* AWS: a table that a destroy has cut from its subnet and not deleted is taken as it
  is (`cut`); a deleted interface that is still listed hides the one to delete
  (`NoVif`, `aws_utils.py:538`), which stays on a gateway that goes and is deleted
  by a later destroy instead of its own (`hidden`).

### Bounds

* *Apply*: two providers make every dependency internal or external; four
  resources are needed for a resource parked behind one and drained after
  another, and for a chain that crosses providers twice. With two instances a
  dependency is incomplete between its first and its last event. The three
  mixtures of kinds are not all combinations; they were chosen so that each
  phase has work, on both kinds of reporting, above and below a service.
* *Session*: four commands are the shortest series in which a file is written,
  replaced by one that knows less, read again, and acted upon. Three resources make
  a chain of skips, and the second instance a partial creation. More commands,
  resources or providers are covered by the theorems.
* *ResourceOrder*: four keys have cycles of every length up to four, with
  anything hanging above and below; the theorems cover every number of keys.
* *FabricSlice*: three commands are one to build a slice, one to be cut short
  or to change it, and one that finds the result. Three resources have a network, a
  node parked behind it and something that makes the request incomplete.
* *Stitching*: two types of providers with two ports and two groups each have every
  relation between preferences, membership and roles; type 1 sorts before FABRIC and
  type 3 after it, which the code tells apart. Four networks make a
  chain, a star and a circle of stitches, and two clouds of one type, one of which FABRIC
  waits for while the other waits for it (`Twofold`). A fourth type has no policy. Ranges
  of 2, 4 and 7 addresses are shorter than, as long as, and longer than what
  three or four networks need.
* *Providers*: three commands (Chameleon, Sense) are one that is cut short, one that
  finds what it left and is cut short again, and one that has to be right; GCP and
  Cloudlab have a fourth. AWS has six, the shortest series in which an interface
  that was left on a gateway is deleted in the place of another. `Ids` and `Keys`
  are one more than an apply needs after two that were cut short. Counts are told
  apart by `Configs` (2 or 3) and `MaxCount` = 2: more nodes, fewer nodes. The
  theorems cover every bound, of all providers.

### Deadlock and fairness

`Apply` is checked for deadlock; its end is the action `Terminated`. The
modules with `Commands` stop when that many commands have been run,
`ResourceOrder` when the loop is over and `Stitching` when `Controller.init` has
returned or raised, so deadlock is not checked there.

In `Apply` and `ResourceOrder` the only fairness is weak fairness of the whole
`Next`: the process keeps running and provider calls return, successfully or
not. No outcome is assumed to happen eventually: every call may fail and the
user may interrupt. `CloudlabExperiment` assumes weak fairness of `Program`,
the steps of the process (that a call raises, or a user interrupts, is not among
them), and of `Server`: Cloudlab ends what it has begun. The second is what the
unbounded loop of `cloudlab_network.py:182` relies on; without it
`CommandEnds` is false. The other modules have no liveness property: their waits have
limits and nothing obliges anybody to run another command.

## 4. Proofs

All theorems hold for every number of resources, every set of providers, every
workflow that satisfies `WorkflowAssumption` (dependencies point backwards,
which `TopologicalHolds` establishes; counts are positive; services are
reported from the create call), and any number of commands, instances and configurations.
Those about one provider hold for the resources its module has, a network (AWS, GCP), a
network and its node (Cloudlab, Sense), or a network and a second one or any number of nodes
(Chameleon), and for every number of objects in the testbed. What is assumed for
`Stitching` is in section 2.

* **`Stitching_proofs`**, about `ResourceOrder`: `OrderTypeCorrect`,
  `TopologicalHolds`, `RaisesIffCircularHolds`. The inductive invariant adds that a
  set of the map is what it was minus what has been placed (`WaitsInv`), that what
  is placed needs only placed resources (`Closed`), that no set of placed resources
  is circular (`PlacedAcyclic`), and that none is placed twice (`Once`).
  `PlacedAcyclic` is what avoids an induction over the list: a new element cannot
  close a cycle, since what it needs was placed before and needs nothing later.
  About `Stitching`: `StitchingTypeCorrect`, `ProducerFirstHolds`, `MirroredHolds`,
  `BestOfferHolds`, `EitherWayHolds`, `DisjointRangesHolds`, `PeeringOfStitchHolds`,
  for every configuration that satisfies `StitchingAssumption`. `Inv` says how far
  `Controller.init` has come (`Begun`), that both networks of a stitch know of it
  and that its consumer waits for its producer (`Stitched`), that the second order
  is that of the references with the stitches in them (`InOrder`, with the invariant
  of the order, reused through `OrderInit'` and `OrderNext`), which range each
  network has (`Allotted`), that the labels of a peering are the networks gone
  through (`Labelled`), and that a port rests on a stitch with those labels
  (`Wired`). `Mirrored` and `ProducerFirst` follow from `Stitched` and `InOrder`;
  that what the networks are told has the terms of an entry is the lemma `ChosenIs`,
  from the lemmas about what is found (those of `BestOffer`) and what is left of it
  (`CleanIs`); for `DisjointRanges` each network has a turn of its own, and the
  arithmetic of `Part` gives different turns different addresses. `BestOffer` and
  `EitherWay` are statements about operators, whose lists are sorted, thinned out,
  concatenated and paired. They are proved without an induction over the lists: a
  place in a sorted or filtered list is the number of members before it in a strict
  linear order (`SortedPlaces`), so that the list has exactly these members, in that
  order. Concatenation is the one fold; that it has the members of all its parts is
  proved by the least part for which it has not, with the well-founded order of the
  naturals. What is left is a chain of equalities of sets, from the ports of the
  policy to the offers of the property, and the first place at which a wish is met.
* **`Apply_proofs`**: `TypeCorrect`, `ExternalFirstHolds`, `AddedHasValuesHolds`,
  `OnePlaceHolds`, `LostIsReportedHolds`, `CleanExitHolds`, `Implements`.
  `ExternalFirst` is not inductive: a resource is added by the drain of a list it
  entered at an event long before. `IInv` follows it all the way: `CallInv` (what
  the controller works on is added when its instances are made), `QuietInv` (nothing
  is waiting to hear of an event outside a call), `CountInv` (a value collected is
  the value of an instance that exists) and `QueueInv` (what has left `pending` has
  all its external values). The refinement follows: `MakeOne` is a `Create` of
  `CreationOrder` because the resource was added, and everything else stutters.
  `AddedHasValues` needs that a collected value is not given up again (`Keeps`).
  `OnePlace` counts occurrences, which is hopeless step by step: `PlaceInv` says
  instead that no list has duplicates (`OnceInv`), that no resource is in two places
  (`AloneInv`), that queues hold resources of their own provider (`HomeInv`), that
  the temporary lists are empty outside their loops (`ListInv`) and that
  `Controller.add` gets to each resource once (`FreshInv`). With it `LostIsReported`
  follows: the loops overwrite only empty lists, and a second attempt that raises is
  counted, because a resource that still waits has no instance (`MadeInv`).
  `CleanExitHolds` is the longest of the proofs. It has to speak of runs in which
  nothing has gone wrong (`Clean`, which a step never restores) and in which every
  resource can still be created (`Hopeless`, which a step never takes back, is a
  resource that waits for one which can no longer be added: such a run ends with
  something pending or parked, hence not with 0). In what is left, `LiveInv` says
  that a resource is pending as long as something it waits for is missing and no
  longer, `OrderInv` that the lists of parked resources are sorted by their
  dependencies unless something is overtaken, and `TurnInv` that what has had its
  turn is created or excused. That a parked resource waits for one that is not added
  needs a least element of what it rests on; the well-founded order of the naturals
  provides it, without an induction over data. `Interrupt` resets `step`, and
  `CleanExit` has the exception of `Overtaken`, because the proof did not go through
  without them.
* **`Session_proofs`**: `TypeCorrect`, `StatesClosedHolds`, `KeepsNeededHolds`,
  `RemovedWhenGoneHolds`, `SurvivesHolds`. None of the invariants is inductive: what
  the file may lack depends on the run that wrote it. `IInv` adds what each command
  knows: what a run has begun rests on complete resources (`MadeInv`), the states of
  the file are closed under external dependencies, for what is configured and what
  is not (`FileInv`), between commands nothing is remembered outside the file
  (`IdleInv`), and in the loop of destroy what a resource needs is to come when it
  is reached and marked when it stays (`LoopInv`), while what the loop has passed is
  gone or stays because something failed (`GoneInv`). The reconciliation step is the
  hard one: it mixes states of two runs, and stays closed because a kept state
  brings along the kept or new states of what it needs.

* **`FabricSlice_proofs`**: `TypeCorrect`, `ReportedExistsHolds`,
  `MatchesConfigHolds`, `KeepsConfiguredHolds`, with nothing assumed of what earlier
  commands have left. The queues come first (`QInv`): what is listed is configured,
  the plan puts each resource in a queue where it stays unless something fails
  (`StartInv`), and what is parked misses a network (`ParkInv`). While nothing has
  failed, the local copy is what the slice had and what was added, and its flags say
  how it differs from FABRIC's (`SliceInv`); the last resource that could bring
  about the decision has made it when nothing is pending (`DecideInv`), and what was
  submitted will be waited for (`WaitInv`). `MatchesConfig` follows at the end of
  the loops. `KeepsConfigured` follows from what the decision needs: a request is
  built only when nothing has failed and nothing is pending, and then everything
  configured is in the local copy.
* **`CloudlabExperiment_proofs`**, **`SenseInstance_proofs`**: `TypeCorrect` of
  each; `ReportedHolds` and `CurrentHolds`; `LeavesNothingHolds` of the first and
  `OneInstanceHolds` of the second. The properties say what is so at the moment of a
  report, or at the end of a destroy; `IInv` says what is known at every step
  before. In `CloudlabExperiment` and `SenseInstance` that is, besides what the step
  has just found, `AgeInv`: as long as no command has left anything behind
  unrecorded, what exists was made for the counts of the file until it has been
  compared with the configuration, and for the configuration afterwards.
  `SenseInstance` also needs that a file which knows of the node knows of the
  network (`FileInv`), since a destroy that did not reach the network would leave
  the instance.
* **`CloudNetworks_proofs`**, about `AwsNetwork`: `TypeCorrect`,
  `LeavesNothingHolds`, `ReadyHolds`. Its objects are many and AWS changes them at
  any time, so the invariant says first how many of them there can be: one listed
  gateway, which is not deleted while attached (`GatewayInv`), one table with routes
  to it (`TableInv`), one interface on it (`VifInv`). `CreateInv` and `DeleteInv`
  say what each step of a create or a delete rests on. An interface that is not
  deleted is on a gateway that is listed (`StrayInv`), unless one has been `hidden`:
  without that condition `LeavesNothing` holds over four commands and not over six,
  which is how it came to be there. About `GcpNetwork`: `GcpTypeCorrect`,
  `UsableHolds`, `GcpLeavesNothingHolds`. `GcpIInv` says which operation each step
  awaits (`Await`) and what is there when it is done: a command that met no
  operation of an earlier one has at most its own under way.
* **`ChiLease_proofs`**: `TypeCorrect`, `LeavesNothingHolds`, `SparesHolds`,
  `ReportedHolds`. Leases come and go at Chameleon while a command works on others,
  so the argument is about single objects: a step changes one of them at most, in
  one of seven ways (`CloudStep`, `Change`), and while a command runs what is active
  stays so but for what a delete is about (`Grows`). `IInv` says which kind of
  resource each step is about (`StepInv`), that `added_map` lacks a resource only if
  it was computed for an earlier one (`CacheInv`), what create has found or made of
  the object at hand (`PartsInv`), that a router without attachment was left by an
  earlier command or is being made (`RouterInv`), that the nodes there are have
  numbers the session file or the configuration covers, unless a deletion was cut
  short (`CountInv`), and what a destroy has dealt with (`DestroyInv`). `CountInv`
  is what `Reported` needs: the surplus is computed from the saved count and not
  from what exists. `Spares` follows from `CacheInv`: a network is taken down in an
  apply only when it is the late one.

Only model-checked: the liveness properties `Terminates`, `Decides`
and `CommandEnds`, which are out of the prover's reach. Every other property of a
passing run is stated by a theorem, for every value of the constants.

## 5. Not modelled

* Parsing, variable substitution, printing, statistics, `-plan`'s output, ansible files.
* Values of attributes: only how many have been collected.
* Inside the providers: floating addresses, security groups and keys of Chameleon,
  interfaces and routes of FABRIC nodes, and the intent sent to Sense are calls that
  work or raise; functions of `aws_utils` and `gcp_utils` nobody calls are left out.
* `Session` creates and deletes resources one by one. Providers that handle all their
  resources as one unit have modules of their own, with one
  provider each: a destroy in which another provider needs what they have is in
  `FabricSlice` and `Session` only.
* The dummy and FABRIC providers may report an instance more than once, which
  `Apply` excludes.
* Two commands at once on one session, and removing a provider from the
  configuration: both are hazards without a property so far.
* Janus and the SSH tester beyond the outcome of the call: I/O. The provider
  factory, notebooks, examples and build files.

## 6. Plan

1. Done: `ResourceOrder`, `CreationOrder`, `Apply`, `Session`, with their theorems.
2. Done: `FabricSlice`, `Policy` and `Stitching`, `ProviderSession` and the modules of the
   five other testbeds, with theorems about all their properties but `CommandEnds`.
3. `Commands`: `-plan` and a second command on the same session, with the
   directory removed or replaced between two file operations.
4. A provider that is taken out of the configuration (`controller.py:41`), and instances
   reported more than once.

## 7. Running it

    tlc -workers 2 -config apply.cfg MCApply                # 1.0 million states, 120 s
    tlc -workers 2 -config session.cfg MCSession            # 0.9 million, 40 s
    tlc -workers 2 -config resource_order.cfg ResourceOrder
    tlc -workers 2 -config fabric.cfg MCFabricSlice         # 1.7 million, 130 s
    tlc -workers 2 -config stitching.cfg MCStitching        # 36 thousand, 20 s
    tlc -workers 2 -config chi.cfg MCChiLease               # 1.2 million, 70 s
    tlc -workers 2 -config cloudlab.cfg MCCloudlabExperiment  # 165 thousand, 20 s
    tlc -workers 2 -config sense.cfg MCSenseInstance        # 0.5 million, 20 s
    tlc -workers 2 -config aws.cfg MCAwsNetwork             # 2.1 million, 95 s
    tlc -workers 2 -config gcp.cfg MCGcpNetwork             # 12 thousand, 2 s
    tlapm SenseInstance_proofs.tla                          # and the other _proofs modules
