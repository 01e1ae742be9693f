# vastde-orch in TLA+

`vastde-orch` is a command line tool that sets up tenants and VAST DataEngine
on a VAST cluster. It talks to the cluster's management system (VMS) over REST,
to a Kubernetes cluster through `kubectl` and `zarf`, and to the `vastde`
command line. It keeps no state of its own: every command reads what is there,
writes what is missing, and promises that it may be run again. The hard part is
therefore not in any one request but in what lies between them: a command is
twenty or more requests without a transaction, it may end after any of them,
and others write to the same cluster meanwhile.

This directory holds a model of that behaviour, what the model checker TLC
shows about it on small instances, and what the proof system TLAPS proves about
it for all of them. Paths below are relative to the package
`src/src/vastde_orch/` unless they start with `src/`.

## 1. Inventory

| Component | State it keeps or changes | Operations | Modelled in |
|---|---|---|---|
| Tenant bootstrap, `bootstrap/tenant.py` | objects of one tenant on VMS and the references between them | `create_tenant` (steps 1 to 10), `destroy_tenant` (9' to 0'), `_reap_local_provider` | `TenantLifecycle` |
| VMS client, `clients/vms.py` | none but a token of each tenant | `ensure` (GET, diff, POST or PATCH), `delete`, typed `ensure_*`, `register_de_*` on the DataEngine API | `TenantLifecycle`, `Enablement` |
| VIP pool planner, `vippool_planner.py` | none | claims per subnet, free ranges, availability, choice of a gap | `VipPlanner`, `VipSweep` |
| Step 6 of create, `bootstrap/tenant.py:192-260` | VIP pools on VMS | plan a range, look, write | `VipPools` |
| DataEngine enablement, `enablement/*.py` | broker view, topics, tenant admin, DataEngine, credential, cluster, registry | `enable_dataengine`, `_retry_on_setup_provisioning`, `_toggle_dataengine_on_tenant`, `disable_dataengine` | `Enablement` |
| Tenant auto-discovery, `bootstrap/tenant_enable.py` | none | `discover_tenant_state`, `compose_enablement_spec`, `tenant_enable` | `Enablement` |
| Kubernetes bootstrap and preflight, `enablement/k8s_bootstrap.py`, `preflight.py`, `clients/kube.py` | kernel limits, namespaces, zarf, the DataEngine package | `bootstrap_k8s`, `run_preflight` | `Enablement` |
| Reconciler and interactive apply, `reconciler.py`, `interactive/orchestrator.py`, `confirm.py` | the plan shown, the answers given | plan, confirm per resource type, plan again and apply | `InteractiveEnable`, `StageB` |
| Pipelines, `pipelines/*.py`, `clients/vastde_cli.py`, `docker.py`, `_shell.py` | triggers, functions, pipelines on a tenant; image tags; the configuration of `vastde` | `apply`, `status`, `destroy`, `function build` | `StageB` |
| YAML files of the wizard, `interactive/_yaml_emit.py` | a YAML file and its backups | rotate backups, write atomically | `WizardFiles` |
| Wizard, `interactive/wizard.py`, `sections/*.py`, `_prompts.py`, `_tty.py` | what it has composed | questions by section, answers file, validation | `WizardSession` |
| Configuration, `config/models.py`, `loader.py` | none | interpolate, validate; the cycle check of a flow | `WizardConfig` |
| Minimal configuration, `config/models_minimal.py` | none | field validation | no |
| Command line, `cli.py` | exit codes | one function per command | with the commands it starts |
| VMS probe of the wizard, `interactive/_vms_probe.py` | a cache | read-only lookups | no |
| `container_registry.py`, `auto_resources.py` | none | nothing calls them | no |

**How they interact.** `cli.py` builds a `VmsClient` (with `dry_run` for
`--plan`) and calls one of `create_tenant`, `destroy_tenant`, `tenant_enable`,
`enable_dataengine` or the pipeline functions. All of them are synchronous and
single-threaded. What is concurrent is the world: other operators, other
terminals, the VMS and DataEngine web UIs, editors, the asynchronous
provisioning that VMS does after `setup-provisioning`, the VastTenant operator
on Kubernetes. The components share state through VMS and Kubernetes, and
through the machine: the YAML file and its backups, docker's images, and the
one configuration of `vastde`: `enable` puts a broker view on a
tenant that `destroy` must not pull from under it, `create` makes the group and
the user on whose provider `enable` depends, and `tenant enable` discovers what
`create` left. The interactive commands call the same functions twice,
first with clients that only look; the wizard writes the file that all the
others load.

**What is hard, and what makes each component correct**

* *Tenant bootstrap.* VMS is addressed by kind and name over the whole cluster,
  so commands for two tenants may meet; every write of `create` may be the last
  one before a crash; the order of the deletes has to respect every reference
  VMS checks, from whatever half-built state; the local provider outlives its
  tenant and then blocks every later create. It is correct when exit code 0
  means that everything is built (or gone), re-running reaches that from every
  state, a re-run of what is done writes nothing, `--plan` never writes, nobody
  else's objects are touched and the cluster's default provider survives.
* *VIP pools.* The planner's loops are interval arithmetic with off-by-ones at
  every end; the plan is made from a list that is stale when the pool is
  written; the pools of others declare masks that have nothing to do with the
  subnet in question. It is correct when it finds exactly the gaps, plans only
  free ranges, keeps a range once chosen, and everybody gets a pool in the end.
* *Enablement.* Failures of a permission, a password, a topic and the toggle
  itself are swallowed; the three registrations meet 503s for minutes and are
  retried against a deadline; every run starts the provisioning again; the web
  UI may remove what an earlier call of the same run registered. It is correct
  when exit code 0 means that DataEngine is delivered, a time-out is reported
  only when there was one, nothing is registered twice, and re-running ends.
* *Interactive enable.* The plan that is shown and the plan that is applied are
  two plans with prompts of any length between them. It is correct when nothing
  is written of a type that was not approved, and a session ends in DataEngine.
* *Stage B.* Every subprocess may fail, and a listing that fails passes for an
  empty one; `vastde config init` sets the tenant for the whole machine; a tag
  is the hash of one moment, the image of another; a preview is repeated before
  it is applied. It is correct when exit code 0 means that the tenant of the YAML
  holds what the YAML says, and re-running gets there.
* *The wizard's files.* A chain of renames, each after a test, with nothing that
  makes them one; two wizards may run at once. It is correct when the newest
  version is always somewhere and whole.
* *The wizard and the models.* It validates with placeholders what the commands
  will load with values. It is correct when what it writes loads, and it refuses
  only what is wrong; Kahn's algorithm on edges as a multiset is the subtle part.

`PROJECT.json` lists the hazards, each at its line, with the properties that
cover it.

## 2. Modules and how they correspond to the code

`X` is the model, `XProperties` what it promises, `MCX` the definitions that
give its constants small values, `XProofs` the theorems.

**`TenantLifecycle`** (`TenantProperties`, `MCTenantOne`, `MCTenantTwo`,
`TenantProofs`). `objs`, `refs`, `perms` and `assigned` are
what VMS holds: objects with kind, name and holder; references that VMS
enforces (user to group, manager to role, group to policy, view to pool and
view policy); roles that have their permissions; and the tenants' assigned
groups. `run[p]` is the command of operator `p`: its place in `CreateSteps` or
`DestroySteps`, the phase (a GET, then perhaps a write), and the local
variables that survive from one request to a later one (`tenant_id`, the
provider's id, the tenant record as step 1 read it, the object and the list of
policies that the last GET returned). So one action is one request, and another
operator, a crash (`Stop`), a broker view that `enable` makes or somebody deletes
(`Enable`, `RemoveView`) or an edit in the web UI (`Edit`, unless `EditsAnytime`
keeps it between two commands of the same operator) may fall between any two;
`outside` remembers in whose running command one did. `EnsureLook`, `EnsurePost` and
`EnsurePatch` are `VmsClient.ensure`, with the fields each typed method lets it
patch; `DeleteLook` and `DeletePut` are `VmsClient.delete`; steps 8, 9, 9'/8'
and 0', which bypass both, are actions of their own.

**`VipPlanner`, `VipSweep`, `VipPools`** (`VipPoolProperties`, `MCVipSweep`,
`MCVipPools`, `VipSweepProofs`, `VipPoolProofs`). `VipPlanner` states what each
function of the planner returns, as sets of ranges. `VipSweep` is the
implementation of the central one, `free_ranges_in_subnet`: its two loops (merge
the claims, walk a cursor over them) as a state machine, one iteration per
action, shown to return exactly `VipPlanner!Gaps`. `VipPools` uses that
abstract definition in step 6 of `create`, where two operators plan, look and
write while the pools of others come and go. The abstract `Gaps` thus stands
between the loops and the concurrent protocol, and each side is checked and
proved against it.

**`Enablement`** (`EnablementProperties`, `MCEnablement`, `EnablementProofs`).
A run is a walk over `Steps`, the numbered steps of `enable_dataengine` with
the discovery of `tenant enable` in front. `run` holds the command, `--plan`,
what the YAML or the environment lacks, the local variables of the retry loop
(`elapsed`, `backoff`), and the credential's guid that is kept from one call to
the next. `objs` and `strays` are the tenant's objects and those of them that
sit on the wrong provider; `engine`, `creds`, `cluster`, `cr`, `registry` are
what VMS and Kubernetes hold of DataEngine; `k8s` is what the bootstrap left.
A step whose failure the code swallows has two outcomes, and so has one whose
failure ends the run. In the retry loop time is real: a request takes one of
`RequestTimes`, a sleep what the code sleeps, and provisioning gets on
meanwhile.

**`InteractiveEnable`** (`InteractiveProperties`, `MCInteractive`; its proofs are
the last section of `EnablementProofs`) extends
`Enablement`: `session` is what `run_interactive` keeps (its stage, the types its
plan shows, those approved) and `PlanStep` and `ApplyStep` are steps of
`Enablement!Work`, once with the client of a dry run and once with another. So
what is applied is decided by the same actions as in `enable_flow`, against a
cluster that others changed while the prompts were open.

**`StageB`** (`StageBProperties`, `MCStageB`, `StageBProofs`, `StageBDelivery`). `run[t]` is the
command in terminal `t`: the targets that are left, the items of the one in hand
(`ensure_pipeline` as a list of triggers, functions, the pipeline and its
deployment), the phase of the first item (look, check, build, tag, push,
write) and whether this `VastdeCli` has logged in. One action is one subprocess.
`held` and `running` are what the tenants hold, `login` is the tenant of the
machine, `local` and `tagged` are docker's images on it, `registry` those that
were pushed, and bodies and sources are revisions.
The fields after `ok` are history: they only record what others did to a run, for
the properties to say "unless".

**`WizardFiles`** (`WizardFileProperties`, `MCWizardFiles`, `WizardFileProofs`)
is the rotation and the atomic write, one call on the file system per action;
a test and the rename that relies on it are two actions. **`ConfigVersions`** is
the abstract file it implements: the newest version, and older ones. The
refinement mapping takes `vastde.yaml.bak.1` for the newest version while
`vastde.yaml` is away.

**`WizardConfig`, `WizardSession`** (`WizardSessionProperties`,
`MCWizardSession`, `WizardSessionProofs`). `WizardConfig` has the validators, Kahn's algorithm, the
interpolation of variables and what the commands make of a file, as operators;
`WizardSession` composes a configuration answer by answer, one builder of a
section per action, from prompts or from an answers file, and writes it if the
validators accept it with placeholders. A text of the configuration, a name
included, may be a reference to a variable (`References`), in any field; the names
of the variables for the credentials are typed freely, and one that is no name of
a variable gives a text in braces that is never replaced (`Malformed`).

The bound-by-bound constants (`MaxFaults`, `MaxFlips`, `MaxOutside`,
`MaxStops`, `MaxSlow`, `MaxTrouble`, `MaxVersions`, `MaxOdd`) limit how often the environment
misbehaves, and `MaxPipelines`, `MaxTriggers`, `MaxFunctions` and `MaxEdges` how
long the lists of a wizard get. They are guards, so that the theorems hold for
every value of them.

**What is taken as given about VMS and Kubernetes**, from how the code uses
them and from `src/docs/vms-endpoints-reference.md`, `src/docs/vms-api-full-catalog.md`
and `src/KNOWN_ISSUES.md`, marked external in `PROJECT.json`: VMS refuses to
delete what is referred to and a tenant that holds anything; it makes a local
provider with a tenant and does not delete it with the tenant; it refuses names
and addresses that are taken; the owner of a bucket must be of the tenant's
provider; writes are refused with 503 while provisioning goes on and reads are
not; the policy `data-engine-<tenant>` comes and goes with DataEngine and its
name is reserved; removing a cluster takes its credential along and leaves its
VastTenant to be deleted later; `zarf init` makes its namespace before it is
done, and a package needs a finished zarf. The `vastde` command line creates
only what is not there and updates, deploys and deletes only what is, on the
tenant it was last configured for. Where the repository's documents disagree
with the code or with one another the fact is a constant: what VMS calls the
provider (`ProviderName`), whether it registers a cluster after a setup without
`vip_pools` (`PoolsRequired`), whether `vastde` takes a body from `--file-input -`
(`TakesFileInput`). A rename replaces its target and is
atomic, and a call on a file that is gone raises `FileNotFoundError`.

## 3. Runs

| Run | Distinct states | Question | Answer |
|---|---|---|---|
| `tenant_one` | 324 438 | What do the exit codes of create and destroy mean, whatever earlier runs left and whoever edits or makes a view meanwhile; does `--plan` write, does what is built last, does re-running reach the goal? | all nine properties hold |
| `tenant_two` | 210 196 | Do two operators with YAML files of their own disturb each other, although all lookups are by name? | no |
| `tenant_race` | 63 264 | Do two creates of the same YAML end? | yes, with the tenant built |
| `vip_sweep` | 157 929 | Do the two loops find the gaps, for every sorted list of up to three claims in a subnet of eight? | yes |
| `vip_pools` | 25 427 | Is a planned range free, kept on a re-run, refused only after a race; does everybody get a pool? | yes |
| `enable_flow` | 333 600 | What do exit code 0 and the time-out of enable mean; is anything registered twice; does re-running end, and leave alone what is delivered? | all seven properties hold, where VMS does not insist on the pools |
| `interactive_enable` | 493 569 | Is what an interactive session writes what was approved; does it get anywhere? | yes, unless others take something away between plan and apply |
| `stage_b` | 405 511 | What do exit code 0, a preview, a login and a content hash mean, subprocess by subprocess; does applying again end? | all six properties hold, where `vastde` takes the bodies |
| `wizard_files` | 451 633 | What of the file and its backups survives kills, editors and a second wizard? | all that `ConfigVersions` promises, as long as no two write together; a kill costs one backup |
| `wizard_session` | 864 793 | Does what the wizard writes load, and does it refuse only what is wrong, with variables in any field; is the cycle check right, for every flow of up to three edges? | yes, once the variables have fitting values |
| `enable_fresh` | violated | Does `enable` get anywhere on a tenant it made itself? | no: its users are on the default provider |
| `destroy_elsewhere` | violated | Does `destroy` delete on the tenant of its YAML only? | no: it never logs in |

What each property says is written above it in the `*Properties` modules.

**Bounds, and why they are enough.** A command's steps are all modelled, so
bounds concern only the environment.

* `tenant_one` allows three faults, three changes of mind, dry runs among the real
  ones, and an edit or a broker view at any moment: enough to create, cut a destroy
  short, come back to either command over the remains, and have the ground moved
  under it. The provider is called `provider-tenant`, as `src/README.md:527` reports;
  in `tenant_two` one operator's tenant has the name of the default provider. Two
  operators are enough where pairs of requests race; `TenantProofs` has any number.
* In the VIP runs a subnet has eight addresses, six of them hosts: three claims
  can then overlap, touch, hold one another, stick out at either end and leave
  gaps of one address; the pools of others lie across the border to a second
  subnet and declare twice its size.
* `EnableFlow.cfg` has the time-outs of the code itself (300 s, 2 s, 1.5, 15 s): a
  tick is 1/32 s, with which every back-off from 2 s up to the cap is a whole
  number, and provisioning takes 60 s, exactly 300 s or 330 s. Two troubles of any
  kind, and one slow provisioning, may fall anywhere. `Interactive.cfg` coarsens
  the time (a time-out of four ticks), since its questions are about the two
  plans, and allows three troubles: a session needs one to be cut, one to lose an
  object and one to be refused.
* `stage_b` has two terminals with a tenant each, two pipelines of which both
  YAML files list one, and two troubles. A command of the second terminal
  takes one trouble, and so does a listing that fails, a cut run or an edit: a
  wrong login, a stale preview or a tag with another content takes one, and two
  of these, or a cut run and an edit after it, take both.
* `wizard_files` keeps three backups, as the code does (`_yaml_emit.py:18`), with
  five versions in all, so that the oldest is dropped, two kills and two wizards.
  `WizardFileProofs` has no bounds.
* `wizard_session` has two variables, which the placeholder makes alike, a name of
  none, and every flow of up to three edges over three names that trigger and
  functions share, two of them variables: duplicates, self-loops and cycles of two
  and three are among them. Environments give each variable no value, a blank, a
  secret or any name of the pipeline, that of another variable included. One
  section is answered oddly, next to usual answers elsewhere, since the validators look at one section at a time but for the
  cluster's name, and there is one pipeline, since they look at each by itself.
  `WizardSessionProofs` has no bounds.

`vip_sweep`, `wizard_files` and `wizard_session` switch deadlock checking off: the function returns, the versions are used up, the wizard ends.

**Fairness.** `WF(Work)`: a command that was started takes its next step, since
it is one thread that waits for nobody but, at a prompt, for its operator.
`SF(Retry)` for the tenant commands and `apply` (`WF` for the VIP step and for
enable): an operator whose command did not exit with 0, or whose goal is not
reached, runs it again; this is what the documentation tells him to do, and
without it no command promises anything. `SF` is needed where his terminal may be
taken by other commands in between. In `interactive_enable` prompts are answered,
now and then by `yes`, and the operator opens another session as long as
DataEngine is not delivered. `WF(ResourceGone)`: the VastTenant operator does
delete what is being deleted. Nobody is assumed to finish a `zarf init` that was
cut short: `EnableSettles` and `ApprovalSettles` name the state it leaves
(`ZarfStuck`) as the other end. Nothing is assumed about crashes, edits, rotations
and removals but that they are finitely many. The violated run that is about liveness
(`enable_fresh`) states the same fairness.

## 4. Findings

The two violated runs are disagreements between the code and what a comment or
document of the repository says, which `PROJECT.json` quotes.

* `enable_fresh`: `enable` makes group and users on the default provider, so that
  on a tenant it made itself the broker view is refused on every run.
* `destroy_elsewhere`: `destroy` calls no listing and so never logs in.

Four more are in the models, as exceptions and conditions of what passes:

* The preflight of `tenant destroy` looks once for broker views that would "block
  the view-policy deletes" (`tenant.py:487`); `enable` may make the view before or
  while the operator of destroy confirms, and the deletes stop halfway. That, and
  a view on a policy the preflight does not look at, are all that blocks them
  (`Unforeseen` in `OrderRespectsReferences`).
* `tenant destroy`, cut between its last two DELETEs and run again, looks for a
  provider with the tenant's name (`tenant.py:615`), where VMS gives
  `provider-<tenant>` (`src/README.md:218`, `:526-527`), and exits with 0; the next
  create meets the 400. What is left to promise is in `DestroyCompletes` and, as
  `Lost`, in `DestroyConverges`.
* The body of `setup-provisioning` has no `vip_pools` (`enable.py:489-494`).
  `src/README.md:515` and `src/docs/vms-api-full-catalog.md:125` say that the cluster
  is then never registered; the catalog itself calls the field optional at `:903`
  and has VAST pick a default at `:20`. Hence the constant `PoolsRequired`. Where
  it is `TRUE` nothing is ever delivered (`WithoutPoolsNeverDelivered`), and the
  liveness of `enable_flow` and `interactive_enable`, where it is `FALSE`, says so.
* `src/KNOWN_ISSUES.md:195-224` reports that both `vastde` versions tried reject
  `--file-input`, so that no create or update of an `apply` succeeds
  (`src/docs/stage-b-prd.md:32` promises that it does). Hence the constant
  `TakesFileInput`. Where it is `FALSE` nothing is ever in place
  (`RejectedIsNeverInPlace`); `stage_b`, where it is `TRUE`, shows the protocol that
  the code is written for, and `ApplySettles` says so.

Met on the way beside these:

Tenants and VIP pools.

* `destroy` refuses while a broker view is on the tenant only if the view uses
  one of the YAML's policies (`tenant.py:490`).
* What is reported as free is not where a pool declares a wider mask than the
  subnet in question (`vippool_planner.py:56`).
* `ensure_group` finds a group by name over the whole cluster and patches
  nothing, so `create` adopts a group of the same name on another tenant's
  provider and exits with 0 (`tenant.py:106`: "We MUST use this id"). This is why
  the isolation theorem needs disjoint names.
* Step 6 keeps only `ip_ranges[0]` of a pool that is there; a pool somebody
  extended loses its other ranges on the next create, which prints "range
  preserved" (`tenant.py:221-225`).

Enablement.

* `enable` does not repair a `zarf init` that was cut short: the namespace counts
  as installed (`k8s_bootstrap.py:46`), and no re-run gets past it.
* `enable --plan` and `enable -i` of a tenant that does not exist end in a
  `LookupError` (`enable.py:53`), since that lookup is `get_or_raise` where the
  later ones are `get_or_placeholder`.
* `disable` sends a DELETE that `src/docs/vms-endpoints-reference.md` says is
  answered with 405, swallows the answer and exits with 0 (`enable.py:162-173`).
* Every run of enable starts the provisioning again, so a tenant that always
  needs more than 300 s is never registered by re-running. `MaxSlow` bounds it.
* In an interactive session nothing is applied until all types are approved
  (`src/docs/manual-testing.md`, 7b, has `yes` apply that type and move on); the
  permissions of a role and the Kubernetes bootstrap are on no plan and are
  written all the same; "nothing to change" never comes, since a dry run always
  lists the toggle.

Stage B.

* A `destroy` that was cut short cannot be completed by running it again: the
  deletes are not idempotent, and the first object that is gone ends it
  (`vastde_cli.py:35`: "Thin idempotent layer").
* `no` at the prompt of `apply -i` skips that pipeline (`cli.py:268-270`);
  `confirm.py:6` says "abort the run".
* `apply` deploys again and reports "deployed" even where nothing changed, a
  drift of a description or an alias is never applied, images under a tag of the
  YAML are never built again, and what is dropped from the YAML is never removed.
* `apply --plan` runs `vastde config init` all the same, and thereby moves the
  machine to another tenant under a command in another terminal.

Wizard and configuration.

* The wizard validates with one placeholder for all variables. It refuses two names
  of a pipeline that are different variables, and addresses given as one; and it
  accepts an edge between two variables of which it cannot know that they name
  something of the pipeline.
* A name typed for the variable of a credential that is none (`vms_token`, say) is
  written as `${vms_token}`, is replaced by neither the wizard nor the loader
  (`loader.py:27`), and is then itself the token (`vms_section.py:19-31`).
* The wizard offers the policy `custom`, which the models then refuse, since it
  asks for no statements (`enablement_section.py:150-155`).
* `--non-interactive` and `VASTDE_NO_INTERACTIVE` make `require_tty` return, and
  the wizard prompts anyway (`cli.py:483-484`: "do not prompt";
  `src/docs/manual-testing.md:145`: "still errors").
* A kill, or a write that fails, after the last rename leaves no `vastde.yaml`
  but only `vastde.yaml.bak.1`, and perhaps a temporary file.
* `vms.tenant` and `enablement.tenant.name` are never compared.

## 5. Proofs

TLAPS proves, without a bound on any constant. Every inductive invariant below
was first checked by TLC on an instance of its component, and several of its
parts were found there.

**Tenants.**

* `TenantProofs`, first part: `TypeCorrect`, `DefaultProviderIsKept`, `DryRunsWriteNothing`.
  That the default provider survives is not inductive: `Safe` adds that a command
  about to reap a provider holds an id other than 1 (found two requests earlier,
  perhaps by name), and that what any other delete or patch is about to write to
  is no provider. Dry runs need the invariant too: a dry run is never in a phase
  that writes, since the writing actions do not look at `plan_mode` themselves.
* `TenantProofs`, second part: `StaysApart` and `Isolation`, under the assumption
  `DisjointNames` alone. The strengthening is `KeptApart`: ids are given out
  once, both ends of a reference belong to one operator, and so does everything
  a command keeps in its variables, ids included; an id that a variable holds
  may be out of date, but it was never anybody else's. `tenant_two` checks both.
* `TenantProofs`, third part: what the exit codes mean. `CreateLeavesAll`,
  `CreateGivesPermissions`, `DestroyLeavesNothing`, `RerunsWriteNothing` and
  `OrderIsSound`. `Sane` joins `Safe` and `KeptApart` to
  what holds of VMS at any time: references are live and of the known kinds,
  every object is somebody's, there is one object of each name at home on the
  tenant of that name and at most one local provider, views are held by their policy. On
  top of it, a create knows that what its steps behind were about is made, on its
  tenant; a destroy that what it has passed is gone; and what a command that
  ended with 0 knew is remembered until something of it is undone.
  Broker views may come and go at any moment, also under a destroy that is past
  its preflight. Edits by hand may not: these theorems assume, beside
  `DisjointNames`, that an operator edits only between his own commands
  (`EditsBetween`); an edit under a running command is in `tenant_one`.
  `DestroyLeavesNothing` holds whatever the provider is called, but promises the
  provider's end only to a run that found the tenant, or where the names are
  alike. `OrderIsSound` excepts views that came while the command ran or that use
  a policy the preflight does not look at (`Unforeseen`), and assumes that nobody
  moved an object onto another operator's tenant by hand (`NoStrays`): the destroy
  of that tenant would meet an object it does not know.
* `TenantProofs`, `WhatIsBuiltLasts`: what a create has built lasts, under
  `DisjointNames` and `EditsBetween`. The steps of other operators keep to what is theirs
  (`ReachSlice`); a create run again is never about to write over what is built
  (`PutUnbuilt`, which gives `RerunsWriteNothing` too), so its permissions PATCH is
  all it sends; a dry run is in no phase that writes. What is left is a real
  destroy of one's own, or an edit of one's own objects.

**VIP pools.**

* `VipSweepProofs`: `SweepFindsGaps`. `LoopInv` is the pair of loop invariants:
  the merged list covers what the claims so far cover and leaves a host between
  any two of its ranges (`MergeInv`); the free list covers exactly what lies
  below the cursor and is not claimed (`SweepInv`). A list of separated ranges
  that covers a set consists of its maximal ranges, which gives the set `Gaps`.
* `VipPoolProofs`: `VipTypeCorrect`, `ChoicesFit`, `OverlapMeansRace`,
  `ReportsAreTrue`, `RerunsKeepRange`. `IInv` adds that pools on VMS do not meet
  and that a planned range meets none of the pools the step read; cutting claims
  to the subnet does not change its gaps. `RInv` is for the re-run: one pool of
  each name, and a finished step remembers its pool, so that the next one finds
  the range and not a gap.

**Enablement.**

* `EnablementProofs`: `EnableTypeCorrect`, `WaitsAreBounded`, `NoDuplicates`,
  `NoFalseTimeout`, `PlansWriteNothing`. `IInv` adds the cap on the back-off to
  the bound on the sleeps: readiness is noticed in time because the sleep before
  was no longer than the cap and the tenant was not ready before that sleep.
* `ZeroMeansDelivered`. `DInv` says what an undisturbed run of a complete YAML
  knows once it is past each call: DataEngine is on, there is a cluster, there is
  a registry. That a cluster has its VastTenant, and that what a run registered
  leaves the tenant provisioned, are parts of it as well; that the cluster refers
  to the one credential is part of `IInv`.
* `RunsComeToAnEnd` and `NothingDeliveredIsLost`: the parts of `EnableSettles` that
  need no fairness, for every time-out and backoff. A run moves along its 20 steps,
  or uses up some of the budget of the call in hand, which takes an invariant of
  its own: the backoff never gets to 0 (`Awake`). And no command takes away what
  is delivered: each call finds what is there, and only the web UI deletes.
* `FreshIsNeverDelivered`, where the operator starts from a tenant without a user
  (`WithoutUser`; `MCFresh` of the run `enable_fresh` is the case of an empty
  cluster): the finding holds of every behaviour. `Refused` says that a user, once
  there, is on the default provider, so that the view and with it the setup of
  DataEngine are refused. `WithoutPoolsNeverDelivered` is the same for
  `PoolsRequired`: there is never a cluster (`NoCluster`).
* `OnlyTheApproved`, of the interactive sessions. `SInv` says which run belongs to
  which stage and, as long as nobody takes anything away, that the plan has what
  all steps behind it would change now and, during the real run, that the
  approved types are those of all steps ahead of it (`Foreseen`). Two facts carry
  it: a step writes no more than a plan made at that moment would say
  (`StepEffects`), and what a plan would say of the steps ahead can only shrink
  (`ChangesShrink`) but for the manager, whose password a plan mentions only once
  there is a manager: no step before his own makes one.
* `SessionsDeliver`: `DInv` holds of sessions as well, so that what exit code 0
  means of a plain run it means of the real run of a session.

**Stage B.**

* `StageBProofs`: `AppliesHome`, for any terminals, tenants, YAML files and
  commands. `HomeInv` says of every run that, once it has logged in and nobody
  has since logged in elsewhere, the machine's login is its tenant; and that it
  writes or deploys only after it has logged in. The latter is the hard part:
  `pipelines deploy` does no listing itself, so the proof has to know that the
  item before a deployment is always one that looked (`Chained`), along the
  lists that every command is made of, previews included.
  `RejectedIsNeverInPlace`, where `TakesFileInput` is `FALSE`: nothing is ever
  held on any tenant (`NothingHeld`), since only `Write` puts anything there.
* `StageBDelivery`: `PushedIsHashed`, `AppliesDeliver`, `DestroysDone`,
  `ShownThenDone`. `WorkInv` has the types, where each run is in the list of its
  command (`Shape`) and, between hash and push, what the images hold (`Stamped`).
  `AwareInv` is about a run that nobody has disturbed: each object of its targets
  is still to come, was refused, is in hand, or is done for good (`Owes`); a
  preview foresees what will be written (`Foresees`); and what the item in hand
  has looked up is still so, its image in the registry (`Midway`). Every step of
  the system is either the run's own, or leaves what the run knows as it is, or
  counts as a disturbance (`moved`, `robbed`, `stale`).

**The wizard.**

* `WizardFileProofs`: `FilesStaySound`, `VersionsAreKept`, `OneLostPerKill`, for
  any number of backups and of wizards. `VersionsAreKept` is the refinement of
  `ConfigVersions`. `FilesSound` is inductive as it stands: what a lone run has
  found is as it found it (`AtWork`), in particular the place it renames to is
  free. The refinement needs only this and that the newest version is where the
  mapping says. `Counts`, for `OneLostPerKill`, adds that the backups are among
  the last versions replaced and that a gap among them, or a loss, is owed to a
  kill or to the rotation under way.
* `WizardSessionProofs`: `WrittenFilesLoad`, for variables in any text and any
  bounds on the lists. `WInv` says that the `vms` section names a token or a user
  and a password, never a mixture, and that what is written has been found valid
  with placeholders; `AInv` says what each prompt lets through, stage by stage, so
  that the written file is `Complete`. The models look at a text only to ask
  whether it is blank and, in a pipeline, which names are alike. So section by
  section a configuration is accepted with the values if it was with the
  placeholders and what is required has a value (`CredentialsFit`, `RegistryFits`,
  `BrokerFits`), and a pipeline if the values tell its names apart where the
  placeholders did: Kahn's algorithm then takes the same course, since by
  `KahnIsRight` it depends on whether an order exists, and orders carry over.
* `WizardSessionProofs`, second part: `CyclesAreFound` and `RefusalsHaveCause`,
  for all bounds on pipelines, triggers, functions and edges. `KahnIsRight` is about the function
  `KahnAfter` that stands for the loop: after every turn the in-degree of a
  function is the number of its edges that come from functions not yet taken, the
  queue holds those without one, and the taken ones have a rank that the edges
  among them follow (`KahnInv`). A turn keeps it (`KahnTurn`), which is where the
  code subtracts once per edge; as many turns as there are functions empty the
  queue (`KahnEnds`); what is then not taken is a set of functions of which each
  has a predecessor in the set, so that no rank can exist. The induction over the
  turns is by the least turn for which it fails (`LeastNumber`), which comes from
  the well-foundedness of inclusion among finite sets, a fact of the library that
  takes a set where its induction theorems take an operator. What `_build_pipeline` proposes of distinct names is a chain, and so has an order
  (`ProposedValid`).

The assumptions are those on the constants (`ConstantsOK`, `SweepConstants`,
`StageBConstants`, `WizardAnswers` and the like), which the runs evaluate, and
those named above, each of which some run meets. The type
invariants (`TypeCorrect`, `VipTypeCorrect`, `EnableTypeCorrect`), `StaysApart` and
`RunsComeToAnEnd` state properties that no run lists, since they are proved.

Every safety property and every action property of a passing run is thus stated
by a theorem. Only model-checked: everything under fairness (`CreateConverges`,
`DestroyConverges`, `RaceConverges`, `PoolsSettle`, `EnableSettles`,
`ApprovalSettles`, `ApplySettles`), which is out of the prover's reach, and
`destroy_elsewhere`; of `enable_fresh` `FreshIsNeverDelivered` says more than the run. Of `EnableSettles` the theorems have the two
halves that are not about fairness: that runs end and that what is delivered lasts.

## 6. Not modelled, and why

* Step 10 of `create` (`AllowAllTabular`, opt-in): the same two requests as step
  9 over another policy. `dataengine_policy.group` as an override of the group.
* Fields nothing else depends on: quotas, protocols, gids. A drift in them is
  one more PATCH of the kind modelled. `create` and `enable` disagree over a
  pool's domain name and the admin role's name and PATCH them back and forth.
* The Kafka broker: its toggle is "not yet implemented" (`enable.py:473-478`).
* `config/models_minimal.py`: validation field by field of the tenant
  subcommands' YAML. The names it yields are constants of the models.
* `interactive/_vms_probe.py`: read-only lookups that offer choices to the
  operator; whatever is chosen is an answer in `WizardSession`.
* The rendering of YAML, tables and diffs, colours, terminal detection beyond
  `require_tty`; the parsing of what subprocesses print.
* `container_registry.py`, `auto_resources.py`, which nothing calls, and the
  sample functions and scripts.

## 7. How the project grew, and what is left

In this order: `TenantLifecycle` with its proofs, since everything else
works on what it builds; the VIP pools, bottom up; `Enablement`, which composes
discovery, the Kubernetes bootstrap, the flow and the DataEngine API; on top of
it `InteractiveEnable`; then `StageB`, the wizard's files with their abstract
specification, and the wizard's session with the models.

Left, in order of worth:

1. A composition of `TenantLifecycle` and `Enablement` for one tenant: a destroy
   between two steps of an enable and the other way round, which the broker view
   of `TenantLifecycle` and the removals of `Enablement` only sketch.
2. The minimal configuration, as far as two of its fields depend on each other.

## 8. Running it

    tlc -config TenantOne.cfg MCTenantOne     # and so on, as PROJECT.json pairs them
    tlapm TenantProofs.tla

Every property of a passing run has a mutant in `PROJECT.json`: a definition with
a plausible bug, under which TLC finds that property violated. The mutants'
definitions stand just before the ones they replace.
