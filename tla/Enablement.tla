----------------------------- MODULE Enablement -----------------------------
(***************************************************************************)
(* `vastde-orch enable` and `vastde-orch tenant enable`: enable_dataengine *)
(* (enablement/enable.py) with the steps it calls, from the preflight to   *)
(* the registration of the mTLS credential, the Kubernetes cluster and the *)
(* container registry, and the retry loop around these three calls.        *)
(*                                                                         *)
(* One operator runs the commands against one tenant and re-runs them when *)
(* they fail.  A run is a walk over Steps; it may stop between any two of  *)
(* them.  What a tenant holds on VMS is the set objs of kinds of objects:  *)
(* the lookups by name among several tenants are the matter of             *)
(* TenantLifecycle.  Time is counted in ticks and passes in the retry loop *)
(* alone, where the code measures it, and between two runs.                *)
(***************************************************************************)
EXTENDS Integers, Sequences, FiniteSets

CONSTANTS
  Initials,        \* what objs may hold when the operator starts
  Lacks,           \* what his YAML and environment may lack (sets of Needs)
  DryRuns,         \* whether he may also run --plan, and the command itself
  Doubled,         \* the kinds of which the tenant has a second object
  Overrides,       \* the kinds whose name the `tenant enable` YAML gives
  Durations,       \* the ticks an accepted setup-provisioning may take
  RequestTimes,    \* the ticks a call of the DataEngine API may take
  PoolsRequired,   \* whether VMS registers a Kubernetes cluster only when the
                   \* setup-provisioning named the pools of the tenant
  Timeout, InitialBackoff, MaxBackoff,   \* total_timeout_s, ... in ticks
  MaxRequest,      \* bound on RequestTimes
  MaxSlow,         \* bound on the provisionings that take more than Timeout
  MaxTrouble       \* bound on stopped runs, requests that fail, runs that lack
                   \* something and what others do in the web UI, together

Needs == {"password", "admin", "certs"}
\* What `tenant create` makes, and what enable adds to it.
CreatedKinds == {"tenant", "group", "user", "role", "manager", "pool", "policy"}
Kinds == CreatedKinds \union {"view", "default", "dead", "source"}

ASSUME ConstantsOK ==
  /\ Initials \subseteq SUBSET Kinds /\ Lacks \subseteq SUBSET Needs
  /\ {} \in Lacks /\ DryRuns \subseteq BOOLEAN
  /\ Doubled \subseteq Kinds /\ Overrides \subseteq Kinds
  /\ PoolsRequired \in BOOLEAN
  /\ Timeout \in Nat /\ InitialBackoff \in Nat \ {0} /\ MaxBackoff \in Nat \ {0}
  /\ InitialBackoff <= MaxBackoff
  /\ Durations \subseteq Nat /\ MaxRequest \in Nat /\ RequestTimes \subseteq 0..MaxRequest
  /\ {MaxSlow, MaxTrouble} \subseteq Nat

\* The steps of a run, in their order; only `tenant enable` has the first.
Steps ==
  <<"discover", "preflight", "tenant", "zarf", "package", "group", "user",
    "role", "manager", "pool", "policy", "view", "default", "dead", "source",
    "toggle", "mtls", "cluster", "registry", "attach">>
Calls == {"mtls", "cluster", "registry"}

\* The inotify limits; the namespace of zarf, and zarf when it is set up; the
\* three namespaces of VAST, and the package.
K8sParts == {"limits", "ns", "zarf", "spaces", "package"}

VARIABLES
  objs,      \* the kinds of objects the tenant has on VMS
  strays,    \* the group and the user, if made on the default provider
  perms,     \* whether the role has its permissions_list
  pw,        \* whether the manager's password is the one in the environment
  k8s,       \* what the Kubernetes bootstrap has left: see K8sParts
  engine,    \* DataEngine: on; left, the ticks until it is provisioned; bound,
             \* whether the group is in the policy that VMS makes with it
  creds,     \* the guids of the mTLS credentials
  cluster,   \* the guid the registered cluster refers to; 0 without a cluster
  cr,        \* the VastTenant resource: "none", "live" or "deleting"
  registry,  \* whether the container registry is registered
  lastGuid,
  run,       \* the command that runs, or ran last
  count      \* how much of MaxSlow and of MaxTrouble is used up

de == <<engine, creds, cluster, cr, registry, lastGuid>>
vms == <<objs, strays, perms, pw>>
world == <<vms, k8s, de>>
vars == <<world, run, count>>

Bounds == [slow |-> MaxSlow, trouble |-> MaxTrouble]
Use(b) == count[b] < Bounds[b] /\ count' = [count EXCEPT ![b] = @ + 1]

-----------------------------------------------------------------------------
(* Runs                                                                    *)

Smaller(a, b) == IF a < b THEN a ELSE b

NoRun == [cmd |-> "enable", dry |-> FALSE, lacks |-> {}, at |-> 0, elapsed |-> 0,
          backoff |-> InitialBackoff, guid |-> 0, made |-> FALSE,
          touched |-> FALSE, exit |-> "none"]

Idle == run.at = 0
At(s) == run.at > 0 /\ Steps[run.at] = s
HasAdmin == "admin" \notin run.lacks \/ (run.cmd = "tenant enable" /\ "manager" \in objs)

\* The next step of r, and the exit after the last; a retry loop starts anew.
Advanced(r) ==
  LET next == [r EXCEPT !.elapsed = 0, !.backoff = InitialBackoff] IN
  IF r.at = Len(Steps) THEN [next EXCEPT !.at = 0, !.exit = "ok"]
                       ELSE [next EXCEPT !.at = @ + 1]
Ended(r, code) == [r EXCEPT !.at = 0, !.elapsed = 0, !.exit = code]
Proceed == run' = Advanced(run)
Exit(code) == run' = Ended(run, code)

Start(cmd, dry, lacks) ==
  /\ Idle
  /\ run' = [NoRun EXCEPT !.cmd = cmd, !.dry = dry, !.lacks = lacks,
                          !.at = IF cmd = "tenant enable" THEN 1 ELSE 2]
  /\ IF dry \/ lacks # {} THEN Use("trouble") ELSE UNCHANGED count
  /\ UNCHANGED world

\* Ctrl-C, a lost connection or a reboot: the run ends where it is.
Crash == ~Idle /\ Use("trouble") /\ Exit("error") /\ UNCHANGED world

\* discover_tenant_state ends the run unless everything `tenant create` makes
\* is there, on the tenant's own provider, and is the only one or is named.
Discover ==
  /\ At("discover")
  /\ IF /\ CreatedKinds \ {"role", "manager"} \subseteq objs /\ strays = {}
        /\ Doubled \intersect {"group", "user", "pool"} \subseteq Overrides
       THEN Proceed ELSE Exit("error")
  /\ UNCHANGED <<world, count>>

\* run_preflight raises when VMS or a command line tool is missing: the run
\* then ends like a stopped one (Crash).
Preflight == At("preflight") /\ Proceed /\ UNCHANGED <<world, count>>

\* bootstrap_k8s: the limits, and `zarf init` only where there is no `zarf`
\* namespace.  `tenant enable` always skips both steps.
SkipsK8s == run.dry \/ run.cmd = "tenant enable"
ZarfInit ==
  /\ At("zarf") /\ Proceed
  /\ k8s' = IF SkipsK8s THEN k8s
            ELSE k8s \union {"limits"} \union IF "ns" \in k8s THEN {} ELSE {"ns", "zarf"}
  /\ UNCHANGED <<vms, de, count>>

\* `zarf init` has made its namespace and is cut short before it is done.
ZarfCut ==
  /\ At("zarf") /\ ~SkipsK8s /\ "ns" \notin k8s /\ Use("trouble")
  /\ k8s' = k8s \union {"limits", "ns"} /\ Exit("error")
  /\ UNCHANGED <<vms, de>>

\* ensure_vast_namespaces and `zarf package deploy`, which needs the registry
\* that `zarf init` sets up.
PackageDeploy ==
  /\ At("package")
  /\ IF SkipsK8s THEN Proceed /\ UNCHANGED k8s
     ELSE IF "zarf" \in k8s THEN Proceed /\ k8s' = k8s \union {"spaces", "package"}
     ELSE Exit("error") /\ k8s' = k8s \union {"spaces"}
  /\ UNCHANGED <<vms, de, count>>

-----------------------------------------------------------------------------
(* Steps 2 to 8: objects on VMS                                            *)

\* What VMS needs before it accepts the POST of a kind: the owner of a bucket
\* has to live on the tenant's own provider.
Accepted(k) ==
  CASE k \in {"view", "source"} -> "user" \notin strays
    [] OTHER -> TRUE

\* compose_enablement_spec has no source_views.
Skipped(k) == k = "source" /\ run.cmd = "tenant enable"

\* provision_identity calls ensure_group and ensure_user without a
\* local_provider_id: what they make is on the default provider.
OnDefaultProvider == {"group", "user"}

\* VmsClient.ensure by name.
EnsureStep(k) ==
  /\ At(k)
  /\ \/ /\ k \in objs \/ Skipped(k) \/ (run.dry /\ k # "tenant")
        /\ Proceed /\ UNCHANGED <<objs, strays>>
     \/ /\ k \notin objs /\ ~Skipped(k) /\ ~run.dry /\ Accepted(k) /\ Proceed
        /\ objs' = objs \union {k}
        /\ strays' = strays \union ({k} \intersect OnDefaultProvider)
     \/ /\ k \notin objs /\ ~Skipped(k) /\ IF run.dry THEN k = "tenant" ELSE ~Accepted(k)
        /\ Exit("error") /\ UNCHANGED <<objs, strays>>
  /\ UNCHANGED <<perms, pw, k8s, de, count>>

\* provision_tenant_admin, first half: without a password it raises.  The
\* permissions go out in a second request, whose failure is swallowed.
EnsureRole ==
  /\ At("role")
  /\ IF ~HasAdmin \/ run.dry THEN Proceed /\ UNCHANGED <<objs, perms, count>>
     ELSE IF "password" \in run.lacks THEN Exit("error") /\ UNCHANGED <<objs, perms, count>>
     ELSE /\ Proceed /\ objs' = objs \union {"role"}
          /\ \/ perms' = TRUE /\ UNCHANGED count
             \/ Use("trouble") /\ UNCHANGED perms
  /\ UNCHANGED <<strays, pw, k8s, de>>

\* Mutant: the password of a manager who is there already is left alone.
EnsureManagerOnce ==
  /\ At("manager") /\ Proceed
  /\ IF ~HasAdmin \/ run.dry THEN UNCHANGED <<objs, pw, count>>
     ELSE /\ objs' = objs \union {"manager"}
          /\ pw' = (pw \/ "manager" \notin objs) /\ UNCHANGED count
  /\ UNCHANGED <<strays, perms, k8s, de>>

\* Second half: a new manager gets the password with the POST, an old one by
\* set_manager_password, whose failure is swallowed too.
EnsureManager ==
  /\ At("manager") /\ Proceed
  /\ IF ~HasAdmin \/ run.dry THEN UNCHANGED <<objs, pw, count>>
     ELSE /\ objs' = objs \union {"manager"}
          /\ \/ pw' = TRUE /\ UNCHANGED count
             \/ "manager" \in objs /\ Use("trouble") /\ UNCHANGED pw
  /\ UNCHANGED <<strays, perms, k8s, de>>

\* Mutant: ensure_topic without the test of _dry_run.
EnsureTopicNoPlan(k) ==
  /\ At(k) /\ Proceed /\ objs' = objs \union {k}
  /\ UNCHANGED <<count, strays, perms, pw, k8s, de>>

\* A topic whose request fails is recorded in the plan, and the run goes on.
EnsureTopic(k) ==
  /\ At(k) /\ Proceed
  /\ IF run.dry THEN UNCHANGED <<objs, count>>
     ELSE \/ objs' = objs \union {k} /\ UNCHANGED count
          \/ k \notin objs /\ Use("trouble") /\ UNCHANGED objs
  /\ UNCHANGED <<strays, perms, pw, k8s, de>>

-----------------------------------------------------------------------------
(* Step 9: the toggle                                                      *)

CanLogin == "manager" \in objs /\ pw
MayToggle == ~run.dry /\ HasAdmin /\ "password" \notin run.lacks
\* The fields of the setup-provisioning POST.
SetupBody == {"kafka_broker", "default_topic_name", "dead_letter_topic_name", "tenant_id"}
SetupAccepted == CanLogin /\ perms /\ {"view", "default", "dead"} \subseteq objs

\* Mutant: the tenant is provisioned from nothing, its policy included.
ToggleFromNothing(d) ==
  /\ At("toggle") /\ MayToggle /\ SetupAccepted /\ Proceed
  /\ IF d > Timeout THEN Use("slow") ELSE UNCHANGED count
  /\ engine' = [on |-> TRUE, left |-> d, bound |-> FALSE]
  /\ UNCHANGED <<vms, k8s, creds, cluster, cr, registry, lastGuid>>

\* _toggle_dataengine_on_tenant: setup-provisioning is posted in every run,
\* also when DataEngine is on already, and provisions the tenant anew.  VMS
\* makes the group's policy with it.
Toggle(d) ==
  /\ At("toggle") /\ MayToggle /\ SetupAccepted /\ Proceed
  /\ IF d > Timeout THEN Use("slow") ELSE UNCHANGED count
  /\ engine' = [engine EXCEPT !.on = TRUE, !.left = d]
  /\ UNCHANGED <<vms, k8s, creds, cluster, cr, registry, lastGuid>>

\* No credentials, a login or a POST that fails: every one of them is recorded
\* as a manual step, and the run goes on.
ToggleSkipped ==
  /\ At("toggle") /\ Proceed
  /\ IF MayToggle /\ SetupAccepted THEN Use("trouble") ELSE UNCHANGED count
  /\ UNCHANGED world

-----------------------------------------------------------------------------
(* Step 9b: the three calls and their retry loop                           *)

SkipsCalls == run.dry \/ ~HasAdmin \/ {"password", "certs"} \intersect run.lacks # {}
SkipCall(c) == At(c) /\ SkipsCalls /\ Proceed /\ UNCHANGED <<world, count>>

\* Mutant: the credential is posted without a look at the list.
KnownNoMtls(c) ==
  CASE c = "mtls" -> FALSE
    [] c = "cluster" -> cluster # 0
    [] c = "registry" -> registry

\* The list by name, with the tenant's JWT.
Listed == CanLogin /\ perms /\ engine.on
Known(c) ==
  CASE c = "mtls" -> creds # {}
    [] c = "cluster" -> cluster # 0
    [] c = "registry" -> registry

\* VMS refuses every write with 503 while it provisions the tenant; then it
\* wants the references to exist, and a Kubernetes cluster without a VastTenant.
\* Whether it also wants the pools that the setup may name is left open: the
\* documents of the repository say both.
Busy == engine.left > 0
Grants(c) ==
  CASE c = "mtls" -> TRUE
    [] c = "cluster" -> /\ run.guid \in creds /\ cr = "none"
                        /\ PoolsRequired => "vip_pools" \in SetupBody
    [] c = "registry" -> cluster # 0

Later(t) == [engine EXCEPT !.left = @ - t]
Settled(e) == [e EXCEPT !.left = IF @ < 0 THEN 0 ELSE @]

\* register_de_*: the object is on the list already.
FindKnown(c, t) ==
  /\ At(c) /\ ~SkipsCalls /\ Listed /\ Known(c)
  /\ run' = [Advanced(run) EXCEPT
               !.guid = IF c = "mtls" THEN CHOOSE g \in creds : TRUE ELSE @]
  /\ engine' = Settled(Later(t))
  /\ UNCHANGED <<vms, k8s, creds, cluster, cr, registry, lastGuid, count>>

\* register_de_*: it is not, and VMS accepts the POST.
Register(c, t) ==
  /\ At(c) /\ ~SkipsCalls /\ Listed /\ ~Known(c) /\ ~Busy /\ Grants(c)
  /\ run' = [Advanced(run) EXCEPT !.made = TRUE,
               !.guid = IF c = "mtls" THEN lastGuid + 1 ELSE @]
  /\ engine' = Settled(Later(t))
  /\ lastGuid' = IF c = "mtls" THEN lastGuid + 1 ELSE lastGuid
  /\ creds' = IF c = "mtls" THEN creds \union {lastGuid + 1} ELSE creds
  /\ cluster' = IF c = "cluster" THEN run.guid ELSE cluster
  /\ cr' = IF c = "cluster" THEN "live" ELSE cr
  /\ registry' = (registry \/ c = "registry")
  /\ UNCHANGED <<vms, k8s, count>>

\* Mutant: recorded in the plan, as the toggle does.
CallFailsQuietly(c) ==
  /\ At(c) /\ ~SkipsCalls
  /\ ~Listed \/ (~Known(c) /\ ~Busy /\ ~Grants(c))
  /\ Proceed /\ UNCHANGED <<world, count>>

\* Everything but the 503 of setup-provisioning ends the run.
CallFails(c) ==
  /\ At(c) /\ ~SkipsCalls
  /\ ~Listed \/ (~Known(c) /\ ~Busy /\ ~Grants(c))
  /\ Exit("error") /\ UNCHANGED <<world, count>>


\* Mutant: no cap.
NextBackoffUncapped(b) == (3 * b) \div 2

\* _retry_on_setup_provisioning after a 503: sleep, but not past the deadline.
NextBackoff(b) == Smaller((3 * b) \div 2, MaxBackoff)
Pause(spent) == Smaller(run.backoff, Timeout - spent)

RefusedBusy(c) == At(c) /\ ~SkipsCalls /\ Listed /\ ~Known(c) /\ Busy

Wait(c, t) ==
  /\ RefusedBusy(c)
  /\ LET spent == run.elapsed + t
         pause == Pause(spent)
     IN  /\ spent < Timeout
         /\ run' = [run EXCEPT !.elapsed = spent + pause,
                               !.backoff = NextBackoff(run.backoff)]
         /\ engine' = Later(t + pause)
  /\ UNCHANGED <<vms, k8s, creds, cluster, cr, registry, lastGuid, count>>

\* Mutant: it gives up where the next sleep would not fit in the budget.
GiveUpEarly(c, t) ==
  /\ RefusedBusy(c) /\ run.elapsed + t + run.backoff >= Timeout
  /\ Exit("timeout") /\ engine' = Settled(Later(t))
  /\ UNCHANGED <<vms, k8s, creds, cluster, cr, registry, lastGuid, count>>

GiveUp(c, t) ==
  /\ RefusedBusy(c) /\ run.elapsed + t >= Timeout
  /\ Exit("timeout") /\ engine' = Settled(Later(t))
  /\ UNCHANGED <<vms, k8s, creds, cluster, cr, registry, lastGuid, count>>

Call(c) ==
  \/ SkipCall(c) \/ CallFails(c)
  \/ \E t \in RequestTimes :
       FindKnown(c, t) \/ Register(c, t) \/ Wait(c, t) \/ GiveUp(c, t)

\* Step 10: the policy's name is reserved.  VMS makes it with DataEngine and
\* lets its groups be patched; a POST of that name is refused, which is
\* swallowed.
AttachPolicy ==
  /\ At("attach") /\ Proceed
  /\ engine' = [engine EXCEPT !.bound = @ \/ (engine.on /\ ~run.dry)]
  /\ UNCHANGED <<vms, k8s, creds, cluster, cr, registry, lastGuid, count>>

-----------------------------------------------------------------------------
(* The others                                                              *)

Touched == run' = [run EXCEPT !.touched = TRUE]

\* DELETE /kubernetes-clusters/{guid}, which takes the credential along and
\* leaves the VastTenant to an operator that deletes it after a delay.
RemoveCluster ==
  /\ cluster # 0 /\ Use("trouble") /\ Touched
  /\ cluster' = 0 /\ creds' = creds \ {cluster} /\ cr' = "deleting"
  /\ UNCHANGED <<vms, k8s, engine, registry, lastGuid>>

\* remove-data-engine, which drops everything the tenant has registered.
RemoveEngine ==
  /\ engine.on /\ Use("trouble") /\ Touched
  /\ engine' = [on |-> FALSE, left |-> 0, bound |-> FALSE]
  /\ creds' = {} /\ cluster' = 0 /\ registry' = FALSE
  /\ cr' = IF cluster # 0 THEN "deleting" ELSE cr
  /\ UNCHANGED <<vms, k8s, lastGuid>>

ResourceGone == cr = "deleting" /\ cr' = "none"
                /\ UNCHANGED <<vms, k8s, engine, creds, cluster, registry, lastGuid, run, count>>

\* Somebody finishes by hand what a cut `zarf init` left.
RepairZarf == "ns" \in k8s /\ "zarf" \notin k8s /\ k8s' = k8s \union {"zarf"}
              /\ UNCHANGED <<vms, de, run, count>>

\* Between two runs: the operator rotates the password in his environment;
\* time passes.
RotatePassword ==
  /\ Idle /\ pw /\ "manager" \in objs /\ Use("trouble") /\ pw' = FALSE
  /\ UNCHANGED <<objs, strays, perms, k8s, de, run>>
TimePasses == Idle /\ engine.left > 0 /\ engine' = [engine EXCEPT !.left = 0]
              /\ UNCHANGED <<vms, k8s, creds, cluster, cr, registry, lastGuid, run, count>>

-----------------------------------------------------------------------------

Init ==
  /\ objs \in Initials /\ strays = {} /\ perms = ("role" \in objs) /\ pw = TRUE
  /\ k8s = {} /\ engine = [on |-> FALSE, left |-> 0, bound |-> FALSE]
  /\ creds = {} /\ cluster = 0 /\ cr = "none" /\ registry = FALSE /\ lastGuid = 0
  /\ run = NoRun /\ count = [b \in DOMAIN Bounds |-> 0]

Work ==
  \/ Discover \/ Preflight \/ ZarfInit \/ PackageDeploy
  \/ \E k \in {"tenant", "group", "user", "pool", "policy", "view", "source"} : EnsureStep(k)
  \/ EnsureRole \/ EnsureManager \/ \E k \in {"default", "dead"} : EnsureTopic(k)
  \/ (\E d \in Durations : Toggle(d)) \/ ToggleSkipped
  \/ (\E c \in Calls : Call(c)) \/ AttachPolicy

Commands == {"enable", "tenant enable"}
Next ==
  \/ \E cmd \in Commands, dry \in DryRuns, lacks \in Lacks : Start(cmd, dry, lacks)
  \/ Work \/ Crash \/ ZarfCut
  \/ RemoveCluster \/ RemoveEngine \/ ResourceGone
  \/ RotatePassword \/ RepairZarf \/ TimePasses

Spec == Init /\ [][Next]_vars
=============================================================================
