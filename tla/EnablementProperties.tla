------------------------ MODULE EnablementProperties ------------------------
(***************************************************************************)
(* What `enable` and `tenant enable` promise.                              *)
(***************************************************************************)
EXTENDS Enablement

Runs == [cmd : Commands, dry : BOOLEAN, lacks : SUBSET Needs, at : 0..Len(Steps),
         elapsed : Nat, backoff : Nat, guid : Nat, made : BOOLEAN,
         touched : BOOLEAN, exit : {"none", "ok", "error", "timeout"}]

WorldTyped ==
  /\ objs \in SUBSET Kinds /\ strays \in SUBSET {"group", "user"}
  /\ perms \in BOOLEAN /\ pw \in BOOLEAN /\ k8s \in SUBSET K8sParts
  /\ engine \in [on : BOOLEAN, left : Int, bound : BOOLEAN]
  /\ lastGuid \in Nat /\ creds \in SUBSET (1..lastGuid) /\ cluster \in 0..lastGuid
  /\ cr \in {"none", "live", "deleting"} /\ registry \in BOOLEAN
CountTyped == count \in [slow : 0..MaxSlow, trouble : 0..MaxTrouble]

\* The tenant holds kinds of objects, guids are those given out, a run is at a
\* step, and no bound is exceeded.
TypeOK == WorldTyped /\ run \in Runs /\ CountTyped

-----------------------------------------------------------------------------
(* Waiting for setup-provisioning                                          *)

\* _retry_on_setup_provisioning never sleeps past its deadline: every sleep is
\* min(backoff, remaining).
SleepsEndByDeadline == run.elapsed <= Timeout

BackoffCapped == run.backoff <= MaxBackoff

\* However long it has waited, a call asks again within one capped backoff (and
\* one request) of the moment the tenant is ready.
ReadinessNoticed == run.elapsed > 0 => engine.left > -(MaxBackoff + MaxRequest)

\* A run reports that provisioning "did not complete within 300s" only if it
\* did take that long, counted from the call's first attempt: there is an
\* attempt at the deadline itself, after the last, shortened, sleep.
TimeoutIsReal ==
  [][(run.exit # "timeout" /\ run'.exit = "timeout")
       => engine.left + run.elapsed > Timeout - MaxRequest]_vars

\* Every step brings a run nearer to its end: one that stays at its step is an
\* attempt of the retry loop, and uses up some of the 300 s, however small the
\* backoff is and however fast VMS refuses.
Nearer ==
  \/ run'.at = 0 \/ run'.at > run.at
  \/ run'.at = run.at /\ run.elapsed < run'.elapsed /\ run'.elapsed <= Timeout
RunsEnd == [][Work => Nearer]_vars

-----------------------------------------------------------------------------
(* What exit code 0 means                                                  *)

\* DataEngine is on, the group is in its policy, and registry, cluster and
\* credential are registered and refer to one another.
Delivered ==
  engine.on /\ engine.bound /\ registry /\ cluster \in creds /\ cr = "live"

\* Failures of the topics, the permissions, the password and the toggle itself
\* are swallowed.  Still, a run of a complete YAML that exits with 0 has
\* delivered, unless others took something away since it began; and if it
\* registered anything itself, the tenant is provisioned too.
EnableDelivers ==
  (run.exit = "ok" /\ ~run.dry /\ run.lacks = {} /\ ~run.touched)
    => Delivered /\ (run.made => ~Busy)

\* Runs that were stopped, retried or repeated do not pile up credentials, and
\* a registered cluster refers to the one there is (register_de_*: "Idempotent
\* by name"; the guid is kept from one call to the next).
OneOfEach ==
  /\ \A g, h \in creds : g = h
  /\ cluster # 0 => cluster \in creds

\* Nothing that a command does, of any run and at any step, takes away what is
\* delivered, the setup-provisioning that every run posts again included; others
\* in the web UI may.
DeliveryLasts ==
  [][(Delivered /\ ~RemoveCluster /\ ~RemoveEngine) => Delivered']_vars

\* A run with --plan changes nothing, neither on VMS nor on Kubernetes.
PlanWritesNothing == [][(Work /\ run.dry) => UNCHANGED world]_vars

-----------------------------------------------------------------------------
(* Progress                                                                *)

\* A command that runs takes its next step; while DataEngine is not delivered
\* the operator runs a complete YAML again; and the VastTenant operator does
\* delete.
Retry == ~Delivered /\ \E cmd \in Commands : Start(cmd, FALSE, {})
FairSpec == Spec /\ WF_vars(Work) /\ WF_vars(Retry) /\ WF_vars(ResourceGone)

\* What no re-run of `enable` repairs: the namespace of zarf without zarf.
ZarfStuck == "ns" \in k8s /\ "zarf" \notin k8s

\* Where the group and the user are on the tenant's own provider, and VMS does
\* not insist on the pools, re-running enable until it is done is enough,
\* whatever was left by stopped runs, swallowed failures, slow provisionings and
\* removals in the web UI; only a `zarf init` that was cut short stops it.
HasOwnUsers == {"group", "user"} \subseteq objs /\ strays = {}
EnableSettles ==
  ~PoolsRequired => ((~Delivered /\ HasOwnUsers) ~> (Delivered \/ ZarfStuck))

\* The same from a tenant that `enable` itself makes, with its group and user
\* (cli.py: "Stage A: enable DataEngine on the tenant").  It does not hold:
\* ensure_group and ensure_user leave out the provider of the tenant.
FreshSettles == ~Delivered ~> Delivered
=============================================================================
