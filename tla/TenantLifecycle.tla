--------------------------- MODULE TenantLifecycle ---------------------------
(***************************************************************************)
(* `vastde-orch tenant create` and `tenant destroy`: bootstrap/tenant.py   *)
(* over the get-then-write layer of clients/vms.py, against one VMS        *)
(* cluster.                                                                *)
(*                                                                         *)
(* Every operator p runs commands from one YAML file.  A command is a walk *)
(* over a fixed list of steps, and a step is one GET (phase "look") and at *)
(* most one POST, PATCH or DELETE (phase "put"), so that another command,  *)
(* or a crash, may fall between any two requests.                          *)
(*                                                                         *)
(* The cluster is a set of objects.  An object is its kind, its name and   *)
(* the id of the tenant (or, for groups and users, of the local provider)  *)
(* that holds it.  A tenant and the local provider VMS makes for it share  *)
(* one number here; id 1 is the cluster's default provider.                *)
(***************************************************************************)
EXTENDS Naturals, Sequences

CONSTANTS
  Operators,       \* the people or jobs that run commands, one YAML file each
  NameOf,          \* NameOf[p][kind]: the name p's YAML gives the object
  ProviderName,    \* ProviderName[p]: the name VMS gives the tenant's provider
  DefaultProviderName,
  HasPool,         \* the operators whose YAML has a vip_pool section
  BrokerPolicies,  \* which view policies `enable` may put the broker view on
  None,            \* no object
  Goals,           \* what operators may want at the start
  DryRuns,         \* whether they may also run --plan, and the command itself
  MaxFaults,       \* bound on crashes and on requests that fail
  MaxFlips,        \* bound on the changes of an operator's mind
  EditedKinds,     \* the kinds of objects that somebody edits in the web UI
  EditsAnytime,    \* whether they do so while a command of p runs, too
  MaxOutside       \* bound on those edits and on the broker views, together

\* The objects of the YAML file, and the local provider of the tenant.
YamlKinds ==
  {"tenant", "group", "user", "role", "manager", "vippool", "nfs", "s3",
   "policy", "view"}
Kinds == YamlKinds \union {"provider"}

Names == {NameOf[p][k] : p \in Operators, k \in YamlKinds}
           \union {ProviderName[p] : p \in Operators}
           \union {DefaultProviderName}
Objects == [owner : Nat, kind : Kinds, name : Names]

ASSUME ConstantsOK ==
  /\ HasPool \subseteq Operators
  /\ BrokerPolicies \subseteq {"s3", "other"}
  /\ None \notin Objects
  /\ Goals \subseteq {"create", "destroy"} /\ DryRuns \subseteq BOOLEAN
  /\ MaxFaults \in Nat /\ MaxFlips \in Nat /\ MaxOutside \in Nat
  /\ EditsAnytime \in BOOLEAN
  /\ EditedKinds \subseteq {"tenant", "vippool", "nfs", "s3", "user", "manager", "group", "role"}

\* Mutants: the group is bound before its policy is made; the role is deleted
\* before the manager who has it.
CreateStepsBindFirst ==
  <<"tenant", "group", "user", "role", "manager", "vippool", "nfs", "s3",
    "assign", "bind", "policy">>
DestroyStepsRoleFirst ==
  <<"preflight", "unbind", "policy", "s3", "nfs", "vippool", "role",
    "manager", "user", "group", "tenant", "provider">>

\* The steps of create_tenant and of destroy_tenant, in the order they run.
CreateSteps ==
  <<"tenant", "group", "user", "role", "manager", "vippool", "nfs", "s3",
    "assign", "policy", "bind">>
DestroySteps ==
  <<"preflight", "unbind", "policy", "s3", "nfs", "vippool", "manager",
    "role", "user", "group", "tenant", "provider">>
Steps == [create |-> CreateSteps, destroy |-> DestroySteps]
LastStep(cmd) == Len(Steps[cmd])

Ensured == {"tenant", "group", "user", "role", "manager", "vippool", "nfs", "s3",
            "policy"}
Deleted == {"policy", "s3", "nfs", "vippool", "manager", "role", "user", "group",
            "tenant"}

VARIABLES
  objs,      \* the objects on the cluster
  refs,      \* <<a, b>>: object a refers to object b
  perms,     \* the roles whose permissions_list is the standard one
  assigned,  \* <<id, name>>: tenant id's application_users_group_name
  lastId,    \* the last tenant id VMS gave out
  run,       \* run[p]: the command p is running, or ran last
  goal,      \* goal[p]: what p wants of the tenant
  faults, flips,
  outside    \* edits and broker views so far; the operators in whose running
             \* command one of either fell

cluster == <<objs, refs, perms, assigned, lastId>>
vars == <<cluster, run, goal, faults, flips, outside>>

-----------------------------------------------------------------------------
(* Objects                                                                 *)

Obj(k, n, id) == [owner |-> id, kind |-> k, name |-> n]
DefaultProvider == Obj("provider", DefaultProviderName, 1)

\* Mutant: the first object of the kind, whatever its name.
NamedAnyName(p, k) == {o \in objs : o.kind = k}

\* VMS looks objects up by kind and name alone: the GET of `ensure` and of
\* `delete` does not say which tenant is meant.
Named(p, k) == {o \in objs : o.kind = k /\ o.name = NameOf[p][k]}

\* Only the s3policies lookup of create keeps to the tenant.
FoundByCreate(p, k) ==
  {o \in Named(p, k) : k = "policy" => o.owner = run[p].tid}

HolderKind(k) == IF k \in {"group", "user"} THEN "provider" ELSE "tenant"
HolderLives(k, id) == \E h \in objs : h.kind = HolderKind(k) /\ h.owner = id

\* What a user (leading_group) or a manager (roles) of p has to refer to.
Targets(p, k) == {g \in Named(p, "group") : k = "user"}
                   \union {r \in {run[p].ref} : k = "manager"}

\* VMS refuses to delete what another object refers to, and a tenant that
\* still holds anything but its provider.
InUse(o) ==
  \/ \E x \in objs : <<x, o>> \in refs
  \/ /\ o.kind = "tenant"
     /\ \E x \in objs : x.owner = o.owner /\ x.kind \notin {"tenant", "provider"}

\* The drift that _drift finds after patchable_fields has been applied: the
\* tenant_id of a pool or a view policy, the leading_group of a user and the
\* roles of a manager.
OwnerPatched == {"vippool", "nfs", "s3"}
RefsPatched == {"user", "manager"}
Drifted(p, k, o) ==
  \/ k \in OwnerPatched /\ o.owner # run[p].tid
  \/ k \in RefsPatched /\ \E g \in Targets(p, k) : <<o, g>> \notin refs

-----------------------------------------------------------------------------
(* Commands                                                                *)

\* What a command keeps in its local variables: tenant_id and
\* tenant_provider_id; whether the tenant record, as step 1 read it, already
\* named the group; the role, later the policy, that the next step refers to;
\* the object the last GET returned; the s3_policies_ids about to be written.
NoRun == [cmd |-> "create", dry |-> FALSE, phase |-> "idle", at |-> 1,
          tid |-> 0, pid |-> 0, seen |-> FALSE, ref |-> None, got |-> None,
          ids |-> {}, exit |-> "none"]

Idle(p) == run[p].phase = "idle"
AtStep(p, cmd, k, phase) ==
  /\ run[p].cmd = cmd /\ run[p].phase = phase
  /\ Steps[cmd][run[p].at] = k

Ended(r, code) == [NoRun EXCEPT !.cmd = r.cmd, !.dry = r.dry, !.exit = code]

Stepped(r) == IF r.at = LastStep(r.cmd)
                THEN Ended(r, "ok")
                ELSE [r EXCEPT !.at = @ + 1, !.phase = "look", !.got = None,
                               !.ids = {}]
Become(p, r) == run' = [run EXCEPT ![p] = r]
Advance(p) == Become(p, Stepped(run[p]))
ToPut(p, o) == Become(p, [run[p] EXCEPT !.phase = "put", !.got = o])
Fail(p, code) == Become(p, Ended(run[p], code)) /\ UNCHANGED cluster

Init ==
  /\ objs \in {{DefaultProvider}} \union
                {{DefaultProvider, Obj("tenant", NameOf[p]["tenant"], 1)} :
                   p \in Operators}
  /\ refs = {} /\ perms = {} /\ assigned = {}
  /\ lastId = 1
  /\ run = [p \in Operators |-> NoRun]
  /\ goal \in [Operators -> Goals]
  /\ faults = 0 /\ flips = 0
  /\ outside = [used |-> 0, edited |-> {}, viewed |-> {}]

\* The operator starts the command for the goal, or its --plan.
Start(p, dry) ==
  /\ Idle(p)
  /\ Become(p, [NoRun EXCEPT !.cmd = goal[p], !.dry = dry, !.phase = "look"])
  /\ outside' = [outside EXCEPT !.edited = @ \ {p}, !.viewed = @ \ {p}]
  /\ UNCHANGED <<cluster, goal, faults, flips>>

\* Between two commands the operator may decide otherwise.
ChangeGoal(p) ==
  /\ Idle(p)
  /\ flips < MaxFlips
  /\ flips' = flips + 1
  /\ goal' = [goal EXCEPT ![p] = IF @ = "create" THEN "destroy" ELSE "create"]
  /\ UNCHANGED <<cluster, run, faults, outside>>

\* The command ends between two requests: a crash, an exception out of a
\* request, or one of the sys.exit calls (no password, no free range).
Stop(p) ==
  /\ ~Idle(p)
  /\ faults < MaxFaults
  /\ faults' = faults + 1
  /\ Become(p, Ended(run[p], "stopped"))
  /\ UNCHANGED <<cluster, goal, flips, outside>>

-----------------------------------------------------------------------------
(* VmsClient.ensure, as create_tenant calls it                             *)

\* Mutant: the permissions go to a role that was just created only.
AfterEnsureNewRole(r, k, o) ==
  IF k = "tenant"
    THEN [r EXCEPT !.phase = "record", !.tid = IF o = None THEN 0 ELSE o.owner,
                   !.got = None]
  ELSE IF k = "role" /\ r.phase = "put"
    THEN [r EXCEPT !.phase = "perms", !.ref = o, !.got = None]
  ELSE IF k \in {"role", "policy"} THEN [Stepped(r) EXCEPT !.ref = o]
  ELSE Stepped(r)

\* GET by name; nothing to write when the object is there without drift, and
\* in a dry run.  The tenant step goes on to read the record again, the role
\* step to apply the permissions.
AfterEnsure(r, k, o) ==
  IF k = "tenant"
    THEN [r EXCEPT !.phase = "record", !.tid = IF o = None THEN 0 ELSE o.owner,
                   !.got = None]
  ELSE IF k = "role"
    THEN IF r.dry THEN [Stepped(r) EXCEPT !.ref = o]
                  ELSE [r EXCEPT !.phase = "perms", !.ref = o, !.got = None]
  ELSE IF k = "policy" THEN [Stepped(r) EXCEPT !.ref = o]
  ELSE Stepped(r)

\* Mutant: POST without the GET.
EnsureLookBlind(p, k) ==
  /\ k \in Ensured
  /\ AtStep(p, "create", k, "look")
  /\ k = "vippool" => p \in HasPool
  /\ IF run[p].dry THEN Become(p, AfterEnsure(run[p], k, None)) ELSE ToPut(p, None)
  /\ UNCHANGED <<cluster, goal, faults, flips, outside>>

EnsureLook(p, k) ==
  /\ k \in Ensured
  /\ AtStep(p, "create", k, "look")
  /\ k = "vippool" => p \in HasPool
  /\ \/ /\ FoundByCreate(p, k) = {}
        /\ IF run[p].dry THEN Become(p, AfterEnsure(run[p], k, None))
                         ELSE ToPut(p, None)
     \/ \E o \in FoundByCreate(p, k) :
           IF Drifted(p, k, o) /\ ~run[p].dry
             THEN ToPut(p, o)
             ELSE Become(p, AfterEnsure(run[p], k, o))
  /\ UNCHANGED <<cluster, goal, faults, flips, outside>>

\* POST /tenants/: VMS makes the local provider with it, and answers 400 when
\* the name of either is taken.
TenantPost(p) ==
  /\ AtStep(p, "create", "tenant", "put")
  /\ IF \E o \in objs : \/ o.kind = "tenant" /\ o.name = NameOf[p]["tenant"]
                        \/ o.kind = "provider" /\ o.name = ProviderName[p]
       THEN Fail(p, "exists")
       ELSE LET t == Obj("tenant", NameOf[p]["tenant"], lastId + 1) IN
            /\ objs' = objs \union {t, Obj("provider", ProviderName[p], lastId + 1)}
            /\ lastId' = lastId + 1
            /\ Become(p, AfterEnsure(run[p], "tenant", t))
            /\ UNCHANGED <<refs, perms, assigned>>
  /\ UNCHANGED <<goal, faults, flips, outside>>

\* Step 1 reads the tenant record again, for the local provider's id and for
\* application_users_group_name as it is at this moment.
TenantRecord(p) ==
  /\ AtStep(p, "create", "tenant", "record")
  /\ \/ /\ Named(p, "tenant") = {}
        /\ IF run[p].dry THEN Advance(p) /\ UNCHANGED cluster ELSE Fail(p, "gone")
     \/ \E t \in Named(p, "tenant") :
          /\ Become(p, [Stepped(run[p]) EXCEPT
                          !.tid = IF @ # 0 THEN @ ELSE t.owner,
                          !.pid = t.owner,
                          !.seen = <<t.owner, NameOf[p]["group"]>> \in assigned])
          /\ UNCHANGED cluster
  /\ UNCHANGED <<goal, faults, flips, outside>>

\* POST of anything below the tenant.
EnsurePost(p, k) ==
  LET id == IF HolderKind(k) = "provider" THEN run[p].pid ELSE run[p].tid
      o == Obj(k, NameOf[p][k], id) IN
  /\ k \in Ensured \ {"tenant"}
  /\ AtStep(p, "create", k, "put")
  /\ run[p].got = None
  /\ \/ o \in objs /\ Fail(p, "exists")
     \/ /\ ~HolderLives(k, id) \/ ~(Targets(p, k) \subseteq objs)
        /\ Fail(p, "gone")
     \/ /\ o \notin objs /\ HolderLives(k, id) /\ Targets(p, k) \subseteq objs
        /\ objs' = objs \union {o}
        /\ refs' = refs \union ({o} \X Targets(p, k))
        /\ Become(p, AfterEnsure(run[p], k, o))
        /\ UNCHANGED <<perms, assigned, lastId>>
  /\ UNCHANGED <<goal, faults, flips, outside>>

\* PATCH of the drifted fields.
EnsurePatch(p, k) ==
  LET o == run[p].got
      n == IF k \in OwnerPatched THEN Obj(k, NameOf[p][k], run[p].tid) ELSE o
      Moved(x) == IF x = o THEN n ELSE x
      kept == {r \in refs : ~(k \in RefsPatched /\ r[1] = o)} IN
  /\ k \in Ensured \ {"tenant"}
  /\ AtStep(p, "create", k, "put")
  /\ o # None
  /\ \/ /\ o \notin objs \/ ~HolderLives(k, n.owner) \/ ~(Targets(p, k) \subseteq objs)
        /\ Fail(p, "gone")
     \/ /\ o \in objs /\ HolderLives(k, n.owner) /\ Targets(p, k) \subseteq objs
        /\ objs' = (objs \ {o}) \union {n}
        /\ refs' = {<<Moved(r[1]), Moved(r[2])>> : r \in kept}
                     \union ({n} \X Targets(p, k))
        /\ Become(p, AfterEnsure(run[p], k, n))
        /\ UNCHANGED <<perms, assigned, lastId>>
  /\ UNCHANGED <<goal, faults, flips, outside>>

\* ensure_role goes on to GET the role and PATCH its permissions_list; any
\* exception on the way is swallowed and the command carries on.
ApplyPermissions(p) ==
  /\ AtStep(p, "create", "role", "perms")
  /\ \/ /\ perms' = perms \union ({run[p].ref} \intersect objs)
        /\ UNCHANGED faults
     \/ /\ faults < MaxFaults
        /\ faults' = faults + 1
        /\ UNCHANGED perms
  /\ Advance(p)
  /\ UNCHANGED <<objs, refs, assigned, lastId, goal, flips, outside>>

\* A YAML without a vip_pool section: both commands pass the step over.
SkipPool(p) ==
  /\ p \notin HasPool
  /\ \E cmd \in {"create", "destroy"} : AtStep(p, cmd, "vippool", "look")
  /\ Advance(p)
  /\ UNCHANGED <<cluster, goal, faults, flips, outside>>

-----------------------------------------------------------------------------
(* create_tenant, steps 8 and 9: the writes that do not go through ensure  *)

\* Mutant: step 8 forgets plan_mode.
AssignLookNoPlan(p) ==
  /\ AtStep(p, "create", "assign", "look")
  /\ IF run[p].seen THEN Advance(p) ELSE ToPut(p, None)
  /\ UNCHANGED <<cluster, goal, faults, flips, outside>>

\* Step 8 compares with the record step 1 read, and PATCHes the tenant by id.
AssignLook(p) ==
  /\ AtStep(p, "create", "assign", "look")
  /\ IF run[p].seen \/ run[p].dry THEN Advance(p) ELSE ToPut(p, None)
  /\ UNCHANGED <<cluster, goal, faults, flips, outside>>

AssignGroup(p) ==
  /\ AtStep(p, "create", "assign", "put")
  /\ IF \E t \in objs : t.kind = "tenant" /\ t.owner = run[p].tid
       THEN /\ assigned' = {a \in assigned : a[1] # run[p].tid}
                             \union {<<run[p].tid, NameOf[p]["group"]>>}
            /\ Advance(p)
            /\ UNCHANGED <<objs, refs, perms, lastId>>
       ELSE Fail(p, "gone")
  /\ UNCHANGED <<goal, faults, flips, outside>>

PoliciesOf(g) == {r[2] : r \in {s \in refs : s[1] = g}}

\* Mutant: the list is written back even when the policy is in it.
BindLookAlways(p) ==
  /\ AtStep(p, "create", "bind", "look")
  /\ \/ /\ run[p].ref = None \/ Named(p, "group") = {}
        /\ Advance(p)
     \/ /\ run[p].ref # None
        /\ \E g \in Named(p, "group") :
             IF run[p].dry
               THEN Advance(p)
               ELSE Become(p, [run[p] EXCEPT !.phase = "put", !.got = g,
                                 !.ids = PoliciesOf(g) \union {run[p].ref}])
  /\ UNCHANGED <<cluster, goal, faults, flips, outside>>

\* Step 9 reads the group's s3_policies_ids and writes them back with the
\* policy added; a group that is not found is passed over.
BindLook(p) ==
  /\ AtStep(p, "create", "bind", "look")
  /\ \/ /\ run[p].ref = None \/ Named(p, "group") = {}
        /\ Advance(p)
     \/ /\ run[p].ref # None
        /\ \E g \in Named(p, "group") :
             IF run[p].ref \in PoliciesOf(g) \/ run[p].dry
               THEN Advance(p)
               ELSE Become(p, [run[p] EXCEPT !.phase = "put", !.got = g,
                                 !.ids = PoliciesOf(g) \union {run[p].ref}])
  /\ UNCHANGED <<cluster, goal, faults, flips, outside>>

\* PATCH /groups/{id}/ with the whole list, by create and by destroy.
WritePolicies(p) ==
  LET g == run[p].got IN
  /\ AtStep(p, "create", "bind", "put") \/ AtStep(p, "destroy", "unbind", "put")
  /\ IF g \in objs /\ run[p].ids \subseteq objs
       THEN /\ refs' = {r \in refs : r[1] # g} \union ({g} \X run[p].ids)
            /\ Advance(p)
            /\ UNCHANGED <<objs, perms, assigned, lastId>>
       ELSE Fail(p, "gone")
  /\ UNCHANGED <<goal, faults, flips, outside>>

-----------------------------------------------------------------------------
(* destroy_tenant                                                          *)

\* Mutant: the provider's id is not kept.
FindTenantNoPid(p) ==
  /\ AtStep(p, "destroy", "preflight", "look")
  /\ \/ /\ Named(p, "tenant") = {}
        /\ Become(p, [run[p] EXCEPT !.at = Len(DestroySteps)])
     \/ \E t \in Named(p, "tenant") :
          Become(p, [run[p] EXCEPT !.phase = "views", !.tid = t.owner])
  /\ UNCHANGED <<cluster, goal, faults, flips, outside>>

\* The tenant is looked up first; when it is gone only the reaping of the
\* provider is left to do.
FindTenant(p) ==
  /\ AtStep(p, "destroy", "preflight", "look")
  /\ \/ /\ Named(p, "tenant") = {}
        /\ Become(p, [run[p] EXCEPT !.at = Len(DestroySteps)])
     \/ \E t \in Named(p, "tenant") :
          Become(p, [run[p] EXCEPT !.phase = "views", !.tid = t.owner,
                                   !.pid = t.owner])
  /\ UNCHANGED <<cluster, goal, faults, flips, outside>>

\* The views of the tenant that use one of the two view policies.
BlockingViews(p) ==
  {v \in objs : /\ v.kind = "view" /\ v.owner = run[p].tid
                /\ \E q \in Named(p, "s3") \union Named(p, "nfs") : <<v, q>> \in refs}

Preflight(p) ==
  /\ AtStep(p, "destroy", "preflight", "views")
  /\ IF BlockingViews(p) # {} /\ ~run[p].dry
       THEN Fail(p, "refused")
       ELSE Advance(p) /\ UNCHANGED cluster
  /\ UNCHANGED <<goal, faults, flips, outside>>

\* Mutant: the unbinding forgets plan_mode.
UnbindLookNoPlan(p) ==
  /\ AtStep(p, "destroy", "unbind", "look")
  /\ \/ Named(p, "group") = {} /\ Advance(p)
     \/ \E g \in Named(p, "group") :
          LET kept == {q \in PoliciesOf(g) :
                         ~(q \in Named(p, "policy") /\ q.owner = run[p].tid)} IN
          IF kept = PoliciesOf(g)
            THEN Advance(p)
            ELSE Become(p, [run[p] EXCEPT !.phase = "put", !.got = g, !.ids = kept])
  /\ UNCHANGED <<cluster, goal, faults, flips, outside>>

UnbindLook(p) ==
  /\ AtStep(p, "destroy", "unbind", "look")
  /\ \/ Named(p, "group") = {} /\ Advance(p)
     \/ \E g \in Named(p, "group") :
          LET kept == {q \in PoliciesOf(g) :
                         ~(q \in Named(p, "policy") /\ q.owner = run[p].tid)} IN
          IF kept = PoliciesOf(g) \/ run[p].dry
            THEN Advance(p)
            ELSE Become(p, [run[p] EXCEPT !.phase = "put", !.got = g, !.ids = kept])
  /\ UNCHANGED <<cluster, goal, faults, flips, outside>>

\* Mutant: an object that is gone is an error.
DeleteLookStrict(p, k) ==
  /\ k \in Deleted
  /\ AtStep(p, "destroy", k, "look")
  /\ k = "vippool" => p \in HasPool
  /\ \/ Named(p, k) = {} /\ Fail(p, "gone")
     \/ /\ \E o \in Named(p, k) : IF run[p].dry THEN Advance(p) ELSE ToPut(p, o)
        /\ UNCHANGED cluster
  /\ UNCHANGED <<goal, faults, flips, outside>>

\* VmsClient.delete, and the same two requests for the manager.
DeleteLook(p, k) ==
  /\ k \in Deleted
  /\ AtStep(p, "destroy", k, "look")
  /\ k = "vippool" => p \in HasPool
  /\ \/ Named(p, k) = {} /\ Advance(p)
     \/ \E o \in Named(p, k) : IF run[p].dry THEN Advance(p) ELSE ToPut(p, o)
  /\ UNCHANGED <<cluster, goal, faults, flips, outside>>

\* What a DELETE that VMS accepts leaves of the cluster.
Remove(o) ==
  /\ objs' = objs \ {o}
  /\ refs' = {r \in refs : r[1] # o /\ r[2] # o}
  /\ perms' = perms \ {o}
  /\ assigned' = {a \in assigned : o.kind = "tenant" => a[1] # o.owner}
  /\ UNCHANGED lastId

DeletePut(p, k) ==
  LET o == run[p].got IN
  /\ k \in Deleted
  /\ AtStep(p, "destroy", k, "put")
  /\ \/ o \notin objs /\ Fail(p, "gone")
     \/ o \in objs /\ InUse(o) /\ Fail(p, "in_use")
     \/ o \in objs /\ ~InUse(o) /\ Remove(o) /\ Advance(p)
  /\ UNCHANGED <<goal, faults, flips, outside>>

\* Mutant: id 1 is not spared.
ReapLookAnyId(p) ==
  LET byName == {o \in objs : o.kind = "provider" /\ o.name = NameOf[p]["tenant"]}
      ids == IF run[p].pid = 0 THEN {o.owner : o \in byName} ELSE {run[p].pid} IN
  /\ AtStep(p, "destroy", "provider", "look")
  /\ \/ (ids = {} \/ run[p].dry) /\ Advance(p)
     \/ ~run[p].dry /\ \E i \in ids : Become(p, [run[p] EXCEPT !.phase = "put", !.pid = i])
  /\ UNCHANGED <<cluster, goal, faults, flips, outside>>

\* _reap_local_provider: by the id on the tenant record or, when the tenant is
\* gone, by the tenant's name; never the provider with id 1.
ReapLook(p) ==
  LET byName == {o \in objs : o.kind = "provider" /\ o.name = NameOf[p]["tenant"]} IN
  /\ AtStep(p, "destroy", "provider", "look")
  /\ \/ /\ run[p].pid = 1 \/ (run[p].pid # 0 /\ run[p].dry)
        /\ Advance(p)
     \/ /\ run[p].pid \notin {0, 1} /\ ~run[p].dry
        /\ Become(p, [run[p] EXCEPT !.phase = "put"])
     \/ /\ run[p].pid = 0
        /\ \/ byName = {} /\ Advance(p)
           \/ \E o \in byName :
                IF o.owner = 1 \/ run[p].dry
                  THEN Advance(p)
                  ELSE Become(p, [run[p] EXCEPT !.phase = "put", !.pid = o.owner])
  /\ UNCHANGED <<cluster, goal, faults, flips, outside>>

\* The DELETE of the provider: every failure becomes a WARN and exit code 0.
Reap(p) ==
  LET target == {o \in objs : o.kind = "provider" /\ o.owner = run[p].pid}
      held == \E x \in objs : x.kind \in {"group", "user"} /\ x.owner = run[p].pid IN
  /\ AtStep(p, "destroy", "provider", "put")
  /\ \/ /\ ~held
        /\ \E o \in target : Remove(o) /\ Advance(p)
        /\ UNCHANGED faults
     \/ /\ target = {} \/ held
        /\ Fail(p, "warned")
        /\ UNCHANGED faults
     \/ /\ faults < MaxFaults
        /\ faults' = faults + 1
        /\ Fail(p, "warned")
  /\ UNCHANGED <<goal, flips, outside>>

-----------------------------------------------------------------------------
(* What happens to the cluster outside the two commands: the broker view,  *)
(* which `vastde-orch enable` makes and nothing deletes, and manual edits  *)

Running(p) == {q \in {p} : ~Idle(p)}

\* enable_broker puts one view on the tenant, on the pool of the YAML and on a
\* view policy: the one of the YAML, or another S3_NATIVE policy it found.  It
\* is a process of its own, so the view may come while a command of p runs.
Enable(p, pol) ==
  /\ outside.used < MaxOutside
  /\ outside' = [outside EXCEPT !.used = @ + 1, !.viewed = @ \union Running(p)]
  /\ pol \in BrokerPolicies
  /\ \E t \in Named(p, "tenant") :
       LET v == Obj("view", NameOf[p]["view"], t.owner) IN
       /\ v \notin objs
       /\ Named(p, "s3") # {} /\ (p \in HasPool => Named(p, "vippool") # {})
       /\ objs' = objs \union {v}
       /\ refs' = refs \union ({v} \X (Named(p, "vippool")
                                         \union {q \in Named(p, "s3") : pol = "s3"}))
  /\ UNCHANGED <<perms, assigned, lastId, run, goal, faults, flips>>

\* Somebody deletes the view in the VMS web UI.
RemoveView(p) ==
  /\ \E v \in Named(p, "view") : Remove(v)
  /\ UNCHANGED <<run, goal, faults, flips, outside>>

\* Somebody undoes in the web UI what create had set: the tenant of a pool or a
\* view policy, the group of a user, the roles of a manager, the policies of a
\* group, the permissions of a role, the group of the tenant.  No exit code of p
\* says anything then: neither the last one nor that of the command that runs.
Edit(p) ==
  /\ Idle(p) \/ EditsAnytime
  /\ outside.used < MaxOutside
  /\ outside' = [outside EXCEPT !.used = @ + 1, !.edited = @ \union Running(p)]
  /\ Become(p, IF Idle(p) THEN NoRun ELSE run[p])
  /\ \E k \in EditedKinds : \E o \in Named(p, k) :
       /\ k \in OwnerPatched => ~InUse(o)
       /\ objs' = IF k \in OwnerPatched
                    THEN (objs \ {o}) \union {Obj(k, NameOf[p][k], 1)} ELSE objs
       /\ refs' = {r \in refs : k \in {"user", "manager", "group"} => r[1] # o}
       /\ perms' = perms \ {o}
       /\ assigned' = {a \in assigned : k = "tenant" => a[1] # o.owner}
  /\ UNCHANGED <<lastId, goal, faults, flips>>

-----------------------------------------------------------------------------

Create(p) ==
  \/ \E k \in Ensured : EnsureLook(p, k) \/ EnsurePost(p, k) \/ EnsurePatch(p, k)
  \/ TenantPost(p) \/ TenantRecord(p) \/ ApplyPermissions(p)
  \/ AssignLook(p) \/ AssignGroup(p) \/ BindLook(p)

Destroy(p) ==
  \/ \E k \in Deleted : DeleteLook(p, k) \/ DeletePut(p, k)
  \/ FindTenant(p) \/ Preflight(p) \/ UnbindLook(p) \/ ReapLook(p) \/ Reap(p)

Work(p) == Create(p) \/ Destroy(p) \/ WritePolicies(p) \/ SkipPool(p)

Next ==
  \E p \in Operators :
    \/ \E dry \in DryRuns : Start(p, dry)
    \/ ChangeGoal(p) \/ Stop(p) \/ Work(p)
    \/ \E pol \in BrokerPolicies : Enable(p, pol)
    \/ RemoveView(p) \/ Edit(p)

Spec == Init /\ [][Next]_vars

\* Once started a command takes its next step; an operator whose last command
\* was not the one wanted, or did not exit with 0, runs it (again).
Satisfied(p) ==
  /\ run[p].cmd = goal[p] /\ ~run[p].dry /\ p \notin outside.edited
  /\ run[p].exit \in {"ok", "warned"}
Retry(p) == ~Satisfied(p) /\ Start(p, FALSE)
FairSpec == Spec /\ \A p \in Operators : WF_vars(Work(p)) /\ SF_vars(Retry(p))
=============================================================================
