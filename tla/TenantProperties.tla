-------------------------- MODULE TenantProperties --------------------------
(***************************************************************************)
(* What `tenant create` and `tenant destroy` promise.                      *)
(***************************************************************************)
EXTENDS TenantLifecycle

Codes == {"none", "ok", "warned", "refused", "stopped", "exists", "in_use", "gone"}
Phases == {"idle", "look", "put", "record", "perms", "views"}
Runs == [cmd : {"create", "destroy"}, dry : BOOLEAN, phase : Phases, at : 1..12,
         tid : Nat, pid : Nat, seen : BOOLEAN, ref : Objects \union {None},
         got : Objects \union {None}, ids : SUBSET Objects, exit : Codes]

ClusterTyped ==
  /\ objs \subseteq Objects
  /\ refs \subseteq Objects \X Objects
  /\ perms \subseteq Objects
  /\ assigned \subseteq Nat \X Names
  /\ lastId \in Nat \ {0}
AtOwnStep(r) == r.at <= LastStep(r.cmd)
RunsTyped == run \in [Operators -> Runs] /\ \A p \in Operators : AtOwnStep(run[p])
ScopeTyped ==
  /\ goal \in [Operators -> {"create", "destroy"}]
  /\ faults \in 0..MaxFaults /\ flips \in 0..MaxFlips
  /\ outside \in [used : 0..MaxOutside, edited : SUBSET Operators, viewed : SUBSET Operators]

\* The cluster holds objects and references between objects, and every command
\* is at a step of its own list.
TypeOK == ClusterTyped /\ RunsTyped /\ ScopeTyped

-----------------------------------------------------------------------------

Wanted(p) == Ensured \ {k \in {"vippool"} : p \notin HasPool}

\* Everything the YAML asks for, on the tenant of that name and bound together.
Built(p) ==
  \E t \in Named(p, "tenant") :
    LET The(k) == Obj(k, NameOf[p][k], t.owner) IN
    /\ \A k \in Wanted(p) : The(k) \in objs
    /\ {<<The("user"), The("group")>>, <<The("manager"), The("role")>>,
        <<The("group"), The("policy")>>} \subseteq refs
    /\ <<t.owner, NameOf[p]["group"]>> \in assigned

\* Nothing of the YAML is left, nor the provider VMS made for the tenant.
Providers(p) == {o \in objs : /\ o.kind = "provider" /\ o.name = ProviderName[p]
                              /\ o.owner # 1}
Gone(p) == Providers(p) = {} /\ \A k \in YamlKinds : Named(p, k) = {}

\* A local provider that survived its tenant.
Orphans(p) == {o \in Providers(p) : Obj("tenant", NameOf[p]["tenant"], o.owner) \notin objs}

\* A command that ended with that code, and that nobody edited under.
Exited(p, cmd, code) ==
  /\ Idle(p) /\ run[p].cmd = cmd /\ ~run[p].dry /\ run[p].exit = code
  /\ p \notin outside.edited

\* A create that exits with 0 leaves everything the YAML asks for, whatever an
\* earlier run that was cut short had left behind (tenant.py: every step of
\* create_tenant is idempotent, so a re-run finishes the job).
CreateCompletes == \A p \in Operators : Exited(p, "create", "ok") => Built(p)

\* Unless a request fails, a create that exits with 0 leaves the role with the
\* standard permissions: ensure_role applies them to a role that was there
\* already too ("Always (re-)apply permissions").
PermissionsApplied ==
  \A p \in Operators : (faults = 0 /\ Exited(p, "create", "ok")) =>
    \A r \in Named(p, "role") : r \in perms

\* VMS gives the provider the name of its tenant, as a comment of destroy_tenant
\* has it; src/README.md has provider-<tenant>.
NamedAlike(p) == ProviderName[p] = NameOf[p]["tenant"]

\* The step in which a command ends with that code.
Ends(p, cmd, code) == ~Idle(p) /\ Exited(p, cmd, code)'

\* A destroy that ends with 0 and no WARN leaves nothing of the YAML, whatever
\* was there before, and not the provider either when it found the tenant, whose
\* record names it, or when the name of the tenant is enough to find it by
\* (destroy_tenant, steps 9' to 0').
DestroyCompletes ==
  [][\A p \in Operators : Ends(p, "destroy", "ok") =>
       /\ \A k \in YamlKinds : Named(p, k)' = {}
       /\ (run[p].tid # 0 \/ NamedAlike(p)) => Providers(p)' = {}]_vars

\* VMS refuses a DELETE of destroy_tenant only over a broker view that came while
\* the command ran, or that uses another view policy than those the preflight
\* looks for: the order of the deletes respects every other reference.
Unforeseen(p) ==
  \/ p \in outside.viewed
  \/ \E v \in Named(p, "view") : \A q \in Named(p, "s3") : <<v, q>> \notin refs
OrderRespectsReferences ==
  [][\A p \in Operators :
       (run[p].exit # "in_use" /\ run'[p].exit = "in_use") => Unforeseen(p)]_vars

\* POST /tenants/ is turned away only by a provider that outlived its tenant, or
\* by the default provider when the tenant is to have its name.
Blocked(p) == Orphans(p) # {} \/ ProviderName[p] = DefaultProviderName

\* No command ever deletes the default provider of the cluster, not even for a
\* tenant that uses it or has its name (_reap_local_provider).
DefaultProviderKept == DefaultProvider \in objs

\* Running create again over what is built sends no POST and no PATCH: no field
\* drifts, no list is written back ("Idempotent; safe to re-run").
RerunWritesNothing ==
  \A p \in Operators :
    (run[p].cmd = "create" /\ run[p].phase = "put") => ~Built(p)

-----------------------------------------------------------------------------

\* A dry run sends no POST, PATCH or DELETE, at any step of either command.
DryRunWritesNothing ==
  [][\A p \in Operators : (run[p].dry /\ ~Idle(p) /\ run'[p] # run[p]) => UNCHANGED cluster]_vars

\* What is built stays built: nothing any command, broker view or crash does
\* takes a part of it away, except the operator's own destroy or an edit by hand.
\* Create writes objects and lists one at a time, and whole lists back.
BuiltLasts ==
  [][\A p \in Operators :
       (/\ Built(p) /\ ~Edit(p)
        /\ ~(run[p].cmd = "destroy" /\ ~run[p].dry /\ ~Idle(p))) => Built(p)']_vars

\* The objects of an operator's YAML and the provider VMS made for its tenant,
\* with all that hangs on them.
Own(p) == {o \in objs : \/ o.kind \in YamlKinds /\ o.name = NameOf[p][o.kind]
                        \/ o.kind = "provider" /\ o.name = ProviderName[p] /\ o.owner # 1}
Slice(p) ==
  LET own == Own(p) IN
  <<own, {r \in refs : r[1] \in own \/ r[2] \in own}, perms \intersect own,
    {a \in assigned : \E o \in own : o.kind = "tenant" /\ o.owner = a[1]}>>

\* No two YAML files give an object the same name, nor one the name of the
\* provider of another's tenant.
DisjointNames ==
  \A p, q \in Operators : p # q =>
    /\ \A k \in YamlKinds : NameOf[p][k] # NameOf[q][k]
    /\ ProviderName[p] \notin {ProviderName[q], NameOf[q]["tenant"]}

\* What keeps the operators apart: an id belongs to one tenant and one provider,
\* both of one operator, and so do the ends of a reference; what a command holds
\* in its variables, ids included, is its operator's.
Mine(p, o) == o.kind \in YamlKinds /\ o.name = NameOf[p][o.kind]
MyProvider(p, o) == o.name \in {ProviderName[p], NameOf[p]["tenant"]}
IdsUnique ==
  /\ \A o \in objs : o.kind \in {"tenant", "provider"} => o.owner \in 1..lastId
  /\ \A a, b \in objs : (/\ a.kind = b.kind /\ a.kind \in {"tenant", "provider"}
                         /\ a.owner = b.owner) => a = b
  /\ \A t, l \in objs : (/\ t.kind = "tenant" /\ l.kind = "provider"
                         /\ t.owner = l.owner /\ l.owner # 1) =>
       \E p \in Operators : Mine(p, t) /\ l.name = ProviderName[p]
RefsInside == \A r \in refs : \E p \in Operators : Mine(p, r[1]) /\ Mine(p, r[2])
HoldsOwn(p, r) ==
  /\ r.got # None => Mine(p, r.got)
  /\ r.ref # None => Mine(p, r.ref)
  /\ \A x \in r.ids : Mine(p, x)
  /\ r.tid <= lastId /\ r.pid <= lastId
  /\ \A t \in objs : (t.kind = "tenant" /\ t.owner = r.tid) => Mine(p, t)
  /\ \A l \in objs : (l.kind = "provider" /\ l.owner = r.pid /\ r.pid # 1)
                      => MyProvider(p, l)
KeptApart == IdsUnique /\ RefsInside /\ \A p \in Operators : HoldsOwn(p, run[p])

\* While an operator does nothing, no command of another touches the objects
\* of his YAML, although every lookup goes by name over the whole cluster.
OthersUntouched ==
  [][\A p \in Operators :
       (\A q \in Operators \ {p} : UNCHANGED run[q]) \/ UNCHANGED Slice(p)]_vars

\* An operator who wants the tenant and runs create until it exits with 0 gets
\* it, whatever state earlier commands left, unless an orphan provider is in
\* the way.
CreateConverges ==
  \A p \in Operators :
    <>[](goal[p] = "create") => <>[](Built(p) \/ Blocked(p))

\* An operator who wants the tenant gone and runs destroy until it exits with
\* 0 gets it, but for a provider whose DELETE failed with a WARN, and unless a
\* broker view is left on the tenant, which no command deletes.  A provider that
\* is not called like its tenant stays when a destroy was cut short right
\* before its DELETE: no later one finds it.
Lost(p) == faults > 0 /\ ~NamedAlike(p) /\ Named(p, "tenant") = {} /\ Orphans(p) # {}
DestroyConverges ==
  \A p \in Operators :
    <>[](goal[p] = "destroy") =>
      <>[](\/ Gone(p) \/ run[p].exit = "warned" \/ Named(p, "view") # {}
          \/ (Lost(p) /\ \A k \in YamlKinds : Named(p, k) = {}))

\* Two operators who run create from the same YAML at the same time get the
\* tenant between them: the one who loses a race for a name fails, and his
\* re-run finds what the other made.
RaceConverges ==
  (\A p \in Operators : [](goal[p] = "create")) => <>[](\A p \in Operators : Built(p))
=============================================================================
