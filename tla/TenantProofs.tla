---------------------------- MODULE TenantProofs ----------------------------
(***************************************************************************)
(* Proofs about `tenant create` and `tenant destroy` for any number of     *)
(* operators, any names and any bounds, in three parts: types, the default *)
(* provider and dry runs, from Safe; that operators whose YAML files share *)
(* no name never touch each other's objects (OthersUntouched), from        *)
(* KeptApart; and what both leave when they exit with 0 (CreateCompletes,  *)
(* DestroyCompletes and what goes with them), from Sane.                   *)
(***************************************************************************)
EXTENDS TenantProperties, TLAPS

-----------------------------------------------------------------------------
(* The record of a command                                                 *)

LEMMA StepsBound == LastStep("create") = 11 /\ LastStep("destroy") = 12
  BY DEF LastStep, Steps, CreateSteps, DestroySteps

LEMMA NoRunTyped == NoRun \in Runs /\ AtOwnStep(NoRun)
  BY StepsBound DEF NoRun, Runs, Phases, Codes, AtOwnStep

LEMMA EndedTyped ==
  ASSUME NEW r \in Runs, NEW code \in Codes
  PROVE  Ended(r, code) \in Runs /\ AtOwnStep(Ended(r, code))
  <1>1. Ended(r, code) \in Runs /\ Ended(r, code).at = 1
    BY NoRunTyped DEF Ended, NoRun, Runs, Phases
  <1>2. Ended(r, code).cmd \in {"create", "destroy"}
    BY <1>1 DEF Runs
  <1> QED BY <1>1, <1>2, StepsBound DEF AtOwnStep

LEMMA SteppedTyped ==
  ASSUME NEW r \in Runs, AtOwnStep(r)
  PROVE  Stepped(r) \in Runs /\ AtOwnStep(Stepped(r))
  <1>1. r.cmd \in {"create", "destroy"} /\ r.at \in 1..12
    BY DEF Runs
  <1>2. LastStep(r.cmd) \in 1..12 /\ r.at <= LastStep(r.cmd)
    BY <1>1, StepsBound DEF AtOwnStep
  <1>3. CASE r.at = LastStep(r.cmd)
    <2>1. Stepped(r) = Ended(r, "ok")
      BY <1>3 DEF Stepped
    <2> QED BY <2>1, EndedTyped DEF Codes
  <1>4. CASE r.at # LastStep(r.cmd)
    <2>1. Stepped(r) = [r EXCEPT !.at = @ + 1, !.phase = "look", !.got = None, !.ids = {}]
      BY <1>4 DEF Stepped
    <2>2. r.at + 1 \in 1..12 /\ r.at + 1 <= LastStep(r.cmd)
      BY <1>1, <1>2, <1>4
    <2>3. Stepped(r) \in Runs /\ Stepped(r).at = r.at + 1 /\ Stepped(r).cmd = r.cmd
      BY <2>1, <2>2 DEF Runs, Phases
    <2> QED BY <2>2, <2>3 DEF AtOwnStep
  <1> QED BY <1>3, <1>4

LEMMA AfterEnsureTyped ==
  ASSUME NEW r \in Runs, AtOwnStep(r), NEW k, NEW o \in Objects \union {None}
  PROVE  AfterEnsure(r, k, o) \in Runs /\ AtOwnStep(AfterEnsure(r, k, o))
  <1>1. Stepped(r) \in Runs /\ AtOwnStep(Stepped(r))
    BY SteppedTyped
  <1>2. CASE k = "tenant"
    <2> DEFINE id == IF o = None THEN 0 ELSE o.owner
               s == [r EXCEPT !.phase = "record", !.tid = id, !.got = None]
    <2>1. id \in Nat
      BY DEF Objects
    <2> HIDE DEF id
    <2>2. s \in Runs /\ s.at = r.at /\ s.cmd = r.cmd
      BY <2>1 DEF Runs, Phases
    <2>3. AfterEnsure(r, k, o) = s
      BY <1>2 DEF AfterEnsure, id
    <2> QED BY <2>2, <2>3 DEF AtOwnStep
  <1>3. CASE k = "role" /\ ~r.dry
    <2> DEFINE s == [r EXCEPT !.phase = "perms", !.ref = o, !.got = None]
    <2>1. s \in Runs /\ s.at = r.at /\ s.cmd = r.cmd
      BY DEF Runs, Phases
    <2>2. AfterEnsure(r, k, o) = s
      BY <1>3 DEF AfterEnsure
    <2> QED BY <2>1, <2>2 DEF AtOwnStep
  <1>4. CASE (k = "role" /\ r.dry) \/ k = "policy"
    <2> DEFINE s == [Stepped(r) EXCEPT !.ref = o]
    <2>1. s \in Runs /\ s.at = Stepped(r).at /\ s.cmd = Stepped(r).cmd
      BY <1>1 DEF Runs
    <2>2. AfterEnsure(r, k, o) = s
      BY <1>4 DEF AfterEnsure
    <2> QED BY <1>1, <2>1, <2>2 DEF AtOwnStep
  <1>5. CASE k \notin {"tenant", "role", "policy"}
    BY <1>1, <1>5 DEF AfterEnsure
  <1> QED BY <1>2, <1>3, <1>4, <1>5

LEMMA BecomeTyped ==
  ASSUME RunsTyped, NEW p \in Operators, NEW r \in Runs, AtOwnStep(r), Become(p, r)
  PROVE  RunsTyped'
  BY DEF RunsTyped, Become, AtOwnStep

LEMMA AdvanceTyped ==
  ASSUME RunsTyped, NEW p \in Operators, Advance(p)
  PROVE  RunsTyped'
  <1>1. run[p] \in Runs /\ AtOwnStep(run[p])
    BY DEF RunsTyped
  <1> QED BY <1>1, SteppedTyped, BecomeTyped DEF Advance

LEMMA ToPutTyped ==
  ASSUME RunsTyped, NEW p \in Operators, NEW o \in Objects \union {None}, ToPut(p, o)
  PROVE  RunsTyped'
  <1> DEFINE s == [run[p] EXCEPT !.phase = "put", !.got = o]
  <1>1. run[p] \in Runs /\ AtOwnStep(run[p])
    BY DEF RunsTyped
  <1>2. s \in Runs /\ s.at = run[p].at /\ s.cmd = run[p].cmd
    BY <1>1 DEF Runs, Phases
  <1>3. AtOwnStep(s)
    BY <1>1, <1>2 DEF AtOwnStep
  <1> QED BY <1>2, <1>3, BecomeTyped DEF ToPut

LEMMA FailTyped ==
  ASSUME RunsTyped, NEW p \in Operators, NEW code \in Codes, Fail(p, code)
  PROVE  RunsTyped'
  <1>1. run[p] \in Runs /\ AtOwnStep(run[p])
    BY DEF RunsTyped
  <1> QED BY <1>1, EndedTyped, BecomeTyped DEF Fail

-----------------------------------------------------------------------------
(* Names and objects                                                       *)

LEMMA NamesTyped ==
  /\ \A p \in Operators : \A k \in YamlKinds : NameOf[p][k] \in Names
  /\ \A p \in Operators : ProviderName[p] \in Names
  /\ DefaultProviderName \in Names
  BY DEF Names

LEMMA ObjTyped ==
  ASSUME NEW k \in Kinds, NEW n \in Names, NEW id \in Nat
  PROVE  Obj(k, n, id) \in Objects
  BY DEF Obj, Objects

LEMMA ClusterStays == ASSUME ClusterTyped, UNCHANGED cluster PROVE ClusterTyped'
  BY DEF ClusterTyped, cluster

LEMMA ScopeStays ==
  ASSUME ScopeTyped, UNCHANGED <<goal, faults, flips, outside>> PROVE ScopeTyped'
  BY DEF ScopeTyped

LEMMA RunTyped ==
  ASSUME RunsTyped, NEW p \in Operators
  PROVE  /\ run[p] \in Runs /\ AtOwnStep(run[p])
         /\ run[p].cmd \in {"create", "destroy"} /\ run[p].dry \in BOOLEAN
         /\ run[p].at \in 1..12
         /\ run[p].tid \in Nat /\ run[p].pid \in Nat
         /\ run[p].ref \in Objects \union {None} /\ run[p].got \in Objects \union {None}
         /\ run[p].ids \in SUBSET Objects
  BY DEF RunsTyped, Runs

\* An object that a lookup returns is on the cluster.
LEMMA NamedTyped ==
  ASSUME ClusterTyped, NEW p, NEW k
  PROVE  /\ Named(p, k) \subseteq objs /\ Named(p, k) \subseteq Objects
         /\ FoundByCreate(p, k) \subseteq Named(p, k)
  BY DEF ClusterTyped, Named, FoundByCreate

LEMMA PoliciesTyped ==
  ASSUME ClusterTyped, NEW g
  PROVE  PoliciesOf(g) \subseteq Objects
  BY DEF ClusterTyped, PoliciesOf

LEMMA TargetsTyped ==
  ASSUME ClusterTyped, RunsTyped, NEW p \in Operators, NEW k, Targets(p, k) \subseteq objs
  PROVE  Targets(p, k) \subseteq Objects
  BY DEF ClusterTyped

-----------------------------------------------------------------------------
(* Starting and stopping                                                   *)

LEMMA StartTyped ==
  ASSUME TypeOK, NEW p \in Operators, NEW dry \in BOOLEAN, Start(p, dry)
  PROVE  TypeOK'
  <1> DEFINE s == [NoRun EXCEPT !.cmd = goal[p], !.dry = dry, !.phase = "look"]
  <1>1. goal[p] \in {"create", "destroy"}
    BY DEF TypeOK, ScopeTyped
  <1>2. s \in Runs /\ s.at = 1 /\ s.cmd = goal[p]
    BY <1>1, NoRunTyped DEF NoRun, Runs, Phases
  <1>3. AtOwnStep(s)
    BY <1>1, <1>2, StepsBound DEF AtOwnStep
  <1>4. RunsTyped'
    BY <1>2, <1>3, BecomeTyped DEF Start, TypeOK
  <1>5. ScopeTyped'
    BY DEF Start, TypeOK, ScopeTyped
  <1> QED BY <1>4, <1>5, ClusterStays DEF Start, TypeOK

LEMMA ChangeGoalTyped ==
  ASSUME TypeOK, NEW p \in Operators, ChangeGoal(p)
  PROVE  TypeOK'
  <1>1. flips' \in 0..MaxFlips
    BY ConstantsOK DEF TypeOK, ScopeTyped, ChangeGoal
  <1>2. goal' \in [Operators -> {"create", "destroy"}]
    BY DEF TypeOK, ScopeTyped, ChangeGoal
  <1>3. RunsTyped' /\ ClusterTyped'
    BY ClusterStays DEF TypeOK, RunsTyped, AtOwnStep, ChangeGoal
  <1> QED BY <1>1, <1>2, <1>3 DEF TypeOK, ScopeTyped, ChangeGoal

LEMMA StopTyped ==
  ASSUME TypeOK, NEW p \in Operators, Stop(p)
  PROVE  TypeOK'
  <1>1. run[p] \in Runs
    BY RunTyped DEF TypeOK
  <1>2. RunsTyped'
    BY <1>1, EndedTyped, BecomeTyped DEF Stop, TypeOK, Codes
  <1>3. faults' \in 0..MaxFaults
    BY ConstantsOK DEF TypeOK, ScopeTyped, Stop
  <1> QED BY <1>2, <1>3, ClusterStays DEF TypeOK, ScopeTyped, Stop

-----------------------------------------------------------------------------
(* create_tenant                                                           *)

LEMMA EnsureLookTyped ==
  ASSUME TypeOK, NEW p \in Operators, NEW k, EnsureLook(p, k)
  PROVE  TypeOK'
  <1>1. run[p] \in Runs /\ AtOwnStep(run[p])
    BY RunTyped DEF TypeOK
  <1>2. ASSUME NEW o \in Objects \union {None}, Become(p, AfterEnsure(run[p], k, o))
        PROVE  RunsTyped'
    BY <1>1, <1>2, AfterEnsureTyped, BecomeTyped DEF TypeOK
  <1>3. ASSUME NEW o \in Objects \union {None}, ToPut(p, o)
        PROVE  RunsTyped'
    BY <1>3, ToPutTyped DEF TypeOK
  <1>4. FoundByCreate(p, k) \subseteq Objects
    BY NamedTyped DEF TypeOK
  <1>5. RunsTyped'
    BY <1>2, <1>3, <1>4 DEF EnsureLook
  <1> QED BY <1>5, ClusterStays, ScopeStays DEF EnsureLook, TypeOK

LEMMA TenantPostTyped ==
  ASSUME TypeOK, NEW p \in Operators, TenantPost(p)
  PROVE  TypeOK'
  <1> DEFINE n == NameOf[p]["tenant"]
             clash == \E o \in objs : \/ o.kind = "tenant" /\ o.name = n
                                      \/ o.kind = "provider" /\ o.name = ProviderName[p]
             t == Obj("tenant", n, lastId + 1)
             l == Obj("provider", ProviderName[p], lastId + 1)
  <1>1. run[p] \in Runs /\ AtOwnStep(run[p])
    BY RunTyped DEF TypeOK
  <1>2. lastId + 1 \in Nat \ {0} /\ lastId + 1 \in Nat
    BY DEF TypeOK, ClusterTyped
  <1>3. n \in Names /\ ProviderName[p] \in Names
    BY NamesTyped DEF YamlKinds
  <1>4. t \in Objects /\ l \in Objects
    BY <1>2, <1>3, ObjTyped DEF Kinds, YamlKinds
  <1>5. CASE clash
    <2>1. Fail(p, "exists")
      BY <1>5 DEF TenantPost
    <2>2. RunsTyped'
      BY <2>1, FailTyped DEF TypeOK, Codes
    <2> QED BY <2>1, <2>2, ClusterStays, ScopeStays DEF TypeOK, TenantPost, Fail
  <1>6. CASE ~clash
    <2>1. /\ objs' = objs \union {t, l}
          /\ lastId' = lastId + 1
          /\ Become(p, AfterEnsure(run[p], "tenant", t))
          /\ UNCHANGED <<refs, perms, assigned>>
      BY <1>6 DEF TenantPost
    <2>2. RunsTyped'
      BY <1>1, <1>4, <2>1, AfterEnsureTyped, BecomeTyped DEF TypeOK
    <2>3. ClusterTyped'
      BY <1>2, <1>4, <2>1 DEF TypeOK, ClusterTyped
    <2> QED BY <2>2, <2>3, ScopeStays DEF TypeOK, TenantPost
  <1> QED BY <1>5, <1>6

LEMMA TenantRecordTyped ==
  ASSUME TypeOK, NEW p \in Operators, TenantRecord(p)
  PROVE  TypeOK'
  <1>1. Stepped(run[p]) \in Runs /\ AtOwnStep(Stepped(run[p]))
    BY RunTyped, SteppedTyped DEF TypeOK
  <1>2. RunsTyped'
    <2>1. CASE Advance(p)
      BY <2>1, AdvanceTyped DEF TypeOK
    <2>2. CASE Fail(p, "gone")
      BY <2>2, FailTyped DEF TypeOK, Codes
    <2>3. ASSUME NEW t \in Named(p, "tenant"),
                 Become(p, [Stepped(run[p]) EXCEPT
                              !.tid = IF @ # 0 THEN @ ELSE t.owner,
                              !.pid = t.owner,
                              !.seen = <<t.owner, NameOf[p]["group"]>> \in assigned])
          PROVE  RunsTyped'
      <3> DEFINE r == Stepped(run[p])
                 id == IF r.tid # 0 THEN r.tid ELSE t.owner
                 known == <<t.owner, NameOf[p]["group"]>> \in assigned
                 s == [r EXCEPT !.tid = id, !.pid = t.owner, !.seen = known]
      <3>1. t.owner \in Nat
        BY NamedTyped DEF TypeOK, Objects
      <3>2. id \in Nat
        BY <1>1, <3>1 DEF Runs
      <3>3. known \in BOOLEAN
        OBVIOUS
      <3>4. Become(p, s)
        BY <1>1, <2>3 DEF Runs
      <3> HIDE DEF r, id, known
      <3>5. r \in Runs /\ AtOwnStep(r)
        BY <1>1 DEF r
      <3>6. s \in Runs /\ s.at = r.at /\ s.cmd = r.cmd
        BY <3>1, <3>2, <3>3, <3>5 DEF Runs
      <3>7. AtOwnStep(s)
        BY <3>5, <3>6 DEF AtOwnStep
      <3> HIDE DEF s
      <3> QED BY <3>4, <3>6, <3>7, BecomeTyped DEF TypeOK
    <2> QED BY <2>1, <2>2, <2>3 DEF TenantRecord
  <1>3. UNCHANGED cluster
    BY DEF TenantRecord, Fail
  <1> QED BY <1>2, <1>3, ClusterStays, ScopeStays DEF TenantRecord, TypeOK

LEMMA EnsurePostTyped ==
  ASSUME TypeOK, NEW p \in Operators, NEW k, EnsurePost(p, k)
  PROVE  TypeOK'
  <1> DEFINE id == IF HolderKind(k) = "provider" THEN run[p].pid ELSE run[p].tid
             o == Obj(k, NameOf[p][k], id)
  <1>1. run[p] \in Runs /\ AtOwnStep(run[p]) /\ id \in Nat
    BY RunTyped DEF TypeOK
  <1>2. k \in YamlKinds
    BY DEF EnsurePost, Ensured, YamlKinds
  <1>3. o \in Objects
    BY <1>1, <1>2, NamesTyped, ObjTyped DEF Kinds
  <1>4. CASE Fail(p, "exists") \/ Fail(p, "gone")
    <2>1. RunsTyped' /\ UNCHANGED cluster
      BY <1>4, FailTyped DEF TypeOK, Codes, Fail
    <2> QED BY <2>1, ClusterStays, ScopeStays DEF TypeOK, EnsurePost
  <1>5. CASE /\ Targets(p, k) \subseteq objs
             /\ objs' = objs \union {o}
             /\ refs' = refs \union ({o} \X Targets(p, k))
             /\ Become(p, AfterEnsure(run[p], k, o))
             /\ UNCHANGED <<perms, assigned, lastId>>
    <2>1. RunsTyped'
      BY <1>1, <1>3, <1>5, AfterEnsureTyped, BecomeTyped DEF TypeOK
    <2>2. ClusterTyped'
      BY <1>3, <1>5 DEF TypeOK, ClusterTyped
    <2> QED BY <2>1, <2>2, ScopeStays DEF TypeOK, EnsurePost
  <1> QED BY <1>4, <1>5 DEF EnsurePost

LEMMA EnsurePatchTyped ==
  ASSUME TypeOK, NEW p \in Operators, NEW k, EnsurePatch(p, k)
  PROVE  TypeOK'
  <1> DEFINE o == run[p].got
             n == IF k \in OwnerPatched THEN Obj(k, NameOf[p][k], run[p].tid) ELSE o
             Moved(x) == IF x = o THEN n ELSE x
             kept == {r \in refs : ~(k \in RefsPatched /\ r[1] = o)}
  <1>1. /\ run[p] \in Runs /\ AtOwnStep(run[p]) /\ run[p].tid \in Nat
        /\ o \in Objects \union {None}
    BY RunTyped DEF TypeOK
  <1>2. k \in YamlKinds /\ o # None
    BY DEF EnsurePatch, Ensured, YamlKinds
  <1>3. n \in Objects
    BY <1>1, <1>2, NamesTyped, ObjTyped DEF Kinds
  <1>4. CASE Fail(p, "gone")
    <2>1. RunsTyped' /\ UNCHANGED cluster
      BY <1>4, FailTyped DEF TypeOK, Codes, Fail
    <2> QED BY <2>1, ClusterStays, ScopeStays DEF TypeOK, EnsurePatch
  <1>5. CASE /\ Targets(p, k) \subseteq objs
             /\ objs' = (objs \ {o}) \union {n}
             /\ refs' = {<<Moved(r[1]), Moved(r[2])>> : r \in kept}
                          \union ({n} \X Targets(p, k))
             /\ Become(p, AfterEnsure(run[p], k, n))
             /\ UNCHANGED <<perms, assigned, lastId>>
    <2>1. RunsTyped'
      BY <1>1, <1>3, <1>5, AfterEnsureTyped, BecomeTyped DEF TypeOK
    <2>2. objs' \subseteq Objects
      BY <1>3, <1>5 DEF TypeOK, ClusterTyped
    <2>3. \A r \in kept : r[1] \in Objects /\ r[2] \in Objects
      BY DEF TypeOK, ClusterTyped
    <2>4. \A x \in Objects : Moved(x) \in Objects
      BY <1>3
    <2>5. Targets(p, k) \subseteq Objects
      BY <1>5, TargetsTyped DEF TypeOK
    <2> HIDE DEF n, Moved, kept
    <2>6. refs' \subseteq Objects \X Objects
      BY <1>3, <1>5, <2>3, <2>4, <2>5
    <2>7. ClusterTyped'
      BY <1>5, <2>2, <2>6 DEF TypeOK, ClusterTyped
    <2> QED BY <2>1, <2>7, ScopeStays DEF TypeOK, EnsurePatch
  <1> QED BY <1>4, <1>5 DEF EnsurePatch

LEMMA ApplyPermissionsTyped ==
  ASSUME TypeOK, NEW p \in Operators, ApplyPermissions(p)
  PROVE  TypeOK'
  <1>1. RunsTyped'
    BY AdvanceTyped DEF TypeOK, ApplyPermissions
  <1>2. ClusterTyped'
    BY DEF TypeOK, ClusterTyped, ApplyPermissions
  <1>3. faults' \in 0..MaxFaults
    BY ConstantsOK DEF TypeOK, ScopeTyped, ApplyPermissions
  <1> QED BY <1>1, <1>2, <1>3 DEF TypeOK, ScopeTyped, ApplyPermissions

LEMMA SkipPoolTyped ==
  ASSUME TypeOK, NEW p \in Operators, SkipPool(p)
  PROVE  TypeOK'
  BY AdvanceTyped, ClusterStays, ScopeStays DEF TypeOK, SkipPool

LEMMA AssignLookTyped ==
  ASSUME TypeOK, NEW p \in Operators, AssignLook(p)
  PROVE  TypeOK'
  <1>1. RunsTyped'
    BY AdvanceTyped, ToPutTyped DEF TypeOK, AssignLook
  <1> QED BY <1>1, ClusterStays, ScopeStays DEF TypeOK, AssignLook

LEMMA AssignGroupTyped ==
  ASSUME TypeOK, NEW p \in Operators, AssignGroup(p)
  PROVE  TypeOK'
  <1>1. CASE Fail(p, "gone")
    <2>1. RunsTyped' /\ UNCHANGED cluster
      BY <1>1, FailTyped DEF TypeOK, Codes, Fail
    <2> QED BY <2>1, ClusterStays, ScopeStays DEF TypeOK, AssignGroup
  <1>2. CASE /\ assigned' = {a \in assigned : a[1] # run[p].tid}
                              \union {<<run[p].tid, NameOf[p]["group"]>>}
             /\ Advance(p)
             /\ UNCHANGED <<objs, refs, perms, lastId>>
    <2>1. run[p].tid \in Nat /\ NameOf[p]["group"] \in Names
      BY RunTyped, NamesTyped DEF TypeOK, YamlKinds
    <2>2. ClusterTyped'
      BY <1>2, <2>1 DEF TypeOK, ClusterTyped
    <2>3. RunsTyped'
      BY <1>2, AdvanceTyped DEF TypeOK
    <2> QED BY <2>2, <2>3, ScopeStays DEF TypeOK, AssignGroup
  <1> QED BY <1>1, <1>2 DEF AssignGroup

\* The put phase of the two steps that write a group's s3_policies_ids.
LEMMA WriteIdsTyped ==
  ASSUME RunsTyped, NEW p \in Operators, NEW g \in Objects, NEW ids \in SUBSET Objects,
         Become(p, [run[p] EXCEPT !.phase = "put", !.got = g, !.ids = ids])
  PROVE  RunsTyped'
  <1> DEFINE s == [run[p] EXCEPT !.phase = "put", !.got = g, !.ids = ids]
  <1>1. s \in Runs /\ s.at = run[p].at /\ s.cmd = run[p].cmd
    BY RunTyped DEF Runs, Phases
  <1>2. AtOwnStep(s)
    BY <1>1, RunTyped DEF AtOwnStep
  <1> QED BY <1>1, <1>2, BecomeTyped

LEMMA BindLookTyped ==
  ASSUME TypeOK, NEW p \in Operators, BindLook(p)
  PROVE  TypeOK'
  <1>1. ASSUME NEW g \in Named(p, "group"), run[p].ref # None,
               Become(p, [run[p] EXCEPT !.phase = "put", !.got = g,
                            !.ids = PoliciesOf(g) \union {run[p].ref}])
        PROVE  RunsTyped'
    <2>1. g \in Objects /\ PoliciesOf(g) \union {run[p].ref} \in SUBSET Objects
      BY <1>1, NamedTyped, PoliciesTyped, RunTyped DEF TypeOK
    <2> QED BY <1>1, <2>1, WriteIdsTyped DEF TypeOK
  <1>2. RunsTyped'
    BY <1>1, AdvanceTyped DEF TypeOK, BindLook
  <1> QED BY <1>2, ClusterStays, ScopeStays DEF TypeOK, BindLook

LEMMA WritePoliciesTyped ==
  ASSUME TypeOK, NEW p \in Operators, WritePolicies(p)
  PROVE  TypeOK'
  <1> DEFINE g == run[p].got
  <1>1. CASE Fail(p, "gone")
    <2>1. RunsTyped' /\ UNCHANGED cluster
      BY <1>1, FailTyped DEF TypeOK, Codes, Fail
    <2> QED BY <2>1, ClusterStays, ScopeStays DEF TypeOK, WritePolicies
  <1>2. CASE /\ g \in objs /\ run[p].ids \subseteq objs
             /\ refs' = {r \in refs : r[1] # g} \union ({g} \X run[p].ids)
             /\ Advance(p)
             /\ UNCHANGED <<objs, perms, assigned, lastId>>
    <2>1. RunsTyped'
      BY <1>2, AdvanceTyped DEF TypeOK
    <2>2. ClusterTyped'
      BY <1>2 DEF TypeOK, ClusterTyped
    <2> QED BY <2>1, <2>2, ScopeStays DEF TypeOK, WritePolicies
  <1> QED BY <1>1, <1>2 DEF WritePolicies

-----------------------------------------------------------------------------
(* destroy_tenant                                                          *)

LEMMA FindTenantTyped ==
  ASSUME TypeOK, NEW p \in Operators, FindTenant(p)
  PROVE  TypeOK'
  <1>1. /\ run[p] \in Runs /\ AtOwnStep(run[p]) /\ run[p].cmd = "destroy"
        /\ run[p].at \in 1..12
    BY RunTyped DEF TypeOK, FindTenant, AtStep
  <1>2. CASE Become(p, [run[p] EXCEPT !.at = Len(DestroySteps)])
    <2> DEFINE s == [run[p] EXCEPT !.at = 12]
    <2>1. Len(DestroySteps) = 12 /\ Become(p, s)
      BY <1>2 DEF DestroySteps
    <2>2. s \in Runs /\ s.at = 12 /\ s.cmd = "destroy"
      BY <1>1, <2>1 DEF Runs
    <2>3. AtOwnStep(s)
      BY <2>2, StepsBound DEF AtOwnStep
    <2> HIDE DEF s
    <2> QED BY <2>1, <2>2, <2>3, BecomeTyped, ClusterStays, ScopeStays DEF TypeOK, FindTenant
  <1>3. ASSUME NEW t \in Named(p, "tenant"),
               Become(p, [run[p] EXCEPT !.phase = "views", !.tid = t.owner,
                                        !.pid = t.owner])
        PROVE  TypeOK'
    <2> DEFINE s == [run[p] EXCEPT !.phase = "views", !.tid = t.owner, !.pid = t.owner]
    <2>1. t.owner \in Nat
      BY NamedTyped DEF TypeOK, Objects
    <2>2. s \in Runs /\ s.at = run[p].at /\ s.cmd = run[p].cmd
      BY <1>1, <2>1 DEF Runs, Phases
    <2>3. AtOwnStep(s)
      BY <1>1, <2>2 DEF AtOwnStep
    <2> QED BY <1>3, <2>2, <2>3, BecomeTyped, ClusterStays, ScopeStays DEF TypeOK, FindTenant
  <1> QED BY <1>2, <1>3 DEF FindTenant

LEMMA PreflightTyped ==
  ASSUME TypeOK, NEW p \in Operators, Preflight(p)
  PROVE  TypeOK'
  <1>1. RunsTyped' /\ UNCHANGED cluster
    BY AdvanceTyped, FailTyped DEF TypeOK, Codes, Preflight, Fail
  <1> QED BY <1>1, ClusterStays, ScopeStays DEF TypeOK, Preflight

LEMMA UnbindLookTyped ==
  ASSUME TypeOK, NEW p \in Operators, UnbindLook(p)
  PROVE  TypeOK'
  <1>1. ASSUME NEW g \in Named(p, "group"), NEW kept, kept \subseteq PoliciesOf(g),
               Become(p, [run[p] EXCEPT !.phase = "put", !.got = g, !.ids = kept])
        PROVE  RunsTyped'
    <2>1. g \in Objects /\ kept \in SUBSET Objects
      BY <1>1, NamedTyped, PoliciesTyped DEF TypeOK
    <2> QED BY <1>1, <2>1, WriteIdsTyped DEF TypeOK
  <1>2. RunsTyped'
    <2>1. ASSUME NEW g \in Named(p, "group"),
                 LET kept == {q \in PoliciesOf(g) :
                                ~(q \in Named(p, "policy") /\ q.owner = run[p].tid)} IN
                 IF kept = PoliciesOf(g) \/ run[p].dry
                   THEN Advance(p)
                   ELSE Become(p, [run[p] EXCEPT !.phase = "put", !.got = g, !.ids = kept])
          PROVE  RunsTyped'
      <3> DEFINE kept == {q \in PoliciesOf(g) :
                            ~(q \in Named(p, "policy") /\ q.owner = run[p].tid)}
      <3>1. kept \subseteq PoliciesOf(g)
        OBVIOUS
      <3> QED BY <1>1, <2>1, <3>1, AdvanceTyped DEF TypeOK
    <2> QED BY <2>1, AdvanceTyped DEF TypeOK, UnbindLook
  <1> QED BY <1>2, ClusterStays, ScopeStays DEF TypeOK, UnbindLook

LEMMA DeleteLookTyped ==
  ASSUME TypeOK, NEW p \in Operators, NEW k, DeleteLook(p, k)
  PROVE  TypeOK'
  <1>1. Named(p, k) \subseteq Objects
    BY NamedTyped DEF TypeOK
  <1>2. RunsTyped'
    BY <1>1, AdvanceTyped, ToPutTyped DEF TypeOK, DeleteLook
  <1> QED BY <1>2, ClusterStays, ScopeStays DEF TypeOK, DeleteLook

LEMMA RemoveTyped ==
  ASSUME ClusterTyped, NEW o, Remove(o)
  PROVE  ClusterTyped'
  BY DEF ClusterTyped, Remove

LEMMA DeletePutTyped ==
  ASSUME TypeOK, NEW p \in Operators, NEW k, DeletePut(p, k)
  PROVE  TypeOK'
  <1>1. CASE Fail(p, "gone") \/ Fail(p, "in_use")
    <2>1. RunsTyped' /\ UNCHANGED cluster
      BY <1>1, FailTyped DEF TypeOK, Codes, Fail
    <2> QED BY <2>1, ClusterStays, ScopeStays DEF TypeOK, DeletePut
  <1>2. CASE Remove(run[p].got) /\ Advance(p)
    BY <1>2, RemoveTyped, AdvanceTyped, ScopeStays DEF TypeOK, DeletePut
  <1> QED BY <1>1, <1>2 DEF DeletePut

LEMMA ReapLookTyped ==
  ASSUME TypeOK, NEW p \in Operators, ReapLook(p)
  PROVE  TypeOK'
  <1> DEFINE byName == {o \in objs : o.kind = "provider" /\ o.name = NameOf[p]["tenant"]}
  <1>1. ASSUME NEW id \in Nat, Become(p, [run[p] EXCEPT !.phase = "put", !.pid = id])
        PROVE  RunsTyped'
    <2> DEFINE s == [run[p] EXCEPT !.phase = "put", !.pid = id]
    <2>1. s \in Runs /\ s.at = run[p].at /\ s.cmd = run[p].cmd
      BY RunTyped DEF TypeOK, Runs, Phases
    <2>2. AtOwnStep(s)
      BY <2>1, RunTyped DEF TypeOK, AtOwnStep
    <2> QED BY <1>1, <2>1, <2>2, BecomeTyped DEF TypeOK
  <1>2. ASSUME Become(p, [run[p] EXCEPT !.phase = "put"])
        PROVE  RunsTyped'
    <2> DEFINE s == [run[p] EXCEPT !.phase = "put"]
    <2>1. s \in Runs /\ s.at = run[p].at /\ s.cmd = run[p].cmd
      BY RunTyped DEF TypeOK, Runs, Phases
    <2>2. AtOwnStep(s)
      BY <2>1, RunTyped DEF TypeOK, AtOwnStep
    <2> QED BY <1>2, <2>1, <2>2, BecomeTyped DEF TypeOK
  <1>3. \A o \in byName : o.owner \in Nat
    BY DEF TypeOK, ClusterTyped, Objects
  <1>4. RunsTyped'
    BY <1>1, <1>2, <1>3, AdvanceTyped DEF TypeOK, ReapLook
  <1> QED BY <1>4, ClusterStays, ScopeStays DEF TypeOK, ReapLook

LEMMA ReapTyped ==
  ASSUME TypeOK, NEW p \in Operators, Reap(p)
  PROVE  TypeOK'
  <1>1. CASE Fail(p, "warned")
    <2>1. RunsTyped' /\ ClusterTyped'
      BY <1>1, FailTyped, ClusterStays DEF TypeOK, Codes, Fail
    <2>2. faults' \in 0..MaxFaults
      BY ConstantsOK DEF TypeOK, ScopeTyped, Reap
    <2> QED BY <2>1, <2>2 DEF TypeOK, ScopeTyped, Reap
  <1>2. ASSUME NEW o, Remove(o), Advance(p), UNCHANGED faults
        PROVE  TypeOK'
    BY <1>2, RemoveTyped, AdvanceTyped, ScopeStays DEF TypeOK, Reap
  <1> QED BY <1>1, <1>2 DEF Reap

-----------------------------------------------------------------------------
(* Outside the commands                                                    *)

LEMMA CountOutside ==
  ASSUME ScopeTyped, outside.used < MaxOutside
  PROVE  outside.used + 1 \in 0..MaxOutside
  BY ConstantsOK DEF ScopeTyped

LEMMA EnableTyped ==
  ASSUME TypeOK, NEW p \in Operators, NEW pol, Enable(p, pol)
  PROVE  TypeOK'
  <1>1. PICK t \in Named(p, "tenant") :
          LET v == Obj("view", NameOf[p]["view"], t.owner) IN
          /\ v \notin objs
          /\ Named(p, "s3") # {} /\ (p \in HasPool => Named(p, "vippool") # {})
          /\ objs' = objs \union {v}
          /\ refs' = refs \union ({v} \X (Named(p, "vippool")
                                            \union {q \in Named(p, "s3") : pol = "s3"}))
    BY DEF Enable
  <1> DEFINE v == Obj("view", NameOf[p]["view"], t.owner)
  <1>2. t.owner \in Nat
    BY NamedTyped DEF TypeOK, Objects
  <1>3. v \in Objects
    BY <1>2, NamesTyped, ObjTyped DEF YamlKinds, Kinds
  <1>4. Named(p, "vippool") \subseteq Objects /\ Named(p, "s3") \subseteq Objects
    BY NamedTyped DEF TypeOK
  <1> HIDE DEF v
  <1>5. ClusterTyped'
    <2>1. objs' = objs \union {v} /\ UNCHANGED <<perms, assigned, lastId>>
      BY <1>1 DEF Enable, v
    <2>2. refs' = refs \union ({v} \X (Named(p, "vippool")
                                         \union {q \in Named(p, "s3") : pol = "s3"}))
      BY <1>1 DEF v
    <2> QED BY <1>3, <1>4, <2>1, <2>2 DEF TypeOK, ClusterTyped
  <1>6. RunsTyped'
    BY DEF TypeOK, RunsTyped, AtOwnStep, Enable
  <1>7. ScopeTyped'
    <2>1. /\ outside.used < MaxOutside /\ UNCHANGED <<goal, faults, flips>>
          /\ outside' = [outside EXCEPT !.used = @ + 1, !.viewed = @ \union Running(p)]
      BY DEF Enable
    <2>2. ScopeTyped /\ outside.used + 1 \in 0..MaxOutside
      BY <2>1, CountOutside DEF TypeOK
    <2>3. Running(p) \subseteq Operators
      BY DEF Running
    <2> QED BY <2>1, <2>2, <2>3 DEF ScopeTyped
  <1> QED BY <1>5, <1>6, <1>7 DEF TypeOK

LEMMA RemoveViewTyped ==
  ASSUME TypeOK, NEW p \in Operators, RemoveView(p)
  PROVE  TypeOK'
  <1>1. ClusterTyped'
    BY RemoveTyped DEF TypeOK, RemoveView
  <1>2. RunsTyped'
    BY DEF TypeOK, RunsTyped, AtOwnStep, RemoveView
  <1> QED BY <1>1, <1>2, ScopeStays DEF TypeOK, RemoveView

LEMMA EditTyped ==
  ASSUME TypeOK, NEW p \in Operators, Edit(p)
  PROVE  TypeOK'
  <1>1. RunsTyped'
    BY NoRunTyped, RunTyped, BecomeTyped DEF TypeOK, Edit
  <1>2. PICK k \in EditedKinds : \E o \in Named(p, k) :
          /\ objs' = IF k \in OwnerPatched
                       THEN (objs \ {o}) \union {Obj(k, NameOf[p][k], 1)} ELSE objs
          /\ refs' = {r \in refs : k \in {"user", "manager", "group"} => r[1] # o}
          /\ perms' = perms \ {o}
          /\ assigned' = {a \in assigned : k = "tenant" => a[1] # o.owner}
    BY DEF Edit
  <1>3. k \in OwnerPatched => Obj(k, NameOf[p][k], 1) \in Objects
    BY NamesTyped, ObjTyped DEF OwnerPatched, YamlKinds, Kinds
  <1>4. objs' \subseteq Objects
    BY <1>2, <1>3 DEF TypeOK, ClusterTyped
  <1>5. ClusterTyped'
    BY <1>2, <1>4 DEF TypeOK, ClusterTyped, Edit
  <1>6. ScopeTyped'
    BY CountOutside DEF TypeOK, ScopeTyped, Edit, Running
  <1> QED BY <1>1, <1>5, <1>6 DEF TypeOK

-----------------------------------------------------------------------------
(* The type invariant                                                      *)

LEMMA InitTyped == Init => TypeOK
  <1> SUFFICES ASSUME Init PROVE TypeOK
    OBVIOUS
  <1>1. DefaultProvider \in Objects
    BY NamesTyped, ObjTyped DEF DefaultProvider, Kinds
  <1>2. \A p \in Operators : Obj("tenant", NameOf[p]["tenant"], 1) \in Objects
    BY NamesTyped, ObjTyped DEF YamlKinds, Kinds
  <1>3. ClusterTyped
    BY <1>1, <1>2 DEF Init, ClusterTyped
  <1>4. RunsTyped
    BY NoRunTyped DEF Init, RunsTyped
  <1>5. ScopeTyped
    BY ConstantsOK DEF Init, ScopeTyped
  <1> QED BY <1>3, <1>4, <1>5 DEF TypeOK

LEMMA StutterTyped == ASSUME TypeOK, UNCHANGED vars PROVE TypeOK'
  BY DEF TypeOK, ClusterTyped, RunsTyped, ScopeTyped, AtOwnStep, vars, cluster

LEMMA NextTyped == ASSUME TypeOK, Next PROVE TypeOK'
  <1>1. PICK p \in Operators :
          \/ \E dry \in DryRuns : Start(p, dry)
          \/ ChangeGoal(p) \/ Stop(p) \/ Work(p)
          \/ \E pol \in BrokerPolicies : Enable(p, pol)
          \/ RemoveView(p) \/ Edit(p)
    BY DEF Next
  <1>2. CASE \E dry \in DryRuns : Start(p, dry)
    BY <1>2, ConstantsOK, StartTyped
  <1>3. CASE ChangeGoal(p) \/ Stop(p)
    BY <1>3, ChangeGoalTyped, StopTyped
  <1>4. CASE Create(p)
    BY <1>4, EnsureLookTyped, EnsurePostTyped, EnsurePatchTyped, TenantPostTyped,
       TenantRecordTyped, ApplyPermissionsTyped, AssignLookTyped, AssignGroupTyped,
       BindLookTyped DEF Create
  <1>5. CASE Destroy(p)
    BY <1>5, DeleteLookTyped, DeletePutTyped, FindTenantTyped, PreflightTyped,
       UnbindLookTyped, ReapLookTyped, ReapTyped DEF Destroy
  <1>6. CASE WritePolicies(p) \/ SkipPool(p)
    BY <1>6, WritePoliciesTyped, SkipPoolTyped
  <1>7. CASE \E pol \in BrokerPolicies : Enable(p, pol)
    BY <1>7, EnableTyped
  <1>8. CASE RemoveView(p) \/ Edit(p)
    BY <1>8, RemoveViewTyped, EditTyped
  <1> QED BY <1>1, <1>2, <1>3, <1>4, <1>5, <1>6, <1>7, <1>8 DEF Work

\* The cluster never holds anything but objects of the configured names, and
\* every command stays within its own list of steps, whatever fails or is cut
\* short (create_tenant, destroy_tenant).
THEOREM TypeCorrect == Spec => []TypeOK
  <1>1. TypeOK /\ [Next]_vars => TypeOK'
    BY NextTyped, StutterTyped
  <1> QED BY InitTyped, <1>1, PTL DEF Spec

-----------------------------------------------------------------------------
(* What a command may be about to write                                    *)

\* The object a command is about to write is never a provider; the provider
\* it is about to reap is not the default one; a dry run is about to write
\* nothing.
Sound(r) ==
  /\ r.got # None => r.got.kind # "provider"
  /\ (r.cmd = "destroy" /\ r.at = 12 /\ r.phase = "put") => r.pid # 1
  /\ r.dry => r.phase \notin {"put", "perms"}
RunsSound == \A p \in Operators : Sound(run[p])

Safe == TypeOK /\ RunsSound /\ DefaultProviderKept

LEMMA NoRunSound == Sound(NoRun)
  BY DEF NoRun, Sound

LEMMA EndedSound == ASSUME NEW r \in Runs, NEW code PROVE Sound(Ended(r, code))
  BY DEF Ended, NoRun, Sound

LEMMA SteppedSound == ASSUME NEW r \in Runs PROVE Sound(Stepped(r))
  BY EndedSound DEF Stepped, Sound, Runs

LEMMA AfterEnsureSound ==
  ASSUME NEW r \in Runs, AtOwnStep(r), NEW k, NEW o
  PROVE  Sound(AfterEnsure(r, k, o))
  <1>1. Sound(Stepped(r))
    BY SteppedSound
  <1>2. CASE k = "tenant"
    BY <1>2 DEF AfterEnsure, Sound, Runs
  <1>3. CASE k = "role" /\ ~r.dry
    BY <1>3 DEF AfterEnsure, Sound, Runs
  <1>4. CASE (k = "role" /\ r.dry) \/ k = "policy"
    <2>1. Stepped(r) \in Runs
      BY SteppedTyped
    <2>2. AfterEnsure(r, k, o) = [Stepped(r) EXCEPT !.ref = o]
      BY <1>4 DEF AfterEnsure
    <2> QED BY <1>1, <2>1, <2>2 DEF Sound, Runs
  <1>5. CASE k \notin {"tenant", "role", "policy"}
    BY <1>1, <1>5 DEF AfterEnsure
  <1> QED BY <1>2, <1>3, <1>4, <1>5

LEMMA BecomeSound ==
  ASSUME TypeOK, RunsSound, NEW p \in Operators, NEW r, Sound(r), Become(p, r)
  PROVE  RunsSound'
  BY DEF TypeOK, RunsTyped, RunsSound, Become, Sound

LEMMA AdvanceSound ==
  ASSUME TypeOK, RunsSound, NEW p \in Operators, Advance(p)
  PROVE  RunsSound'
  BY RunTyped, SteppedSound, BecomeSound DEF TypeOK, Advance

LEMMA FailSound ==
  ASSUME TypeOK, RunsSound, NEW p \in Operators, NEW code, Fail(p, code)
  PROVE  RunsSound'
  BY RunTyped, EndedSound, BecomeSound DEF TypeOK, Fail

LEMMA ToPutSound ==
  ASSUME TypeOK, RunsSound, NEW p \in Operators, NEW o, ToPut(p, o),
         o # None => o.kind # "provider", ~run[p].dry,
         run[p].cmd = "destroy" => run[p].at # 12
  PROVE  RunsSound'
  <1> DEFINE s == [run[p] EXCEPT !.phase = "put", !.got = o]
  <1>1. Sound(s)
    BY RunTyped DEF TypeOK, Sound, Runs
  <1> HIDE DEF s
  <1>2. Become(p, s)
    BY DEF ToPut, s
  <1> QED BY <1>1, <1>2, BecomeSound

\* The tenant, provider steps and the others have a place of their own.
LEMMA StepPlaces ==
  ASSUME TypeOK, NEW p \in Operators
  PROVE  /\ \A k, ph : AtStep(p, "destroy", k, ph) /\ k # "provider" => run[p].at # 12
         /\ \A k, ph : AtStep(p, "destroy", k, ph) /\ k = "provider" => run[p].at = 12
  <1>1. run[p].at \in 1..12
    BY RunTyped DEF TypeOK
  <1>2. Steps["destroy"] = DestroySteps
    BY DEF Steps
  <1>3. \A i \in 1..12 : (DestroySteps[i] = "provider") <=> (i = 12)
    BY DEF DestroySteps
  <1> QED BY <1>1, <1>2, <1>3 DEF AtStep

LEMMA DefaultProviderIs == DefaultProvider.kind = "provider" /\ DefaultProvider.owner = 1
  BY DEF DefaultProvider, Obj

LEMMA StepKinds ==
  /\ Ensured \subseteq YamlKinds /\ Deleted \subseteq YamlKinds
  /\ "provider" \notin YamlKinds
  BY DEF Ensured, Deleted, YamlKinds

LEMMA NamedKind ==
  ASSUME NEW p, NEW k \in YamlKinds
  PROVE  \A o \in Named(p, k) : o.kind = k /\ o.kind # "provider" /\ o # DefaultProvider
  BY StepKinds, DefaultProviderIs DEF Named

LEMMA CreateSafe ==
  ASSUME Safe, NEW p \in Operators, Create(p)
  PROVE  RunsSound' /\ DefaultProviderKept'
  <1> USE DEF Safe
  <1>1. run[p] \in Runs /\ AtOwnStep(run[p])
    BY RunTyped DEF TypeOK
  <1>2. ASSUME NEW k, EnsureLook(p, k)
        PROVE  RunsSound' /\ DefaultProviderKept'
    <2>1. \A o \in FoundByCreate(p, k) : o.kind # "provider"
      BY <1>2, StepKinds, NamedKind DEF EnsureLook, FoundByCreate
    <2>2. ASSUME NEW o, ToPut(p, o), o # None => o.kind # "provider", ~run[p].dry
          PROVE  RunsSound'
      BY <1>2, <2>2, ToPutSound DEF EnsureLook, AtStep
    <2>3. ASSUME NEW o, Become(p, AfterEnsure(run[p], k, o))
          PROVE  RunsSound'
      BY <1>1, <2>3, AfterEnsureSound, BecomeSound
    <2>4. RunsSound'
      BY <1>2, <2>1, <2>2, <2>3 DEF EnsureLook
    <2> QED BY <1>2, <2>4 DEF EnsureLook, cluster, DefaultProviderKept
  <1>3. ASSUME NEW k, EnsurePost(p, k)
        PROVE  RunsSound' /\ DefaultProviderKept'
    <2>1. ASSUME NEW o, Become(p, AfterEnsure(run[p], k, o))
          PROVE  RunsSound'
      BY <1>1, <2>1, AfterEnsureSound, BecomeSound
    <2>2. RunsSound'
      BY <1>3, <2>1, FailSound DEF EnsurePost
    <2>3. objs \subseteq objs'
      BY <1>3 DEF EnsurePost, Fail, cluster
    <2> QED BY <2>2, <2>3 DEF DefaultProviderKept
  <1>4. ASSUME NEW k, EnsurePatch(p, k)
        PROVE  RunsSound' /\ DefaultProviderKept'
    <2>1. ASSUME NEW o, Become(p, AfterEnsure(run[p], k, o))
          PROVE  RunsSound'
      BY <1>1, <2>1, AfterEnsureSound, BecomeSound
    <2>2. RunsSound'
      BY <1>4, <2>1, FailSound DEF EnsurePatch
    <2>3. run[p].got # DefaultProvider
      BY <1>4, DefaultProviderIs DEF EnsurePatch, RunsSound, Sound
    <2>4. objs \ {run[p].got} \subseteq objs'
      BY <1>4 DEF EnsurePatch, Fail, cluster
    <2> QED BY <2>2, <2>3, <2>4 DEF DefaultProviderKept
  <1>5. CASE TenantPost(p)
    <2>1. ASSUME NEW o, Become(p, AfterEnsure(run[p], "tenant", o))
          PROVE  RunsSound'
      BY <1>1, <2>1, AfterEnsureSound, BecomeSound
    <2>2. RunsSound'
      BY <1>5, <2>1, FailSound DEF TenantPost
    <2>3. objs \subseteq objs'
      BY <1>5 DEF TenantPost, Fail, cluster
    <2> QED BY <2>2, <2>3 DEF DefaultProviderKept
  <1>6. CASE TenantRecord(p)
    <2>1. ASSUME NEW t,
                 Become(p, [Stepped(run[p]) EXCEPT
                              !.tid = IF @ # 0 THEN @ ELSE t.owner,
                              !.pid = t.owner,
                              !.seen = <<t.owner, NameOf[p]["group"]>> \in assigned])
          PROVE  RunsSound'
      <3> DEFINE r == Stepped(run[p])
                 id == IF r.tid # 0 THEN r.tid ELSE t.owner
                 known == <<t.owner, NameOf[p]["group"]>> \in assigned
                 s == [r EXCEPT !.tid = id, !.pid = t.owner, !.seen = known]
      <3>1. r \in Runs /\ Sound(r)
        BY <1>1, SteppedTyped, SteppedSound
      <3>2. r.phase # "put"
        BY <1>1 DEF Stepped, Ended, NoRun, Runs
      <3>3. Become(p, s)
        BY <2>1, <3>1 DEF Runs
      <3> HIDE DEF r, id, known
      <3>4. Sound(s)
        BY <3>1, <3>2 DEF Sound, Runs
      <3> HIDE DEF s
      <3> QED BY <3>3, <3>4, BecomeSound
    <2>2. RunsSound' /\ UNCHANGED cluster
      BY <1>6, <2>1, AdvanceSound, FailSound DEF TenantRecord, Fail
    <2> QED BY <2>2 DEF cluster, DefaultProviderKept
  <1>7. CASE ApplyPermissions(p)
    BY <1>7, AdvanceSound DEF ApplyPermissions, DefaultProviderKept
  <1>8. CASE AssignLook(p)
    <2>1. run[p].cmd = "create"
      BY <1>8 DEF AssignLook, AtStep
    <2>2. RunsSound'
      BY <1>8, <2>1, AdvanceSound, ToPutSound DEF AssignLook
    <2> QED BY <1>8, <2>2 DEF AssignLook, cluster, DefaultProviderKept
  <1>9. CASE AssignGroup(p)
    BY <1>9, AdvanceSound, FailSound DEF AssignGroup, Fail, cluster, DefaultProviderKept
  <1>10. CASE BindLook(p)
    <2>1. ASSUME NEW g \in Named(p, "group"), NEW ids, ~run[p].dry,
                 Become(p, [run[p] EXCEPT !.phase = "put", !.got = g, !.ids = ids])
          PROVE  RunsSound'
      <3> DEFINE s == [run[p] EXCEPT !.phase = "put", !.got = g, !.ids = ids]
      <3>1. g.kind # "provider" /\ run[p].cmd = "create"
        BY <1>10, NamedKind DEF YamlKinds, BindLook, AtStep
      <3>2. Sound(s)
        BY <1>1, <2>1, <3>1 DEF Sound, Runs
      <3> QED BY <2>1, <3>2, BecomeSound
    <2>2. RunsSound'
      BY <1>10, <2>1, AdvanceSound DEF BindLook
    <2> QED BY <1>10, <2>2 DEF BindLook, cluster, DefaultProviderKept
  <1> QED BY <1>2, <1>3, <1>4, <1>5, <1>6, <1>7, <1>8, <1>9, <1>10 DEF Create

LEMMA WritePoliciesSafe ==
  ASSUME Safe, NEW p \in Operators, WritePolicies(p)
  PROVE  RunsSound' /\ DefaultProviderKept'
  BY AdvanceSound, FailSound
     DEF Safe, WritePolicies, Fail, cluster, DefaultProviderKept

LEMMA RemoveSafe ==
  ASSUME DefaultProviderKept, NEW o, Remove(o), o # DefaultProvider
  PROVE  DefaultProviderKept'
  BY DEF Remove, DefaultProviderKept

LEMMA DestroySafe ==
  ASSUME Safe, NEW p \in Operators, Destroy(p)
  PROVE  RunsSound' /\ DefaultProviderKept'
  <1> USE DEF Safe
  <1>1. /\ run[p] \in Runs /\ AtOwnStep(run[p]) /\ Sound(run[p])
    BY RunTyped DEF TypeOK, RunsSound
  <1>2. ASSUME NEW k, DeleteLook(p, k)
        PROVE  RunsSound' /\ DefaultProviderKept'
    <2>1. \A o \in Named(p, k) : o.kind # "provider"
      BY <1>2, StepKinds, NamedKind DEF DeleteLook
    <2>2. k # "provider" /\ run[p].at # 12
      BY <1>2, StepPlaces, StepKinds DEF DeleteLook
    <2>3. RunsSound'
      BY <1>2, <2>1, <2>2, AdvanceSound, ToPutSound DEF DeleteLook
    <2> QED BY <1>2, <2>3 DEF DeleteLook, cluster, DefaultProviderKept
  <1>3. ASSUME NEW k, DeletePut(p, k)
        PROVE  RunsSound' /\ DefaultProviderKept'
    <2>1. RunsSound'
      BY <1>3, AdvanceSound, FailSound DEF DeletePut
    <2>2. CASE UNCHANGED cluster
      BY <2>1, <2>2 DEF cluster, DefaultProviderKept
    <2>3. CASE Remove(run[p].got) /\ run[p].got \in objs
      <3>1. run[p].got # None
        BY <2>3, ConstantsOK DEF TypeOK, ClusterTyped
      <3>2. run[p].got # DefaultProvider
        BY <1>1, <3>1, DefaultProviderIs DEF Sound
      <3> QED BY <2>1, <2>3, <3>2, RemoveSafe
    <2> QED BY <1>3, <2>2, <2>3 DEF DeletePut, Fail
  <1>4. CASE FindTenant(p)
    <2>1. run[p].cmd = "destroy" /\ run[p].phase = "look"
      BY <1>4 DEF FindTenant, AtStep
    <2>2. ASSUME NEW n, Become(p, [run[p] EXCEPT !.at = n])
          PROVE  RunsSound'
      <3>1. Sound([run[p] EXCEPT !.at = n])
        BY <1>1, <2>1 DEF Sound, Runs
      <3> QED BY <2>2, <3>1, BecomeSound
    <2>3. ASSUME NEW id, Become(p, [run[p] EXCEPT !.phase = "views", !.tid = id, !.pid = id])
          PROVE  RunsSound'
      <3>1. Sound([run[p] EXCEPT !.phase = "views", !.tid = id, !.pid = id])
        BY <1>1 DEF Sound, Runs
      <3> QED BY <2>3, <3>1, BecomeSound
    <2>4. RunsSound'
      BY <1>4, <2>2, <2>3 DEF FindTenant
    <2> QED BY <1>4, <2>4 DEF FindTenant, cluster, DefaultProviderKept
  <1>5. CASE Preflight(p)
    BY <1>5, AdvanceSound, FailSound DEF Preflight, Fail, cluster, DefaultProviderKept
  <1>6. CASE UnbindLook(p)
    <2>1. ASSUME NEW g \in Named(p, "group"), NEW ids, ~run[p].dry,
                 Become(p, [run[p] EXCEPT !.phase = "put", !.got = g, !.ids = ids])
          PROVE  RunsSound'
      <3> DEFINE s == [run[p] EXCEPT !.phase = "put", !.got = g, !.ids = ids]
      <3>1. g.kind # "provider" /\ run[p].at # 12
        BY <1>6, NamedKind, StepPlaces DEF YamlKinds, UnbindLook
      <3>2. Sound(s)
        BY <1>1, <2>1, <3>1 DEF Sound, Runs
      <3> QED BY <2>1, <3>2, BecomeSound
    <2>2. RunsSound'
      BY <1>6, <2>1, AdvanceSound DEF UnbindLook
    <2> QED BY <1>6, <2>2 DEF UnbindLook, cluster, DefaultProviderKept
  <1>7. CASE ReapLook(p)
    <2>1. ASSUME NEW id, id # 1, ~run[p].dry,
                 Become(p, [run[p] EXCEPT !.phase = "put", !.pid = id])
          PROVE  RunsSound'
      <3>1. Sound([run[p] EXCEPT !.phase = "put", !.pid = id])
        BY <1>1, <2>1 DEF Sound, Runs
      <3> QED BY <2>1, <3>1, BecomeSound
    <2>2. ASSUME run[p].pid # 1, ~run[p].dry, Become(p, [run[p] EXCEPT !.phase = "put"])
          PROVE  RunsSound'
      <3>1. Sound([run[p] EXCEPT !.phase = "put"])
        BY <1>1, <2>2 DEF Sound, Runs
      <3> QED BY <2>2, <3>1, BecomeSound
    <2>3. RunsSound'
      BY <1>7, <2>1, <2>2, AdvanceSound DEF ReapLook
    <2> QED BY <1>7, <2>3 DEF ReapLook, cluster, DefaultProviderKept
  <1>8. CASE Reap(p)
    <2>1. RunsSound'
      BY <1>8, AdvanceSound, FailSound DEF Reap
    <2>2. run[p].pid # 1
      BY <1>1, <1>8, StepPlaces DEF Reap, AtStep, Sound
    <2>3. CASE UNCHANGED cluster
      BY <2>1, <2>3 DEF cluster, DefaultProviderKept
    <2>4. ASSUME NEW o \in objs, o.owner = run[p].pid, Remove(o)
          PROVE  DefaultProviderKept'
      BY <2>2, <2>4, DefaultProviderIs, RemoveSafe
    <2> QED BY <1>8, <2>1, <2>3, <2>4 DEF Reap, Fail
  <1> QED BY <1>2, <1>3, <1>4, <1>5, <1>6, <1>7, <1>8 DEF Destroy

LEMMA OutsideSafe ==
  ASSUME Safe, NEW p \in Operators,
         \/ \E dry \in DryRuns : Start(p, dry)
         \/ ChangeGoal(p) \/ Stop(p) \/ SkipPool(p)
         \/ \E pol \in BrokerPolicies : Enable(p, pol)
         \/ RemoveView(p) \/ Edit(p)
  PROVE  RunsSound' /\ DefaultProviderKept'
  <1> USE DEF Safe
  <1>1. ASSUME NEW dry, Start(p, dry)
        PROVE  RunsSound' /\ DefaultProviderKept'
    <2>1. Sound([NoRun EXCEPT !.cmd = goal[p], !.dry = dry, !.phase = "look"])
      BY DEF NoRun, Sound
    <2> QED BY <1>1, <2>1, BecomeSound DEF Start, cluster, DefaultProviderKept
  <1>2. CASE ChangeGoal(p)
    BY <1>2 DEF ChangeGoal, RunsSound, Sound, cluster, DefaultProviderKept
  <1>3. CASE Stop(p)
    BY <1>3, RunTyped, EndedSound, BecomeSound
       DEF TypeOK, Stop, cluster, DefaultProviderKept
  <1>4. CASE SkipPool(p)
    BY <1>4, AdvanceSound DEF SkipPool, cluster, DefaultProviderKept
  <1>5. ASSUME NEW pol, Enable(p, pol)
        PROVE  RunsSound' /\ DefaultProviderKept'
    <2>1. objs \subseteq objs'
      BY <1>5 DEF Enable
    <2>2. RunsSound'
      BY <1>5 DEF Enable, RunsSound, Sound
    <2> QED BY <2>1, <2>2 DEF DefaultProviderKept
  <1>6. CASE RemoveView(p)
    <2>1. RunsSound'
      BY <1>6 DEF RemoveView, RunsSound, Sound
    <2> QED BY <1>6, <2>1, NamedKind, RemoveSafe DEF RemoveView, YamlKinds
  <1>7. CASE Edit(p)
    <2>1. RunsSound'
      BY <1>7, NoRunSound, BecomeSound DEF Edit, RunsSound
    <2>2. PICK k \in EditedKinds : \E o \in Named(p, k) :
            objs' = IF k \in OwnerPatched
                      THEN (objs \ {o}) \union {Obj(k, NameOf[p][k], 1)} ELSE objs
      BY <1>7 DEF Edit
    <2>3. k \in OwnerPatched => k \in YamlKinds
      BY DEF OwnerPatched, YamlKinds
    <2>4. DefaultProvider \in objs'
      BY <2>2, <2>3, NamedKind DEF DefaultProviderKept
    <2> QED BY <2>1, <2>4 DEF DefaultProviderKept
  <1> QED BY <1>1, <1>2, <1>3, <1>4, <1>5, <1>6, <1>7

LEMMA InitSafe == Init => Safe
  BY InitTyped, NoRunSound DEF Init, Safe, RunsSound, DefaultProviderKept

LEMMA NextSafe == Safe /\ [Next]_vars => Safe'
  <1> SUFFICES ASSUME Safe, [Next]_vars PROVE Safe'
    OBVIOUS
  <1>1. CASE Next
    <2>1. TypeOK'
      BY <1>1, NextTyped DEF Safe
    <2>2. RunsSound' /\ DefaultProviderKept'
      BY <1>1, CreateSafe, DestroySafe, WritePoliciesSafe, OutsideSafe DEF Next, Work
    <2> QED BY <2>1, <2>2 DEF Safe
  <1>2. CASE UNCHANGED vars
    BY <1>2, StutterTyped
       DEF Safe, RunsSound, Sound, DefaultProviderKept, vars, cluster
  <1> QED BY <1>1, <1>2

LEMMA AlwaysSafe == Spec => []Safe
  BY InitSafe, NextSafe, PTL DEF Spec

\* No command, cut short or not, and no sequence of commands ever deletes the
\* cluster's default provider, whatever the tenants, their providers and the
\* default provider are called (_reap_local_provider).
THEOREM DefaultProviderIsKept == Spec => []DefaultProviderKept
  BY AlwaysSafe, PTL DEF Safe

-----------------------------------------------------------------------------
(* Dry runs                                                                *)

\* A step of the command of q leaves the commands of the others alone.
LEMMA Becomes ==
  ASSUME TypeOK, NEW p \in Operators, NEW r, Become(p, r)
  PROVE  run'[p] = r
  BY DEF TypeOK, RunsTyped, Become

LEMMA OneCommand ==
  ASSUME TypeOK, NEW q \in Operators, NEW r, Become(q, r), NEW p \in Operators, p # q
  PROVE  run'[p] = run[p]
  BY DEF TypeOK, RunsTyped, Become

\* Only the put phases, and the permissions of a role, change the cluster.
LEMMA WritesInPut ==
  ASSUME NEW p \in Operators, Work(p), ~UNCHANGED cluster
  PROVE  run[p].phase \in {"put", "perms"}
  <1>1. ASSUME NEW k, EnsureLook(p, k) \/ EnsurePost(p, k) \/ EnsurePatch(p, k)
        PROVE  run[p].phase \in {"put", "perms"}
    BY <1>1 DEF EnsureLook, EnsurePost, EnsurePatch, AtStep
  <1>2. CASE TenantPost(p) \/ TenantRecord(p) \/ ApplyPermissions(p)
    BY <1>2 DEF TenantPost, TenantRecord, ApplyPermissions, AtStep, Fail
  <1>3. CASE AssignLook(p) \/ AssignGroup(p) \/ BindLook(p) \/ WritePolicies(p) \/ SkipPool(p)
    BY <1>3 DEF AssignLook, AssignGroup, BindLook, WritePolicies, SkipPool, AtStep
  <1>4. ASSUME NEW k, DeleteLook(p, k) \/ DeletePut(p, k)
        PROVE  run[p].phase \in {"put", "perms"}
    BY <1>4 DEF DeleteLook, DeletePut, AtStep
  <1>5. CASE FindTenant(p) \/ Preflight(p) \/ UnbindLook(p) \/ ReapLook(p) \/ Reap(p)
    BY <1>5 DEF FindTenant, Preflight, UnbindLook, ReapLook, Reap, AtStep, Fail
  <1> QED BY <1>1, <1>2, <1>3, <1>4, <1>5 DEF Work, Create, Destroy

LEMMA WorkBecomes ==
  ASSUME NEW p \in Operators, Work(p)
  PROVE  \E r : Become(p, r)
  <1>1. ASSUME NEW k, EnsureLook(p, k) \/ EnsurePost(p, k) \/ EnsurePatch(p, k)
        PROVE  \E r : Become(p, r)
    BY <1>1 DEF EnsureLook, EnsurePost, EnsurePatch, ToPut, Fail
  <1>2. CASE TenantPost(p) \/ TenantRecord(p) \/ ApplyPermissions(p)
    BY <1>2 DEF TenantPost, TenantRecord, ApplyPermissions, Advance, Fail
  <1>3. CASE AssignLook(p) \/ AssignGroup(p) \/ BindLook(p) \/ WritePolicies(p) \/ SkipPool(p)
    BY <1>3 DEF AssignLook, AssignGroup, BindLook, WritePolicies, SkipPool, Advance, ToPut, Fail
  <1>4. ASSUME NEW k, DeleteLook(p, k) \/ DeletePut(p, k)
        PROVE  \E r : Become(p, r)
    BY <1>4 DEF DeleteLook, DeletePut, Advance, ToPut, Fail
  <1>5. CASE FindTenant(p) \/ Preflight(p) \/ UnbindLook(p) \/ ReapLook(p) \/ Reap(p)
    BY <1>5 DEF FindTenant, Preflight, UnbindLook, ReapLook, Reap, Advance, Fail
  <1> QED BY <1>1, <1>2, <1>3, <1>4, <1>5 DEF Work, Create, Destroy

LEMMA DryStep ==
  ASSUME Safe, Next, NEW p \in Operators, run[p].dry, ~Idle(p), run'[p] # run[p]
  PROVE  UNCHANGED cluster
  <1>1. PICK q \in Operators :
          \/ \E dry \in DryRuns : Start(q, dry)
          \/ ChangeGoal(q) \/ Stop(q) \/ Work(q)
          \/ \E pol \in BrokerPolicies : Enable(q, pol)
          \/ RemoveView(q) \/ Edit(q)
    BY DEF Next
  <1>2. CASE \E dry \in DryRuns : Start(q, dry)
    BY <1>2 DEF Start
  <1>3. CASE ChangeGoal(q) \/ (\E pol \in BrokerPolicies : Enable(q, pol)) \/ RemoveView(q)
    BY <1>3 DEF ChangeGoal, Enable, RemoveView
  <1>4. CASE Stop(q)
    BY <1>4 DEF Stop
  <1>5. CASE Work(q)
    <2>1. p = q
      BY <1>5, WorkBecomes, OneCommand DEF Safe
    <2>2. run[p].phase \notin {"put", "perms"}
      BY DEF Safe, RunsSound, Sound
    <2> QED BY <1>5, <2>1, <2>2, WritesInPut
  <1>6. CASE Edit(q)
    <2>1. p = q
      BY <1>6, OneCommand DEF Safe, Edit
    <2>2. Become(p, run[p])
      BY <1>6, <2>1 DEF Edit
    <2> QED BY <2>2, Becomes DEF Safe
  <1> QED BY <1>1, <1>2, <1>3, <1>4, <1>5, <1>6

\* No step of a --plan run, of either command and from any state of the
\* cluster, sends a POST, a PATCH or a DELETE: the checks of plan_mode that
\* create_tenant and destroy_tenant make by hand are complete.
THEOREM DryRunsWriteNothing == Spec => DryRunWritesNothing
  <1>1. Safe /\ [Next]_vars =>
          [\A p \in Operators :
             (run[p].dry /\ ~Idle(p) /\ run'[p] # run[p]) => UNCHANGED cluster]_vars
    BY DryStep
  <1> QED BY <1>1, AlwaysSafe, PTL DEF Spec, DryRunWritesNothing

-----------------------------------------------------------------------------
(* KeptApart with the cluster as a parameter, to speak of the cluster      *)
(* before and after a step                                                 *)

IdKinds == {"tenant", "provider"}
IdsIn(O, L) ==
  /\ \A o \in O : o.kind \in IdKinds => o.owner \in 1..L
  /\ \A a, b \in O : (a.kind = b.kind /\ a.kind \in IdKinds /\ a.owner = b.owner) => a = b
  /\ \A t, l \in O : (/\ t.kind = "tenant" /\ l.kind = "provider"
                      /\ t.owner = l.owner /\ l.owner # 1) =>
       \E p \in Operators : Mine(p, t) /\ l.name = ProviderName[p]
RefsIn(R) == \A r \in R : \E p \in Operators : Mine(p, r[1]) /\ Mine(p, r[2])
HoldsIn(p, r, O, L) ==
  /\ r.got # None => Mine(p, r.got)
  /\ r.ref # None => Mine(p, r.ref)
  /\ \A x \in r.ids : Mine(p, x)
  /\ r.tid <= L /\ r.pid <= L
  /\ \A t \in O : (t.kind = "tenant" /\ t.owner = r.tid) => Mine(p, t)
  /\ \A l \in O : (l.kind = "provider" /\ l.owner = r.pid /\ r.pid # 1) => MyProvider(p, l)

LEMMA ApartIs ==
  /\ KeptApart <=> /\ IdsIn(objs, lastId) /\ RefsIn(refs)
                   /\ \A p \in Operators : HoldsIn(p, run[p], objs, lastId)
  /\ KeptApart' <=> /\ IdsIn(objs', lastId') /\ RefsIn(refs')
                    /\ \A p \in Operators : HoldsIn(p, run'[p], objs', lastId')
  BY DEF KeptApart, IdsUnique, RefsInside, HoldsOwn, IdsIn, RefsIn, HoldsIn, IdKinds,
         Mine, MyProvider

LEMMA MineOfOne ==
  ASSUME DisjointNames, NEW p \in Operators, NEW q \in Operators, NEW o,
         Mine(p, o), Mine(q, o)
  PROVE  p = q
  BY DEF DisjointNames, Mine

LEMMA NamedMine ==
  ASSUME NEW p, NEW k \in YamlKinds
  PROVE  \A o \in Named(p, k) : Mine(p, o) /\ o \in objs /\ o.kind = k
  BY DEF Named, Mine

LEMMA ObjMine ==
  ASSUME NEW p, NEW k \in YamlKinds, NEW id
  PROVE  Mine(p, Obj(k, NameOf[p][k], id))
  BY DEF Obj, Mine

-----------------------------------------------------------------------------
(* The record of a command                                                 *)

\* Ids that are new on the cluster do not concern a command that is running.
LEMMA NewIdsHold ==
  ASSUME NEW p, NEW r, NEW O, NEW L \in Nat, NEW O2, NEW L2 \in Nat, L <= L2,
         r.tid \in Nat, r.pid \in Nat, HoldsIn(p, r, O, L),
         \A o \in O2 : o.kind \in IdKinds => (o \in O \/ (o.owner \in Nat /\ o.owner > L))
  PROVE  HoldsIn(p, r, O2, L2)
  BY DEF HoldsIn, IdKinds

LEMMA BlankHolds ==
  ASSUME NEW p, NEW r, NEW O, NEW L \in Nat, IdsIn(O, L),
         r.got = None, r.ref = None, r.ids = {}, r.tid = 0, r.pid = 0
  PROVE  HoldsIn(p, r, O, L)
  BY DEF HoldsIn, IdsIn, IdKinds

LEMMA EndedHolds ==
  ASSUME NEW p, NEW r \in Runs, NEW code, NEW O, NEW L \in Nat, IdsIn(O, L)
  PROVE  HoldsIn(p, Ended(r, code), O, L)
  <1> DEFINE s == Ended(r, code)
  <1>1. s.got = None /\ s.ref = None /\ s.ids = {} /\ s.tid = 0 /\ s.pid = 0
    BY DEF Ended, NoRun
  <1> HIDE DEF s
  <1>2. HoldsIn(p, s, O, L)
    BY <1>1, BlankHolds
  <1> QED BY <1>2 DEF s

LEMMA SteppedHolds ==
  ASSUME NEW p, NEW r \in Runs, NEW O, NEW L \in Nat, IdsIn(O, L), HoldsIn(p, r, O, L)
  PROVE  HoldsIn(p, Stepped(r), O, L)
  <1>1. CASE r.at = LastStep(r.cmd)
    BY <1>1, EndedHolds DEF Stepped
  <1>2. CASE r.at # LastStep(r.cmd)
    <2> DEFINE s == [r EXCEPT !.at = @ + 1, !.phase = "look", !.got = None, !.ids = {}]
    <2>1. HoldsIn(p, s, O, L)
      BY DEF HoldsIn, Runs
    <2> QED BY <1>2, <2>1 DEF Stepped
  <1> QED BY <1>1, <1>2

LEMMA AfterEnsureHolds ==
  ASSUME NEW p, NEW r \in Runs, AtOwnStep(r), NEW k, NEW o \in Objects \union {None},
         NEW O, NEW L \in Nat, IdsIn(O, L), HoldsIn(p, r, O, L),
         o # None => Mine(p, o),
         (o # None /\ k = "tenant") => (o.kind = "tenant" /\ o \in O)
  PROVE  HoldsIn(p, AfterEnsure(r, k, o), O, L)
  <1>1. Stepped(r) \in Runs /\ HoldsIn(p, Stepped(r), O, L)
    BY SteppedTyped, SteppedHolds
  <1>2. CASE k = "tenant"
    <2> DEFINE id == IF o = None THEN 0 ELSE o.owner
               s == [r EXCEPT !.phase = "record", !.tid = id, !.got = None]
    <2>1. /\ id <= L
          /\ \A t \in O : (t.kind = "tenant" /\ t.owner = id) => Mine(p, t)
      BY <1>2 DEF IdsIn, IdKinds
    <2> HIDE DEF id
    <2>2. HoldsIn(p, s, O, L)
      BY <2>1 DEF HoldsIn, Runs
    <2> QED BY <1>2, <2>2 DEF AfterEnsure, id
  <1>3. CASE k = "role" /\ ~r.dry
    <2> DEFINE s == [r EXCEPT !.phase = "perms", !.ref = o, !.got = None]
    <2>1. HoldsIn(p, s, O, L)
      BY DEF HoldsIn, Runs
    <2> QED BY <1>3, <2>1 DEF AfterEnsure
  <1>4. CASE (k = "role" /\ r.dry) \/ k = "policy"
    <2> DEFINE s == [Stepped(r) EXCEPT !.ref = o]
    <2>1. HoldsIn(p, s, O, L)
      BY <1>1 DEF HoldsIn, Runs
    <2> QED BY <1>4, <2>1 DEF AfterEnsure
  <1>5. CASE k \notin {"tenant", "role", "policy"}
    BY <1>1, <1>5 DEF AfterEnsure
  <1> QED BY <1>2, <1>3, <1>4, <1>5

-----------------------------------------------------------------------------
(* What a step of one operator may change                                  *)

Diff(A, B) == (A \ B) \union (B \ A)

\* Only objects, references and permissions of q, the provider of q's tenant,
\* and what is assigned to tenants of q.
Reach(q) ==
  /\ \A o \in Diff(objs, objs') \union Diff(perms, perms') :
       Mine(q, o) \/ (o.kind = "provider" /\ o.owner # 1 /\ MyProvider(q, o))
  /\ \A r \in Diff(refs, refs') : Mine(q, r[1]) /\ Mine(q, r[2])
  /\ \A a \in Diff(assigned, assigned') :
       \A t \in objs : (t.kind = "tenant" /\ t.owner = a[1]) => Mine(q, t)

LEMMA NotMine ==
  ASSUME DisjointNames, NEW p \in Operators, NEW q \in Operators, p # q, NEW o,
         Mine(q, o) \/ (o.kind = "provider" /\ o.owner # 1 /\ MyProvider(q, o))
  PROVE  /\ ~(o.kind \in YamlKinds /\ o.name = NameOf[p][o.kind])
         /\ ~(o.kind = "provider" /\ o.name = ProviderName[p] /\ o.owner # 1)
  BY StepKinds DEF DisjointNames, Mine, MyProvider

LEMMA ReachSlice ==
  ASSUME DisjointNames, NEW p \in Operators, NEW q \in Operators, p # q, Reach(q)
  PROVE  UNCHANGED Slice(p)
  <1> DEFINE own == Own(p)
             R == {r \in refs : r[1] \in own \/ r[2] \in own}
             S == {r \in refs' : r[1] \in own \/ r[2] \in own}
             A == {a \in assigned : \E o \in own : o.kind = "tenant" /\ o.owner = a[1]}
             B == {a \in assigned' : \E o \in own : o.kind = "tenant" /\ o.owner = a[1]}
  <1>1. \A o \in Diff(objs, objs') : ~(o \in own) /\ ~(o \in Own(p)')
    BY NotMine DEF Reach, Own
  <1>2. Own(p)' = own
    BY <1>1 DEF Own, Diff
  <1>3. \A o \in own : ~Mine(q, o) /\ o \notin Diff(perms, perms')
    BY NotMine DEF Own, Reach
  <1>4. \A o \in own : o \in objs
    BY DEF Own
  <1> HIDE DEF own
  <1>5. R = S
    BY <1>3 DEF Reach, Diff
  <1>6. perms \intersect own = perms' \intersect own
    BY <1>3 DEF Reach, Diff
  <1>7. A = B
    BY <1>3, <1>4 DEF Reach, Diff
  <1>8. Slice(p) = <<own, R, perms \intersect own, A>>
    BY DEF Slice, own
  <1>9. Slice(p)' = <<own, S, perms' \intersect own, B>>
    BY <1>2 DEF Slice, own
  <1> QED BY <1>5, <1>6, <1>7, <1>8, <1>9

-----------------------------------------------------------------------------
(* One step                                                                *)

Apart == TypeOK /\ KeptApart

LEMMA ApartRun ==
  ASSUME Apart, NEW p \in Operators
  PROVE  /\ run[p] \in Runs /\ AtOwnStep(run[p]) /\ HoldsIn(p, run[p], objs, lastId)
         /\ IdsIn(objs, lastId) /\ RefsIn(refs) /\ lastId \in Nat
         /\ run[p].tid \in Nat /\ run[p].pid \in Nat
  BY RunTyped, ApartIs DEF Apart, TypeOK, ClusterTyped

\* Fewer tenants and providers are as well numbered as before.
LEMMA FewerIds ==
  ASSUME NEW O, NEW O2, NEW L, IdsIn(O, L),
         \A o \in O2 : o.kind \in IdKinds => o \in O
  PROVE  IdsIn(O2, L)
  BY DEF IdsIn, IdKinds

\* The step of q is accounted for by q's record and the cluster it leaves.
LEMMA StepApart ==
  ASSUME Apart, NEW q \in Operators, NEW r, Become(q, r),
         IdsIn(objs', lastId'), RefsIn(refs'), HoldsIn(q, r, objs', lastId'),
         lastId' \in Nat, lastId <= lastId',
         \A o \in objs' : o.kind \in IdKinds => (o \in objs \/ (o.owner \in Nat /\ o.owner > lastId))
  PROVE  KeptApart'
  <1>1. ASSUME NEW p \in Operators
        PROVE  HoldsIn(p, run'[p], objs', lastId')
    <2>1. CASE p = q
      <3>1. run'[p] = r
        BY <2>1 DEF Apart, TypeOK, RunsTyped, Become
      <3> QED BY <2>1, <3>1
    <2>2. CASE p # q
      <3>1. run'[p] = run[p]
        BY <2>2, OneCommand DEF Apart
      <3>2. HoldsIn(p, run[p], objs', lastId')
        BY ApartRun, NewIdsHold
      <3> QED BY <3>1, <3>2
    <2> QED BY <2>1, <2>2
  <1> QED BY <1>1, ApartIs

LEMMA QuietApart ==
  ASSUME Apart, NEW q \in Operators, NEW r, Become(q, r), UNCHANGED cluster,
         HoldsIn(q, r, objs, lastId)
  PROVE  KeptApart' /\ Reach(q)
  <1>1. UNCHANGED <<objs, refs, perms, assigned, lastId>>
    BY DEF cluster
  <1>2. KeptApart'
    BY <1>1, ApartRun, StepApart
  <1> QED BY <1>1, <1>2 DEF Reach, Diff

LEMMA AdvanceApart ==
  ASSUME Apart, NEW q \in Operators, Advance(q), UNCHANGED cluster
  PROVE  KeptApart' /\ Reach(q)
  BY ApartRun, SteppedHolds, QuietApart DEF Advance

LEMMA FailApart ==
  ASSUME Apart, NEW q \in Operators, NEW code, Fail(q, code)
  PROVE  KeptApart' /\ Reach(q)
  BY ApartRun, EndedHolds, QuietApart DEF Fail

LEMMA ToPutApart ==
  ASSUME Apart, NEW q \in Operators, NEW o, o # None => Mine(q, o), ToPut(q, o),
         UNCHANGED cluster
  PROVE  KeptApart' /\ Reach(q)
  <1> DEFINE s == [run[q] EXCEPT !.phase = "put", !.got = o]
  <1>1. HoldsIn(q, s, objs, lastId)
    BY ApartRun DEF HoldsIn, Runs
  <1> HIDE DEF s
  <1>2. Become(q, s)
    BY DEF ToPut, s
  <1> QED BY <1>1, <1>2, QuietApart

\* A step that changes the cluster but makes no tenant and no provider.
LEMMA WriteApart ==
  ASSUME Apart, NEW q \in Operators, NEW r, Become(q, r),
         UNCHANGED lastId, RefsIn(refs'), HoldsIn(q, r, objs, lastId),
         \A o \in objs' : o.kind \in IdKinds => o \in objs,
         r.tid \in Nat, r.pid \in Nat
  PROVE  KeptApart'
  <1>1. IdsIn(objs', lastId)
    BY ApartRun, FewerIds
  <1>2. HoldsIn(q, r, objs', lastId)
    BY ApartRun, NewIdsHold
  <1> QED BY <1>1, <1>2, ApartRun, StepApart

-----------------------------------------------------------------------------
(* create_tenant                                                           *)

LEMMA EnsureLookApart ==
  ASSUME Apart, NEW q \in Operators, NEW k, EnsureLook(q, k)
  PROVE  KeptApart' /\ Reach(q)
  <1>1. k \in YamlKinds /\ UNCHANGED cluster
    BY StepKinds DEF EnsureLook
  <1>2. \A o \in FoundByCreate(q, k) : Mine(q, o) /\ o \in objs /\ o.kind = k /\ o \in Objects
    BY <1>1, NamedMine, NamedTyped DEF FoundByCreate, Apart, TypeOK
  <1>3. ASSUME NEW o \in Objects \union {None}, Become(q, AfterEnsure(run[q], k, o)),
               o # None => (Mine(q, o) /\ o \in objs /\ o.kind = k)
        PROVE  KeptApart' /\ Reach(q)
    <2>1. HoldsIn(q, AfterEnsure(run[q], k, o), objs, lastId)
      BY <1>3, ApartRun, AfterEnsureHolds
    <2> QED BY <1>1, <1>3, <2>1, QuietApart
  <1>4. CASE Become(q, AfterEnsure(run[q], k, None))
    BY <1>3, <1>4
  <1>5. CASE ToPut(q, None)
    BY <1>1, <1>5, ToPutApart
  <1>6. ASSUME NEW o \in FoundByCreate(q, k),
               ToPut(q, o) \/ Become(q, AfterEnsure(run[q], k, o))
        PROVE  KeptApart' /\ Reach(q)
    BY <1>1, <1>2, <1>3, <1>6, ToPutApart
  <1> QED BY <1>4, <1>5, <1>6 DEF EnsureLook

LEMMA TenantPostApart ==
  ASSUME Apart, NEW q \in Operators, TenantPost(q)
  PROVE  KeptApart' /\ Reach(q)
  <1> DEFINE n == NameOf[q]["tenant"]
             t == Obj("tenant", n, lastId + 1)
             l == Obj("provider", ProviderName[q], lastId + 1)
             r == AfterEnsure(run[q], "tenant", t)
  <1>1. CASE Fail(q, "exists")
    BY <1>1, FailApart
  <1>2. CASE /\ objs' = objs \union {t, l}
             /\ lastId' = lastId + 1
             /\ Become(q, r)
             /\ UNCHANGED <<refs, perms, assigned>>
    <2>1. lastId \in Nat \ {0}
      BY DEF Apart, TypeOK, ClusterTyped
    <2>2. /\ t.kind = "tenant" /\ t.owner = lastId + 1 /\ t.name = n
          /\ l.kind = "provider" /\ l.owner = lastId + 1 /\ l.name = ProviderName[q]
          /\ Mine(q, t) /\ MyProvider(q, l)
      BY DEF Obj, Mine, MyProvider, YamlKinds
    <2>3. t \in Objects
      BY <2>1, NamesTyped, ObjTyped DEF YamlKinds, Kinds
    <2> HIDE DEF t, l
    <2>4. IdsIn(objs, lastId)
      BY ApartRun
    <2>5. IdsIn(objs', lastId + 1)
      <3>1. \A o \in objs' : o.kind \in IdKinds => o.owner \in 1..(lastId + 1)
        BY <1>2, <2>1, <2>2, <2>4 DEF IdsIn, IdKinds
      <3>2. \A a, b \in objs' : (a.kind = b.kind /\ a.kind \in IdKinds /\ a.owner = b.owner) => a = b
        BY <1>2, <2>1, <2>2, <2>4 DEF IdsIn, IdKinds
      <3>3. \A a, b \in objs' : (/\ a.kind = "tenant" /\ b.kind = "provider"
                                 /\ a.owner = b.owner /\ b.owner # 1) =>
              \E p \in Operators : Mine(p, a) /\ b.name = ProviderName[p]
        <4> SUFFICES ASSUME NEW a \in objs', NEW b \in objs', a.kind = "tenant",
                            b.kind = "provider", a.owner = b.owner, b.owner # 1
                     PROVE  \E p \in Operators : Mine(p, a) /\ b.name = ProviderName[p]
          OBVIOUS
        <4>1. CASE a \in objs /\ b \in objs
          BY <2>4, <4>1 DEF IdsIn
        <4>2. CASE a = t /\ b = l
          BY <2>2, <4>2
        <4>3. CASE a = t /\ b \in objs
          BY <2>1, <2>2, <2>4, <4>3 DEF IdsIn, IdKinds
        <4>4. CASE a \in objs /\ b = l
          BY <2>1, <2>2, <2>4, <4>4 DEF IdsIn, IdKinds
        <4> QED BY <1>2, <2>2, <4>1, <4>2, <4>3, <4>4
      <3> QED BY <3>1, <3>2, <3>3 DEF IdsIn
    <2>6. HoldsIn(q, run[q], objs', lastId + 1)
      <3>1. \A o \in objs' : o.kind \in IdKinds => (o \in objs \/ (o.owner \in Nat /\ o.owner > lastId))
        BY <1>2, <2>1, <2>2
      <3> QED BY <2>1, <3>1, ApartRun, NewIdsHold
    <2>7. HoldsIn(q, r, objs', lastId + 1)
      <3>1. lastId + 1 \in Nat /\ t \in objs'
        BY <1>2, <2>1
      <3> QED BY <2>2, <2>3, <2>5, <2>6, <3>1, ApartRun, AfterEnsureHolds
    <2>8. KeptApart'
      <3>1. /\ RefsIn(refs') /\ lastId' = lastId + 1 /\ lastId' \in Nat /\ lastId <= lastId'
            /\ \A o \in objs' : o.kind \in IdKinds =>
                 (o \in objs \/ (o.owner \in Nat /\ o.owner > lastId))
        BY <1>2, <2>1, <2>2, ApartRun
      <3> HIDE DEF r
      <3> QED BY <1>2, <2>5, <2>7, <3>1, StepApart
    <2>9. Reach(q)
      <3>1. l.owner # 1
        BY <2>1, <2>2
      <3>2. \A o \in Diff(objs, objs') : o = t \/ o = l
        BY <1>2 DEF Diff
      <3>3. UNCHANGED <<refs, perms, assigned>>
        BY <1>2
      <3> QED BY <2>2, <3>1, <3>2, <3>3 DEF Reach, Diff
    <2> QED BY <2>8, <2>9
  <1> QED BY <1>1, <1>2 DEF TenantPost

\* The provider with the id of an operator's tenant is that operator's.
LEMMA ProviderOfTenant ==
  ASSUME DisjointNames, Apart, NEW q \in Operators, NEW t \in Named(q, "tenant")
  PROVE  /\ t.owner \in 1..lastId
         /\ \A u \in objs : (u.kind = "tenant" /\ u.owner = t.owner) => Mine(q, u)
         /\ \A l \in objs : (l.kind = "provider" /\ l.owner = t.owner /\ t.owner # 1)
                              => MyProvider(q, l)
  <1>1. t \in objs /\ t.kind = "tenant" /\ Mine(q, t) /\ IdsIn(objs, lastId)
    BY NamedMine, ApartRun DEF YamlKinds
  <1>2. \A l \in objs : (l.kind = "provider" /\ l.owner = t.owner /\ t.owner # 1)
                          => l.name = ProviderName[q]
    BY <1>1, MineOfOne DEF IdsIn
  <1> QED BY <1>1, <1>2 DEF IdsIn, IdKinds, MyProvider

LEMMA TenantRecordApart ==
  ASSUME DisjointNames, Apart, NEW q \in Operators, TenantRecord(q)
  PROVE  KeptApart' /\ Reach(q)
  <1>1. CASE Advance(q) /\ UNCHANGED cluster
    BY <1>1, AdvanceApart
  <1>2. CASE Fail(q, "gone")
    BY <1>2, FailApart
  <1>3. ASSUME NEW t \in Named(q, "tenant"), UNCHANGED cluster,
               Become(q, [Stepped(run[q]) EXCEPT
                            !.tid = IF @ # 0 THEN @ ELSE t.owner,
                            !.pid = t.owner,
                            !.seen = <<t.owner, NameOf[q]["group"]>> \in assigned])
        PROVE  KeptApart' /\ Reach(q)
    <2> DEFINE r == Stepped(run[q])
               id == IF r.tid # 0 THEN r.tid ELSE t.owner
               known == <<t.owner, NameOf[q]["group"]>> \in assigned
               s == [r EXCEPT !.tid = id, !.pid = t.owner, !.seen = known]
    <2>1. r \in Runs /\ HoldsIn(q, r, objs, lastId)
      BY ApartRun, SteppedTyped, SteppedHolds
    <2>2. Become(q, s)
      BY <1>3, <2>1 DEF Runs
    <2>3. id = r.tid \/ id = t.owner
      OBVIOUS
    <2> HIDE DEF r, id, known
    <2>4. HoldsIn(q, s, objs, lastId)
      BY <2>1, <2>3, ProviderOfTenant DEF HoldsIn, Runs
    <2> HIDE DEF s
    <2> QED BY <1>3, <2>2, <2>4, QuietApart
  <1> QED BY <1>1, <1>2, <1>3 DEF TenantRecord

LEMMA TargetsMine ==
  ASSUME Apart, NEW q \in Operators, NEW k, None \notin Targets(q, k)
  PROVE  \A x \in Targets(q, k) : Mine(q, x)
  <1>1. \A g \in Named(q, "group") : Mine(q, g)
    BY NamedMine DEF YamlKinds
  <1>2. run[q].ref # None => Mine(q, run[q].ref)
    BY ApartRun DEF HoldsIn
  <1> QED BY <1>1, <1>2 DEF Targets

\* Nothing on the cluster is None.
LEMMA NoneNotThere == ASSUME Apart PROVE None \notin objs
  BY ConstantsOK DEF Apart, TypeOK, ClusterTyped

LEMMA EnsurePostApart ==
  ASSUME Apart, NEW q \in Operators, NEW k, EnsurePost(q, k)
  PROVE  KeptApart' /\ Reach(q)
  <1> DEFINE id == IF HolderKind(k) = "provider" THEN run[q].pid ELSE run[q].tid
             o == Obj(k, NameOf[q][k], id)
             r == AfterEnsure(run[q], k, o)
  <1>1. CASE Fail(q, "exists") \/ Fail(q, "gone")
    BY <1>1, FailApart
  <1>2. CASE /\ Targets(q, k) \subseteq objs
             /\ objs' = objs \union {o}
             /\ refs' = refs \union ({o} \X Targets(q, k))
             /\ Become(q, r)
             /\ UNCHANGED <<perms, assigned, lastId>>
    <2>1. k \in YamlKinds /\ k \notin IdKinds /\ k # "tenant"
      BY DEF EnsurePost, Ensured, YamlKinds, IdKinds
    <2>2. id \in Nat
      BY ApartRun
    <2>3. o \in Objects /\ o.kind = k /\ Mine(q, o)
      BY <2>1, <2>2, NamesTyped, ObjTyped, ObjMine DEF Kinds, Obj
    <2> HIDE DEF o
    <2>4. \A x \in Targets(q, k) : Mine(q, x)
      BY <1>2, NoneNotThere, TargetsMine
    <2>5. HoldsIn(q, r, objs, lastId)
      BY <2>1, <2>3, ApartRun, AfterEnsureHolds
    <2>6. r \in Runs
      BY <2>3, ApartRun, AfterEnsureTyped
    <2>7. r.tid \in Nat /\ r.pid \in Nat
      BY <2>6 DEF Runs
    <2>8. RefsIn(refs')
      BY <1>2, <2>3, <2>4, ApartRun DEF RefsIn
    <2>9. \A x \in objs' : x.kind \in IdKinds => x \in objs
      BY <1>2, <2>1, <2>3
    <2> HIDE DEF r
    <2>10. KeptApart'
      BY <1>2, <2>5, <2>7, <2>8, <2>9, WriteApart
    <2>11. Reach(q)
      BY <1>2, <2>3, <2>4 DEF Reach, Diff
    <2> QED BY <2>10, <2>11
  <1> QED BY <1>1, <1>2 DEF EnsurePost

\* The other end of a reference from or to an object of q is q's too.
LEMMA RefsMine ==
  ASSUME DisjointNames, Apart, NEW q \in Operators, NEW r \in refs,
         Mine(q, r[1]) \/ Mine(q, r[2])
  PROVE  Mine(q, r[1]) /\ Mine(q, r[2])
  <1>1. PICK p \in Operators : Mine(p, r[1]) /\ Mine(p, r[2])
    BY ApartRun DEF RefsIn
  <1> QED BY <1>1, MineOfOne

LEMMA EnsurePatchApart ==
  ASSUME DisjointNames, Apart, NEW q \in Operators, NEW k, EnsurePatch(q, k)
  PROVE  KeptApart' /\ Reach(q)
  <1> DEFINE o == run[q].got
             n == IF k \in OwnerPatched THEN Obj(k, NameOf[q][k], run[q].tid) ELSE o
             Moved(x) == IF x = o THEN n ELSE x
             kept == {r \in refs : ~(k \in RefsPatched /\ r[1] = o)}
             s == AfterEnsure(run[q], k, n)
  <1>1. CASE Fail(q, "gone")
    BY <1>1, FailApart
  <1>2. CASE /\ o \in objs /\ Targets(q, k) \subseteq objs
             /\ objs' = (objs \ {o}) \union {n}
             /\ refs' = {<<Moved(r[1]), Moved(r[2])>> : r \in kept}
                          \union ({n} \X Targets(q, k))
             /\ Become(q, s)
             /\ UNCHANGED <<perms, assigned, lastId>>
    <2>1. k \in YamlKinds /\ k # "tenant" /\ o # None
      BY DEF EnsurePatch, Ensured, YamlKinds
    <2>2. Mine(q, o) /\ o \in Objects
      BY <1>2, <2>1, ApartRun DEF HoldsIn, Apart, TypeOK, ClusterTyped
    <2>3. Mine(q, n) /\ n \in Objects
      BY <2>1, <2>2, ApartRun, NamesTyped, ObjTyped, ObjMine DEF Kinds
    <2>4. n = o \/ n.kind \notin IdKinds
      BY DEF Obj, OwnerPatched, IdKinds
    <2>5. \A x \in Targets(q, k) : Mine(q, x)
      BY <1>2, NoneNotThere, TargetsMine
    <2>6. HoldsIn(q, s, objs, lastId)
      BY <2>1, <2>3, ApartRun, AfterEnsureHolds
    <2>7. s.tid \in Nat /\ s.pid \in Nat
      <3>1. s \in Runs
        BY <2>3, ApartRun, AfterEnsureTyped
      <3> HIDE DEF s
      <3> QED BY <3>1 DEF Runs
    <2> HIDE DEF n, s
    <2>8. \A r \in kept : \/ Mine(q, r[1]) /\ Mine(q, r[2])
                          \/ r[1] # o /\ r[2] # o
      BY <2>2, RefsMine
    <2>9. \A r \in refs : r = <<r[1], r[2]>>
      BY DEF Apart, TypeOK, ClusterTyped
    <2>10. \A x : Mine(q, x) => Mine(q, Moved(x))
      BY <2>3
    <2>11. \A r \in kept : \/ <<Moved(r[1]), Moved(r[2])>> = r
                           \/ /\ Mine(q, r[1]) /\ Mine(q, r[2])
                              /\ Mine(q, Moved(r[1])) /\ Mine(q, Moved(r[2]))
      BY <2>8, <2>9, <2>10
    <2>12. \A r \in refs \ kept : Mine(q, r[1]) /\ Mine(q, r[2])
      BY <2>2, RefsMine
    <2> HIDE DEF Moved
    <2>13. RefsIn(refs')
      <3>1. \A r \in kept : \E p \in Operators : Mine(p, Moved(r[1])) /\ Mine(p, Moved(r[2]))
        <4> SUFFICES ASSUME NEW r \in kept
                     PROVE  \E p \in Operators : Mine(p, Moved(r[1])) /\ Mine(p, Moved(r[2]))
          OBVIOUS
        <4>1. CASE <<Moved(r[1]), Moved(r[2])>> = r
          <5>1. Moved(r[1]) = r[1] /\ Moved(r[2]) = r[2]
            BY <4>1
          <5> QED BY <5>1, ApartRun DEF RefsIn
        <4>2. CASE Mine(q, Moved(r[1])) /\ Mine(q, Moved(r[2]))
          BY <4>2
        <4> QED BY <2>11, <4>1, <4>2
      <3>2. \A x \in {n} \X Targets(q, k) : Mine(q, x[1]) /\ Mine(q, x[2])
        BY <2>3, <2>5
      <3> QED BY <1>2, <3>1, <3>2 DEF RefsIn
    <2>14. \A x \in objs' : x.kind \in IdKinds => x \in objs
      BY <1>2, <2>4
    <2>15. KeptApart'
      BY <1>2, <2>6, <2>7, <2>13, <2>14, WriteApart
    <2>16. \A r \in Diff(refs, refs') : Mine(q, r[1]) /\ Mine(q, r[2])
      <3>1. ASSUME NEW r \in refs, r \notin refs'
            PROVE  Mine(q, r[1]) /\ Mine(q, r[2])
        BY <1>2, <2>11, <2>12, <3>1
      <3>2. ASSUME NEW r \in refs', r \notin refs
            PROVE  Mine(q, r[1]) /\ Mine(q, r[2])
        <4>1. CASE r \in {n} \X Targets(q, k)
          BY <2>3, <2>5, <4>1
        <4>2. CASE \E x \in kept : r = <<Moved(x[1]), Moved(x[2])>>
          BY <2>11, <3>2, <4>2
        <4> QED BY <1>2, <3>2, <4>1, <4>2
      <3> QED BY <3>1, <3>2 DEF Diff
    <2>17. Reach(q)
      BY <1>2, <2>2, <2>3, <2>16 DEF Reach, Diff
    <2> QED BY <2>15, <2>17
  <1> QED BY <1>1, <1>2 DEF EnsurePatch

LEMMA ApplyPermissionsApart ==
  ASSUME Apart, NEW q \in Operators, ApplyPermissions(q)
  PROVE  KeptApart' /\ Reach(q)
  <1>1. HoldsIn(q, Stepped(run[q]), objs, lastId)
    BY ApartRun, SteppedHolds
  <1>2. Stepped(run[q]).tid \in Nat /\ Stepped(run[q]).pid \in Nat
    BY ApartRun, SteppedTyped DEF Runs
  <1>3. KeptApart'
    <2>1. /\ Become(q, Stepped(run[q])) /\ UNCHANGED lastId
          /\ objs' = objs /\ refs' = refs
      BY DEF ApplyPermissions, Advance
    <2> QED BY <1>1, <1>2, <2>1, ApartRun, WriteApart
  <1>4. \A o \in Diff(perms, perms') : Mine(q, o)
    <2>1. perms' \subseteq perms \union ({run[q].ref} \intersect objs) /\ perms \subseteq perms'
      BY DEF ApplyPermissions
    <2>2. run[q].ref \in objs => Mine(q, run[q].ref)
      BY NoneNotThere, ApartRun DEF HoldsIn
    <2> QED BY <2>1, <2>2 DEF Diff
  <1> QED BY <1>3, <1>4 DEF Reach, Diff, ApplyPermissions

LEMMA AssignGroupApart ==
  ASSUME Apart, NEW q \in Operators, AssignGroup(q)
  PROVE  KeptApart' /\ Reach(q)
  <1>1. CASE Fail(q, "gone")
    BY <1>1, FailApart
  <1>2. CASE /\ assigned' = {a \in assigned : a[1] # run[q].tid}
                              \union {<<run[q].tid, NameOf[q]["group"]>>}
             /\ Advance(q)
             /\ UNCHANGED <<objs, refs, perms, lastId>>
    <2>1. HoldsIn(q, Stepped(run[q]), objs, lastId)
      BY ApartRun, SteppedHolds
    <2>2. Stepped(run[q]).tid \in Nat /\ Stepped(run[q]).pid \in Nat
      BY ApartRun, SteppedTyped DEF Runs
    <2>3. KeptApart'
      BY <1>2, <2>1, <2>2, ApartRun, WriteApart DEF Advance
    <2>4. \A a \in Diff(assigned, assigned') : a[1] = run[q].tid
      BY <1>2 DEF Diff
    <2>5. \A t \in objs : (t.kind = "tenant" /\ t.owner = run[q].tid) => Mine(q, t)
      BY ApartRun DEF HoldsIn
    <2> QED BY <1>2, <2>3, <2>4, <2>5 DEF Reach, Diff
  <1> QED BY <1>1, <1>2 DEF AssignGroup

LEMMA PoliciesMine ==
  ASSUME DisjointNames, Apart, NEW q \in Operators, NEW g, Mine(q, g)
  PROVE  \A x \in PoliciesOf(g) : Mine(q, x)
  BY RefsMine DEF PoliciesOf

LEMMA WriteIdsApart ==
  ASSUME Apart, NEW q \in Operators, NEW g, Mine(q, g), NEW ids, \A x \in ids : Mine(q, x),
         Become(q, [run[q] EXCEPT !.phase = "put", !.got = g, !.ids = ids]),
         UNCHANGED cluster
  PROVE  KeptApart' /\ Reach(q)
  <1> DEFINE s == [run[q] EXCEPT !.phase = "put", !.got = g, !.ids = ids]
  <1>1. HoldsIn(q, s, objs, lastId)
    BY ApartRun DEF HoldsIn, Runs
  <1> HIDE DEF s
  <1>2. Become(q, s)
    BY DEF s
  <1> QED BY <1>1, <1>2, QuietApart

LEMMA BindLookApart ==
  ASSUME DisjointNames, Apart, NEW q \in Operators, BindLook(q)
  PROVE  KeptApart' /\ Reach(q)
  <1>1. UNCHANGED cluster
    BY DEF BindLook
  <1>2. CASE Advance(q)
    BY <1>1, <1>2, AdvanceApart
  <1>3. ASSUME NEW g \in Named(q, "group"), run[q].ref # None,
               Become(q, [run[q] EXCEPT !.phase = "put", !.got = g,
                            !.ids = PoliciesOf(g) \union {run[q].ref}])
        PROVE  KeptApart' /\ Reach(q)
    <2>1. Mine(q, g)
      BY NamedMine DEF YamlKinds
    <2>2. Mine(q, run[q].ref)
      BY <1>3, ApartRun DEF HoldsIn
    <2> DEFINE ids == PoliciesOf(g) \union {run[q].ref}
    <2>3. \A x \in ids : Mine(q, x)
      BY <2>1, <2>2, PoliciesMine
    <2>4. Become(q, [run[q] EXCEPT !.phase = "put", !.got = g, !.ids = ids])
      BY <1>3
    <2> HIDE DEF ids
    <2> QED BY <1>1, <2>1, <2>3, <2>4, WriteIdsApart
  <1> QED BY <1>2, <1>3 DEF BindLook

LEMMA WritePoliciesApart ==
  ASSUME DisjointNames, Apart, NEW q \in Operators, WritePolicies(q)
  PROVE  KeptApart' /\ Reach(q)
  <1> DEFINE g == run[q].got
  <1>1. CASE Fail(q, "gone")
    BY <1>1, FailApart
  <1>2. CASE /\ g \in objs
             /\ refs' = {r \in refs : r[1] # g} \union ({g} \X run[q].ids)
             /\ Advance(q)
             /\ UNCHANGED <<objs, perms, assigned, lastId>>
    <2>1. Mine(q, g) /\ \A x \in run[q].ids : Mine(q, x)
      BY <1>2, NoneNotThere, ApartRun DEF HoldsIn
    <2>2. HoldsIn(q, Stepped(run[q]), objs, lastId)
      BY ApartRun, SteppedHolds
    <2>3. Stepped(run[q]).tid \in Nat /\ Stepped(run[q]).pid \in Nat
      BY ApartRun, SteppedTyped DEF Runs
    <2>4. RefsIn(refs')
      BY <1>2, <2>1, ApartRun DEF RefsIn
    <2>5. KeptApart'
      BY <1>2, <2>2, <2>3, <2>4, WriteApart DEF Advance
    <2>6. \A r \in Diff(refs, refs') : Mine(q, r[1]) /\ Mine(q, r[2])
      BY <1>2, <2>1, RefsMine DEF Diff
    <2> QED BY <1>2, <2>5, <2>6 DEF Reach, Diff
  <1> QED BY <1>1, <1>2 DEF WritePolicies

LEMMA CreateApart ==
  ASSUME DisjointNames, Apart, NEW q \in Operators, Create(q)
  PROVE  KeptApart' /\ Reach(q)
  <1>1. CASE AssignLook(q)
    <2>1. Advance(q) \/ ToPut(q, None)
      BY <1>1 DEF AssignLook
    <2> QED BY <1>1, <2>1, AdvanceApart, ToPutApart DEF AssignLook
  <1> QED BY <1>1, EnsureLookApart, EnsurePostApart, EnsurePatchApart, TenantPostApart,
          TenantRecordApart, ApplyPermissionsApart, AssignGroupApart, BindLookApart
          DEF Create

-----------------------------------------------------------------------------
(* destroy_tenant                                                          *)

LEMMA FindTenantApart ==
  ASSUME DisjointNames, Apart, NEW q \in Operators, FindTenant(q)
  PROVE  KeptApart' /\ Reach(q)
  <1>1. UNCHANGED cluster
    BY DEF FindTenant
  <1>2. ASSUME NEW n, Become(q, [run[q] EXCEPT !.at = n])
        PROVE  KeptApart' /\ Reach(q)
    <2>1. HoldsIn(q, [run[q] EXCEPT !.at = n], objs, lastId)
      BY ApartRun DEF HoldsIn, Runs
    <2> QED BY <1>1, <1>2, <2>1, QuietApart
  <1>3. ASSUME NEW t \in Named(q, "tenant"),
               Become(q, [run[q] EXCEPT !.phase = "views", !.tid = t.owner,
                                        !.pid = t.owner])
        PROVE  KeptApart' /\ Reach(q)
    <2> DEFINE s == [run[q] EXCEPT !.phase = "views", !.tid = t.owner, !.pid = t.owner]
    <2>1. HoldsIn(q, s, objs, lastId)
      BY ApartRun, ProviderOfTenant DEF HoldsIn, Runs
    <2> HIDE DEF s
    <2>2. Become(q, s)
      BY <1>3 DEF s
    <2> QED BY <1>1, <2>1, <2>2, QuietApart
  <1> QED BY <1>2, <1>3 DEF FindTenant

LEMMA UnbindLookApart ==
  ASSUME DisjointNames, Apart, NEW q \in Operators, UnbindLook(q)
  PROVE  KeptApart' /\ Reach(q)
  <1>1. UNCHANGED cluster
    BY DEF UnbindLook
  <1>2. ASSUME NEW g \in Named(q, "group"), NEW kept, kept \subseteq PoliciesOf(g),
               Become(q, [run[q] EXCEPT !.phase = "put", !.got = g, !.ids = kept])
        PROVE  KeptApart' /\ Reach(q)
    <2>1. Mine(q, g)
      BY NamedMine DEF YamlKinds
    <2> QED BY <1>1, <1>2, <2>1, PoliciesMine, WriteIdsApart
  <1>3. ASSUME NEW g \in Named(q, "group"),
               LET kept == {x \in PoliciesOf(g) :
                              ~(x \in Named(q, "policy") /\ x.owner = run[q].tid)} IN
               IF kept = PoliciesOf(g) \/ run[q].dry
                 THEN Advance(q)
                 ELSE Become(q, [run[q] EXCEPT !.phase = "put", !.got = g, !.ids = kept])
        PROVE  KeptApart' /\ Reach(q)
    <2> DEFINE kept == {x \in PoliciesOf(g) :
                          ~(x \in Named(q, "policy") /\ x.owner = run[q].tid)}
    <2>1. kept \subseteq PoliciesOf(g)
      OBVIOUS
    <2> QED BY <1>1, <1>2, <1>3, <2>1, AdvanceApart
  <1> QED BY <1>1, <1>3, AdvanceApart DEF UnbindLook

LEMMA DeleteLookApart ==
  ASSUME Apart, NEW q \in Operators, NEW k, DeleteLook(q, k)
  PROVE  KeptApart' /\ Reach(q)
  <1>1. UNCHANGED cluster /\ \A o \in Named(q, k) : Mine(q, o)
    BY StepKinds, NamedMine DEF DeleteLook
  <1> QED BY <1>1, AdvanceApart, ToPutApart DEF DeleteLook

\* The DELETE of an object of q, or of the provider of q's tenant, reaches
\* nothing else.
LEMMA RemoveApart ==
  ASSUME DisjointNames, Apart, NEW q \in Operators, NEW o \in objs, Remove(o),
         Mine(q, o) \/ (o.kind = "provider" /\ o.owner # 1 /\ MyProvider(q, o)),
         Advance(q)
  PROVE  KeptApart' /\ Reach(q)
  <1>1. HoldsIn(q, Stepped(run[q]), objs, lastId)
    BY ApartRun, SteppedHolds
  <1>2. Stepped(run[q]).tid \in Nat /\ Stepped(run[q]).pid \in Nat
    BY ApartRun, SteppedTyped DEF Runs
  <1>3. RefsIn(refs')
    BY ApartRun DEF Remove, RefsIn
  <1>4. \A x \in objs' : x.kind \in IdKinds => x \in objs
    BY DEF Remove
  <1>5. KeptApart'
    BY <1>1, <1>2, <1>3, <1>4, WriteApart DEF Advance, Remove
  <1>6. \A r \in refs : (r[1] # o /\ r[2] # o) \/ Mine(q, o)
    BY ApartRun, StepKinds DEF RefsIn, Mine
  <1>7. \A r \in Diff(refs, refs') : Mine(q, r[1]) /\ Mine(q, r[2])
    BY <1>6, RefsMine DEF Diff, Remove
  <1>8. \A a \in Diff(assigned, assigned') :
          \A t \in objs : (t.kind = "tenant" /\ t.owner = a[1]) => Mine(q, t)
    <2>1. \A a \in Diff(assigned, assigned') : o.kind = "tenant" /\ a[1] = o.owner
      BY DEF Diff, Remove
    <2>2. o.kind = "tenant" => Mine(q, o)
      OBVIOUS
    <2>3. \A t \in objs : (t.kind = "tenant" /\ o.kind = "tenant" /\ t.owner = o.owner) => t = o
      BY ApartRun DEF IdsIn, IdKinds
    <2> QED BY <2>1, <2>2, <2>3
  <1>9. \A x \in Diff(objs, objs') \union Diff(perms, perms') : x = o
    BY DEF Diff, Remove
  <1> QED BY <1>5, <1>7, <1>8, <1>9 DEF Reach

LEMMA DeletePutApart ==
  ASSUME DisjointNames, Apart, NEW q \in Operators, NEW k, DeletePut(q, k)
  PROVE  KeptApart' /\ Reach(q)
  <1>1. CASE Fail(q, "gone") \/ Fail(q, "in_use")
    BY <1>1, FailApart
  <1>2. CASE run[q].got \in objs /\ Remove(run[q].got) /\ Advance(q)
    <2>1. Mine(q, run[q].got)
      BY <1>2, NoneNotThere, ApartRun DEF HoldsIn
    <2> QED BY <1>2, <2>1, RemoveApart
  <1> QED BY <1>1, <1>2 DEF DeletePut

\* When the tenant is gone the provider is taken from the list by the tenant's
\* name, and the id it has is no other's.
LEMMA ReapLookApart ==
  ASSUME Apart, NEW q \in Operators, ReapLook(q)
  PROVE  KeptApart' /\ Reach(q)
  <1>1. UNCHANGED cluster
    BY DEF ReapLook
  <1>2. CASE Become(q, [run[q] EXCEPT !.phase = "put"])
    <2> DEFINE s == [run[q] EXCEPT !.phase = "put"]
    <2>1. HoldsIn(q, s, objs, lastId)
      BY ApartRun DEF HoldsIn, Runs
    <2> HIDE DEF s
    <2>2. Become(q, s)
      BY <1>2 DEF s
    <2> QED BY <1>1, <2>1, <2>2, QuietApart
  <1>3. ASSUME NEW o \in objs, o.kind = "provider", o.name = NameOf[q]["tenant"],
               Become(q, [run[q] EXCEPT !.phase = "put", !.pid = o.owner])
        PROVE  KeptApart' /\ Reach(q)
    <2> DEFINE s == [run[q] EXCEPT !.phase = "put", !.pid = o.owner]
    <2>1. o.owner <= lastId
      BY <1>3, ApartRun DEF IdsIn, IdKinds
    <2>2. \A l \in objs : (l.kind = "provider" /\ l.owner = o.owner) => MyProvider(q, l)
      <3>1. \A l \in objs : (l.kind = "provider" /\ l.owner = o.owner) => l = o
        BY <1>3, ApartRun DEF IdsIn, IdKinds
      <3> QED BY <1>3, <3>1 DEF MyProvider
    <2>3. HoldsIn(q, s, objs, lastId)
      BY <2>1, <2>2, ApartRun DEF HoldsIn, Runs
    <2> HIDE DEF s
    <2>4. Become(q, s)
      BY <1>3 DEF s
    <2> QED BY <1>1, <2>3, <2>4, QuietApart
  <1> QED BY <1>1, <1>2, <1>3, AdvanceApart DEF ReapLook

LEMMA ReapApart ==
  ASSUME DisjointNames, Safe, Apart, NEW q \in Operators, Reap(q)
  PROVE  KeptApart' /\ Reach(q)
  <1>1. run[q].pid # 1
    BY StepPlaces DEF Reap, AtStep, Safe, RunsSound, Sound
  <1>2. CASE Fail(q, "warned")
    BY <1>2, FailApart
  <1>3. ASSUME NEW o \in objs, o.kind = "provider", o.owner = run[q].pid,
               Remove(o), Advance(q)
        PROVE  KeptApart' /\ Reach(q)
    <2>1. MyProvider(q, o)
      BY <1>1, <1>3, ApartRun DEF HoldsIn
    <2> QED BY <1>1, <1>3, <2>1, RemoveApart
  <1> QED BY <1>2, <1>3 DEF Reap

LEMMA DestroyApart ==
  ASSUME DisjointNames, Safe, Apart, NEW q \in Operators, Destroy(q)
  PROVE  KeptApart' /\ Reach(q)
  <1>1. CASE Preflight(q)
    BY <1>1, FailApart, AdvanceApart DEF Preflight
  <1> QED BY <1>1, DeleteLookApart, DeletePutApart, FindTenantApart, UnbindLookApart,
             ReapLookApart, ReapApart DEF Destroy

LEMMA WorkApart ==
  ASSUME DisjointNames, Safe, Apart, NEW q \in Operators, Work(q)
  PROVE  KeptApart' /\ Reach(q)
  <1>1. CASE SkipPool(q)
    BY <1>1, AdvanceApart DEF SkipPool
  <1> QED BY <1>1, CreateApart, DestroyApart, WritePoliciesApart DEF Work

-----------------------------------------------------------------------------
(* The rest of what happens                                                *)

LEMMA StartApart ==
  ASSUME Apart, NEW q \in Operators, NEW dry, Start(q, dry)
  PROVE  KeptApart' /\ Reach(q)
  <1> DEFINE s == [NoRun EXCEPT !.cmd = goal[q], !.dry = dry, !.phase = "look"]
  <1>1. s.got = None /\ s.ref = None /\ s.ids = {} /\ s.tid = 0 /\ s.pid = 0
    BY DEF NoRun
  <1>2. Become(q, s) /\ UNCHANGED cluster
    BY DEF Start
  <1> HIDE DEF s
  <1>3. HoldsIn(q, s, objs, lastId)
    BY <1>1, ApartRun, BlankHolds
  <1> QED BY <1>2, <1>3, QuietApart

LEMMA StopApart ==
  ASSUME Apart, NEW q \in Operators, Stop(q)
  PROVE  KeptApart' /\ Reach(q)
  BY ApartRun, EndedHolds, QuietApart DEF Stop

\* What happens while no command takes a step.
LEMMA WorldApart ==
  ASSUME Apart, UNCHANGED <<run, lastId>>, RefsIn(refs'),
         \A o \in objs' : o.kind \in IdKinds => o \in objs
  PROVE  KeptApart'
  <1>1. IdsIn(objs', lastId)
    <2>1. CASE Operators = {}
      BY <2>1, FewerIds, ApartIs DEF Apart
    <2> QED BY FewerIds, ApartIs DEF Apart
  <1>2. ASSUME NEW p \in Operators
        PROVE  HoldsIn(p, run'[p], objs', lastId')
    BY ApartRun, NewIdsHold
  <1> QED BY <1>1, <1>2, ApartIs

LEMMA EnableApart ==
  ASSUME DisjointNames, Apart, NEW q \in Operators, NEW pol, Enable(q, pol)
  PROVE  KeptApart'
  <1>1. PICK t \in Named(q, "tenant") :
          LET v == Obj("view", NameOf[q]["view"], t.owner) IN
          /\ objs' = objs \union {v}
          /\ refs' = refs \union ({v} \X (Named(q, "vippool")
                                            \union {x \in Named(q, "s3") : pol = "s3"}))
    BY DEF Enable
  <1> DEFINE v == Obj("view", NameOf[q]["view"], t.owner)
  <1>2. Mine(q, v) /\ v.kind = "view"
    BY ObjMine DEF YamlKinds, Obj
  <1> HIDE DEF v
  <1>3. \A x \in Named(q, "vippool") \union Named(q, "s3") : Mine(q, x)
    BY NamedMine DEF YamlKinds
  <1>4. RefsIn(refs')
    BY <1>1, <1>2, <1>3, ApartRun DEF RefsIn, v
  <1>5. \A o \in objs' : o.kind \in IdKinds => o \in objs
    BY <1>1, <1>2 DEF v, IdKinds
  <1> QED BY <1>4, <1>5, WorldApart DEF Enable

LEMMA RemoveViewApart ==
  ASSUME Apart, NEW q \in Operators, RemoveView(q)
  PROVE  KeptApart'
  <1>1. RefsIn(refs')
    BY ApartRun DEF RemoveView, Remove, RefsIn
  <1> QED BY <1>1, WorldApart DEF RemoveView, Remove

LEMMA EditApart ==
  ASSUME DisjointNames, Apart, NEW q \in Operators, Edit(q)
  PROVE  KeptApart' /\ Reach(q)
  <1>1. PICK k \in EditedKinds : \E o \in Named(q, k) :
          /\ objs' = IF k \in OwnerPatched
                       THEN (objs \ {o}) \union {Obj(k, NameOf[q][k], 1)} ELSE objs
          /\ refs' = {r \in refs : k \in {"user", "manager", "group"} => r[1] # o}
          /\ perms' = perms \ {o}
          /\ assigned' = {a \in assigned : k = "tenant" => a[1] # o.owner}
    BY DEF Edit
  <1>2. k \in YamlKinds
    BY ConstantsOK DEF YamlKinds
  <1>3. PICK o \in Named(q, k) :
          /\ objs' = IF k \in OwnerPatched
                       THEN (objs \ {o}) \union {Obj(k, NameOf[q][k], 1)} ELSE objs
          /\ refs' = {r \in refs : k \in {"user", "manager", "group"} => r[1] # o}
          /\ perms' = perms \ {o}
          /\ assigned' = {a \in assigned : k = "tenant" => a[1] # o.owner}
    BY <1>1
  <1> DEFINE n == Obj(k, NameOf[q][k], 1)
  <1>4. o \in objs /\ o.kind = k /\ Mine(q, o)
    BY <1>2, NamedMine
  <1>5. Mine(q, n) /\ n.kind = k
    BY <1>2, ObjMine DEF Obj
  <1> HIDE DEF n
  <1>6. k \in OwnerPatched => k \notin IdKinds
    BY DEF OwnerPatched, IdKinds
  <1>7. KeptApart'
    <2> PICK s : s = IF Idle(q) THEN NoRun ELSE run[q]
      OBVIOUS
    <2>1. HoldsIn(q, s, objs, lastId) /\ s.tid \in Nat /\ s.pid \in Nat /\ Become(q, s)
      BY ApartRun, BlankHolds, RunTyped DEF NoRun, Edit, Apart, TypeOK, Runs
    <2>2. RefsIn(refs')
      BY <1>3, ApartRun DEF RefsIn
    <2>3. \A x \in objs' : x.kind \in IdKinds => x \in objs
      BY <1>3, <1>5, <1>6 DEF n
    <2> QED BY <2>1, <2>2, <2>3, WriteApart DEF Edit
  <1>8. \A x \in Diff(objs, objs') \union Diff(perms, perms') : x = o \/ x = n
    BY <1>3 DEF Diff, n
  <1>9. \A r \in Diff(refs, refs') : Mine(q, r[1]) /\ Mine(q, r[2])
    BY <1>3, <1>4, RefsMine DEF Diff
  <1>10. \A a \in Diff(assigned, assigned') :
           \A t \in objs : (t.kind = "tenant" /\ t.owner = a[1]) => Mine(q, t)
    <2>1. \A a \in Diff(assigned, assigned') : k = "tenant" /\ a[1] = o.owner
      BY <1>3 DEF Diff
    <2>2. \A t \in objs : (t.kind = "tenant" /\ k = "tenant" /\ t.owner = o.owner) => t = o
      BY <1>4, ApartRun DEF IdsIn, IdKinds
    <2> QED BY <1>4, <2>1, <2>2
  <1> QED BY <1>4, <1>5, <1>7, <1>8, <1>9, <1>10 DEF Reach

-----------------------------------------------------------------------------

LEMMA InitApart == Init => KeptApart
  <1> SUFFICES ASSUME Init PROVE KeptApart
    OBVIOUS
  <1>1. TypeOK
    BY InitTyped
  <1>2. DefaultProvider.kind = "provider" /\ DefaultProvider.owner = 1
    BY DefaultProviderIs
  <1>3. ASSUME NEW o \in objs, o # DefaultProvider
        PROVE  o.kind = "tenant" /\ o.owner = 1 /\ \A x \in objs : x = o \/ x = DefaultProvider
    BY <1>3 DEF Init, Obj
  <1>4. lastId = 1 /\ refs = {}
    BY DEF Init
  <1>5. IdsIn(objs, lastId)
    BY <1>2, <1>3, <1>4 DEF IdsIn, IdKinds
  <1>6. ASSUME NEW p \in Operators
        PROVE  HoldsIn(p, run[p], objs, lastId)
    <2>1. run[p] = NoRun
      BY DEF Init
    <2> QED BY <1>4, <1>5, <2>1, BlankHolds DEF NoRun
  <1> QED BY <1>4, <1>5, <1>6, ApartIs DEF RefsIn

\* A step either leaves every command where it is, or is the step of one
\* operator's command (or of somebody who edits that operator's objects) and
\* reaches no further than what is his.
LEMMA NextApart ==
  ASSUME DisjointNames, Safe, KeptApart, Next
  PROVE  /\ KeptApart'
         /\ \/ UNCHANGED run
            \/ \E q \in Operators : Reach(q) /\ \E r : Become(q, r)
  <1> USE DEF Apart
  <1>1. TypeOK
    BY DEF Safe
  <1>2. PICK q \in Operators :
          \/ \E dry \in DryRuns : Start(q, dry)
          \/ ChangeGoal(q) \/ Stop(q) \/ Work(q)
          \/ \E pol \in BrokerPolicies : Enable(q, pol)
          \/ RemoveView(q) \/ Edit(q)
    BY DEF Next
  <1>3. CASE \E dry \in DryRuns : Start(q, dry)
    BY <1>1, <1>3, StartApart DEF Start
  <1>4. CASE Stop(q)
    BY <1>1, <1>4, StopApart DEF Stop
  <1>5. CASE Work(q)
    BY <1>1, <1>5, WorkApart, WorkBecomes
  <1>6. CASE Edit(q)
    BY <1>1, <1>6, EditApart DEF Edit
  <1>7. CASE \E pol \in BrokerPolicies : Enable(q, pol)
    <2>1. KeptApart'
      BY <1>1, <1>7, EnableApart
    <2>2. UNCHANGED run
      BY <1>7 DEF Enable
    <2> QED BY <2>1, <2>2
  <1>8. CASE RemoveView(q)
    BY <1>1, <1>8, RemoveViewApart DEF RemoveView
  <1>9. CASE ChangeGoal(q)
    BY <1>9, ApartIs DEF ChangeGoal, cluster
  <1> QED BY <1>2, <1>3, <1>4, <1>5, <1>6, <1>7, <1>8, <1>9

LEMMA StutterApart == ASSUME KeptApart, UNCHANGED vars PROVE KeptApart'
  BY ApartIs DEF vars, cluster

\* When no two YAML files share a name, an id belongs to one tenant and one
\* provider, both of one operator; so do the ends of every reference; and so
\* does what a command holds in its variables, although each of its lookups
\* goes by name over the whole cluster.
THEOREM StaysApart == ASSUME DisjointNames PROVE Spec => []KeptApart
  <1>1. Safe /\ KeptApart /\ [Next]_vars => KeptApart'
    BY NextApart, StutterApart
  <1> QED BY <1>1, InitApart, AlwaysSafe, PTL DEF Spec

\* Then no command, cut short or not, touches the objects of an operator who
\* does nothing: not his tenant, its provider or what hangs on them, for any
\* number of operators and of commands, and whatever is edited by hand.
THEOREM Isolation == ASSUME DisjointNames PROVE Spec => OthersUntouched
  <1>1. ASSUME Safe, KeptApart, Next, NEW p \in Operators
        PROVE  (\A q \in Operators \ {p} : UNCHANGED run[q]) \/ UNCHANGED Slice(p)
    <2>1. CASE UNCHANGED run
      BY <2>1
    <2>2. ASSUME NEW q \in Operators, Reach(q), NEW r, Become(q, r)
          PROVE  (\A o \in Operators \ {p} : UNCHANGED run[o]) \/ UNCHANGED Slice(p)
      <3>1. CASE p = q
        BY <2>2, <3>1, <1>1, OneCommand DEF Safe
      <3>2. CASE p # q
        BY <2>2, <3>2, ReachSlice
      <3> QED BY <3>1, <3>2
    <2> QED BY <1>1, <2>1, <2>2, NextApart
  <1>2. Safe /\ KeptApart /\ [Next]_vars =>
          [\A p \in Operators :
             (\A q \in Operators \ {p} : UNCHANGED run[q]) \/ UNCHANGED Slice(p)]_vars
    BY <1>1
  <1> QED BY <1>2, StaysApart, AlwaysSafe, PTL DEF Spec, OthersUntouched

-----------------------------------------------------------------------------
(* The invariant of what create and destroy leave                          *)

The(p, k, id) == Obj(k, NameOf[p][k], id)

\* No reference dangles, and only these kinds refer to each other.
RefKinds == {<<"user", "group">>, <<"manager", "role">>, <<"group", "policy">>,
             <<"view", "vippool">>, <<"view", "s3">>}
RefsLive == \A r \in refs : /\ r[1] \in objs /\ r[2] \in objs
                            /\ <<r[1].kind, r[2].kind>> \in RefKinds
AllKnown == \A o \in objs : o.kind = "provider" \/ \E p \in Operators : Mine(p, o)

\* The objects of one YAML file: one of each name, on the tenant of that name
\* unless somebody moved it by hand, and gone with it.
OneEach(p) == \A k \in YamlKinds : \A a, b \in Named(p, k) : a = b
AtHome(p) ==
  \A k \in YamlKinds : \A o \in Named(p, k) : \E t \in Named(p, "tenant") :
    o.owner = t.owner \/ k \in OwnerPatched \intersect EditedKinds
\* VMS makes one provider with the tenant; the next create of a tenant of that
\* name is refused as long as it is there.
OneProvider(p) ==
  \A l \in Providers(p) : /\ ProviderName[p] # DefaultProviderName
                          /\ \A m \in Providers(p) : m = l
                          /\ \A t \in Named(p, "tenant") : t.owner = l.owner
NoPool(p) == p \notin HasPool => Named(p, "vippool") = {}
Tidy(p) == OneEach(p) /\ AtHome(p) /\ OneProvider(p) /\ NoPool(p)

\* What step k of create leaves on tenant id.
Made(p, k, id) ==
  /\ k \in Wanted(p) => The(p, k, id) \in objs
  /\ k = "user" => <<The(p, "user", id), The(p, "group", id)>> \in refs
  /\ k = "manager" => <<The(p, "manager", id), The(p, "role", id)>> \in refs
  /\ (k = "role" /\ faults = 0) => The(p, "role", id) \in perms
  /\ k = "assign" => <<id, NameOf[p]["group"]>> \in assigned
  /\ k = "bind" => <<The(p, "group", id), The(p, "policy", id)>> \in refs

\* Why a create that is about to write has to.
Needed(p, r) ==
  LET k == CreateSteps[r.at] IN
  /\ k = "vippool" => p \in HasPool
  /\ (k \in Ensured /\ r.got = None) => Named(p, k) = {}
  /\ (k \in Ensured /\ r.got # None) =>
       /\ r.got \in Named(p, k) /\ k \in OwnerPatched \union RefsPatched
       /\ k \in OwnerPatched => r.got.owner # r.tid
       /\ k = "user" => \E g \in Named(p, "group") : <<r.got, g>> \notin refs
       /\ k = "manager" => <<r.got, r.ref>> \notin refs
  /\ k = "assign" => <<r.tid, NameOf[p]["group"]>> \notin assigned
  /\ k = "bind" => /\ r.got = The(p, "group", r.tid) /\ r.ref \in r.ids
                   /\ <<r.got, r.ref>> \notin refs
                   /\ \A x \in r.ids : x.kind = "policy"

\* A create that runs: the steps behind it are made, on the tenant it found or
\* created.
Creating(p, r) ==
  /\ r.at > 1 => r.pid = r.tid
  /\ \A i \in 1..(r.at - 1) : Made(p, CreateSteps[i], r.tid)
  /\ r.phase = "record" => The(p, "tenant", r.tid) \in objs
  /\ r.at \in 2..9 => (r.seen <=> <<r.tid, NameOf[p]["group"]>> \in assigned)
  /\ r.phase = "perms" => The(p, "role", r.tid) \in objs
  /\ (r.phase = "perms" \/ r.at = 5) => r.ref = The(p, "role", r.tid)
  /\ r.at = 11 => r.ref = The(p, "policy", r.tid)
  /\ r.phase = "put" => Needed(p, r)
  /\ r.phase \in {"record", "perms"} => r.at = IF r.phase = "record" THEN 1 ELSE 4
  /\ r.phase # "views"

\* A destroy that runs: what it has passed is gone, and when it comes to the
\* provider it knows which one that is, if it found the tenant.
Destroying(p, r) ==
  /\ (r.at \in 2..11 \/ r.phase = "views") =>
       /\ The(p, "tenant", r.tid) \in objs /\ r.pid = r.tid
  /\ \A i \in 3..(r.at - 1) : Named(p, DestroySteps[i]) = {}
  /\ r.at > 2 => \A x \in refs : x[2] \notin Named(p, "policy")
  /\ (r.at = 12 /\ r.phase = "look") => r.pid = r.tid
  /\ (r.at = 12 /\ (r.tid # 0 \/ (r.phase = "put" /\ NamedAlike(p)))) =>
       \A l \in Providers(p) : l.owner = r.pid
  /\ (r.phase = "put" /\ r.at = 2) =>
       /\ r.got \in Named(p, "group")
       /\ \A x \in r.ids : x \in objs /\ x.kind = "policy" /\ x \notin Named(p, "policy")
  /\ (r.phase = "put" /\ r.at \in 3..11) => r.got \in Named(p, DestroySteps[r.at])
  /\ r.phase = "views" => r.at = 1
  /\ (r.at = 1 /\ r.phase = "look") => r.pid = 0 /\ r.tid = 0
  /\ r.phase \in {"look", "put", "views"} /\ (r.phase = "put" => r.at # 1)

\* Every command: one that ended well is remembered until something is undone.
Going(p, r) ==
  /\ (r.phase # "idle" /\ ~r.dry /\ r.cmd = "create") => Creating(p, r)
  /\ (r.phase # "idle" /\ ~r.dry /\ r.cmd = "destroy") => Destroying(p, r)
  /\ (r.phase = "idle" /\ ~r.dry /\ r.exit = "ok" /\ r.cmd = "create") =>
       \E id \in Nat : \A i \in 1..11 : Made(p, CreateSteps[i], id)
  /\ (r.phase = "idle" /\ ~r.dry /\ r.exit = "ok" /\ r.cmd = "destroy") =>
       /\ \A k \in YamlKinds : Named(p, k) = {}
       /\ NamedAlike(p) => Providers(p) = {}

Whole == RefsLive /\ AllKnown /\ \A p \in Operators : Tidy(p) /\ Going(p, run[p])

-----------------------------------------------------------------------------
(* Steps and names                                                         *)

LEMMA CreatePlaces ==
  \A i \in 1..11 : \/ i = 1 /\ CreateSteps[i] = "tenant"
                   \/ i = 2 /\ CreateSteps[i] = "group"
                   \/ i = 3 /\ CreateSteps[i] = "user"
                   \/ i = 4 /\ CreateSteps[i] = "role"
                   \/ i = 5 /\ CreateSteps[i] = "manager"
                   \/ i = 6 /\ CreateSteps[i] = "vippool"
                   \/ i = 7 /\ CreateSteps[i] = "nfs"
                   \/ i = 8 /\ CreateSteps[i] = "s3"
                   \/ i = 9 /\ CreateSteps[i] = "assign"
                   \/ i = 10 /\ CreateSteps[i] = "policy"
                   \/ i = 11 /\ CreateSteps[i] = "bind"
  BY DEF CreateSteps

LEMMA DestroyPlaces ==
  \A i \in 1..12 : \/ i = 1 /\ DestroySteps[i] = "preflight"
                   \/ i = 2 /\ DestroySteps[i] = "unbind"
                   \/ i = 3 /\ DestroySteps[i] = "policy"
                   \/ i = 4 /\ DestroySteps[i] = "s3"
                   \/ i = 5 /\ DestroySteps[i] = "nfs"
                   \/ i = 6 /\ DestroySteps[i] = "vippool"
                   \/ i = 7 /\ DestroySteps[i] = "manager"
                   \/ i = 8 /\ DestroySteps[i] = "role"
                   \/ i = 9 /\ DestroySteps[i] = "user"
                   \/ i = 10 /\ DestroySteps[i] = "group"
                   \/ i = 11 /\ DestroySteps[i] = "tenant"
                   \/ i = 12 /\ DestroySteps[i] = "provider"
  BY DEF DestroySteps

\* Where each step comes in its list.
LEMMA CreatePlace ==
  /\ CreateSteps[1] = "tenant" /\ CreateSteps[2] = "group" /\ CreateSteps[3] = "user"
  /\ CreateSteps[4] = "role" /\ CreateSteps[5] = "manager" /\ CreateSteps[6] = "vippool"
  /\ CreateSteps[7] = "nfs" /\ CreateSteps[8] = "s3" /\ CreateSteps[9] = "assign"
  /\ CreateSteps[10] = "policy" /\ CreateSteps[11] = "bind"
  BY DEF CreateSteps

LEMMA DestroyPlace ==
  /\ DestroySteps[3] = "policy" /\ DestroySteps[4] = "s3" /\ DestroySteps[5] = "nfs"
  /\ DestroySteps[6] = "vippool" /\ DestroySteps[7] = "manager" /\ DestroySteps[8] = "role"
  /\ DestroySteps[9] = "user" /\ DestroySteps[10] = "group" /\ DestroySteps[11] = "tenant"
  BY DEF DestroySteps

\* A command at a step of create, or of destroy.
LEMMA AtCreate ==
  ASSUME TypeOK, NEW p \in Operators, NEW k, NEW ph, AtStep(p, "create", k, ph)
  PROVE  /\ run[p] \in Runs /\ AtOwnStep(run[p]) /\ run[p].cmd = "create" /\ run[p].phase = ph
         /\ run[p].at \in 1..11 /\ CreateSteps[run[p].at] = k
  BY RunTyped, StepsBound DEF TypeOK, AtStep, AtOwnStep, Runs, Steps

LEMMA AtDestroy ==
  ASSUME TypeOK, NEW p \in Operators, NEW k, NEW ph, AtStep(p, "destroy", k, ph)
  PROVE  /\ run[p] \in Runs /\ AtOwnStep(run[p]) /\ run[p].cmd = "destroy" /\ run[p].phase = ph
         /\ run[p].at \in 1..12 /\ DestroySteps[run[p].at] = k
  BY RunTyped DEF TypeOK, AtStep, Runs, Steps

\* A command of p looks up what is called as the YAML of p says.
LEMMA TheIs ==
  ASSUME NEW p, NEW k, NEW id
  PROVE  The(p, k, id).kind = k /\ The(p, k, id).name = NameOf[p][k] /\ The(p, k, id).owner = id
  BY DEF The, Obj

LEMMA TheTyped ==
  ASSUME NEW p \in Operators, NEW k \in YamlKinds, NEW id \in Nat
  PROVE  The(p, k, id) \in Objects /\ The(p, k, id) # None
  BY NamesTyped, ConstantsOK DEF The, Obj, Objects, Kinds

LEMMA TheNamed ==
  ASSUME NEW p, NEW k \in YamlKinds, NEW id
  PROVE  /\ The(p, k, id) \in objs <=> The(p, k, id) \in Named(p, k)
         /\ Mine(p, The(p, k, id))
  BY DEF The, Obj, Named, Mine

LEMMA NamedIsThe ==
  ASSUME TypeOK, NEW p, NEW k, NEW o \in Named(p, k)
  PROVE  o = The(p, k, o.owner) /\ o.owner \in Nat /\ o \in objs /\ o.kind = k /\ o \in Objects
  BY DEF Named, TypeOK, ClusterTyped, The, Obj, Objects

LEMMA MineNamed ==
  ASSUME NEW p, NEW o \in objs, Mine(p, o)
  PROVE  o.kind \in YamlKinds /\ o \in Named(p, o.kind)
  BY DEF Mine, Named

-----------------------------------------------------------------------------
(* The record of a command                                                 *)

LEMMA SteppedIs ==
  ASSUME NEW r \in Runs, AtOwnStep(r)
  PROVE  /\ Stepped(r) \in Runs /\ AtOwnStep(Stepped(r))
         /\ Stepped(r).cmd = r.cmd /\ Stepped(r).dry = r.dry
         /\ r.at = LastStep(r.cmd) =>
              Stepped(r).phase = "idle" /\ Stepped(r).exit = "ok"
         /\ r.at # LastStep(r.cmd) =>
              /\ Stepped(r).phase = "look" /\ Stepped(r).at = r.at + 1
              /\ Stepped(r).tid = r.tid /\ Stepped(r).pid = r.pid
              /\ Stepped(r).seen = r.seen /\ Stepped(r).ref = r.ref
              /\ Stepped(r).exit = r.exit /\ Stepped(r).got = None /\ Stepped(r).ids = {}
  <1>1. Stepped(r) \in Runs /\ AtOwnStep(Stepped(r))
    BY SteppedTyped
  <1>2. CASE r.at = LastStep(r.cmd)
    BY <1>1, <1>2 DEF Stepped, Ended, NoRun
  <1>3. CASE r.at # LastStep(r.cmd)
    BY <1>1, <1>3 DEF Stepped, Runs
  <1> QED BY <1>1, <1>2, <1>3

LEMMA EndedIs ==
  ASSUME NEW r \in Runs, NEW code
  PROVE  /\ Ended(r, code).cmd = r.cmd /\ Ended(r, code).dry = r.dry
         /\ Ended(r, code).phase = "idle" /\ Ended(r, code).exit = code
  BY DEF Ended, NoRun

\* Nothing is claimed of a --plan, nor of a command that did not end well.
LEMMA EasyGoing ==
  ASSUME NEW p, NEW r, r.dry \/ (r.phase = "idle" /\ r.exit # "ok")
  PROVE  Going(p, r) /\ Going(p, r)'
  BY DEF Going

\* What the steps of a create that passes one more of them have to leave.
LEMMA CreateOn ==
  ASSUME NEW p, NEW r, NEW s, NEW id \in Nat,
         r.at \in 1..11, s.cmd = "create",
         r.at = 11 => s.phase = "idle",
         r.at # 11 => /\ s.phase = "look" /\ s.at = r.at + 1
                      /\ s.tid = id /\ s.pid = id,
         s.phase = "look" =>
           /\ s.at \in 2..9 => (s.seen <=> <<id, NameOf[p]["group"]>> \in assigned')
           /\ s.at = 5 => s.ref = The(p, "role", id)
           /\ s.at = 11 => s.ref = The(p, "policy", id),
         \A i \in 1..r.at : Made(p, CreateSteps[i], id)'
  PROVE  Going(p, s)'
  <1>1. CASE r.at = 11
    BY <1>1 DEF Going
  <1>2. CASE r.at # 11
    <2>1. \A i \in 1..(s.at - 1) : Made(p, CreateSteps[i], s.tid)'
      BY <1>2
    <2> QED BY <1>2, <2>1 DEF Going, Creating
  <1> QED BY <1>1, <1>2

-----------------------------------------------------------------------------
(* Steps that leave the objects of p alone                                 *)

FewerFaults == faults' = 0 => faults = 0

\* What p has on the cluster stays, and nothing is added to it.
Same(p) ==
  /\ \A k \in YamlKinds : Named(p, k)' = Named(p, k)
  /\ Providers(p)' = Providers(p)
  /\ \A r : Mine(p, r[1]) => (r \in refs' <=> r \in refs)
  /\ \A x \in refs' : Mine(p, x[2]) => x \in refs
  /\ \A o : Mine(p, o) => (o \in perms' <=> o \in perms)
  /\ \A id \in Nat : The(p, "tenant", id) \in objs =>
       (<<id, NameOf[p]["group"]>> \in assigned' <=> <<id, NameOf[p]["group"]>> \in assigned)

LEMMA SameTidy ==
  ASSUME NEW p, Same(p), Tidy(p)
  PROVE  Tidy(p)'
  <1>1. /\ \A k \in YamlKinds : Named(p, k)' = Named(p, k)
        /\ Providers(p)' = Providers(p)
    BY DEF Same
  <1>2. {"tenant", "vippool"} \subseteq YamlKinds
    BY DEF YamlKinds
  <1> QED BY <1>1, <1>2 DEF Tidy, OneEach, AtHome, OneProvider, NoPool

LEMMA SameMade ==
  ASSUME NEW p \in Operators, Same(p), FewerFaults, NEW id \in Nat, NEW k,
         The(p, "tenant", id) \in objs
  PROVE  Made(p, k, id) => Made(p, k, id)'
  <1>1. k \in Wanted(p) => k \in YamlKinds
    BY DEF Wanted, Ensured, YamlKinds
  <1>2. \A j \in YamlKinds : Mine(p, The(p, j, id)) /\ (The(p, j, id) \in objs' <=> The(p, j, id) \in objs)
    BY TheNamed DEF Same, Named, The, Obj
  <1>3. {"user", "manager", "group", "role"} \subseteq YamlKinds
    BY DEF YamlKinds
  <1>4. Wanted(p)' = Wanted(p)
    BY DEF Wanted
  <1>5. /\ \A r : Mine(p, r[1]) => (r \in refs' <=> r \in refs)
        /\ \A o : Mine(p, o) => (o \in perms' <=> o \in perms)
        /\ <<id, NameOf[p]["group"]>> \in assigned' <=> <<id, NameOf[p]["group"]>> \in assigned
    BY DEF Same
  <1>6. /\ Mine(p, <<The(p, "user", id), The(p, "group", id)>>[1])
        /\ Mine(p, <<The(p, "manager", id), The(p, "role", id)>>[1])
        /\ Mine(p, <<The(p, "group", id), The(p, "policy", id)>>[1])
    BY <1>2, <1>3
  <1> QED BY <1>1, <1>2, <1>3, <1>4, <1>5, <1>6 DEF Made, FewerFaults

LEMMA MadeTenant ==
  ASSUME NEW p, NEW id, Made(p, "tenant", id)
  PROVE  The(p, "tenant", id) \in objs
  BY DEF Made, Wanted, Ensured

LEMMA SameObjs ==
  ASSUME NEW p, Same(p), NEW o, Mine(p, o)
  PROVE  o \in objs' <=> o \in objs
  BY DEF Same, Named, Mine

LEMMA SameCreating ==
  ASSUME NEW p \in Operators, Same(p), FewerFaults, NEW r \in Runs,
         r.cmd = "create", AtOwnStep(r), Creating(p, r),
         r.got # None => Mine(p, r.got)
  PROVE  Creating(p, r)'
  <1>1. r.at \in 1..11 /\ r.tid \in Nat
    BY StepsBound DEF Runs, AtOwnStep
  <1>2. r.at > 1 => The(p, "tenant", r.tid) \in objs
    BY <1>1, CreatePlace, MadeTenant DEF Creating
  <1>3. \A i \in 1..(r.at - 1) : Made(p, CreateSteps[i], r.tid)'
    <2> SUFFICES ASSUME NEW i \in 1..(r.at - 1) PROVE Made(p, CreateSteps[i], r.tid)'
      OBVIOUS
    <2>1. Made(p, CreateSteps[i], r.tid) /\ The(p, "tenant", r.tid) \in objs
      BY <1>1, <1>2 DEF Creating
    <2> QED BY <1>1, <2>1, SameMade
  <1>4. r.at > 1 => (<<r.tid, NameOf[p]["group"]>> \in assigned'
                       <=> <<r.tid, NameOf[p]["group"]>> \in assigned)
    BY <1>1, <1>2 DEF Same
  <1>5. \A k \in {"tenant", "role"} : The(p, k, r.tid) \in objs => The(p, k, r.tid) \in objs'
    BY SameObjs, TheNamed DEF YamlKinds
  <1>6. r.phase = "put" => Needed(p, r)'
    <2> SUFFICES ASSUME r.phase = "put" PROVE Needed(p, r)'
      OBVIOUS
    <2>1. Needed(p, r)
      BY DEF Creating
    <2>2. \A k \in Ensured : Named(p, k)' = Named(p, k)
      BY StepKinds DEF Same
    <2>3. Named(p, "group")' = Named(p, "group")
      BY <2>2 DEF Ensured
    <2>4. \A x : r.got # None => (<<r.got, x>> \in refs' <=> <<r.got, x>> \in refs)
      BY DEF Same
    <2>5. CreateSteps[r.at] = "assign" => r.at > 1
      BY <1>1, CreatePlaces
    <2>6. CreateSteps[r.at] = "bind" => (<<r.got, r.ref>> \notin refs')
      <3>1. CreateSteps[r.at] = "bind" => Mine(p, r.got)
        BY <2>1, TheNamed DEF Needed, YamlKinds
      <3> QED BY <2>1, <3>1 DEF Needed, Same
    <2> DEFINE k == CreateSteps[r.at]
    <2> HIDE DEF k
    <2>7. (k \in Ensured /\ r.got # None /\ k = CreateSteps[r.at]) =>
             \A g \in Named(p, "group")' : (<<r.got, g>> \notin refs' <=> <<r.got, g>> \notin refs)
      BY <2>4
    <2> QED BY <1>4, <2>1, <2>2, <2>3, <2>4, <2>5, <2>6 DEF Needed
  <1> QED BY <1>1, <1>3, <1>4, <1>5, <1>6 DEF Creating

LEMMA SameDestroying ==
  ASSUME NEW p \in Operators, Same(p), NEW r \in Runs,
         r.cmd = "destroy", Destroying(p, r), \A x \in r.ids : Mine(p, x)
  PROVE  Destroying(p, r)'
  <1>1. \A k \in YamlKinds : Named(p, k)' = Named(p, k)
    BY DEF Same
  <1>2. /\ Providers(p)' = Providers(p)
        /\ Named(p, "policy")' = Named(p, "policy") /\ Named(p, "group")' = Named(p, "group")
    BY <1>1 DEF Same, YamlKinds
  <1>3. \A i \in 3..11 : DestroySteps[i] \in YamlKinds
    BY DestroyPlaces DEF YamlKinds
  <1>4. The(p, "tenant", r.tid) \in objs => The(p, "tenant", r.tid) \in objs'
    BY SameObjs, TheNamed DEF YamlKinds
  <1>5. r.at \in 1..12
    BY DEF Runs
  <1>6. \A i \in 3..(r.at - 1) : Named(p, DestroySteps[i])' = {}
    BY <1>1, <1>3, <1>5 DEF Destroying
  <1>7. r.at > 2 => \A x \in refs' : x[2] \notin Named(p, "policy")'
    <2>1. \A o \in Named(p, "policy") : Mine(p, o)
      BY NamedMine DEF YamlKinds
    <2> QED BY <1>2, <2>1 DEF Destroying, Same
  <1>8. \A x \in r.ids : x \in objs => x \in objs'
    BY SameObjs
  <1>9. (r.phase = "put" /\ r.at \in 3..11) => r.got \in Named(p, DestroySteps[r.at])'
    BY <1>1, <1>3 DEF Destroying
  <1>10. (r.phase = "put" /\ r.at = 2) =>
           /\ r.got \in Named(p, "group")'
           /\ \A x \in r.ids : x \in objs' /\ x.kind = "policy" /\ x \notin Named(p, "policy")'
    BY <1>2, <1>8 DEF Destroying
  <1> QED BY <1>2, <1>4, <1>6, <1>7, <1>9, <1>10 DEF Destroying, NamedAlike

LEMMA SameGoing ==
  ASSUME NEW p \in Operators, Same(p), FewerFaults, NEW r \in Runs, AtOwnStep(r),
         Going(p, r), r.got # None => Mine(p, r.got), \A x \in r.ids : Mine(p, x)
  PROVE  Going(p, r)'
  <1>1. r.cmd \in {"create", "destroy"}
    BY DEF Runs
  <1>2. CASE r.phase # "idle" /\ ~r.dry
    BY <1>1, <1>2, SameCreating, SameDestroying DEF Going
  <1>3. CASE r.phase = "idle" /\ ~r.dry /\ r.exit = "ok" /\ r.cmd = "create"
    <2>1. PICK id \in Nat : \A i \in 1..11 : Made(p, CreateSteps[i], id)
      BY <1>3 DEF Going
    <2>2. The(p, "tenant", id) \in objs
      BY <2>1, CreatePlace, MadeTenant
    <2>3. \A i \in 1..11 : Made(p, CreateSteps[i], id)'
      BY <2>1, <2>2, SameMade
    <2> QED BY <1>3, <2>3 DEF Going
  <1>4. CASE r.phase = "idle" /\ ~r.dry /\ r.exit = "ok" /\ r.cmd = "destroy"
    BY <1>4 DEF Going, Same, NamedAlike
  <1> QED BY <1>1, <1>2, <1>3, <1>4, EasyGoing

LEMMA ReachSame ==
  ASSUME DisjointNames, NEW p \in Operators, NEW q \in Operators, p # q, Reach(q)
  PROVE  Same(p)
  <1>1. \A o : Mine(p, o) => ~Mine(q, o) /\ o \notin Diff(objs, objs') /\ o \notin Diff(perms, perms')
    BY NotMine DEF Reach, Mine
  <1>2. \A k \in YamlKinds : Named(p, k)' = Named(p, k)
    BY <1>1 DEF Named, Mine, Diff
  <1>3. Providers(p)' = Providers(p)
    BY NotMine DEF Reach, Providers, Diff
  <1>4. \A id : The(p, "tenant", id) \in objs =>
          (<<id, NameOf[p]["group"]>> \in assigned' <=> <<id, NameOf[p]["group"]>> \in assigned)
    <2> SUFFICES ASSUME NEW id, The(p, "tenant", id) \in objs,
                        <<id, NameOf[p]["group"]>> \in Diff(assigned, assigned')
                 PROVE FALSE
      BY DEF Diff
    <2>1. Mine(q, The(p, "tenant", id))
      BY TheIs DEF Reach
    <2> QED BY <1>1, <2>1, TheNamed DEF YamlKinds
  <1> QED BY <1>1, <1>2, <1>3, <1>4 DEF Same, Reach, Diff

\* Nobody edits the objects of an operator by hand while a command of his runs;
\* before and after it somebody may, and broker views come and go at any time.
EditsBetween == ~EditsAnytime

\* The invariant that makes the properties below inductive.
Sane == Safe /\ KeptApart /\ Whole

LEMMA SaneRun ==
  ASSUME Sane, NEW p \in Operators
  PROVE  /\ TypeOK /\ Apart /\ Safe /\ RefsLive /\ AllKnown
         /\ run[p] \in Runs /\ AtOwnStep(run[p]) /\ HoldsIn(p, run[p], objs, lastId)
         /\ Tidy(p) /\ Going(p, run[p]) /\ Sound(run[p])
         /\ (run[p].got # None => Mine(p, run[p].got)) /\ \A x \in run[p].ids : Mine(p, x)
  BY ApartRun DEF Sane, Safe, Apart, Whole, RunsSound, HoldsIn

LEMMA SameOn ==
  ASSUME Sane, NEW p \in Operators, Same(p), FewerFaults, run'[p] = run[p]
  PROVE  Tidy(p)' /\ Going(p, run[p])'
  <1>1. PICK r \in Runs : r = run[p]
    BY SaneRun
  <1>2. Going(p, r)'
    BY <1>1, SaneRun, SameGoing
  <1>3. Going(p, run[p])'
    BY <1>1, <1>2
  <1> QED BY <1>3, SaneRun, SameTidy

\* Of a step of q it is enough to look at what it does to q's own.
OwnWhole(q) == RefsLive /\ AllKnown /\ Tidy(q) /\ Going(q, run[q])

LEMMA StepWhole ==
  ASSUME DisjointNames, Sane, NEW q \in Operators, Reach(q), FewerFaults,
         UNCHANGED run \/ \E r : Become(q, r), OwnWhole(q)'
  PROVE  Whole'
  <1> SUFFICES ASSUME NEW p \in Operators PROVE Tidy(p)' /\ Going(p, run[p])'
    BY DEF OwnWhole, Whole
  <1>1. CASE p = q
    BY <1>1 DEF OwnWhole
  <1>2. CASE p # q
    <2>1. run'[p] = run[p]
      BY <1>2, OneCommand DEF Sane, Safe
    <2> QED BY <1>2, <2>1, ReachSame, SameOn
  <1> QED BY <1>1, <1>2

LEMMA QuietSame ==
  ASSUME NEW p, UNCHANGED cluster
  PROVE  Same(p)
  BY DEF Same, cluster, Named, Providers

LEMMA QuietWhole ==
  ASSUME Sane, NEW q \in Operators, UNCHANGED cluster, NEW s, Become(q, s), Going(q, s)'
  PROVE  OwnWhole(q)'
  <1>1. run'[q] = s
    BY Becomes DEF Sane, Safe
  <1>2. Tidy(q)'
    BY QuietSame, SameTidy, SaneRun
  <1>3. RefsLive' /\ AllKnown'
    BY SaneRun DEF cluster, RefsLive, AllKnown, Mine
  <1> QED BY <1>1, <1>2, <1>3 DEF OwnWhole

\* A --plan, and a command that fails, claim nothing.
LEMMA QuietEnd ==
  ASSUME Sane, NEW q \in Operators, UNCHANGED cluster, NEW s, Become(q, s),
         s.dry \/ (s.phase = "idle" /\ s.exit # "ok")
  PROVE  OwnWhole(q)'
  BY QuietWhole, EasyGoing

LEMMA FailWhole ==
  ASSUME Sane, NEW q \in Operators, NEW code, code # "ok", Fail(q, code)
  PROVE  OwnWhole(q)'
  BY QuietEnd, EndedIs, SaneRun DEF Fail

LEMMA DryOn ==
  ASSUME Sane, NEW q \in Operators, UNCHANGED cluster, run[q].dry, Advance(q)
  PROVE  OwnWhole(q)'
  BY QuietEnd, SteppedIs, SaneRun DEF Advance

-----------------------------------------------------------------------------
(* A command of p and what it knows of p's objects                         *)

\* There is one object of each name, and it is on the tenant of that name.
LEMMA Home ==
  ASSUME TypeOK, NEW p \in Operators, Tidy(p), NEW id, The(p, "tenant", id) \in objs,
         NEW k \in YamlKinds, NEW o \in Named(p, k)
  PROVE  /\ k \notin OwnerPatched => o = The(p, k, id)
         /\ o.owner = id => o = The(p, k, id)
         /\ \A x \in Named(p, k) : x = o
  <1>1. \A x \in Named(p, k) : x = o
    BY DEF Tidy, OneEach
  <1>2. The(p, "tenant", id) \in Named(p, "tenant") /\ The(p, "tenant", id).owner = id
    BY TheNamed, TheIs DEF YamlKinds
  <1>3. k \notin OwnerPatched => o.owner = id
    <2>1. \A t \in Named(p, "tenant") : t.owner = id
      BY <1>2 DEF Tidy, OneEach, YamlKinds
    <2> QED BY <2>1 DEF Tidy, AtHome
  <1>4. o = The(p, k, o.owner)
    BY NamedIsThe
  <1> QED BY <1>1, <1>3, <1>4

LEMMA CreateRun ==
  ASSUME Sane, NEW p \in Operators, NEW k, NEW ph, AtStep(p, "create", k, ph), ph # "idle"
  PROVE  /\ run[p] \in Runs /\ AtOwnStep(run[p]) /\ run[p].cmd = "create" /\ run[p].phase = ph
         /\ run[p].at \in 1..11 /\ CreateSteps[run[p].at] = k
         /\ run[p].tid \in Nat /\ LastStep(run[p].cmd) = 11
         /\ ~run[p].dry =>
              /\ Creating(p, run[p])
              /\ run[p].at > 1 => /\ The(p, "tenant", run[p].tid) \in objs
                                  /\ run[p].pid = run[p].tid
  <1>1. /\ run[p] \in Runs /\ AtOwnStep(run[p]) /\ run[p].cmd = "create" /\ run[p].phase = ph
        /\ run[p].at \in 1..11 /\ CreateSteps[run[p].at] = k /\ run[p].tid \in Nat
    BY AtCreate, SaneRun DEF Runs
  <1>2. ~run[p].dry => Creating(p, run[p])
    BY <1>1, SaneRun DEF Going
  <1>3. ASSUME ~run[p].dry, run[p].at > 1
        PROVE  The(p, "tenant", run[p].tid) \in objs /\ run[p].pid = run[p].tid
    BY <1>1, <1>2, <1>3, CreatePlace, MadeTenant DEF Creating
  <1> QED BY <1>1, <1>2, <1>3, StepsBound

LEMMA DestroyRun ==
  ASSUME Sane, NEW p \in Operators, NEW k, NEW ph, AtStep(p, "destroy", k, ph), ph # "idle"
  PROVE  /\ run[p] \in Runs /\ AtOwnStep(run[p]) /\ run[p].cmd = "destroy" /\ run[p].phase = ph
         /\ run[p].at \in 1..12 /\ DestroySteps[run[p].at] = k
         /\ run[p].tid \in Nat /\ LastStep(run[p].cmd) = 12
         /\ ~run[p].dry => Destroying(p, run[p])
  BY AtDestroy, SaneRun, StepsBound DEF Runs, Going

\* What AfterEnsure makes of the record of a create that is not a --plan.
LEMMA AfterTenantIs ==
  ASSUME NEW r \in Runs, NEW o, NEW s, s = AfterEnsure(r, "tenant", o), o # None
  PROVE  /\ s.cmd = r.cmd /\ s.dry = r.dry /\ s.phase = "record" /\ s.at = r.at /\ s.got = None
         /\ s.tid = o.owner
  BY DEF AfterEnsure, Runs

LEMMA AfterRoleIs ==
  ASSUME NEW r \in Runs, ~r.dry, NEW o, NEW s, s = AfterEnsure(r, "role", o)
  PROVE  /\ s.cmd = r.cmd /\ s.dry = r.dry /\ s.phase = "perms" /\ s.at = r.at /\ s.got = None
         /\ s.tid = r.tid /\ s.pid = r.pid /\ s.seen = r.seen /\ s.ref = o
  BY DEF AfterEnsure, Runs

LEMMA AfterPolicyIs ==
  ASSUME NEW r \in Runs, AtOwnStep(r), r.at # LastStep(r.cmd), NEW o, NEW s,
         s = AfterEnsure(r, "policy", o)
  PROVE  /\ s.cmd = r.cmd /\ s.dry = r.dry
         /\ s.phase = "look" /\ s.at = r.at + 1 /\ s.tid = r.tid /\ s.pid = r.pid
         /\ s.seen = r.seen /\ s.ref = o /\ s.got = None /\ s.ids = {}
  <1> DEFINE u == Stepped(r)
  <1>1. /\ u \in Runs /\ u.phase = "look" /\ u.at = r.at + 1 /\ u.tid = r.tid /\ u.pid = r.pid
        /\ u.seen = r.seen /\ u.got = None /\ u.ids = {} /\ u.cmd = r.cmd /\ u.dry = r.dry
    BY SteppedIs
  <1>2. s = [u EXCEPT !.ref = o]
    BY DEF AfterEnsure
  <1> HIDE DEF u
  <1> QED BY <1>1, <1>2 DEF Runs

LEMMA AfterEnsureCmd ==
  ASSUME NEW r \in Runs, AtOwnStep(r), NEW k, NEW o
  PROVE  AfterEnsure(r, k, o).cmd = r.cmd
  <1>1. Stepped(r) \in Runs /\ Stepped(r).cmd = r.cmd
    BY SteppedIs
  <1>2. CASE k = "tenant"
    BY <1>2 DEF AfterEnsure, Runs
  <1>3. CASE k = "role" /\ ~r.dry
    BY <1>3 DEF AfterEnsure, Runs
  <1>4. CASE (k = "role" /\ r.dry) \/ k = "policy"
    <2>1. AfterEnsure(r, k, o) = [Stepped(r) EXCEPT !.ref = o]
      BY <1>4 DEF AfterEnsure
    <2> QED BY <1>1, <2>1 DEF Runs
  <1>5. CASE k \notin {"tenant", "role", "policy"}
    BY <1>1, <1>5 DEF AfterEnsure
  <1> QED BY <1>2, <1>3, <1>4, <1>5

LEMMA AfterEnsureDry ==
  ASSUME NEW r \in Runs, AtOwnStep(r), r.dry, NEW k, NEW o
  PROVE  AfterEnsure(r, k, o).dry
  <1>1. Stepped(r) \in Runs /\ Stepped(r).dry
    BY SteppedIs
  <1>2. CASE k = "tenant"
    BY <1>2 DEF AfterEnsure, Runs
  <1>3. CASE k \in {"role", "policy"}
    BY <1>1, <1>3 DEF AfterEnsure, Runs
  <1>4. CASE k \notin {"tenant", "role", "policy"}
    BY <1>1, <1>4 DEF AfterEnsure
  <1> QED BY <1>2, <1>3, <1>4

-----------------------------------------------------------------------------
(* Steps of create that write nothing                                      *)

\* An ensure below the tenant that ends with its object in place.
LEMMA EnsuredOn ==
  ASSUME Sane, NEW p \in Operators, NEW k \in Ensured \ {"tenant"}, NEW ph, ph # "idle",
         AtStep(p, "create", k, ph), NEW r, r = run[p], ~r.dry,
         NEW s, s = AfterEnsure(r, k, The(p, k, r.tid)),
         \A i \in 1..(r.at - 1) : Made(p, CreateSteps[i], r.tid) =>
            Made(p, CreateSteps[i], r.tid)',
         k # "role" => Made(p, k, r.tid)',
         k = "role" => The(p, k, r.tid) \in objs',
         UNCHANGED assigned
  PROVE  Going(p, s)'
  <1>1. r \in Runs
    BY CreateRun
  <1>2. /\ AtOwnStep(r) /\ r.cmd = "create" /\ r.at \in 1..11 /\ CreateSteps[r.at] = k
        /\ r.tid \in Nat /\ ~r.dry /\ Creating(p, r)
    BY CreateRun
  <1>3. r.at \in {2, 3, 4, 5, 6, 7, 8, 10}
    BY <1>2, CreatePlaces DEF Ensured
  <1>4. r.pid = r.tid /\ (r.at \in 2..9 => (r.seen <=> <<r.tid, NameOf[p]["group"]>> \in assigned'))
    BY <1>2, <1>3 DEF Creating
  <1>5. \A i \in 1..(r.at - 1) : Made(p, CreateSteps[i], r.tid)'
    BY <1>2 DEF Creating
  <1> PICK o : o = The(p, k, r.tid)
    OBVIOUS
  <1>7. CASE k = "role"
    <2>1. r.at = 4
      BY <1>2, <1>7, CreatePlaces
    <2>2. /\ s.cmd = r.cmd /\ s.dry = r.dry /\ s.phase = "perms" /\ s.at = r.at
          /\ s.tid = r.tid /\ s.pid = r.pid /\ s.seen = r.seen /\ s.ref = The(p, "role", r.tid)
      BY <1>1, <1>2, <1>7, AfterRoleIs
    <2>3. Creating(p, s)'
      BY <1>1, <1>4, <1>5, <1>7, <2>1, <2>2 DEF Creating
    <2> QED BY <1>2, <2>2, <2>3 DEF Going
  <1>8. CASE k # "role"
    <2>1. r.at # 4 /\ (r.at = 10 => k = "policy")
      BY <1>2, <1>8, CreatePlaces
    <2>2. \A i \in 1..r.at : Made(p, CreateSteps[i], r.tid)'
      <3>1. \A i \in 1..r.at : i = r.at \/ i \in 1..(r.at - 1)
        BY <1>3
      <3> QED BY <1>1, <1>2, <1>5, <1>8, <3>1
    <2>3. r.at # LastStep(r.cmd)
      BY <1>2, <1>3, StepsBound
    <2>4. /\ s.cmd = r.cmd /\ s.phase = "look" /\ s.at = r.at + 1 /\ s.tid = r.tid
          /\ s.pid = r.pid /\ s.seen = r.seen /\ (k = "policy" => s.ref = The(p, k, r.tid))
      <3>1. CASE k = "policy"
        BY <1>1, <1>2, <2>3, <3>1, AfterPolicyIs
      <3>2. CASE k # "policy"
        <4>1. s = Stepped(r)
          BY <1>8, <3>2 DEF AfterEnsure
        <4> QED BY <1>1, <1>2, <2>3, <3>2, <4>1, SteppedIs
      <3> QED BY <3>1, <3>2
    <2>5. s.at \in 2..9 => (s.seen <=> <<r.tid, NameOf[p]["group"]>> \in assigned')
      BY <1>3, <1>4, <2>4
    <2> QED BY <1>2, <1>3, <1>4, <2>1, <2>2, <2>4, <2>5, CreateOn
  <1> QED BY <1>7, <1>8

LEMMA QuietGoing ==
  ASSUME NEW p, NEW s, UNCHANGED cluster, UNCHANGED faults, Going(p, s)
  PROVE  Going(p, s)'
  <1>1. objs' = objs /\ refs' = refs /\ perms' = perms /\ assigned' = assigned /\ faults' = faults
    BY DEF cluster
  <1>2. /\ \A k : Named(p, k)' = Named(p, k)
        /\ Providers(p)' = Providers(p)
    BY <1>1 DEF Named, Providers
  <1>3. \A k, id : Made(p, k, id)' = Made(p, k, id)
    BY <1>1 DEF Made, Wanted
  <1>4. Needed(p, s)' = Needed(p, s)
    BY <1>1, <1>2 DEF Needed
  <1>5. Creating(p, s)' = Creating(p, s)
    BY <1>1, <1>3, <1>4 DEF Creating
  <1>6. Destroying(p, s)' = Destroying(p, s)
    BY <1>1, <1>2 DEF Destroying, NamedAlike
  <1> QED BY <1>2, <1>3, <1>5, <1>6 DEF Going, NamedAlike

\* A create that finds that it has to write, and goes on to do so.
LEMMA CreateToPut ==
  ASSUME Sane, NEW p \in Operators, NEW k, AtStep(p, "create", k, "look"), ~run[p].dry,
         UNCHANGED cluster, UNCHANGED faults, NEW s, Become(p, s),
         NEW r, r = run[p],
         s.cmd = r.cmd, s.dry = r.dry, s.phase = "put", s.at = r.at, s.tid = r.tid,
         s.pid = r.pid, s.seen = r.seen, s.ref = r.ref, Needed(p, s)
  PROVE  OwnWhole(p)'
  <1>1. Creating(p, r) /\ r.phase = "look" /\ s.cmd = "create" /\ r.at \in 1..11
    BY CreateRun
  <1>2. Creating(p, s)
    BY <1>1 DEF Creating
  <1>3. Going(p, s)
    BY <1>1, <1>2 DEF Going
  <1> QED BY <1>3, QuietGoing, QuietWhole

\* The GET of ensure: of what it finds, the object on the tenant of the command
\* that has not drifted is as wanted.
LEMMA Ensured1 ==
  ASSUME Sane, NEW p \in Operators, NEW k \in Ensured \ {"tenant"},
         AtStep(p, "create", k, "look"), ~run[p].dry,
         NEW o \in FoundByCreate(p, k), ~Drifted(p, k, o)
  PROVE  /\ o = The(p, k, run[p].tid)
         /\ k # "role" => Made(p, k, run[p].tid)
  <1>1. /\ run[p].at \in 1..11 /\ CreateSteps[run[p].at] = k
        /\ Creating(p, run[p])
        /\ run[p].at > 1 => The(p, "tenant", run[p].tid) \in objs
    BY CreateRun
  <1>2. run[p].at > 1 /\ k \in YamlKinds
    BY <1>1, CreatePlaces DEF Ensured, YamlKinds
  <1>3. o \in Named(p, k) /\ TypeOK /\ Tidy(p)
    BY SaneRun DEF FoundByCreate
  <1>4. o = The(p, k, run[p].tid)
    BY <1>1, <1>2, <1>3, Home DEF Drifted
  <1>5. o \in objs
    BY <1>3, NamedIsThe
  <1>6. CASE k = "user"
    <2>1. run[p].at = 3
      BY <1>1, <1>6, CreatePlaces
    <2>2. Made(p, "group", run[p].tid)
      BY <1>1, <2>1, CreatePlace DEF Creating
    <2>3. The(p, "group", run[p].tid) \in Named(p, "group")
      BY <2>2, TheNamed DEF Made, Wanted, Ensured, YamlKinds
    <2>4. <<o, The(p, "group", run[p].tid)>> \in refs
      BY <1>6, <2>3 DEF Drifted, Targets, RefsPatched
    <2> QED BY <1>4, <1>5, <1>6, <2>4 DEF Made
  <1>7. CASE k = "manager"
    <2>1. run[p].ref = The(p, "role", run[p].tid)
      BY <1>1, <1>7, CreatePlaces DEF Creating
    <2>2. <<o, run[p].ref>> \in refs
      BY <1>7 DEF Drifted, Targets, RefsPatched
    <2> QED BY <1>4, <1>5, <1>7, <2>1, <2>2 DEF Made
  <1>8. CASE k \notin {"user", "manager"}
    BY <1>4, <1>5, <1>8 DEF Made, Ensured
  <1> QED BY <1>4, <1>6, <1>7, <1>8

LEMMA QuietMade ==
  ASSUME NEW p, NEW k, NEW id, UNCHANGED cluster, UNCHANGED faults, Made(p, k, id)
  PROVE  Made(p, k, id)'
  BY DEF Made, Wanted, cluster

LEMMA EnsureLookDry ==
  ASSUME Sane, NEW p \in Operators, NEW k, EnsureLook(p, k), run[p].dry
  PROVE  OwnWhole(p)'
  <1>1. \E o : Become(p, AfterEnsure(run[p], k, o))
    BY DEF EnsureLook
  <1>2. PICK o : Become(p, AfterEnsure(run[p], k, o))
    BY <1>1
  <1>3. AfterEnsure(run[p], k, o).dry
    BY SaneRun, AfterEnsureDry
  <1> QED BY <1>2, <1>3, QuietEnd DEF EnsureLook

\* Why what the GET found has to be written.
LEMMA EnsureLookNeeds ==
  ASSUME Sane, NEW p \in Operators, NEW k, EnsureLook(p, k), ~run[p].dry,
         NEW o, NEW s,
         \/ FoundByCreate(p, k) = {} /\ o = None
         \/ o \in FoundByCreate(p, k) /\ Drifted(p, k, o),
         s.at = run[p].at, s.got = o, s.tid = run[p].tid, s.ref = run[p].ref
  PROVE  Needed(p, s)
  <1>1. /\ k \in Ensured /\ (k = "vippool" => p \in HasPool)
        /\ AtStep(p, "create", k, "look")
    BY DEF EnsureLook
  <1>2. /\ run[p].at \in 1..11 /\ CreateSteps[run[p].at] = k
        /\ Creating(p, run[p])
        /\ run[p].at > 1 => The(p, "tenant", run[p].tid) \in objs
    BY <1>1, CreateRun
  <1>3. CreateSteps[s.at] = k /\ k \notin {"assign", "bind"} /\ k \in YamlKinds
    BY <1>1, <1>2 DEF Ensured, YamlKinds
  <1>4. CASE FoundByCreate(p, k) = {} /\ o = None
    <2>1. Named(p, k) = {}
      <3>1. CASE k = "policy"
        <4>1. The(p, "tenant", run[p].tid) \in objs
          BY <1>2, <3>1, CreatePlaces
        <4>2. ASSUME NEW x \in Named(p, k) PROVE FALSE
          <5>1. x = The(p, k, run[p].tid)
            BY <1>3, <3>1, <4>1, Home, SaneRun DEF OwnerPatched
          <5>2. x.owner = run[p].tid
            BY <5>1, TheIs
          <5> QED BY <1>4, <5>2 DEF FoundByCreate
        <4> QED BY <4>2
      <3>2. CASE k # "policy"
        BY <1>4, <3>2 DEF FoundByCreate
      <3> QED BY <3>1, <3>2
    <2> QED BY <1>1, <1>3, <1>4, <2>1 DEF Needed
  <1>5. CASE o \in FoundByCreate(p, k) /\ Drifted(p, k, o)
    <2>1. o \in Named(p, k) /\ o # None
      <3>1. o \in Named(p, k)
        BY <1>5 DEF FoundByCreate
      <3> QED BY <3>1, NamedIsThe, SaneRun, ConstantsOK
    <2>2. k \in OwnerPatched \union RefsPatched /\ (k \in OwnerPatched => o.owner # s.tid)
      BY <1>5 DEF Drifted, OwnerPatched, RefsPatched
    <2>3. k = "user" => \E g \in Named(p, "group") : <<o, g>> \notin refs
      BY <1>5 DEF Drifted, OwnerPatched, Targets
    <2>4. k = "manager" => <<o, s.ref>> \notin refs
      BY <1>5 DEF Drifted, OwnerPatched, Targets
    <2> QED BY <1>1, <1>3, <2>1, <2>2, <2>3, <2>4 DEF Needed
  <1> QED BY <1>4, <1>5

LEMMA EnsureLookWhole ==
  ASSUME Sane, NEW p \in Operators, NEW k, EnsureLook(p, k)
  PROVE  OwnWhole(p)'
  <1>1. CASE run[p].dry
    BY <1>1, EnsureLookDry
  <1>2. CASE ~run[p].dry
    <2> PICK r \in Runs : r = run[p]
      BY SaneRun
    <2>1. k \in Ensured /\ AtStep(p, "create", k, "look") /\ UNCHANGED cluster /\ UNCHANGED faults
      BY DEF EnsureLook
    <2>2. AtOwnStep(r) /\ r.tid \in Nat /\ CreateSteps[r.at] = k /\ r.at \in 1..11 /\ r.cmd = "create"
      BY <2>1, CreateRun
    <2>3. ASSUME NEW o, ToPut(p, o),
                 \/ FoundByCreate(p, k) = {} /\ o = None
                 \/ o \in FoundByCreate(p, k) /\ Drifted(p, k, o)
          PROVE  OwnWhole(p)'
      <3> PICK s : s = [r EXCEPT !.phase = "put", !.got = o]
        OBVIOUS
      <3>1. /\ s.cmd = r.cmd /\ s.dry = r.dry /\ s.phase = "put" /\ s.at = r.at /\ s.tid = r.tid
            /\ s.pid = r.pid /\ s.seen = r.seen /\ s.ref = r.ref /\ s.got = o
        BY DEF Runs
      <3>2. Become(p, s)
        BY <2>3 DEF ToPut
      <3>3. Needed(p, s)
        BY <1>2, <2>3, <3>1, EnsureLookNeeds
      <3> QED BY <1>2, <2>1, <3>1, <3>2, <3>3, CreateToPut
    <2>4. ASSUME NEW o \in FoundByCreate(p, k), ~Drifted(p, k, o),
                 Become(p, AfterEnsure(r, k, o))
          PROVE  OwnWhole(p)'
      <3> PICK s : s = AfterEnsure(r, k, o)
        OBVIOUS
      <3>1. CASE k = "tenant"
        <4>1. o \in Named(p, "tenant")
          BY <3>1 DEF FoundByCreate
        <4>2. o = The(p, "tenant", o.owner) /\ o \in objs /\ o # None
          BY <4>1, NamedIsThe, SaneRun, ConstantsOK
        <4>3. /\ s.cmd = r.cmd /\ s.dry = r.dry /\ s.phase = "record" /\ s.at = r.at /\ s.got = None
              /\ s.tid = o.owner
          BY <3>1, <4>2, AfterTenantIs
        <4>4. r.at = 1
          BY <2>2, <3>1, CreatePlaces
        <4>5. Creating(p, s)
          BY <4>2, <4>3, <4>4 DEF Creating
        <4>6. Going(p, s)
          BY <2>2, <4>3, <4>5 DEF Going
        <4> QED BY <2>1, <2>4, <4>6, QuietGoing, QuietWhole
      <3>2. CASE k # "tenant"
        <4>1. o = The(p, k, r.tid) /\ (k # "role" => Made(p, k, r.tid))
          BY <1>2, <2>1, <3>2, <2>4, Ensured1
        <4>2. o \in objs
          BY <2>4, NamedIsThe, SaneRun DEF FoundByCreate
        <4>3. k \in Ensured \ {"tenant"} /\ s = AfterEnsure(r, k, The(p, k, r.tid))
          BY <2>1, <3>2, <4>1
        <4>4. UNCHANGED assigned /\ UNCHANGED objs
          BY <2>1 DEF cluster
        <4>5. \A i \in 1..(r.at - 1) : Made(p, CreateSteps[i], r.tid) => Made(p, CreateSteps[i], r.tid)'
          BY <2>1, QuietMade
        <4>6. k # "role" => Made(p, k, r.tid)'
          BY <2>1, <4>1, QuietMade
        <4>7. The(p, k, r.tid) \in objs'
          BY <4>1, <4>2, <4>4
        <4>8. Going(p, s)'
          BY <1>2, <2>1, <4>3, <4>4, <4>5, <4>6, <4>7, EnsuredOn
        <4> QED BY <2>1, <2>4, <4>8, QuietWhole
      <3> QED BY <3>1, <3>2
    <2>5. \/ FoundByCreate(p, k) = {} /\ ToPut(p, None)
          \/ \E o \in FoundByCreate(p, k) :
                \/ Drifted(p, k, o) /\ ToPut(p, o)
                \/ ~Drifted(p, k, o) /\ Become(p, AfterEnsure(r, k, o))
      BY <1>2 DEF EnsureLook
    <2> QED BY <2>3, <2>4, <2>5
  <1> QED BY <1>1, <1>2

\* A step of create, past the first, that leaves what it is for.
LEMMA CreatePassed ==
  ASSUME Sane, NEW p \in Operators, NEW k, k \notin {"tenant", "policy"}, NEW ph, ph # "idle",
         AtStep(p, "create", k, ph), NEW r, r = run[p], ~r.dry,
         k = "role" => ph = "perms",
         NEW s, s = Stepped(r),
         \A i \in 1..(r.at - 1) : Made(p, CreateSteps[i], r.tid) =>
            Made(p, CreateSteps[i], r.tid)',
         Made(p, k, r.tid)',
         r.at < 9 => UNCHANGED assigned
  PROVE  Going(p, s)'
  <1>1. /\ r \in Runs /\ AtOwnStep(r) /\ r.cmd = "create" /\ r.at \in 1..11
        /\ CreateSteps[r.at] = k /\ r.tid \in Nat /\ Creating(p, r) /\ r.phase = ph
        /\ LastStep(r.cmd) = 11
    BY CreateRun
  <1>2. r.at \in {2, 3, 4, 5, 6, 7, 8, 9, 11} /\ (r.at = 4 => r.phase = "perms")
    BY <1>1, CreatePlaces
  <1>3. r.pid = r.tid /\ (r.at < 9 => (r.seen <=> <<r.tid, NameOf[p]["group"]>> \in assigned'))
    BY <1>1, <1>2 DEF Creating
  <1>4. \A i \in 1..r.at : Made(p, CreateSteps[i], r.tid)'
    <2>1. \A i \in 1..r.at : i = r.at \/ i \in 1..(r.at - 1)
      BY <1>2
    <2> QED BY <1>1, <2>1 DEF Creating
  <1>5. /\ s.cmd = "create"
        /\ r.at = 11 => s.phase = "idle"
        /\ r.at # 11 => /\ s.phase = "look" /\ s.at = r.at + 1 /\ s.tid = r.tid /\ s.pid = r.pid
                        /\ s.seen = r.seen /\ s.ref = r.ref
    BY <1>1, SteppedIs
  <1>6. r.at = 4 => r.ref = The(p, "role", r.tid)
    BY <1>1, <1>2 DEF Creating
  <1> QED BY <1>1, <1>2, <1>3, <1>4, <1>5, <1>6, CreateOn

LEMMA TenantRecordWhole ==
  ASSUME Sane, NEW p \in Operators, TenantRecord(p)
  PROVE  OwnWhole(p)'
  <1> PICK r \in Runs : r = run[p]
    BY SaneRun
  <1>1. /\ AtOwnStep(r) /\ r.cmd = "create" /\ r.phase = "record" /\ r.at \in 1..11
        /\ r.tid \in Nat /\ LastStep(r.cmd) = 11 /\ CreateSteps[r.at] = "tenant"
        /\ ~r.dry => Creating(p, r)
    BY CreateRun DEF TenantRecord
  <1>2. r.at = 1
    BY <1>1, CreatePlaces
  <1>3. CASE Advance(p) /\ UNCHANGED cluster /\ r.dry
    BY <1>3, DryOn
  <1>4. CASE Fail(p, "gone")
    BY <1>4, FailWhole
  <1>5. ASSUME NEW t \in Named(p, "tenant"), UNCHANGED cluster, UNCHANGED faults,
               NEW s, s = [Stepped(r) EXCEPT
                             !.tid = IF @ # 0 THEN @ ELSE t.owner,
                             !.pid = t.owner,
                             !.seen = <<t.owner, NameOf[p]["group"]>> \in assigned],
               Become(p, s)
        PROVE  OwnWhole(p)'
    <2> DEFINE u == Stepped(r)
               id == IF u.tid # 0 THEN u.tid ELSE t.owner
               now == <<t.owner, NameOf[p]["group"]>> \in assigned
    <2>1. /\ u \in Runs /\ u.cmd = "create" /\ u.dry = r.dry /\ u.phase = "look"
          /\ u.at = 2 /\ u.tid = r.tid
      BY <1>1, <1>2, SteppedIs
    <2>2. s = [u EXCEPT !.tid = id, !.pid = t.owner, !.seen = now]
      BY <1>5
    <2> HIDE DEF u, now
    <2>3. /\ s.cmd = "create" /\ s.dry = r.dry /\ s.phase = "look" /\ s.at = 2
          /\ s.tid = id /\ s.pid = t.owner /\ s.seen = now
      BY <2>1, <2>2 DEF Runs
    <2>4. CASE r.dry
      BY <1>5, <2>3, <2>4, QuietEnd
    <2>5. CASE ~r.dry
      <3>1. The(p, "tenant", r.tid) \in objs
        BY <1>1, <2>5 DEF Creating
      <3>2. t = The(p, "tenant", r.tid) /\ t.owner = r.tid
        <4>1. t = The(p, "tenant", r.tid)
          BY <3>1, Home, SaneRun DEF OwnerPatched, YamlKinds
        <4> QED BY <4>1, TheIs
      <3>3. s.tid = r.tid /\ s.pid = r.tid
        BY <2>1, <2>3, <3>2
      <3>4. Made(p, CreateSteps[1], s.tid)
        BY <3>1, <3>3, CreatePlace DEF Made
      <3>5. \A i \in 1..(s.at - 1) : Made(p, CreateSteps[i], s.tid)
        BY <2>3, <3>4
      <3>6. s.seen <=> <<s.tid, NameOf[p]["group"]>> \in assigned
        BY <2>3, <3>2, <3>3 DEF now
      <3>7. Creating(p, s)
        BY <2>3, <3>3, <3>5, <3>6 DEF Creating
      <3>8. Going(p, s)
        BY <2>3, <3>7 DEF Going
      <3> QED BY <1>5, <3>8, QuietGoing, QuietWhole
    <2> QED BY <2>4, <2>5
  <1>6. CASE \E t \in Named(p, "tenant") :
               /\ Become(p, [Stepped(r) EXCEPT
                               !.tid = IF @ # 0 THEN @ ELSE t.owner,
                               !.pid = t.owner,
                               !.seen = <<t.owner, NameOf[p]["group"]>> \in assigned])
               /\ UNCHANGED cluster
    BY <1>5, <1>6 DEF TenantRecord
  <1> QED BY <1>3, <1>4, <1>6 DEF TenantRecord

LEMMA AssignLookWhole ==
  ASSUME Sane, NEW p \in Operators, AssignLook(p)
  PROVE  OwnWhole(p)'
  <1> PICK r \in Runs : r = run[p]
    BY SaneRun
  <1>1. /\ AtStep(p, "create", "assign", "look") /\ UNCHANGED cluster /\ UNCHANGED faults
        /\ r.at \in 1..11 /\ CreateSteps[r.at] = "assign"
        /\ ~r.dry => Creating(p, r)
    BY CreateRun DEF AssignLook
  <1>2. r.at = 9
    BY <1>1, CreatePlaces
  <1>3. CASE r.dry
    BY <1>1, <1>3, DryOn DEF AssignLook
  <1>4. CASE ~r.dry /\ r.seen
    <2> PICK s : s = Stepped(r)
      OBVIOUS
    <2>1. Made(p, "assign", r.tid)
      BY <1>1, <1>2, <1>4 DEF Creating, Made, Wanted, Ensured
    <2>2. \A i \in 1..(r.at - 1) : Made(p, CreateSteps[i], r.tid) => Made(p, CreateSteps[i], r.tid)'
      BY <1>1, QuietMade
    <2>3. Made(p, "assign", r.tid)'
      BY <1>1, <2>1, QuietMade
    <2>4. Going(p, s)'
      BY <1>1, <1>2, <1>4, <2>2, <2>3, CreatePassed
    <2>5. Become(p, s)
      BY <1>4 DEF AssignLook, Advance
    <2> QED BY <1>1, <2>4, <2>5, QuietWhole
  <1>5. CASE ~r.dry /\ ~r.seen
    <2> PICK s : s = [r EXCEPT !.phase = "put", !.got = None]
      OBVIOUS
    <2>1. /\ s.cmd = r.cmd /\ s.dry = r.dry /\ s.phase = "put" /\ s.at = r.at /\ s.tid = r.tid
          /\ s.pid = r.pid /\ s.seen = r.seen /\ s.ref = r.ref
      BY DEF Runs
    <2>2. <<r.tid, NameOf[p]["group"]>> \notin assigned
      BY <1>1, <1>2, <1>5 DEF Creating
    <2>3. Needed(p, s)
      BY <1>1, <2>1, <2>2 DEF Needed, Ensured
    <2>4. Become(p, s)
      BY <1>5 DEF AssignLook, ToPut
    <2> QED BY <1>1, <1>5, <2>1, <2>3, <2>4, CreateToPut
  <1> QED BY <1>3, <1>4, <1>5

\* References go from and to objects of one operator, and of certain kinds.
LEMMA RefKind ==
  ASSUME Sane, NEW x \in refs
  PROVE  /\ x[1] \in objs /\ x[2] \in objs
         /\ x[1].kind = "group" <=> x[2].kind = "policy"
         /\ x[2].kind = "s3" => x[1].kind = "view"
         /\ x[2].kind = "vippool" => x[1].kind = "view"
         /\ x[2].kind = "role" => x[1].kind = "manager"
         /\ x[2].kind = "group" => x[1].kind = "user"
         /\ x[1].kind \in {"user", "manager", "group", "view"}
         /\ x[2].kind \in {"group", "role", "policy", "vippool", "s3"}
         /\ x[1].kind = "view" => x[2].kind \in {"vippool", "s3"}
         /\ x = <<x[1], x[2]>>
  <1>1. /\ x[1] \in objs /\ x[2] \in objs /\ <<x[1].kind, x[2].kind>> \in RefKinds
    BY DEF Sane, Whole, RefsLive
  <1>2. x = <<x[1], x[2]>>
    BY DEF Sane, Safe, TypeOK, ClusterTyped
  <1> QED BY <1>1, <1>2 DEF RefKinds

LEMMA BindLookWhole ==
  ASSUME Sane, NEW p \in Operators, BindLook(p)
  PROVE  OwnWhole(p)'
  <1> PICK r \in Runs : r = run[p]
    BY SaneRun
  <1>1. /\ AtStep(p, "create", "bind", "look") /\ UNCHANGED cluster /\ UNCHANGED faults
        /\ r.at \in 1..11 /\ CreateSteps[r.at] = "bind" /\ r.tid \in Nat
        /\ ~r.dry => /\ Creating(p, r)
                     /\ r.at > 1 => The(p, "tenant", r.tid) \in objs
    BY CreateRun DEF BindLook
  <1>2. r.at = 11
    BY <1>1, CreatePlaces
  <1>3. CASE r.dry
    <2>1. Advance(p)
      BY <1>3 DEF BindLook
    <2> QED BY <1>1, <1>3, <2>1, DryOn
  <1>4. CASE ~r.dry
    <2>1. r.ref = The(p, "policy", r.tid) /\ The(p, "policy", r.tid) # None
      BY <1>1, <1>2, <1>4, TheTyped DEF Creating, YamlKinds
    <2>2. Made(p, "group", r.tid) /\ Made(p, "policy", r.tid)
      BY <1>1, <1>2, <1>4, CreatePlace DEF Creating
    <2>3. The(p, "group", r.tid) \in Named(p, "group") /\ The(p, "policy", r.tid) \in objs
      BY <2>2, TheNamed DEF Made, Wanted, Ensured, YamlKinds
    <2>4. \A g \in Named(p, "group") : g = The(p, "group", r.tid)
      BY <1>1, <1>2, <1>4, Home, SaneRun DEF OwnerPatched, YamlKinds
    <2> DEFINE g == The(p, "group", r.tid)
    <2>5. \/ r.ref \in PoliciesOf(g) /\ Advance(p)
          \/ /\ r.ref \notin PoliciesOf(g)
             /\ Become(p, [r EXCEPT !.phase = "put", !.got = g, !.ids = PoliciesOf(g) \union {r.ref}])
      BY <1>4, <2>1, <2>3, <2>4 DEF BindLook
    <2>6. r.ref \in PoliciesOf(g) <=> <<g, r.ref>> \in refs
      BY RefKind DEF PoliciesOf
    <2>7. \A x \in PoliciesOf(g) : x.kind = "policy"
      <3>1. g.kind = "group"
        BY TheIs
      <3> QED BY <3>1, RefKind DEF PoliciesOf
    <2> HIDE DEF g
    <2>8. CASE r.ref \in PoliciesOf(g) /\ Advance(p)
      <3> PICK s : s = Stepped(r)
        OBVIOUS
      <3>1. Made(p, "bind", r.tid)
        BY <2>1, <2>6, <2>8 DEF Made, Wanted, Ensured, g
      <3>2. \A i \in 1..(r.at - 1) : Made(p, CreateSteps[i], r.tid) => Made(p, CreateSteps[i], r.tid)'
        BY <1>1, QuietMade
      <3>3. Made(p, "bind", r.tid)'
        BY <1>1, <3>1, QuietMade
      <3>4. Going(p, s)'
        BY <1>1, <1>2, <1>4, <3>2, <3>3, CreatePassed
      <3>5. Become(p, s)
        BY <2>8 DEF Advance
      <3> QED BY <1>1, <3>4, <3>5, QuietWhole
    <2>9. CASE /\ r.ref \notin PoliciesOf(g)
               /\ Become(p, [r EXCEPT !.phase = "put", !.got = g, !.ids = PoliciesOf(g) \union {r.ref}])
      <3>1. PICK s : s = [r EXCEPT !.phase = "put", !.got = g, !.ids = PoliciesOf(g) \union {r.ref}]
        OBVIOUS
      <3>2. /\ s.cmd = r.cmd /\ s.dry = r.dry /\ s.phase = "put" /\ s.at = r.at /\ s.tid = r.tid
            /\ s.pid = r.pid /\ s.seen = r.seen /\ s.ref = r.ref
        BY <3>1 DEF Runs
      <3>3. s.got = g /\ s.ids = PoliciesOf(g) \union {r.ref}
        BY <3>1 DEF Runs
      <3>4. \A x \in s.ids : x.kind = "policy"
        BY <2>1, <2>7, <3>3, TheIs
      <3>5. Needed(p, s)
        BY <1>1, <2>6, <2>9, <3>2, <3>4, <3>3 DEF Needed, Ensured, g
      <3>6. Become(p, s)
        BY <2>9, <3>1
      <3> QED BY <1>1, <1>4, <3>2, <3>5, <3>6, CreateToPut
    <2> QED BY <2>5, <2>8, <2>9
  <1> QED BY <1>3, <1>4

LEMMA SkipPoolCreate ==
  ASSUME Sane, NEW p \in Operators, p \notin HasPool, AtStep(p, "create", "vippool", "look"),
         Advance(p), UNCHANGED cluster, UNCHANGED faults
  PROVE  OwnWhole(p)'
  <1> PICK r \in Runs : r = run[p]
    BY SaneRun
  <1>1. CASE r.dry
    BY <1>1, DryOn
  <1>2. CASE ~r.dry
    <2> PICK s : s = Stepped(r)
      OBVIOUS
    <2>1. r.at \in 1..11 /\ CreateSteps[r.at] = "vippool"
      BY CreateRun
    <2>2. r.at = 6
      BY <2>1, CreatePlaces
    <2>3. \A i \in 1..(r.at - 1) : Made(p, CreateSteps[i], r.tid) => Made(p, CreateSteps[i], r.tid)'
      BY QuietMade
    <2>4. Made(p, "vippool", r.tid)'
      BY DEF Made, Wanted
    <2>5. Going(p, s)'
      BY <1>2, <2>2, <2>3, <2>4, CreatePassed DEF cluster
    <2> QED BY <2>5, QuietWhole DEF Advance
  <1> QED BY <1>1, <1>2

-----------------------------------------------------------------------------
(* Steps of destroy that write nothing                                     *)

LEMMA NoTenantNothing ==
  ASSUME NEW p, Tidy(p), Named(p, "tenant") = {}
  PROVE  \A k \in YamlKinds : Named(p, k) = {}
  BY DEF Tidy, AtHome

LEMMA FindTenantWhole ==
  ASSUME Sane, NEW p \in Operators, FindTenant(p)
  PROVE  OwnWhole(p)'
  <1> PICK r \in Runs : r = run[p]
    BY SaneRun
  <1>1. /\ r.at \in 1..12 /\ DestroySteps[r.at] = "preflight" /\ r.phase = "look"
        /\ r.cmd = "destroy" /\ (~r.dry => Destroying(p, r))
        /\ UNCHANGED cluster /\ UNCHANGED faults
    BY DestroyRun DEF FindTenant
  <1>2. r.at = 1
    BY <1>1, DestroyPlaces
  <1>3. ASSUME Named(p, "tenant") = {}, NEW s, s = [r EXCEPT !.at = 12], Become(p, s)
        PROVE  OwnWhole(p)'
    <2>1. /\ s.at = 12 /\ s.phase = "look" /\ s.cmd = "destroy" /\ s.dry = r.dry
          /\ s.pid = r.pid /\ s.tid = r.tid
      BY <1>1, <1>3 DEF Runs
    <2>2. CASE r.dry
      BY <1>1, <1>3, <2>1, <2>2, QuietEnd
    <2>3. CASE ~r.dry
      <3>1. s.pid = 0 /\ s.tid = 0
        BY <1>1, <1>2, <2>1, <2>3 DEF Destroying
      <3>2. \A k \in YamlKinds : Named(p, k) = {}
        BY <1>3, NoTenantNothing, SaneRun
      <3>3. \A i \in 3..11 : Named(p, DestroySteps[i]) = {}
        BY <3>2, DestroyPlaces DEF YamlKinds
      <3>4. Named(p, "policy") = {}
        BY <3>2 DEF YamlKinds
      <3>5. Destroying(p, s)
        BY <2>1, <3>1, <3>3, <3>4 DEF Destroying
      <3>6. Going(p, s)
        BY <2>1, <3>5 DEF Going
      <3> QED BY <1>1, <1>3, <3>6, QuietGoing, QuietWhole
    <2> QED BY <2>2, <2>3
  <1>4. ASSUME NEW t \in Named(p, "tenant"), NEW s,
               s = [r EXCEPT !.phase = "views", !.tid = t.owner, !.pid = t.owner], Become(p, s)
        PROVE  OwnWhole(p)'
    <2>1. /\ s.at = 1 /\ s.phase = "views" /\ s.cmd = "destroy" /\ s.dry = r.dry
          /\ s.tid = t.owner /\ s.pid = t.owner
      BY <1>1, <1>2, <1>4 DEF Runs
    <2>2. CASE r.dry
      BY <1>1, <1>4, <2>1, <2>2, QuietEnd
    <2>3. CASE ~r.dry
      <3>1. The(p, "tenant", s.tid) \in objs
        BY <2>1, NamedIsThe, SaneRun
      <3>2. Destroying(p, s)
        BY <2>1, <3>1 DEF Destroying
      <3>3. Going(p, s)
        BY <2>1, <3>2 DEF Going
      <3> QED BY <1>1, <1>4, <3>3, QuietGoing, QuietWhole
    <2> QED BY <2>2, <2>3
  <1>5. Len(DestroySteps) = 12
    BY StepsBound DEF LastStep, Steps
  <1> QED BY <1>3, <1>4, <1>5 DEF FindTenant

\* A step of destroy, before the last, that leaves what it is for.
LEMMA DestroyPassed ==
  ASSUME Sane, NEW p \in Operators, NEW k, NEW ph, ph # "idle",
         AtStep(p, "destroy", k, ph), NEW r, r = run[p], ~r.dry, r.at < 12,
         r.at = 1 => ph = "views",
         NEW s, s = Stepped(r),
         r.at < 11 => The(p, "tenant", r.tid) \in objs',
         \A j \in YamlKinds : Named(p, j) = {} => Named(p, j)' = {},
         r.at = 2 => \A x \in refs' : x[2] \notin Named(p, "policy")',
         r.at > 2 => Named(p, DestroySteps[r.at])' = {} /\ refs' \subseteq refs,
         Named(p, "policy")' \subseteq Named(p, "policy"),
         Providers(p)' = Providers(p)
  PROVE  Going(p, s)'
  <1>1. /\ r \in Runs /\ AtOwnStep(r) /\ r.cmd = "destroy" /\ r.at \in 1..12
        /\ DestroySteps[r.at] = k /\ Destroying(p, r) /\ r.phase = ph
        /\ LastStep(r.cmd) = 12
    BY DestroyRun
  <1>2. /\ s.cmd = "destroy" /\ s.phase = "look" /\ s.at = r.at + 1
        /\ s.tid = r.tid /\ s.pid = r.pid
    BY <1>1, SteppedIs
  <1>3. The(p, "tenant", r.tid) \in objs /\ r.pid = r.tid
    BY <1>1 DEF Destroying
  <1>4. \A i \in 3..r.at : Named(p, DestroySteps[i])' = {}
    <2> SUFFICES ASSUME NEW i \in 3..r.at PROVE Named(p, DestroySteps[i])' = {}
      OBVIOUS
    <2>1. CASE i = r.at
      BY <2>1
    <2>2. CASE i # r.at
      <3>1. i \in 3..(r.at - 1) /\ i \in 1..12 /\ i < 12
        BY <1>1, <2>2
      <3>2. Named(p, DestroySteps[i]) = {}
        BY <1>1, <3>1 DEF Destroying
      <3>3. DestroySteps[i] \in YamlKinds
        BY <3>1, DestroyPlaces DEF YamlKinds
      <3> QED BY <3>2, <3>3
    <2> QED BY <2>1, <2>2
  <1>5. r.at > 1 => \A x \in refs' : x[2] \notin Named(p, "policy")'
    <2>1. r.at > 2 => \A x \in refs : x[2] \notin Named(p, "policy")
      BY <1>1 DEF Destroying
    <2> QED BY <1>1, <2>1
  <1>6. \A l \in Providers(p)' : l.owner = r.tid
    <2>1. The(p, "tenant", r.tid) \in Named(p, "tenant") /\ The(p, "tenant", r.tid).owner = r.tid
      BY <1>3, TheNamed, TheIs DEF YamlKinds
    <2>2. Tidy(p)
      BY SaneRun
    <2> QED BY <2>1, <2>2 DEF Tidy, OneProvider
  <1>7. s.at \in 2..11 => The(p, "tenant", s.tid) \in objs' /\ s.pid = s.tid
    BY <1>1, <1>2, <1>3
  <1>8. s.at = 12 => \A l \in Providers(p)' : l.owner = s.pid
    BY <1>2, <1>3, <1>6
  <1>9. Destroying(p, s)'
    BY <1>1, <1>2, <1>3, <1>4, <1>5, <1>7, <1>8 DEF Destroying
  <1> QED BY <1>2, <1>9 DEF Going

\* A step of destroy that finds nothing to do.
LEMMA DestroyPassedQuiet ==
  ASSUME Sane, NEW p \in Operators, NEW k, NEW ph, ph # "idle",
         AtStep(p, "destroy", k, ph), run[p].dry \/
           /\ run[p].at < 12
           /\ run[p].at = 1 => ph = "views"
           /\ run[p].at = 2 => \A x \in refs : x[2] \notin Named(p, "policy")
           /\ run[p].at > 2 => Named(p, DestroySteps[run[p].at]) = {},
         UNCHANGED cluster, UNCHANGED faults, Advance(p)
  PROVE  OwnWhole(p)'
  <1> PICK r \in Runs : r = run[p]
    BY SaneRun
  <1>1. CASE r.dry
    BY <1>1, DryOn
  <1>2. CASE ~r.dry
    <2> PICK s : s = Stepped(r)
      OBVIOUS
    <2>1. /\ objs' = objs /\ refs' = refs /\ Providers(p)' = Providers(p)
          /\ \A j : Named(p, j)' = Named(p, j)
      BY DEF cluster, Named, Providers
    <2>2. Destroying(p, r) /\ r.at \in 1..12 /\ r.phase = ph
      BY <1>2, DestroyRun
    <2>3. (r.at \in 2..11 \/ ph = "views") => The(p, "tenant", r.tid) \in objs
      BY <2>2 DEF Destroying
    <2>5. /\ r.at < 12 /\ (r.at = 1 => ph = "views")
          /\ r.at < 11 => The(p, "tenant", r.tid) \in objs'
      BY <1>2, <2>1, <2>2, <2>3
    <2>6. /\ \A j \in YamlKinds : Named(p, j) = {} => Named(p, j)' = {}
          /\ Named(p, "policy")' \subseteq Named(p, "policy")
      BY <2>1
    <2>7. r.at = 2 => \A x \in refs' : x[2] \notin Named(p, "policy")'
      BY <1>2, <2>1
    <2>8. r.at > 2 => Named(p, DestroySteps[r.at])' = {} /\ refs' \subseteq refs
      BY <1>2, <2>1
    <2>9. Going(p, s)'
      BY <1>2, <2>1, <2>5, <2>6, <2>7, <2>8, DestroyPassed
    <2> QED BY <2>9, QuietWhole DEF Advance
  <1> QED BY <1>1, <1>2

LEMMA PreflightWhole ==
  ASSUME Sane, NEW p \in Operators, Preflight(p)
  PROVE  OwnWhole(p)'
  <1>1. /\ AtStep(p, "destroy", "preflight", "views") /\ UNCHANGED faults
        /\ run[p].at \in 1..12 /\ DestroySteps[run[p].at] = "preflight"
        /\ ~run[p].dry => Destroying(p, run[p])
    BY DestroyRun DEF Preflight
  <1>2. run[p].at = 1
    BY <1>1, DestroyPlaces
  <1>3. CASE Fail(p, "refused")
    BY <1>3, FailWhole
  <1>4. CASE Advance(p) /\ UNCHANGED cluster
    BY <1>1, <1>2, <1>4, DestroyPassedQuiet
  <1> QED BY <1>3, <1>4 DEF Preflight

LEMMA UnbindLookWhole ==
  ASSUME DisjointNames, Sane, NEW p \in Operators, UnbindLook(p)
  PROVE  OwnWhole(p)'
  <1> PICK r \in Runs : r = run[p]
    BY SaneRun
  <1>1. /\ AtStep(p, "destroy", "unbind", "look") /\ UNCHANGED cluster /\ UNCHANGED faults
        /\ r.at \in 1..12 /\ DestroySteps[r.at] = "unbind" /\ r.cmd = "destroy" /\ r.phase = "look"
        /\ ~r.dry => Destroying(p, r)
    BY DestroyRun DEF UnbindLook
  <1>2. r.at = 2
    BY <1>1, DestroyPlaces
  <1>3. CASE r.dry
    <2>1. Advance(p)
      BY <1>3 DEF UnbindLook
    <2> QED BY <1>1, <1>3, <2>1, DryOn
  <1>4. CASE ~r.dry
    <2>1. The(p, "tenant", r.tid) \in objs /\ TypeOK /\ Tidy(p)
      BY <1>1, <1>2, <1>4, SaneRun DEF Destroying
    \* Whatever refers to the policy of p is the group of p.
    <2>2. ASSUME NEW x \in refs, x[2] \in Named(p, "policy")
          PROVE  x[1] \in Named(p, "group") /\ x[2] \in PoliciesOf(x[1]) /\ x[2].owner = r.tid
      <3>1. x[2].kind = "policy" /\ Mine(p, x[2]) /\ x[2].owner = r.tid
        BY <2>1, <2>2, Home, TheIs, NamedMine DEF OwnerPatched, YamlKinds
      <3>2. Mine(p, x[1])
        BY <3>1, RefsMine, SaneRun
      <3>3. x[1] \in objs /\ x[1].kind = "group"
        BY <3>1, RefKind
      <3> QED BY <3>1, <3>2, <3>3, MineNamed DEF PoliciesOf
    <2>3. CASE Named(p, "group") = {} /\ Advance(p)
      BY <1>1, <1>2, <2>2, <2>3, DestroyPassedQuiet
    <2>4. ASSUME NEW g \in Named(p, "group"), NEW kept,
                 kept = {q \in PoliciesOf(g) : ~(q \in Named(p, "policy") /\ q.owner = r.tid)},
                 IF kept = PoliciesOf(g)
                   THEN Advance(p)
                   ELSE Become(p, [r EXCEPT !.phase = "put", !.got = g, !.ids = kept])
          PROVE  OwnWhole(p)'
      <3>1. \A h \in Named(p, "group") : h = g
        BY <2>1, Home DEF YamlKinds
      <3>2. CASE kept = PoliciesOf(g)
        <4>1. \A x \in refs : x[2] \notin Named(p, "policy")
          BY <2>2, <2>4, <3>1, <3>2
        <4> QED BY <1>1, <1>2, <2>4, <3>2, <4>1, DestroyPassedQuiet
      <3>3. CASE kept # PoliciesOf(g)
        <4> PICK s : s = [r EXCEPT !.phase = "put", !.got = g, !.ids = kept]
          OBVIOUS
        <4>1. /\ s.cmd = r.cmd /\ s.dry = r.dry /\ s.phase = "put" /\ s.at = r.at /\ s.tid = r.tid
              /\ s.pid = r.pid /\ s.got = g /\ s.ids = kept
          BY DEF Runs
        <4>2. Become(p, s)
          BY <2>4, <3>3
        <4>3. \A x \in kept : x \in objs /\ x.kind = "policy" /\ x \notin Named(p, "policy")
          <5> SUFFICES ASSUME NEW x \in kept
                       PROVE  x \in objs /\ x.kind = "policy" /\ x \notin Named(p, "policy")
            OBVIOUS
          <5>1. PICK e \in refs : e[1] = g /\ e[2] = x
            BY <2>4 DEF PoliciesOf
          <5>2. x \in objs /\ x.kind = "policy"
            BY <2>4, <5>1, RefKind, NamedIsThe, SaneRun
          <5> QED BY <2>2, <2>4, <5>1, <5>2
        <4>4. Destroying(p, s)
          BY <1>1, <1>2, <1>4, <4>1, <4>3 DEF Destroying
        <4>5. Going(p, s)
          BY <1>1, <4>1, <4>4 DEF Going
        <4> QED BY <1>1, <4>2, <4>5, QuietGoing, QuietWhole
      <3> QED BY <3>2, <3>3
    <2>5. CASE \E g \in Named(p, "group") :
                 LET kept == {q \in PoliciesOf(g) :
                                ~(q \in Named(p, "policy") /\ q.owner = run[p].tid)} IN
                 IF kept = PoliciesOf(g) \/ run[p].dry
                   THEN Advance(p)
                   ELSE Become(p, [run[p] EXCEPT !.phase = "put", !.got = g, !.ids = kept])
      BY <1>4, <2>4, <2>5
    <2> QED BY <2>3, <2>5 DEF UnbindLook
  <1> QED BY <1>3, <1>4

LEMMA DeleteLookWhole ==
  ASSUME Sane, NEW p \in Operators, NEW k, DeleteLook(p, k)
  PROVE  OwnWhole(p)'
  <1> PICK r \in Runs : r = run[p]
    BY SaneRun
  <1>1. /\ k \in Deleted /\ AtStep(p, "destroy", k, "look") /\ UNCHANGED cluster /\ UNCHANGED faults
        /\ r.at \in 1..12 /\ DestroySteps[r.at] = k /\ r.cmd = "destroy" /\ r.phase = "look"
        /\ ~r.dry => Destroying(p, r)
    BY DestroyRun DEF DeleteLook
  <1>2. r.at \in 3..11
    BY <1>1, DestroyPlaces DEF Deleted
  <1>3. CASE Advance(p) /\ (Named(p, k) = {} \/ r.dry)
    BY <1>1, <1>2, <1>3, DestroyPassedQuiet
  <1>4. ASSUME NEW o \in Named(p, k), ToPut(p, o), ~r.dry
        PROVE  OwnWhole(p)'
    <2> PICK s : s = [r EXCEPT !.phase = "put", !.got = o]
      OBVIOUS
    <2>1. /\ s.cmd = r.cmd /\ s.dry = r.dry /\ s.phase = "put" /\ s.at = r.at /\ s.tid = r.tid
          /\ s.pid = r.pid /\ s.got = o
      BY DEF Runs
    <2>2. Destroying(p, s)
      <3>1. s.at \in 3..11 /\ s.at = r.at
        BY <1>2, <2>1
      <3>2. s.got \in Named(p, DestroySteps[s.at])
        BY <1>1, <1>4, <2>1
      <3>3. Destroying(p, r)
        BY <1>1, <1>4
      <3>4. /\ The(p, "tenant", s.tid) \in objs /\ s.pid = s.tid
            /\ \A i \in 3..(s.at - 1) : Named(p, DestroySteps[i]) = {}
            /\ \A x \in refs : x[2] \notin Named(p, "policy")
        BY <1>2, <2>1, <3>3 DEF Destroying
      <3>5. s.at # 1 /\ s.at # 2 /\ s.at # 12 /\ s.phase = "put"
        BY <2>1, <3>1
      <3> QED BY <3>2, <3>4, <3>5 DEF Destroying
    <2>3. Going(p, s)
      BY <1>1, <2>1, <2>2 DEF Going
    <2>4. Become(p, s)
      BY <1>4 DEF ToPut
    <2> QED BY <1>1, <2>3, <2>4, QuietGoing, QuietWhole
  <1> QED BY <1>3, <1>4 DEF DeleteLook

LEMMA SkipPoolWhole ==
  ASSUME Sane, NEW p \in Operators, SkipPool(p)
  PROVE  OwnWhole(p)'
  <1>1. p \notin HasPool /\ Advance(p) /\ UNCHANGED cluster /\ UNCHANGED faults
    BY DEF SkipPool
  <1>2. CASE AtStep(p, "create", "vippool", "look")
    BY <1>1, <1>2, SkipPoolCreate
  <1>3. CASE AtStep(p, "destroy", "vippool", "look")
    <2>1. run[p].at \in 1..12 /\ DestroySteps[run[p].at] = "vippool"
      BY <1>3, DestroyRun
    <2>2. run[p].at = 6
      BY <2>1, DestroyPlaces
    <2>3. Named(p, "vippool") = {}
      BY <1>1, SaneRun DEF Tidy, NoPool
    <2> QED BY <1>1, <1>3, <2>1, <2>2, <2>3, DestroyPassedQuiet
  <1> QED BY <1>2, <1>3 DEF SkipPool

\* Where a provider of the tenant's name would be p's or the default one.
LEMMA ProviderNamed ==
  ASSUME Sane, NEW p \in Operators, NamedAlike(p),
         NEW o \in objs, o.kind = "provider", o.name = NameOf[p]["tenant"]
  PROVE  /\ o.owner # 1 => o \in Providers(p)
         /\ o.owner = 1 => Providers(p) = {}
  <1>1. o.name = ProviderName[p]
    BY DEF NamedAlike
  <1>2. CASE o.owner = 1
    <2>1. DefaultProvider \in objs /\ IdsIn(objs, lastId)
      BY ApartIs DEF Sane, Safe, DefaultProviderKept
    <2>2. o = DefaultProvider
      BY <1>2, <2>1, DefaultProviderIs DEF IdsIn, IdKinds
    <2>3. ProviderName[p] = DefaultProviderName
      BY <1>1, <2>2 DEF DefaultProvider, Obj
    <2> QED BY <1>2, <2>3, SaneRun DEF Tidy, OneProvider
  <1> QED BY <1>1, <1>2 DEF Providers

LEMMA ReapLookWhole ==
  ASSUME Sane, NEW p \in Operators, ReapLook(p)
  PROVE  OwnWhole(p)'
  <1> PICK r \in Runs : r = run[p]
    BY SaneRun
  <1>1. /\ AtStep(p, "destroy", "provider", "look") /\ UNCHANGED cluster /\ UNCHANGED faults
        /\ r.at \in 1..12 /\ DestroySteps[r.at] = "provider" /\ r.cmd = "destroy"
        /\ r.phase = "look" /\ LastStep(r.cmd) = 12 /\ AtOwnStep(r)
        /\ ~r.dry => Destroying(p, r)
    BY DestroyRun DEF ReapLook
  <1>2. r.at = 12
    BY <1>1, DestroyPlaces
  <1> DEFINE byName == {o \in objs : o.kind = "provider" /\ o.name = NameOf[p]["tenant"]}
  <1>3. CASE r.dry
    <2>1. Advance(p)
      BY <1>3 DEF ReapLook
    <2> QED BY <1>1, <1>3, <2>1, DryOn
  <1>4. CASE ~r.dry
    <2>1. /\ \A i \in 3..11 : Named(p, DestroySteps[i]) = {}
          /\ r.pid = r.tid
          /\ r.tid # 0 => \A l \in Providers(p) : l.owner = r.pid
      BY <1>1, <1>2, <1>4 DEF Destroying
    <2>2. \A k \in YamlKinds : Named(p, k) = {}
      <3>1. Named(p, "tenant") = {}
        BY <2>1, DestroyPlace
      <3> QED BY <3>1, NoTenantNothing, SaneRun
    <2>3. CASE /\ Advance(p)
               /\ NamedAlike(p) => Providers(p) = {}
      <3> PICK s : s = Stepped(r)
        OBVIOUS
      <3>1. s.cmd = "destroy" /\ s.phase = "idle"
        BY <1>1, <1>2, SteppedIs
      <3>2. Going(p, s)
        BY <2>2, <2>3, <3>1 DEF Going
      <3>3. Become(p, s)
        BY <2>3 DEF Advance
      <3> QED BY <1>1, <3>2, <3>3, QuietGoing, QuietWhole
    <2>4. ASSUME NEW s, Become(p, s),
                 s.cmd = "destroy", s.phase = "put", s.at = r.at, s.tid = r.tid,
                 (s.tid # 0 \/ NamedAlike(p)) => \A l \in Providers(p) : l.owner = s.pid
          PROVE  OwnWhole(p)'
      <3>1. Destroying(p, s)
        BY <1>1, <1>2, <1>4, <2>4 DEF Destroying
      <3>2. Going(p, s)
        BY <2>4, <3>1 DEF Going
      <3> QED BY <1>1, <2>4, <3>2, QuietGoing, QuietWhole
    <2>5. CASE r.pid = 1 /\ Advance(p)
      <3>1. NamedAlike(p) => Providers(p) = {}
        BY <2>1, <2>5 DEF Providers
      <3> QED BY <2>3, <2>5, <3>1
    <2>6. CASE r.pid # 0 /\ Become(p, [r EXCEPT !.phase = "put"])
      <3> PICK s : s = [r EXCEPT !.phase = "put"]
        OBVIOUS
      <3>1. s.cmd = "destroy" /\ s.phase = "put" /\ s.at = r.at /\ s.tid = r.tid /\ s.pid = r.pid
        BY <1>1 DEF Runs
      <3>2. Become(p, s)
        BY <2>6
      <3> QED BY <2>1, <2>4, <2>6, <3>1, <3>2
    <2>7. CASE byName = {} /\ Advance(p)
      <3>1. NamedAlike(p) => Providers(p) = {}
        BY <2>7 DEF Providers, NamedAlike
      <3> QED BY <2>3, <2>7, <3>1
    <2>8. ASSUME NEW o \in byName, o.owner = 1, Advance(p)
          PROVE  OwnWhole(p)'
      BY <2>3, <2>8, ProviderNamed
    <2>9. ASSUME r.pid = 0, NEW o \in byName, o.owner # 1,
                 NEW s, s = [r EXCEPT !.phase = "put", !.pid = o.owner], Become(p, s)
          PROVE  OwnWhole(p)'
      <3>1. s.cmd = "destroy" /\ s.phase = "put" /\ s.at = r.at /\ s.tid = r.tid /\ s.pid = o.owner
        BY <1>1, <2>9 DEF Runs
      <3>2. NamedAlike(p) => \A l \in Providers(p) : l.owner = s.pid
        <4>1. NamedAlike(p) => o \in Providers(p)
          BY <2>9, ProviderNamed
        <4> QED BY <3>1, <4>1, SaneRun DEF Tidy, OneProvider
      <3> QED BY <2>1, <2>4, <2>9, <3>1, <3>2
    <2>10. \/ r.pid = 1 /\ Advance(p)
           \/ r.pid # 0 /\ Become(p, [r EXCEPT !.phase = "put"])
           \/ byName = {} /\ Advance(p)
           \/ r.pid = 0 /\ \E o \in byName : \/ o.owner = 1 /\ Advance(p)
                                             \/ o.owner # 1 /\ Become(p, [r EXCEPT !.phase = "put", !.pid = o.owner])
      BY <1>4 DEF ReapLook
    <2> HIDE DEF byName
    <2> QED BY <2>5, <2>6, <2>7, <2>8, <2>9, <2>10
  <1> QED BY <1>3, <1>4

-----------------------------------------------------------------------------
(* Steps of create that write                                              *)

\* A command that is about to write is not a --plan.
LEMMA PutNotDry ==
  ASSUME Sane, NEW p \in Operators, run[p].phase \in {"put", "perms"}
  PROVE  ~run[p].dry
  BY SaneRun DEF Sound

LEMMA TenantPostWhole ==
  ASSUME Sane, NEW p \in Operators, TenantPost(p)
  PROVE  OwnWhole(p)'
  <1> PICK r \in Runs : r = run[p]
    BY SaneRun
  <1> PICK id : id = lastId + 1
    OBVIOUS
  <1> DEFINE t == The(p, "tenant", id)
             l == Obj("provider", ProviderName[p], id)
  <1>1. /\ AtStep(p, "create", "tenant", "put") /\ r.phase = "put" /\ r.cmd = "create"
        /\ r.at \in 1..11 /\ CreateSteps[r.at] = "tenant" /\ ~r.dry
    BY CreateRun, PutNotDry DEF TenantPost
  <1>2. r.at = 1
    BY <1>1, CreatePlaces
  <1>3. CASE Fail(p, "exists")
    BY <1>3, FailWhole
  <1>4. CASE /\ ~\E o \in objs : \/ o.kind = "tenant" /\ o.name = NameOf[p]["tenant"]
                                 \/ o.kind = "provider" /\ o.name = ProviderName[p]
             /\ objs' = objs \union {t, l}
             /\ Become(p, AfterEnsure(r, "tenant", t))
             /\ UNCHANGED <<refs, perms, assigned>>
    <2> PICK s : s = AfterEnsure(r, "tenant", t)
      OBVIOUS
    <2>1. id \in Nat \ {0, 1} /\ t # None
      BY SaneRun, TheTyped DEF TypeOK, ClusterTyped, YamlKinds
    <2>2. \A k \in YamlKinds : Named(p, k) = {}
      <3>1. Named(p, "tenant") = {}
        BY <1>4 DEF Named
      <3> QED BY <3>1, NoTenantNothing, SaneRun
    <2>3. /\ t.kind = "tenant" /\ t.name = NameOf[p]["tenant"] /\ t.owner = id
          /\ l.kind = "provider" /\ l.name = ProviderName[p] /\ l.owner = id /\ Mine(p, t)
      BY DEF The, Obj, Mine, YamlKinds
    <2> HIDE DEF t, l
    <2>4. \A k \in YamlKinds : Named(p, k)' = {o \in {t} : k = "tenant"}
      <3> SUFFICES ASSUME NEW k \in YamlKinds PROVE Named(p, k)' = {o \in {t} : k = "tenant"}
        OBVIOUS
      <3>1. \A o \in objs' : (o.kind = k /\ o.name = NameOf[p][k]) <=> (k = "tenant" /\ o = t)
        BY <1>4, <2>2, <2>3, StepKinds DEF Named
      <3> QED BY <1>4, <3>1 DEF Named
    <2>5. Providers(p)' = {l}
      BY <1>4, <2>1, <2>3 DEF Providers
    <2>6. ProviderName[p] # DefaultProviderName
      <3>1. DefaultProvider \in objs
        BY DEF Sane, Safe, DefaultProviderKept
      <3> QED BY <1>4, <3>1 DEF DefaultProvider, Obj
    <2>7. Tidy(p)'
      <3>1. OneEach(p)' /\ AtHome(p)'
        BY <2>4 DEF OneEach, AtHome, YamlKinds
      <3>2. OneProvider(p)'
        BY <2>3, <2>4, <2>5, <2>6 DEF OneProvider, YamlKinds
      <3>3. NoPool(p)'
        BY <2>4 DEF NoPool, YamlKinds
      <3> QED BY <3>1, <3>2, <3>3 DEF Tidy
    <2>8. RefsLive' /\ AllKnown'
      BY <1>4, <2>3, SaneRun DEF RefsLive, AllKnown, Mine
    <2>9. /\ s.cmd = r.cmd /\ s.dry = r.dry /\ s.phase = "record" /\ s.at = r.at /\ s.got = None
          /\ s.tid = id
      BY <2>1, <2>3, AfterTenantIs
    <2>10. Creating(p, s)'
      BY <1>2, <1>4, <2>9 DEF Creating, t
    <2>11. Going(p, s)'
      BY <1>1, <2>9, <2>10 DEF Going
    <2>12. run'[p] = s
      BY <1>4, Becomes, SaneRun
    <2> QED BY <2>7, <2>8, <2>11, <2>12 DEF OwnWhole
  <1> QED BY <1>3, <1>4 DEF TenantPost, The

\* One more object of p, of a kind p had none of, with its references.
LEMMA AddTidy ==
  ASSUME Sane, NEW p \in Operators, NEW k \in YamlKinds \ {"tenant"}, NEW id,
         The(p, "tenant", id) \in objs, Named(p, k) = {},
         k = "vippool" => p \in HasPool,
         objs' = objs \union {The(p, k, id)},
         NEW T, refs' = refs \union ({The(p, k, id)} \X T), T \subseteq objs,
         \A x \in T : <<k, x.kind>> \in RefKinds
  PROVE  Tidy(p)' /\ RefsLive' /\ AllKnown'
  <1> DEFINE o == The(p, k, id)
             t == The(p, "tenant", id)
  <1>1. o.kind = k /\ o.name = NameOf[p][k] /\ o.owner = id /\ Mine(p, o)
    BY TheIs, TheNamed
  <1>2. t \in Named(p, "tenant") /\ t.owner = id /\ "tenant" \in YamlKinds
    BY TheIs, TheNamed DEF YamlKinds
  <1> HIDE DEF o, t
  <1>3. objs' = objs \union {o} /\ refs' = refs \union ({o} \X T)
    BY DEF o
  <1>4. Named(p, k)' = {o} /\ (\A j \in YamlKinds \ {k} : Named(p, j)' = Named(p, j))
    BY <1>1, <1>3 DEF Named
  <1>5. Providers(p)' = Providers(p)
    BY <1>1, <1>3, StepKinds DEF Providers
  <1>6. Tidy(p)
    BY SaneRun
  <1>7. Named(p, "tenant")' = Named(p, "tenant")
    BY <1>2, <1>4
  <1>8. OneEach(p)'
    BY <1>4, <1>6 DEF Tidy, OneEach
  <1>9. AtHome(p)'
    <2>1. ASSUME NEW j \in YamlKinds, NEW a \in Named(p, j)'
          PROVE  \E u \in Named(p, "tenant") : a.owner = u.owner \/ j \in OwnerPatched \intersect EditedKinds
      BY <1>1, <1>2, <1>4, <1>6, <2>1 DEF Tidy, AtHome
    <2> QED BY <1>7, <2>1 DEF AtHome
  <1>10. OneProvider(p)' /\ NoPool(p)'
    BY <1>4, <1>5, <1>6, <1>7 DEF Tidy, OneProvider, NoPool, YamlKinds
  <1>11. RefsLive'
    <2>1. ASSUME NEW e \in refs'
          PROVE  e[1] \in objs' /\ e[2] \in objs' /\ <<e[1].kind, e[2].kind>> \in RefKinds
      BY <1>1, <1>3, SaneRun DEF RefsLive
    <2> QED BY <2>1 DEF RefsLive
  <1>12. AllKnown'
    BY <1>1, <1>3, SaneRun DEF AllKnown, Mine
  <1> QED BY <1>8, <1>9, <1>10, <1>11, <1>12 DEF Tidy

\* What a step of create has left is not undone by one that only adds.
LEMMA MadeGrows ==
  ASSUME NEW p, NEW k, NEW id, objs \subseteq objs', refs \subseteq refs',
         perms \subseteq perms', UNCHANGED assigned, FewerFaults, Made(p, k, id)
  PROVE  Made(p, k, id)'
  BY DEF Made, Wanted, FewerFaults

\* The group and the role that a new user and a new manager refer to.
LEMMA TargetsAre ==
  ASSUME Sane, NEW p \in Operators, NEW k \in Ensured \ {"tenant"}, NEW ph, ph # "idle",
         AtStep(p, "create", k, ph), ~run[p].dry
  PROVE  /\ \A x \in Targets(p, k) : <<k, x.kind>> \in RefKinds
         /\ k = "user" => Targets(p, k) = {The(p, "group", run[p].tid)}
         /\ k = "manager" => Targets(p, k) = {The(p, "role", run[p].tid)}
         /\ k \notin RefsPatched => Targets(p, k) = {}
  <1>1. /\ run[p].at \in 1..11 /\ CreateSteps[run[p].at] = k /\ Creating(p, run[p])
        /\ run[p].at > 1 => The(p, "tenant", run[p].tid) \in objs
    BY CreateRun
  <1>2. CASE k = "user"
    <2>1. run[p].at = 3
      BY <1>1, <1>2, CreatePlaces
    <2>2. Made(p, "group", run[p].tid)
      BY <1>1, <2>1, CreatePlace DEF Creating
    <2>3. The(p, "group", run[p].tid) \in Named(p, "group")
      BY <2>2, TheNamed DEF Made, Wanted, Ensured, YamlKinds
    <2>4. Named(p, "group") = {The(p, "group", run[p].tid)}
      BY <1>1, <2>1, <2>3, Home, SaneRun DEF YamlKinds
    <2> QED BY <1>2, <2>4, TheIs DEF Targets, RefsPatched, RefKinds
  <1>3. CASE k = "manager"
    <2>1. run[p].ref = The(p, "role", run[p].tid)
      BY <1>1, <1>3, CreatePlaces DEF Creating
    <2> QED BY <1>3, <2>1, TheIs DEF Targets, RefsPatched, RefKinds
  <1>4. CASE k \notin {"user", "manager"}
    BY <1>4 DEF Targets, RefsPatched
  <1> QED BY <1>2, <1>3, <1>4

LEMMA EnsurePostWhole ==
  ASSUME Sane, NEW p \in Operators, NEW k, EnsurePost(p, k)
  PROVE  OwnWhole(p)'
  <1> PICK r \in Runs : r = run[p]
    BY SaneRun
  <1>1. /\ k \in Ensured \ {"tenant"} /\ AtStep(p, "create", k, "put") /\ UNCHANGED faults
        /\ r.cmd = "create" /\ r.phase = "put" /\ r.at \in 1..11 /\ CreateSteps[r.at] = k
        /\ ~r.dry /\ Creating(p, r) /\ r.got = None /\ r.tid \in Nat
        /\ r.at > 1 => The(p, "tenant", r.tid) \in objs /\ r.pid = r.tid
    BY CreateRun, PutNotDry DEF EnsurePost
  <1>2. r.at > 1 /\ k \in YamlKinds
    BY <1>1, CreatePlaces DEF Ensured, YamlKinds
  <1>3. Named(p, k) = {} /\ (k = "vippool" => p \in HasPool)
    BY <1>1 DEF Creating, Needed
  <1> PICK o : o = The(p, k, r.tid)
    OBVIOUS
  <1>4. CASE Fail(p, "exists") \/ Fail(p, "gone")
    BY <1>4, FailWhole
  <1>5. CASE /\ Targets(p, k) \subseteq objs
             /\ objs' = objs \union {o}
             /\ refs' = refs \union ({o} \X Targets(p, k))
             /\ Become(p, AfterEnsure(r, k, o))
             /\ UNCHANGED <<perms, assigned, lastId>>
    <2> PICK s : s = AfterEnsure(r, k, o)
      OBVIOUS
    <2> PICK T : T = Targets(p, k)
      OBVIOUS
    <2>1. /\ \A x \in T : <<k, x.kind>> \in RefKinds
          /\ k = "user" => T = {The(p, "group", r.tid)}
          /\ k = "manager" => T = {The(p, "role", r.tid)}
      BY <1>1, TargetsAre
    <2>2. k # "view" /\ k \in YamlKinds \ {"tenant"}
      BY <1>1, <1>2 DEF Ensured
    <2>3. Tidy(p)' /\ RefsLive' /\ AllKnown'
      BY <1>1, <1>2, <1>3, <1>5, <2>1, <2>2, AddTidy
    <2>4. \A i \in 1..(r.at - 1) : Made(p, CreateSteps[i], r.tid) => Made(p, CreateSteps[i], r.tid)'
      BY <1>1, <1>5, MadeGrows DEF FewerFaults
    <2>5. k # "role" => Made(p, k, r.tid)'
      BY <1>1, <1>5, <2>1 DEF Made, Ensured
    <2>6. Going(p, s)'
      BY <1>1, <1>5, <2>4, <2>5, EnsuredOn
    <2>7. run'[p] = s
      BY <1>5, Becomes, SaneRun
    <2> QED BY <2>3, <2>6, <2>7 DEF OwnWhole
  <1> QED BY <1>1, <1>2, <1>4, <1>5 DEF EnsurePost, The

\* The PATCH of the owner of an object, which takes its references along.
LEMMA MoveTidy ==
  ASSUME Sane, NEW p \in Operators, NEW k \in OwnerPatched, NEW o \in Named(p, k), NEW id,
         k \in EditedKinds \/ The(p, "tenant", id) \in objs,
         NEW n, n = The(p, k, id),
         objs' = (objs \ {o}) \union {n},
         refs' = {<<IF x[1] = o THEN n ELSE x[1], IF x[2] = o THEN n ELSE x[2]>> : x \in refs}
  PROVE  /\ Tidy(p)' /\ RefsLive' /\ AllKnown'
         /\ \A e \in refs : (e[1] # o /\ e[2] # o) => e \in refs'
  <1>1. /\ n.kind = k /\ n.name = NameOf[p][k] /\ n.owner = id /\ Mine(p, n)
        /\ k \in YamlKinds /\ k \notin {"tenant", "view"}
    BY TheIs, TheNamed DEF OwnerPatched, YamlKinds
  <1>2. o.kind = k /\ o \in objs /\ o.name = NameOf[p][k] /\ Tidy(p)
    BY SaneRun DEF Named
  <1>3. \A x \in Named(p, k) : x = o
    BY <1>1, <1>2 DEF Tidy, OneEach
  <1>4. Named(p, k)' = {n} /\ (\A j \in YamlKinds \ {k} : Named(p, j)' = Named(p, j))
    BY <1>1, <1>2, <1>3 DEF Named
  <1>5. Providers(p)' = Providers(p)
    BY <1>1, <1>2, StepKinds DEF Providers
  <1>6. Named(p, "tenant")' = Named(p, "tenant")
    BY <1>1, <1>4 DEF YamlKinds
  <1>7. OneEach(p)'
    BY <1>2, <1>4 DEF Tidy, OneEach
  <1>8. AtHome(p)'
    <2>1. ASSUME NEW j \in YamlKinds, NEW a \in Named(p, j)'
          PROVE  \E u \in Named(p, "tenant") : a.owner = u.owner \/ j \in OwnerPatched \intersect EditedKinds
      <3>1. CASE j = k
        <4>1. a = n
          BY <1>4, <2>1, <3>1
        <4>2. CASE k \in EditedKinds
          BY <1>1, <1>2, <3>1, <4>2 DEF Tidy, AtHome
        <4>3. CASE The(p, "tenant", id) \in objs
          <5>1. The(p, "tenant", id) \in Named(p, "tenant") /\ The(p, "tenant", id).owner = id
            BY <4>3, TheIs, TheNamed DEF YamlKinds
          <5> QED BY <1>1, <4>1, <5>1
        <4> QED BY <4>2, <4>3
      <3>2. CASE j # k
        BY <1>2, <1>4, <2>1, <3>2 DEF Tidy, AtHome
      <3> QED BY <3>1, <3>2
    <2> QED BY <1>6, <2>1 DEF AtHome
  <1>9. OneProvider(p)' /\ NoPool(p)'
    <2>1. Named(p, "vippool") = {} => Named(p, "vippool")' = {}
      BY <1>4 DEF YamlKinds
    <2> QED BY <1>2, <1>5, <1>6, <2>1 DEF Tidy, OneProvider, NoPool
  <1>10. RefsLive'
    <2>1. ASSUME NEW e \in refs'
          PROVE  e[1] \in objs' /\ e[2] \in objs' /\ <<e[1].kind, e[2].kind>> \in RefKinds
      <3>1. PICK x \in refs : e = <<IF x[1] = o THEN n ELSE x[1], IF x[2] = o THEN n ELSE x[2]>>
        BY <2>1
      <3>2. x[1] \in objs /\ x[2] \in objs /\ <<x[1].kind, x[2].kind>> \in RefKinds
        BY SaneRun DEF RefsLive
      <3>3. e[1].kind = x[1].kind /\ e[2].kind = x[2].kind /\ e[1] \in objs' /\ e[2] \in objs'
        BY <1>1, <1>2, <3>1, <3>2
      <3> QED BY <3>2, <3>3
    <2> QED BY <2>1 DEF RefsLive
  <1>11. AllKnown'
    BY <1>1, SaneRun DEF AllKnown, Mine
  <1>12. \A e \in refs : (e[1] # o /\ e[2] # o) => e \in refs'
    BY RefKind
  <1> QED BY <1>7, <1>8, <1>9, <1>10, <1>11, <1>12 DEF Tidy

\* A step that changes no object.
LEMMA ObjsStayTidy ==
  ASSUME Sane, NEW p \in Operators, UNCHANGED objs
  PROVE  Tidy(p)' /\ AllKnown'
  <1>1. Providers(p)' = Providers(p) /\ \A k : Named(p, k)' = Named(p, k)
    BY DEF Named, Providers
  <1>2. Tidy(p)'
    BY <1>1, SaneRun DEF Tidy, OneEach, AtHome, OneProvider, NoPool
  <1>3. AllKnown'
    BY SaneRun DEF AllKnown, Mine
  <1> QED BY <1>2, <1>3

\* A move of a pool or of a view policy undoes no earlier step of create.
LEMMA MadeMoves ==
  ASSUME NEW p, NEW k \in OwnerPatched, NEW o, o.kind = k, NEW n,
         objs' = (objs \ {o}) \union {n},
         \A e \in refs : (e[1] # o /\ e[2] # o) => e \in refs',
         UNCHANGED <<perms, assigned>>, FewerFaults,
         NEW j, j # k, NEW id, Made(p, j, id)
  PROVE  Made(p, j, id)'
  <1>1. /\ The(p, "user", id) # o /\ The(p, "group", id) # o /\ The(p, "manager", id) # o
        /\ The(p, "role", id) # o /\ The(p, "policy", id) # o /\ The(p, j, id) # o
    BY TheIs DEF OwnerPatched
  <1>2. The(p, j, id) \in objs => The(p, j, id) \in objs'
    BY <1>1
  <1>3. \A a, b : (<<a, b>> \in refs /\ a # o /\ b # o) => <<a, b>> \in refs'
    OBVIOUS
  <1> QED BY <1>1, <1>2, <1>3 DEF Made, Wanted, FewerFaults

LEMMA EnsurePatchWhole ==
  ASSUME Sane, NEW p \in Operators, NEW k, EnsurePatch(p, k)
  PROVE  OwnWhole(p)'
  <1> PICK r \in Runs : r = run[p]
    BY SaneRun
  <1> PICK o : o = r.got
    OBVIOUS
  <1> PICK n : n = IF k \in OwnerPatched THEN The(p, k, r.tid) ELSE o
    OBVIOUS
  <1> PICK T : T = Targets(p, k)
    OBVIOUS
  <1>1. /\ k \in Ensured \ {"tenant"} /\ AtStep(p, "create", k, "put") /\ UNCHANGED faults
        /\ r.cmd = "create" /\ r.phase = "put" /\ r.at \in 1..11 /\ CreateSteps[r.at] = k
        /\ ~r.dry /\ Creating(p, r) /\ o # None /\ r.tid \in Nat
        /\ r.at > 1 => The(p, "tenant", r.tid) \in objs /\ r.pid = r.tid
    BY CreateRun, PutNotDry DEF EnsurePatch
  <1>2. r.at > 1 /\ k \in YamlKinds
    BY <1>1, CreatePlaces DEF Ensured, YamlKinds
  <1>3. o \in Named(p, k) /\ k \in OwnerPatched \union RefsPatched
    BY <1>1 DEF Creating, Needed
  <1>4. /\ \A x \in T : <<k, x.kind>> \in RefKinds
        /\ k = "user" => T = {The(p, "group", r.tid)}
        /\ k = "manager" => T = {The(p, "role", r.tid)}
        /\ k \notin RefsPatched => T = {}
    BY <1>1, TargetsAre
  <1>5. CASE Fail(p, "gone")
    BY <1>5, FailWhole
  <1>6. CASE /\ o \in objs /\ T \subseteq objs
             /\ objs' = (objs \ {o}) \union {n}
             /\ refs' = {<<IF x[1] = o THEN n ELSE x[1], IF x[2] = o THEN n ELSE x[2]>> :
                           x \in {e \in refs : ~(k \in RefsPatched /\ e[1] = o)}}
                          \union ({n} \X T)
             /\ Become(p, AfterEnsure(r, k, n))
             /\ UNCHANGED <<perms, assigned, lastId>>
    <2> PICK s : s = AfterEnsure(r, k, n)
      OBVIOUS
    <2>1. run'[p] = s
      BY <1>6, Becomes, SaneRun
    <2>2. CASE k \in OwnerPatched
      <3>1. n = The(p, k, r.tid) /\ k \notin RefsPatched /\ T = {}
        BY <1>4, <2>2 DEF OwnerPatched, RefsPatched
      <3>2. refs' = {<<IF x[1] = o THEN n ELSE x[1], IF x[2] = o THEN n ELSE x[2]>> : x \in refs}
        BY <1>6, <3>1
      <3>3. /\ Tidy(p)' /\ RefsLive' /\ AllKnown'
            /\ \A e \in refs : (e[1] # o /\ e[2] # o) => e \in refs'
        BY <1>1, <1>2, <1>3, <1>6, <2>2, <3>1, <3>2, MoveTidy
      <3>4. \A i \in 1..(r.at - 1) : Made(p, CreateSteps[i], r.tid) => Made(p, CreateSteps[i], r.tid)'
        <4> SUFFICES ASSUME NEW i \in 1..(r.at - 1), Made(p, CreateSteps[i], r.tid)
                     PROVE  Made(p, CreateSteps[i], r.tid)'
          OBVIOUS
        <4>1. CreateSteps[i] # k
          BY <1>1, CreatePlaces
        <4>2. o.kind = k
          BY <1>3 DEF Named
        <4> QED BY <1>1, <1>6, <2>2, <3>3, <4>1, <4>2, MadeMoves DEF FewerFaults
      <3>5. Made(p, k, r.tid)'
        BY <1>6, <2>2, <3>1 DEF Made, OwnerPatched
      <3>6. k # "role" /\ UNCHANGED assigned
        BY <1>6, <2>2 DEF OwnerPatched
      <3>7. Going(p, s)'
        BY <1>1, <3>1, <3>4, <3>5, <3>6, EnsuredOn
      <3> QED BY <2>1, <3>3, <3>7 DEF OwnWhole
    <2>3. CASE k \in RefsPatched
      <3>1. n = o /\ k \notin OwnerPatched /\ o = The(p, k, r.tid)
        BY <1>1, <1>2, <1>3, <2>3, Home, SaneRun DEF OwnerPatched, RefsPatched
      <3>2. UNCHANGED objs
        BY <1>6, <3>1
      <3>3. \A e \in refs : e[1] # o => e \in refs'
        <4>1. \A x \in refs : x = <<x[1], x[2]>>
          BY RefKind
        <4> QED BY <1>6, <3>1, <4>1
      <3>4. \A e \in refs' : e \in refs \/ (\E x \in T : e = <<o, x>>)
        <4>1. \A x \in refs : x = <<x[1], x[2]>>
          BY RefKind
        <4> QED BY <1>6, <3>1, <4>1
      <3>5. \A x \in T : <<o, x>> \in refs'
        BY <1>6, <3>1
      <3>6. o.kind = k /\ k # "view"
        BY <1>3, <2>3 DEF Named, RefsPatched
      <3>7. Tidy(p)' /\ AllKnown'
        BY <3>2, <3>3, <3>6, ObjsStayTidy
      <3>8. RefsLive'
        <4>1. ASSUME NEW e \in refs'
              PROVE  e[1] \in objs' /\ e[2] \in objs' /\ <<e[1].kind, e[2].kind>> \in RefKinds
          <5>1. CASE e \in refs
            BY <3>2, <5>1, SaneRun DEF RefsLive
          <5>2. CASE \E x \in T : e = <<o, x>>
            BY <1>4, <1>6, <3>2, <3>6, <5>2
          <5> QED BY <3>4, <4>1, <5>1, <5>2
        <4> QED BY <4>1 DEF RefsLive
      <3>9. \A i \in 1..(r.at - 1) : Made(p, CreateSteps[i], r.tid) => Made(p, CreateSteps[i], r.tid)'
        <4> SUFFICES ASSUME NEW i \in 1..(r.at - 1), Made(p, CreateSteps[i], r.tid)
                     PROVE  Made(p, CreateSteps[i], r.tid)'
          OBVIOUS
        <4>1. CreateSteps[i] # k /\ CreateSteps[i] # "bind"
          BY <1>1, CreatePlaces
        <4>2. \A a, b : (<<a, b>> \in refs /\ a.kind # k) => <<a, b>> \in refs'
          BY <3>3, <3>6
        <4> QED BY <1>1, <1>6, <3>2, <4>1, <4>2, TheIs DEF Made, Wanted
      <3>10. k # "role" => Made(p, k, r.tid)'
        BY <1>3, <1>4, <1>6, <2>3, <3>1, <3>5 DEF Made, RefsPatched
      <3>11. k # "role" /\ UNCHANGED assigned
        BY <1>6, <2>3 DEF RefsPatched
      <3>12. Going(p, s)'
        BY <1>1, <3>1, <3>9, <3>10, <3>11, EnsuredOn
      <3> QED BY <2>1, <3>7, <3>8, <3>12 DEF OwnWhole
    <2> QED BY <1>3, <2>2, <2>3
  <1> QED BY <1>5, <1>6 DEF EnsurePatch, The

LEMMA ApplyPermissionsWhole ==
  ASSUME Sane, NEW p \in Operators, ApplyPermissions(p)
  PROVE  OwnWhole(p)' /\ FewerFaults
  <1> PICK r \in Runs : r = run[p]
    BY SaneRun
  <1> PICK s : s = Stepped(r)
    OBVIOUS
  <1>1. /\ AtStep(p, "create", "role", "perms") /\ r.phase = "perms" /\ r.at \in 1..11
        /\ CreateSteps[r.at] = "role" /\ ~r.dry /\ Creating(p, r) /\ r.tid \in Nat
    BY CreateRun, PutNotDry DEF ApplyPermissions
  <1>2. r.at = 4
    BY <1>1, CreatePlaces
  <1>3. r.ref = The(p, "role", r.tid) /\ r.ref \in objs
    BY <1>1 DEF Creating
  <1>4. /\ UNCHANGED <<objs, refs, assigned>> /\ Become(p, s) /\ perms \subseteq perms'
        /\ r.ref \in perms' \/ faults' = faults + 1
    BY <1>3 DEF ApplyPermissions, Advance
  <1>5. FewerFaults
    BY SaneRun DEF ApplyPermissions, FewerFaults, TypeOK, ScopeTyped
  <1>6. faults \in Nat
    BY SaneRun, ConstantsOK DEF TypeOK, ScopeTyped
  <1>7. \A i \in 1..(r.at - 1) : Made(p, CreateSteps[i], r.tid) => Made(p, CreateSteps[i], r.tid)'
    BY <1>4, <1>5, MadeGrows
  <1>8. Made(p, "role", r.tid)'
    BY <1>3, <1>4, <1>6 DEF Made
  <1>9. Going(p, s)'
    BY <1>1, <1>2, <1>4, <1>7, <1>8, CreatePassed
  <1>10. Tidy(p)' /\ AllKnown' /\ RefsLive'
    BY <1>4, ObjsStayTidy, SaneRun DEF RefsLive
  <1>11. run'[p] = s
    BY <1>4, Becomes, SaneRun
  <1> QED BY <1>5, <1>9, <1>10, <1>11 DEF OwnWhole

LEMMA AssignGroupWhole ==
  ASSUME Sane, NEW p \in Operators, AssignGroup(p)
  PROVE  OwnWhole(p)'
  <1> PICK r \in Runs : r = run[p]
    BY SaneRun
  <1> PICK s : s = Stepped(r)
    OBVIOUS
  <1>1. /\ AtStep(p, "create", "assign", "put") /\ r.phase = "put" /\ r.at \in 1..11
        /\ CreateSteps[r.at] = "assign" /\ ~r.dry /\ UNCHANGED faults
    BY CreateRun, PutNotDry DEF AssignGroup
  <1>2. r.at = 9
    BY <1>1, CreatePlaces
  <1>3. CASE Fail(p, "gone")
    BY <1>3, FailWhole
  <1>4. CASE /\ assigned' = {a \in assigned : a[1] # r.tid} \union {<<r.tid, NameOf[p]["group"]>>}
             /\ Become(p, s)
             /\ UNCHANGED <<objs, refs, perms, lastId>>
    <2>1. \A i \in 1..(r.at - 1) : CreateSteps[i] # "assign"
      BY <1>2, CreatePlaces
    <2>2. \A i \in 1..(r.at - 1) : Made(p, CreateSteps[i], r.tid) => Made(p, CreateSteps[i], r.tid)'
      BY <1>1, <1>4, <2>1 DEF Made, Wanted
    <2>3. Made(p, "assign", r.tid)'
      BY <1>4 DEF Made, Wanted, Ensured
    <2>4. Going(p, s)'
      BY <1>1, <1>2, <2>2, <2>3, CreatePassed
    <2>5. Tidy(p)' /\ AllKnown' /\ RefsLive'
      BY <1>4, ObjsStayTidy, SaneRun DEF RefsLive
    <2>6. run'[p] = s
      BY <1>4, Becomes, SaneRun
    <2> QED BY <2>4, <2>5, <2>6 DEF OwnWhole
  <1> QED BY <1>3, <1>4 DEF AssignGroup, Advance

\* The list of a group's policies, written back as a whole.
LEMMA WritePoliciesRefs ==
  ASSUME Sane, NEW p \in Operators, NEW g, g.kind = "group", NEW ids, g \in objs, ids \subseteq objs,
         \A x \in ids : x.kind = "policy", UNCHANGED objs,
         \A e \in refs' : e \in refs \/ e \in {g} \X ids,
         \A e \in refs : e[1] # g => e \in refs'
  PROVE  Tidy(p)' /\ AllKnown' /\ RefsLive'
  <1>1. Tidy(p)' /\ AllKnown'
    BY ObjsStayTidy
  <1>2. ASSUME NEW e \in refs'
        PROVE  e[1] \in objs' /\ e[2] \in objs' /\ <<e[1].kind, e[2].kind>> \in RefKinds
    <2>1. CASE e \in refs
      BY <2>1, SaneRun DEF RefsLive
    <2>2. CASE e \in {g} \X ids
      BY <2>2 DEF RefKinds
    <2> QED BY <1>2, <2>1, <2>2
  <1> QED BY <1>1, <1>2 DEF RefsLive

LEMMA WritePoliciesCreate ==
  ASSUME Sane, NEW p \in Operators, WritePolicies(p), AtStep(p, "create", "bind", "put")
  PROVE  OwnWhole(p)'
  <1> PICK r \in Runs : r = run[p]
    BY SaneRun
  <1> PICK s : s = Stepped(r)
    OBVIOUS
  <1>1. /\ r.phase = "put" /\ r.at \in 1..11
        /\ CreateSteps[r.at] = "bind" /\ ~r.dry /\ UNCHANGED faults /\ Creating(p, r)
    BY CreateRun, PutNotDry DEF WritePolicies
  <1>2. r.at = 11
    BY <1>1, CreatePlaces
  <1> PICK g : g = r.got
    OBVIOUS
  <1>3. /\ g = The(p, "group", r.tid) /\ g.kind = "group" /\ r.ref \in r.ids
        /\ r.ref = The(p, "policy", r.tid) /\ \A x \in r.ids : x.kind = "policy"
    BY <1>1, <1>2, TheIs DEF Creating, Needed
  <1>4. CASE Fail(p, "gone")
    BY <1>4, FailWhole
  <1>5. CASE /\ g \in objs /\ r.ids \subseteq objs
             /\ refs' = {e \in refs : e[1] # g} \union ({g} \X r.ids)
             /\ Become(p, s)
             /\ UNCHANGED <<objs, perms, assigned, lastId>>
    <2>1. Tidy(p)' /\ AllKnown' /\ RefsLive'
      <3>1. /\ \A e \in refs' : e \in refs \/ e \in {g} \X r.ids
            /\ \A e \in refs : e[1] # g => e \in refs'
        BY <1>5
      <3> QED BY <1>3, <1>5, <3>1, WritePoliciesRefs
    <2>2. \A i \in 1..(r.at - 1) : CreateSteps[i] # "bind"
      BY <1>2, CreatePlaces
    <2>3. \A a, b : (<<a, b>> \in refs /\ a # g) => <<a, b>> \in refs'
      BY <1>5
    <2>4. The(p, "user", r.tid) # g /\ The(p, "manager", r.tid) # g
      BY <1>3, TheIs
    <2>5. \A i \in 1..(r.at - 1) : Made(p, CreateSteps[i], r.tid) => Made(p, CreateSteps[i], r.tid)'
      BY <1>1, <1>5, <2>2, <2>3, <2>4 DEF Made, Wanted
    <2>6. Made(p, "bind", r.tid)'
      BY <1>3, <1>5 DEF Made, Wanted, Ensured
    <2>7. Going(p, s)'
      BY <1>1, <1>2, <2>5, <2>6, CreatePassed
    <2>8. run'[p] = s
      BY <1>5, Becomes, SaneRun
    <2> QED BY <2>1, <2>7, <2>8 DEF OwnWhole
  <1> QED BY <1>4, <1>5 DEF WritePolicies, Advance

-----------------------------------------------------------------------------
(* Steps of destroy that write                                             *)

LEMMA WritePoliciesDestroy ==
  ASSUME DisjointNames, Sane, NEW p \in Operators, WritePolicies(p),
         AtStep(p, "destroy", "unbind", "put")
  PROVE  OwnWhole(p)'
  <1> PICK r \in Runs : r = run[p]
    BY SaneRun
  <1> PICK s : s = Stepped(r)
    OBVIOUS
  <1> PICK g : g = r.got
    OBVIOUS
  <1> PICK ids : ids = r.ids
    OBVIOUS
  <1>1. /\ r.phase = "put" /\ r.at \in 1..12
        /\ DestroySteps[r.at] = "unbind" /\ ~r.dry /\ Destroying(p, r)
    BY DestroyRun, PutNotDry
  <1>2. r.at = 2
    BY <1>1, DestroyPlaces
  <1>3. g \in Named(p, "group") /\ \A x \in ids : x.kind = "policy" /\ x \notin Named(p, "policy")
    BY <1>1, <1>2 DEF Destroying
  <1>4. g.kind = "group" /\ \A x \in ids : x.kind = "policy"
    BY <1>3 DEF Named
  <1>5. The(p, "tenant", r.tid) \in objs /\ TypeOK /\ Tidy(p) /\ Apart
    BY <1>1, <1>2, SaneRun DEF Destroying
  <1>6. CASE Fail(p, "gone")
    BY <1>6, FailWhole
  <1>7. CASE /\ g \in objs /\ ids \subseteq objs
             /\ refs' = {e \in refs : e[1] # g} \union ({g} \X ids)
             /\ Become(p, s)
             /\ UNCHANGED <<objs, perms, assigned, lastId>>
    <2>1. Tidy(p)' /\ AllKnown' /\ RefsLive'
      <3>1. g.kind = "group" /\ \A x \in ids : x.kind = "policy"
        BY <1>4
      <3>2. g \in objs /\ ids \subseteq objs /\ objs' = objs
        BY <1>7
      <3>3. /\ \A e \in refs' : e \in refs \/ e \in {g} \X ids
            /\ \A e \in refs : e[1] # g => e \in refs'
        BY <1>7
      <3> QED BY <3>1, <3>2, <3>3, WritePoliciesRefs
    <2>2. /\ \A j : Named(p, j)' = Named(p, j)
          /\ Providers(p)' = Providers(p)
      BY <1>7 DEF Named, Providers
    <2>3. ASSUME NEW x \in refs, x[2] \in Named(p, "policy")
          PROVE  x[1] = g
      <3>1. x[2].kind = "policy" /\ Mine(p, x[2])
        BY <2>3, NamedMine DEF YamlKinds
      <3>2. Mine(p, x[1])
        BY <1>5, <3>1, RefsMine
      <3>3. x[1] \in objs /\ x[1].kind = "group"
        BY <3>1, RefKind
      <3>4. x[1] \in Named(p, "group")
        BY <3>2, <3>3, MineNamed
      <3> QED BY <1>3, <1>5, <3>4, Home DEF YamlKinds
    <2>4. \A x \in refs' : x[2] \notin Named(p, "policy")'
      <3> SUFFICES ASSUME NEW x \in refs', x[2] \in Named(p, "policy") PROVE FALSE
        BY <2>2
      <3>1. CASE x \in refs /\ x[1] # g
        BY <2>3, <3>1
      <3>2. CASE x \in {g} \X ids
        BY <1>3, <3>2
      <3> QED BY <1>7, <3>1, <3>2
    <2>5. /\ r.at < 12 /\ r.at # 1 /\ ~(r.at > 2)
          /\ The(p, "tenant", r.tid) \in objs'
          /\ \A j \in YamlKinds : Named(p, j) = {} => Named(p, j)' = {}
          /\ Named(p, "policy")' \subseteq Named(p, "policy")
      BY <1>2, <1>5, <1>7, <2>2
    <2>6. Going(p, s)'
      BY <1>1, <2>2, <2>4, <2>5, DestroyPassed
    <2>7. run'[p] = s
      BY <1>7, Becomes, SaneRun
    <2> QED BY <2>1, <2>6, <2>7 DEF OwnWhole
  <1> QED BY <1>6, <1>7 DEF WritePolicies, Advance

\* A DELETE leaves the rest of p's objects in order; of a tenant when nothing
\* else of p is left.
LEMMA RemoveTidy ==
  ASSUME Sane, NEW p \in Operators, NEW o, Remove(o),
         o.kind = "tenant" => \A k \in YamlKinds \ {"tenant"} : Named(p, k) = {}
  PROVE  /\ Tidy(p)' /\ RefsLive' /\ AllKnown'
         /\ refs' \subseteq refs
         /\ \A k : Named(p, k)' = Named(p, k) \ {o}
         /\ Providers(p)' = Providers(p) \ {o}
  <1>1. /\ objs' = objs \ {o} /\ refs' = {x \in refs : x[1] # o /\ x[2] # o}
    BY DEF Remove
  <1>2. /\ \A k : Named(p, k)' = Named(p, k) \ {o}
        /\ Providers(p)' = Providers(p) \ {o}
    BY <1>1 DEF Named, Providers
  <1>3. Tidy(p) /\ RefsLive /\ AllKnown
    BY SaneRun
  <1>4. OneEach(p)' /\ OneProvider(p)' /\ NoPool(p)'
    BY <1>2, <1>3 DEF Tidy, OneEach, OneProvider, NoPool
  <1>5. AtHome(p)'
    <2> SUFFICES ASSUME NEW k \in YamlKinds, NEW a \in Named(p, k)'
                 PROVE  \E t \in Named(p, "tenant")' :
                          a.owner = t.owner \/ k \in OwnerPatched \intersect EditedKinds
      BY DEF AtHome
    <2>1. a \in Named(p, k)
      BY <1>2
    <2>2. CASE k = "tenant"
      BY <2>2
    <2>3. CASE k # "tenant"
      <3>1. o.kind # "tenant"
        BY <2>1, <2>3
      <3>2. PICK t \in Named(p, "tenant") :
              a.owner = t.owner \/ k \in OwnerPatched \intersect EditedKinds
        BY <1>3, <2>1 DEF Tidy, AtHome
      <3>3. t # o
        BY <3>1, <3>2 DEF Named
      <3> QED BY <1>2, <3>2, <3>3
    <2> QED BY <2>2, <2>3
  <1>6. RefsLive'
    BY <1>1, <1>3 DEF RefsLive
  <1>7. AllKnown'
    BY <1>1, <1>3 DEF AllKnown, Mine
  <1> QED BY <1>1, <1>2, <1>4, <1>5, <1>6, <1>7 DEF Tidy

LEMMA DeletePutWhole ==
  ASSUME Sane, NEW p \in Operators, NEW k, DeletePut(p, k)
  PROVE  OwnWhole(p)'
  <1> PICK r \in Runs : r = run[p]
    BY SaneRun
  <1> PICK s : s = Stepped(r)
    OBVIOUS
  <1> PICK o : o = r.got
    OBVIOUS
  <1>1. /\ k \in Deleted /\ AtStep(p, "destroy", k, "put") /\ r.phase = "put" /\ r.at \in 1..12
        /\ DestroySteps[r.at] = k /\ ~r.dry /\ Destroying(p, r)
    BY DestroyRun, PutNotDry DEF DeletePut
  <1>2. r.at \in 3..11 /\ k \in YamlKinds /\ k # "view" /\ (r.at < 11 => k # "tenant")
    BY <1>1, DestroyPlaces DEF Deleted, YamlKinds
  <1>3. /\ o \in Named(p, k) /\ o.kind = k
        /\ The(p, "tenant", r.tid) \in objs
        /\ \A i \in 3..(r.at - 1) : Named(p, DestroySteps[i]) = {}
    BY <1>1, <1>2 DEF Destroying, Named
  <1>4. TypeOK /\ Tidy(p)
    BY SaneRun
  <1>5. \A x \in Named(p, k) : x = o
    BY <1>2, <1>3, <1>4 DEF Tidy, OneEach
  <1>6. CASE Fail(p, "gone") \/ Fail(p, "in_use")
    BY <1>6, FailWhole
  <1>7. CASE ~InUse(o) /\ Remove(o) /\ Become(p, s)
    <2>1. o.kind = "tenant" => \A j \in YamlKinds \ {"tenant"} : Named(p, j) = {}
      <3> SUFFICES ASSUME o.kind = "tenant", NEW j \in YamlKinds \ {"tenant"},
                          NEW x \in Named(p, j)
                   PROVE  FALSE
        OBVIOUS
      <3>1. r.at = 11
        BY <1>2, <1>3
      <3>2. j = "view"
        BY <1>3, <3>1, DestroyPlace DEF YamlKinds
      <3>3. x.owner = o.owner
        BY <1>3, <1>4, <1>5, <3>2 DEF Tidy, AtHome, OwnerPatched, YamlKinds
      <3>4. x \in objs /\ x.kind = "view"
        BY <3>2 DEF Named
      <3> QED BY <1>7, <3>3, <3>4 DEF InUse
    <2>2. /\ Tidy(p)' /\ RefsLive' /\ AllKnown'
          /\ refs' \subseteq refs
          /\ \A j : Named(p, j)' = Named(p, j) \ {o}
          /\ Providers(p)' = Providers(p) \ {o}
      BY <1>7, <2>1, RemoveTidy
    <2>3. Providers(p)' = Providers(p)
      <3>1. o \notin Providers(p)
        BY <1>2, <1>3, StepKinds DEF Providers
      <3> QED BY <2>2, <3>1
    <2>4. Named(p, DestroySteps[r.at])' = {} /\ refs' \subseteq refs
      BY <1>1, <1>5, <2>2
    <2>5. r.at < 11 => The(p, "tenant", r.tid) \in objs'
      BY <1>2, <1>3, <1>7, TheIs DEF Remove
    <2>6. /\ \A j \in YamlKinds : Named(p, j) = {} => Named(p, j)' = {}
          /\ Named(p, "policy")' \subseteq Named(p, "policy")
      BY <2>2
    <2>7. r.at < 12 /\ r.at # 1 /\ r.at # 2
      BY <1>2
    <2>8. Going(p, s)'
      BY <1>1, <2>3, <2>4, <2>5, <2>6, <2>7, DestroyPassed
    <2>9. run'[p] = s
      BY <1>7, Becomes, SaneRun
    <2> QED BY <2>2, <2>8, <2>9 DEF OwnWhole
  <1> QED BY <1>6, <1>7 DEF DeletePut, Advance

LEMMA ReapWhole ==
  ASSUME Sane, NEW p \in Operators, Reap(p)
  PROVE  OwnWhole(p)' /\ FewerFaults
  <1> PICK r \in Runs : r = run[p]
    BY SaneRun
  <1> PICK s : s = Stepped(r)
    OBVIOUS
  <1>1. /\ AtStep(p, "destroy", "provider", "put") /\ r.phase = "put" /\ r.at \in 1..12
        /\ DestroySteps[r.at] = "provider" /\ ~r.dry /\ Destroying(p, r)
        /\ r.cmd = "destroy" /\ LastStep(r.cmd) = 12 /\ AtOwnStep(r)
    BY DestroyRun, PutNotDry DEF Reap
  <1>2. r.at = 12
    BY <1>1, DestroyPlaces
  <1>3. /\ \A i \in 3..11 : Named(p, DestroySteps[i]) = {}
        /\ (r.tid # 0 \/ NamedAlike(p)) => \A l \in Providers(p) : l.owner = r.pid
    BY <1>1, <1>2 DEF Destroying
  <1>4. \A k \in YamlKinds : Named(p, k) = {}
    <2>1. Named(p, "tenant") = {}
      BY <1>3, DestroyPlace
    <2> QED BY <2>1, NoTenantNothing, SaneRun
  <1>5. FewerFaults
    BY SaneRun DEF Reap, FewerFaults, TypeOK, ScopeTyped
  <1>6. CASE Fail(p, "warned")
    BY <1>5, <1>6, FailWhole
  <1>7. ASSUME NEW o \in objs, o.kind = "provider", o.owner = r.pid, Remove(o), Become(p, s)
        PROVE  OwnWhole(p)'
    <2>1. /\ Tidy(p)' /\ RefsLive' /\ AllKnown'
          /\ \A j : Named(p, j)' = Named(p, j) \ {o}
          /\ Providers(p)' = Providers(p) \ {o}
      BY <1>7, RemoveTidy
    <2>2. s.cmd = "destroy" /\ s.phase = "idle"
      BY <1>1, <1>2, SteppedIs
    <2>3. NamedAlike(p) => Providers(p)' = {}
      <3>1. \A l \in Providers(p) : l \in objs /\ l.kind = "provider"
        BY DEF Providers
      <3>2. \A l \in objs : (l.kind = "provider" /\ l.owner = o.owner) => l = o
        BY <1>7, ApartRun, SaneRun DEF IdsIn, IdKinds
      <3> QED BY <1>3, <1>7, <2>1, <3>1, <3>2
    <2>4. \A k \in YamlKinds : Named(p, k)' = {}
      BY <1>4, <2>1
    <2>5. Going(p, s)'
      BY <2>2, <2>3, <2>4 DEF Going, NamedAlike
    <2>6. run'[p] = s
      BY <1>7, Becomes, SaneRun
    <2> QED BY <2>1, <2>5, <2>6 DEF OwnWhole
  <1> QED BY <1>5, <1>6, <1>7 DEF Reap, Advance

-----------------------------------------------------------------------------
(* What happens outside the two commands                                   *)

LEMMA StartWhole ==
  ASSUME Sane, NEW p \in Operators, NEW dry, Start(p, dry)
  PROVE  OwnWhole(p)'
  <1> PICK s : s = [NoRun EXCEPT !.cmd = goal[p], !.dry = dry, !.phase = "look"]
    OBVIOUS
  <1>1. s.phase = "look" /\ s.at = 1 /\ s.pid = 0 /\ s.tid = 0
    BY DEF NoRun
  <1>2. Creating(p, s) /\ Destroying(p, s)
    BY <1>1 DEF Creating, Destroying
  <1>3. Going(p, s)
    BY <1>1, <1>2 DEF Going
  <1>4. Become(p, s) /\ UNCHANGED cluster /\ UNCHANGED faults
    BY DEF Start
  <1> QED BY <1>3, <1>4, QuietGoing, QuietWhole

LEMMA StillWhole ==
  ASSUME Sane, UNCHANGED cluster, UNCHANGED <<run, faults>>
  PROVE  Whole'
  <1>1. RefsLive' /\ AllKnown'
    BY DEF Sane, Whole, cluster, RefsLive, AllKnown, Mine
  <1>2. ASSUME NEW p \in Operators
        PROVE  Tidy(p)' /\ Going(p, run[p])'
    <2> PICK r \in Runs : r = run[p]
      BY SaneRun
    <2>1. Going(p, r)'
      BY SaneRun, QuietGoing
    <2>2. Tidy(p)'
      BY QuietSame, SameTidy, SaneRun
    <2> QED BY <2>1, <2>2
  <1> QED BY <1>1, <1>2 DEF Whole

LEMMA StopWhole ==
  ASSUME Sane, NEW p \in Operators, Stop(p)
  PROVE  OwnWhole(p)' /\ FewerFaults
  <1>1. OwnWhole(p)'
    BY QuietEnd, EndedIs, SaneRun DEF Stop
  <1>2. FewerFaults
    BY SaneRun DEF Stop, FewerFaults, TypeOK, ScopeTyped
  <1> QED BY <1>1, <1>2

\* No command holds a view or counts on one: views come and go beside it.
LEMMA ViewsAside ==
  ASSUME NEW p \in Operators, NEW r \in Runs, AtOwnStep(r), Going(p, r),
         \A k \in YamlKinds \ {"view"} : Named(p, k)' = Named(p, k),
         \E k \in YamlKinds : Named(p, k) # {},
         Providers(p)' = Providers(p),
         \A x : x.kind # "view" => (x \in objs' <=> x \in objs),
         \A a, b : a.kind # "view" => (<<a, b>> \in refs' <=> <<a, b>> \in refs),
         \A e \in refs' : e \in refs \/ e[2].kind # "policy",
         \A x : x.kind # "view" => (x \in perms' <=> x \in perms),
         UNCHANGED <<assigned, faults>>
  PROVE  Going(p, r)'
  <1>1. \A k \in Ensured : k # "view" /\ k \in YamlKinds \ {"view"} /\ Named(p, k)' = Named(p, k)
    BY StepKinds DEF Ensured, YamlKinds
  <1>2. \A k, id : Made(p, k, id) => Made(p, k, id)'
    <2> SUFFICES ASSUME NEW k, NEW id, Made(p, k, id) PROVE Made(p, k, id)'
      OBVIOUS
    <2>1. k \in Wanted(p) => The(p, k, id) \in objs'
      BY <1>1, TheIs DEF Made, Wanted
    <2>2. \A j \in {"user", "group", "manager", "role"} : The(p, j, id).kind # "view"
      BY TheIs
    <2> QED BY <2>1, <2>2 DEF Made, Wanted
  <1>3. CASE r.phase # "idle" /\ ~r.dry /\ r.cmd = "create"
    <2>1. Creating(p, r)
      BY <1>3 DEF Going
    <2>2. r.phase = "put" => Needed(p, r)'
      <3> SUFFICES ASSUME r.phase = "put" PROVE Needed(p, r)'
        OBVIOUS
      <3> PICK k : k = CreateSteps[r.at]
        OBVIOUS
      <3>1. Needed(p, r)
        BY <2>1 DEF Creating
      <3>2. (k \in Ensured /\ r.got # None) => r.got.kind # "view"
        BY <1>1, <3>1 DEF Needed, Named
      <3>3. k = "bind" => r.got.kind # "view"
        BY <3>1, TheIs DEF Needed
      <3>4. Named(p, "group")' = Named(p, "group")
        BY <1>1 DEF Ensured
      <3>5. (k \in Ensured /\ r.got # None) =>
              \A g : <<r.got, g>> \in refs' <=> <<r.got, g>> \in refs
        BY <3>2
      <3>6. k = "bind" => (<<r.got, r.ref>> \in refs' <=> <<r.got, r.ref>> \in refs)
        BY <3>3
      <3>7. {"user", "manager"} \subseteq Ensured
        BY DEF Ensured
      <3>8. (k \in {"user", "manager"}) => (k \in Ensured)
        BY <3>7
      <3>9. r.got # None \/ r.got = None
        OBVIOUS
      <3> QED BY <1>1, <3>1, <3>4, <3>5, <3>6, <3>8, <3>9 DEF Needed
    <2>3. \A k \in {"tenant", "role"} : The(p, k, r.tid) \in objs => The(p, k, r.tid) \in objs'
      BY TheIs
    <2>4. Creating(p, r)'
      BY <1>2, <2>1, <2>2, <2>3 DEF Creating
    <2> QED BY <1>3, <2>4 DEF Going
  <1>4. CASE r.phase # "idle" /\ ~r.dry /\ r.cmd = "destroy"
    <2>1. Destroying(p, r) /\ r.at \in 1..12
      BY <1>4 DEF Going, Runs
    <2>2. \A i \in 3..11 : Named(p, DestroySteps[i])' = Named(p, DestroySteps[i])
      BY <1>1, DestroyPlaces DEF Ensured
    <2>3. /\ Named(p, "policy")' = Named(p, "policy") /\ Named(p, "group")' = Named(p, "group")
          /\ Named(p, "tenant")' = Named(p, "tenant")
      BY <1>1 DEF Ensured
    <2>4. The(p, "tenant", r.tid) \in objs => The(p, "tenant", r.tid) \in objs'
      BY TheIs
    <2>5. \A i \in 3..(r.at - 1) : Named(p, DestroySteps[i])' = {}
      BY <2>1, <2>2 DEF Destroying
    <2>6. r.at > 2 => \A e \in refs' : e[2] \notin Named(p, "policy")'
      BY <2>1, <2>3 DEF Destroying, Named
    <2>7. (r.phase = "put" /\ r.at \in 3..11) => r.got \in Named(p, DestroySteps[r.at])'
      BY <2>1, <2>2 DEF Destroying
    <2>8. (r.phase = "put" /\ r.at = 2) =>
            /\ r.got \in Named(p, "group")'
            /\ \A x \in r.ids : x \in objs' /\ x.kind = "policy" /\ x \notin Named(p, "policy")'
      BY <2>1, <2>3 DEF Destroying
    <2>9. Destroying(p, r)'
      BY <2>1, <2>4, <2>5, <2>6, <2>7, <2>8 DEF Destroying, NamedAlike
    <2> QED BY <1>4, <2>9 DEF Going
  <1>5. CASE r.phase = "idle" /\ ~r.dry /\ r.exit = "ok" /\ r.cmd = "create"
    BY <1>2, <1>5 DEF Going
  <1>6. CASE r.phase = "idle" /\ ~r.dry /\ r.exit = "ok" /\ r.cmd = "destroy"
    BY <1>6 DEF Going
  <1>7. r.cmd \in {"create", "destroy"}
    BY DEF Runs
  <1> QED BY <1>3, <1>4, <1>5, <1>6, <1>7, EasyGoing

\* The broker view that `enable` puts on the tenant.
LEMMA EnableWhole ==
  ASSUME DisjointNames, Sane, NEW p \in Operators, NEW pol \in BrokerPolicies, Enable(p, pol)
  PROVE  OwnWhole(p)' /\ Reach(p)
  <1> DEFINE T == Named(p, "vippool") \union {q \in Named(p, "s3") : pol = "s3"}
  <1>1. PICK t \in Named(p, "tenant") :
          /\ The(p, "view", t.owner) \notin objs
          /\ Named(p, "s3") # {}
          /\ objs' = objs \union {The(p, "view", t.owner)}
          /\ refs' = refs \union ({The(p, "view", t.owner)} \X T)
    BY DEF Enable, The
  <1> PICK r \in Runs : r = run[p]
    BY SaneRun
  <1> PICK v : v = The(p, "view", t.owner)
    OBVIOUS
  <1> PICK id \in Nat : id = t.owner
    BY NamedIsThe, SaneRun
  <1>2. The(p, "tenant", id) \in objs /\ t \in objs
    BY NamedIsThe, SaneRun
  <1>3. Named(p, "view") = {}
    <2> SUFFICES ASSUME NEW x \in Named(p, "view") PROVE FALSE
      OBVIOUS
    <2>1. x = v
      BY <1>2, Home, SaneRun DEF OwnerPatched, YamlKinds
    <2> QED BY <1>1, <2>1, NamedIsThe, SaneRun
  <1>4. /\ v.kind = "view" /\ Mine(p, v)
        /\ \A x \in T : /\ x \in objs /\ Mine(p, x) /\ <<"view", x.kind>> \in RefKinds
    BY TheIs, TheNamed, NamedMine DEF YamlKinds, RefKinds
  <1>5. \A x \in T : x.kind # "policy"
    BY DEF Named
  <1>6. UNCHANGED <<perms, assigned, lastId, run, faults>>
    BY DEF Enable
  <1> HIDE DEF T
  <1>7. Tidy(p)' /\ RefsLive' /\ AllKnown'
    <2>1. "view" \in YamlKinds \ {"tenant"} /\ T \subseteq objs
      BY <1>4 DEF YamlKinds
    <2> QED BY <1>1, <1>2, <1>3, <1>4, <2>1, AddTidy
  <1>8. Going(p, r)'
    <2>1. objs' = objs \union {v} /\ refs' = refs \union ({v} \X T)
      BY <1>1
    <2>2. \A k \in YamlKinds \ {"view"} : Named(p, k)' = Named(p, k)
      BY <1>4, <2>1 DEF Named
    <2>3. Providers(p)' = Providers(p)
      BY <1>4, <2>1 DEF Providers
    <2>4. "tenant" \in YamlKinds
      BY DEF YamlKinds
    <2>5. /\ \A x : x.kind # "view" => (x \in objs' <=> x \in objs)
          /\ \A a, b : a.kind # "view" => (<<a, b>> \in refs' <=> <<a, b>> \in refs)
          /\ \A e \in refs' : e \in refs \/ e[2].kind # "policy"
      BY <1>4, <1>5, <2>1
    <2> QED BY <1>1, <1>6, <2>2, <2>3, <2>4, <2>5, SaneRun, ViewsAside
  <1>9. run'[p] = r
    BY <1>6
  <1>10. OwnWhole(p)'
    BY <1>7, <1>8, <1>9 DEF OwnWhole
  <1>11. Reach(p)
    BY <1>1, <1>4, <1>6 DEF Reach, Diff
  <1> QED BY <1>10, <1>11

LEMMA RemoveViewWhole ==
  ASSUME DisjointNames, Sane, NEW p \in Operators, RemoveView(p)
  PROVE  OwnWhole(p)' /\ Reach(p)
  <1>1. PICK v \in Named(p, "view") : Remove(v)
    BY DEF RemoveView
  <1> PICK r \in Runs : r = run[p]
    BY SaneRun
  <1>2. v.kind = "view" /\ v \in objs /\ Mine(p, v)
    BY NamedMine DEF YamlKinds
  <1>3. UNCHANGED <<run, faults>>
    BY DEF RemoveView
  <1>4. /\ objs' = objs \ {v} /\ refs' = {x \in refs : x[1] # v /\ x[2] # v}
        /\ perms' = perms \ {v} /\ assigned' = assigned
    BY <1>1, <1>2 DEF Remove
  <1>5. /\ Tidy(p)' /\ RefsLive' /\ AllKnown'
        /\ \A k : Named(p, k)' = Named(p, k) \ {v}
        /\ Providers(p)' = Providers(p) \ {v}
    BY <1>1, <1>2, RemoveTidy
  <1>6. Going(p, r)'
    <2>1. \A k \in YamlKinds \ {"view"} : Named(p, k)' = Named(p, k)
      BY <1>2, <1>5 DEF Named
    <2>2. Providers(p)' = Providers(p)
      BY <1>2, <1>4 DEF Providers
    <2>3. "view" \in YamlKinds
      BY DEF YamlKinds
    <2>4. \A e \in refs : e[2].kind # "view"
      BY SaneRun DEF RefsLive, RefKinds
    <2>5. /\ \A x : x.kind # "view" => (x \in objs' <=> x \in objs)
          /\ \A x : x.kind # "view" => (x \in perms' <=> x \in perms)
          /\ \A e \in refs' : e \in refs
      BY <1>2, <1>4
    <2>6. \A a, b : a.kind # "view" => (<<a, b>> \in refs' <=> <<a, b>> \in refs)
      <3>1. ASSUME NEW a, NEW b, a.kind # "view", <<a, b>> \in refs
            PROVE  <<a, b>> \in refs'
        BY <1>2, <1>4, <2>4, <3>1
      <3> QED BY <2>5, <3>1
    <2> QED BY <1>1, <1>3, <1>4, <2>1, <2>2, <2>3, <2>5, <2>6, SaneRun, ViewsAside
  <1>7. run'[p] = r
    BY <1>3
  <1>8. OwnWhole(p)'
    BY <1>5, <1>6, <1>7 DEF OwnWhole
  <1>9. \A x \in Diff(refs, refs') : Mine(p, x[1]) /\ Mine(p, x[2])
    BY <1>2, <1>4, RefsMine, SaneRun DEF Diff
  <1>10. Reach(p)
    BY <1>2, <1>4, <1>9 DEF Reach, Diff
  <1> QED BY <1>8, <1>10

LEMMA EditWhole ==
  ASSUME EditsBetween, Sane, NEW p \in Operators, Edit(p)
  PROVE  OwnWhole(p)'
  <1>0. Become(p, NoRun)
    BY DEF EditsBetween, Edit
  <1>1. PICK k \in EditedKinds : \E o \in Named(p, k) :
          /\ k \in OwnerPatched => ~InUse(o)
          /\ objs' = IF k \in OwnerPatched
                       THEN (objs \ {o}) \union {The(p, k, 1)} ELSE objs
          /\ refs' = {r \in refs : k \in {"user", "manager", "group"} => r[1] # o}
    BY DEF Edit, The
  <1>2. PICK o \in Named(p, k) :
          /\ k \in OwnerPatched => ~InUse(o)
          /\ objs' = IF k \in OwnerPatched
                       THEN (objs \ {o}) \union {The(p, k, 1)} ELSE objs
          /\ refs' = {r \in refs : k \in {"user", "manager", "group"} => r[1] # o}
    BY <1>1
  <1>3. o.kind = k
    BY DEF Named
  <1>4. CASE k \in OwnerPatched
    <2> PICK n : n = The(p, k, 1)
      OBVIOUS
    <2>1. objs' = (objs \ {o}) \union {n}
      BY <1>2, <1>4
    <2>2. \A x \in refs : x[1] # o /\ x[2] # o /\ x = <<x[1], x[2]>>
      <3>1. ASSUME NEW x \in refs PROVE x[2] # o
        BY <1>2, <1>4, RefKind DEF InUse
      <3>2. ASSUME NEW x \in refs PROVE x[1] # o
        BY <1>3, <1>4, RefKind DEF OwnerPatched
      <3> QED BY <3>1, <3>2, RefKind
    <2>3. refs' = refs
      BY <1>2, <1>4 DEF OwnerPatched
    <2>4. refs' = {<<IF x[1] = o THEN n ELSE x[1], IF x[2] = o THEN n ELSE x[2]>> : x \in refs}
      BY <2>2, <2>3
    <2>5. Tidy(p)' /\ RefsLive' /\ AllKnown'
      BY <1>4, <2>1, <2>4, MoveTidy
    <2> QED BY <1>0, <2>5, EasyGoing, Becomes, SaneRun DEF OwnWhole, NoRun
  <1>5. CASE k \notin OwnerPatched
    <2>1. UNCHANGED objs /\ refs' \subseteq refs
      BY <1>2, <1>5
    <2>2. Tidy(p)' /\ AllKnown'
      BY <2>1, ObjsStayTidy
    <2>3. RefsLive'
      BY <2>1, SaneRun DEF RefsLive
    <2> QED BY <1>0, <2>2, <2>3, EasyGoing, Becomes, SaneRun DEF OwnWhole, NoRun
  <1> QED BY <1>4, <1>5

-----------------------------------------------------------------------------
(* Every step                                                              *)

LEMMA WritePoliciesWhole ==
  ASSUME DisjointNames, Sane, NEW p \in Operators, WritePolicies(p)
  PROVE  OwnWhole(p)'
  BY WritePoliciesCreate, WritePoliciesDestroy DEF WritePolicies

LEMMA WorkFaults ==
  ASSUME Sane, NEW p \in Operators, Work(p)
  PROVE  FewerFaults
  <1>1. ASSUME NEW k, \/ EnsureLook(p, k) \/ EnsurePost(p, k) \/ EnsurePatch(p, k)
                      \/ DeleteLook(p, k) \/ DeletePut(p, k)
        PROVE  FewerFaults
    BY <1>1 DEF EnsureLook, EnsurePost, EnsurePatch, DeleteLook, DeletePut, FewerFaults
  <1>2. CASE \/ TenantPost(p) \/ TenantRecord(p) \/ AssignLook(p) \/ AssignGroup(p) \/ BindLook(p)
             \/ FindTenant(p) \/ Preflight(p) \/ UnbindLook(p) \/ ReapLook(p)
             \/ WritePolicies(p) \/ SkipPool(p)
    BY <1>2 DEF TenantPost, TenantRecord, AssignLook, AssignGroup, BindLook, FindTenant,
         Preflight, UnbindLook, ReapLook, WritePolicies, SkipPool, FewerFaults
  <1> QED BY <1>1, <1>2, ApplyPermissionsWhole, ReapWhole DEF Work, Create, Destroy

LEMMA WorkWhole ==
  ASSUME DisjointNames, Sane, NEW p \in Operators, Work(p)
  PROVE  OwnWhole(p)'
  <1>1. CASE Create(p)
    BY <1>1, EnsureLookWhole, EnsurePostWhole, EnsurePatchWhole, TenantPostWhole,
       TenantRecordWhole, ApplyPermissionsWhole, AssignLookWhole, AssignGroupWhole,
       BindLookWhole DEF Create
  <1>2. CASE Destroy(p)
    BY <1>2, DeleteLookWhole, DeletePutWhole, FindTenantWhole, PreflightWhole,
       UnbindLookWhole, ReapLookWhole, ReapWhole DEF Destroy
  <1> QED BY <1>1, <1>2, WritePoliciesWhole, SkipPoolWhole DEF Work

LEMMA NextWhole ==
  ASSUME DisjointNames, EditsBetween, Sane, Next
  PROVE  Whole'
  <1>1. PICK q \in Operators :
          \/ \E dry \in DryRuns : Start(q, dry)
          \/ ChangeGoal(q) \/ Stop(q) \/ Work(q)
          \/ \E pol \in BrokerPolicies : Enable(q, pol)
          \/ RemoveView(q) \/ Edit(q)
    BY DEF Next
  <1>2. Safe /\ Apart
    BY SaneRun
  <1>3. CASE \E dry \in DryRuns : Start(q, dry)
    <2>1. FewerFaults /\ Reach(q) /\ OwnWhole(q)' /\ \E r : Become(q, r)
      BY <1>2, <1>3, StartApart, StartWhole DEF Start, FewerFaults
    <2> QED BY <2>1, StepWhole
  <1>4. CASE ChangeGoal(q)
    BY <1>4, StillWhole DEF ChangeGoal
  <1>5. CASE Stop(q)
    <2>1. FewerFaults /\ Reach(q) /\ OwnWhole(q)' /\ \E r : Become(q, r)
      BY <1>2, <1>5, StopApart, StopWhole DEF Stop
    <2> QED BY <2>1, StepWhole
  <1>6. CASE Work(q)
    <2>1. FewerFaults /\ Reach(q) /\ OwnWhole(q)' /\ \E r : Become(q, r)
      BY <1>2, <1>6, WorkApart, WorkWhole, WorkFaults, WorkBecomes
    <2> QED BY <2>1, StepWhole
  <1>7. CASE \E pol \in BrokerPolicies : Enable(q, pol)
    <2>1. FewerFaults /\ Reach(q) /\ OwnWhole(q)' /\ UNCHANGED run
      BY <1>7, EnableWhole DEF Enable, FewerFaults
    <2> QED BY <2>1, StepWhole
  <1>8. CASE RemoveView(q)
    <2>1. FewerFaults /\ Reach(q) /\ OwnWhole(q)' /\ UNCHANGED run
      BY <1>8, RemoveViewWhole DEF RemoveView, FewerFaults
    <2> QED BY <2>1, StepWhole
  <1>9. CASE Edit(q)
    <2>1. FewerFaults /\ Reach(q) /\ OwnWhole(q)' /\ \E r : Become(q, r)
      BY <1>2, <1>9, EditApart, EditWhole DEF Edit, FewerFaults
    <2> QED BY <2>1, StepWhole
  <1> QED BY <1>1, <1>3, <1>4, <1>5, <1>6, <1>7, <1>8, <1>9

LEMMA InitWhole == Init => Whole
  <1> SUFFICES ASSUME Init PROVE Whole
    OBVIOUS
  <1>1. DefaultProvider.kind = "provider" /\ DefaultProvider.owner = 1
    BY DefaultProviderIs
  <1>2. ASSUME NEW o \in objs, o # DefaultProvider
        PROVE  /\ o.kind = "tenant" /\ o.owner = 1 /\ \A x \in objs : x = o \/ x = DefaultProvider
               /\ \E p \in Operators : Mine(p, o)
    BY <1>2 DEF Init, Obj, Mine, YamlKinds
  <1>3. RefsLive /\ AllKnown
    BY <1>1, <1>2 DEF Init, RefsLive, AllKnown
  <1>4. ASSUME NEW p \in Operators
        PROVE  Tidy(p) /\ Going(p, run[p])
    <2>1. Providers(p) = {}
      BY <1>1, <1>2 DEF Providers
    <2>2. \A k \in YamlKinds : \A o \in Named(p, k) : o # DefaultProvider /\ o \in objs /\ o.kind = k
      BY <1>1, StepKinds DEF Named
    <2>3. \A k \in YamlKinds : k # "tenant" => Named(p, k) = {}
      BY <1>2, <2>2
    <2>4. OneEach(p)
      BY <1>2, <2>2 DEF OneEach
    <2>5. AtHome(p)
      BY <2>3 DEF AtHome
    <2>6. OneProvider(p) /\ NoPool(p)
      BY <2>1, <2>3 DEF OneProvider, NoPool, YamlKinds
    <2>7. run[p].exit # "ok" /\ run[p].phase = "idle"
      BY DEF Init, NoRun
    <2> QED BY <2>4, <2>5, <2>6, <2>7, EasyGoing DEF Tidy
  <1> QED BY <1>3, <1>4 DEF Whole

\* What makes the properties below inductive holds of every behaviour.
LEMMA AlwaysSane == ASSUME DisjointNames, EditsBetween PROVE Spec => []Sane
  <1>1. Init => Sane
    BY InitSafe, InitApart, InitWhole DEF Sane
  <1>2. ASSUME Sane, Next PROVE Sane'
    <2>1. Safe' /\ KeptApart' /\ Whole'
      BY <1>2, NextSafe, NextApart, NextWhole DEF Sane
    <2> QED BY <2>1 DEF Sane
  <1>3. ASSUME Sane, UNCHANGED vars PROVE Sane'
    <2>1. Safe' /\ KeptApart'
      BY <1>3, NextSafe, StutterApart DEF Sane
    <2>2. Whole'
      BY <1>3, StillWhole DEF vars
    <2> QED BY <2>1, <2>2 DEF Sane
  <1>4. Sane /\ [Next]_vars => Sane'
    BY <1>2, <1>3
  <1> QED BY <1>1, <1>4, PTL DEF Spec

-----------------------------------------------------------------------------
(* What a command that has ended well leaves                               *)

LEMMA BuiltIs ==
  ASSUME NEW p \in Operators, NEW id, \A i \in 1..11 : Made(p, CreateSteps[i], id)
  PROVE  Built(p)
  <1>1. /\ Made(p, "tenant", id) /\ Made(p, "group", id) /\ Made(p, "user", id)
        /\ Made(p, "role", id) /\ Made(p, "manager", id) /\ Made(p, "vippool", id)
        /\ Made(p, "nfs", id) /\ Made(p, "s3", id) /\ Made(p, "assign", id)
        /\ Made(p, "policy", id) /\ Made(p, "bind", id)
    BY CreatePlace
  <1>2. \A k \in Wanted(p) : The(p, k, id) \in objs
    BY <1>1 DEF Made, Wanted, Ensured
  <1>3. The(p, "tenant", id) \in Named(p, "tenant") /\ The(p, "tenant", id).owner = id
    BY <1>1, MadeTenant, TheNamed, TheIs DEF YamlKinds
  <1>4. /\ <<The(p, "user", id), The(p, "group", id)>> \in refs
        /\ <<The(p, "manager", id), The(p, "role", id)>> \in refs
        /\ <<The(p, "group", id), The(p, "policy", id)>> \in refs
        /\ <<id, NameOf[p]["group"]>> \in assigned
    BY <1>1 DEF Made
  <1> QED BY <1>2, <1>3, <1>4 DEF Built, The

\* A create that exits with 0 leaves everything the YAML asks for on the tenant
\* of that name, bound together: whatever state it started from, whatever was
\* cut short or failed before, and whatever the others run in the meantime, so
\* long as no two YAML files share a name and edits by hand fall between two
\* commands of their operator (create_tenant).
THEOREM CreateLeavesAll ==
  ASSUME DisjointNames, EditsBetween PROVE Spec => []CreateCompletes
  <1>1. Sane => CreateCompletes
    <2> SUFFICES ASSUME Sane, NEW p \in Operators, Exited(p, "create", "ok") PROVE Built(p)
      BY DEF CreateCompletes
    <2>1. \E id \in Nat : \A i \in 1..11 : Made(p, CreateSteps[i], id)
      BY SaneRun DEF Exited, Idle, Going
    <2> QED BY <2>1, BuiltIs
  <1> QED BY <1>1, AlwaysSane, PTL

\* Unless a request failed, the role of the YAML then has the standard
\* permissions, a role that was there before included (ensure_role).
THEOREM CreateGivesPermissions ==
  ASSUME DisjointNames, EditsBetween PROVE Spec => []PermissionsApplied
  <1>1. Sane => PermissionsApplied
    <2> SUFFICES ASSUME Sane, NEW p \in Operators, faults = 0, Exited(p, "create", "ok"),
                        NEW r \in Named(p, "role")
                 PROVE  r \in perms
      BY DEF PermissionsApplied
    <2>1. PICK id \in Nat : \A i \in 1..11 : Made(p, CreateSteps[i], id)
      BY SaneRun DEF Exited, Idle, Going
    <2>2. Made(p, "tenant", id) /\ Made(p, "role", id)
      BY <2>1, CreatePlace
    <2>3. r = The(p, "role", id)
      BY <2>2, MadeTenant, Home, SaneRun DEF OwnerPatched, YamlKinds
    <2> QED BY <2>2, <2>3 DEF Made
  <1> QED BY <1>1, AlwaysSane, PTL

\* A command that ends with its step is not about to write, nor to look at the
\* views, nor to go on elsewhere.
LEMMA NotMoved ==
  ASSUME TypeOK, NEW p \in Operators, \A x : Become(p, x) => x.phase = "idle", ~Idle(p)
  PROVE  /\ \A o : ~ToPut(p, o)
         /\ ~Become(p, [run[p] EXCEPT !.phase = "put"])
         /\ \A o, x : ~Become(p, [run[p] EXCEPT !.phase = "put", !.got = o, !.ids = x])
         /\ \A i : ~Become(p, [run[p] EXCEPT !.phase = "put", !.pid = i])
         /\ \A i, j : ~Become(p, [run[p] EXCEPT !.phase = "views", !.tid = i, !.pid = j])
         /\ \A i : ~Become(p, [run[p] EXCEPT !.at = i])
  <1>1. run[p] \in Runs
    BY RunTyped DEF TypeOK
  <1>2. \A o : ~ToPut(p, o)
    <2> SUFFICES ASSUME NEW o, ToPut(p, o) PROVE FALSE
      OBVIOUS
    <2> PICK s : s = [run[p] EXCEPT !.phase = "put", !.got = o]
      OBVIOUS
    <2>1. s.phase = "put"
      BY <1>1 DEF Runs
    <2> QED BY <2>1 DEF ToPut
  <1>3. ~Become(p, [run[p] EXCEPT !.phase = "put"])
    <2> SUFFICES ASSUME Become(p, [run[p] EXCEPT !.phase = "put"])
                 PROVE  FALSE
      OBVIOUS
    <2> PICK s : s = [run[p] EXCEPT !.phase = "put"]
      OBVIOUS
    <2>1. s.phase = "put"
      BY <1>1 DEF Runs
    <2> QED BY <2>1
  <1>4. \A o, x : ~Become(p, [run[p] EXCEPT !.phase = "put", !.got = o, !.ids = x])
    <2> SUFFICES ASSUME NEW o, NEW x, Become(p, [run[p] EXCEPT !.phase = "put", !.got = o, !.ids = x])
                 PROVE  FALSE
      OBVIOUS
    <2> PICK s : s = [run[p] EXCEPT !.phase = "put", !.got = o, !.ids = x]
      OBVIOUS
    <2>1. s.phase = "put"
      BY <1>1 DEF Runs
    <2> QED BY <2>1
  <1>5. \A i : ~Become(p, [run[p] EXCEPT !.phase = "put", !.pid = i])
    <2> SUFFICES ASSUME NEW i, Become(p, [run[p] EXCEPT !.phase = "put", !.pid = i])
                 PROVE  FALSE
      OBVIOUS
    <2> PICK s : s = [run[p] EXCEPT !.phase = "put", !.pid = i]
      OBVIOUS
    <2>1. s.phase = "put"
      BY <1>1 DEF Runs
    <2> QED BY <2>1
  <1>6. \A i, j : ~Become(p, [run[p] EXCEPT !.phase = "views", !.tid = i, !.pid = j])
    <2> SUFFICES ASSUME NEW i, NEW j, Become(p, [run[p] EXCEPT !.phase = "views", !.tid = i, !.pid = j])
                 PROVE  FALSE
      OBVIOUS
    <2> PICK s : s = [run[p] EXCEPT !.phase = "views", !.tid = i, !.pid = j]
      OBVIOUS
    <2>1. s.phase = "views"
      BY <1>1 DEF Runs
    <2> QED BY <2>1
  <1>7. \A i : ~Become(p, [run[p] EXCEPT !.at = i])
    <2> SUFFICES ASSUME NEW i, Become(p, [run[p] EXCEPT !.at = i]) PROVE FALSE
      OBVIOUS
    <2> PICK s : s = [run[p] EXCEPT !.at = i]
      OBVIOUS
    <2>1. s.phase = run[p].phase
      BY <1>1 DEF Runs
    <2> QED BY <2>1 DEF Idle
  <1> QED BY <1>2, <1>3, <1>4, <1>5, <1>6, <1>7

\* The step in which a destroy ends with 0 is one of the reaping.
LEMMA EndsReaping ==
  ASSUME Sane, Next, NEW p \in Operators, Ends(p, "destroy", "ok")
  PROVE  (ReapLook(p) \/ Reap(p)) /\ ~run[p].dry
  <1> PICK r \in Runs : r = run[p]
    BY SaneRun
  <1>1. /\ ~Idle(p) /\ run'[p].phase = "idle" /\ run'[p].exit = "ok"
        /\ run'[p].cmd = "destroy" /\ ~run'[p].dry
    BY DEF Ends, Exited, Idle
  <1>2. TypeOK /\ AtOwnStep(r)
    BY SaneRun
  <1>3. PICK q \in Operators :
          \/ \E dry \in DryRuns : Start(q, dry)
          \/ ChangeGoal(q) \/ Stop(q) \/ Work(q)
          \/ \E pol \in BrokerPolicies : Enable(q, pol)
          \/ RemoveView(q) \/ Edit(q)
    BY DEF Next
  <1>4. run'[p] # run[p]
    BY <1>1 DEF Idle
  <1>5. p = q
    <2>1. UNCHANGED run \/ \E x : Become(q, x)
      BY <1>3, WorkBecomes DEF Start, ChangeGoal, Stop, Enable, RemoveView, Edit
    <2> QED BY <1>2, <1>4, <2>1, OneCommand
  <1>6. \A code : Become(p, Ended(r, code)) => code = "ok"
    BY <1>1, <1>2, EndedIs, Becomes
  <1>7. Advance(p) => r.at = LastStep(r.cmd) /\ r.cmd = "destroy" /\ ~r.dry
    <2> SUFFICES ASSUME Advance(p) PROVE r.at = LastStep(r.cmd) /\ r.cmd = "destroy" /\ ~r.dry
      OBVIOUS
    <2>1. run'[p] = Stepped(r)
      BY <1>2, Becomes DEF Advance
    <2> QED BY <1>1, <1>2, <2>1, SteppedIs
  <1>8. \A x : Become(p, x) => x.phase = "idle" /\ x.cmd = "destroy" /\ ~x.dry
    BY <1>1, <1>2, Becomes
  <1>9. /\ \A o : ~ToPut(p, o)
        /\ ~Become(p, [run[p] EXCEPT !.phase = "put"])
        /\ \A o, x : ~Become(p, [run[p] EXCEPT !.phase = "put", !.got = o, !.ids = x])
        /\ \A i : ~Become(p, [run[p] EXCEPT !.phase = "put", !.pid = i])
        /\ \A i, j : ~Become(p, [run[p] EXCEPT !.phase = "views", !.tid = i, !.pid = j])
        /\ \A i : ~Become(p, [run[p] EXCEPT !.at = i])
    <2>1. \A x : Become(p, x) => x.phase = "idle"
      BY <1>8
    <2> QED BY <1>1, <1>2, <2>1, NotMoved
  <1>10. Work(p)
    <2>1. ~\E dry \in DryRuns : Start(p, dry)
      BY <1>1 DEF Start
    <2>2. ~ChangeGoal(p) /\ ~Stop(p)
      BY <1>1, <1>6 DEF ChangeGoal, Stop
    <2>3. ~\E pol \in BrokerPolicies : Enable(p, pol)
      BY <1>4 DEF Enable
    <2>4. ~RemoveView(p)
      BY <1>4 DEF RemoveView
    <2>5. ~Edit(p)
      BY <1>1, <1>2, <1>4, Becomes DEF Edit
    <2> QED BY <1>3, <1>5, <2>1, <2>2, <2>3, <2>4, <2>5
  <1>11. \A c, k, ph : (AtStep(p, c, k, ph) /\ Advance(p)) => c = "destroy" /\ k = "provider"
    <2> SUFFICES ASSUME NEW c, NEW k, NEW ph, AtStep(p, c, k, ph), Advance(p)
                 PROVE  c = "destroy" /\ k = "provider"
      OBVIOUS
    <2>1. c = "destroy" /\ r.at = 12
      BY <1>7, StepsBound DEF AtStep
    <2> QED BY <1>2, <2>1, AtDestroy, DestroyPlaces
  <1>12. ~Create(p)
    <2>1. ASSUME NEW c, NEW k, NEW ph, NEW o, AtStep(p, "create", k, ph)
          PROVE  ~Become(p, AfterEnsure(r, k, o))
      <3>1. r.cmd = "create" /\ AtOwnStep(r)
        BY <1>2, <2>1, AtCreate
      <3>2. AfterEnsure(r, k, o).cmd = "create"
        BY <3>1, AfterEnsureCmd
      <3> QED BY <1>8, <3>2
    <2>2. ASSUME NEW k, EnsureLook(p, k) \/ EnsurePost(p, k) \/ EnsurePatch(p, k)
          PROVE  FALSE
      <3>1. \A code : Fail(p, code) => code = "ok"
        BY <1>6 DEF Fail
      <3> QED BY <1>9, <2>1, <2>2, <3>1 DEF EnsureLook, EnsurePost, EnsurePatch
    <2>3. ~TenantPost(p)
      BY <1>6, <2>1 DEF TenantPost, Fail
    <2>4. ~TenantRecord(p)
      <3> SUFFICES ASSUME TenantRecord(p) PROVE FALSE
        OBVIOUS
      <3>1. r.cmd = "create" /\ r.at = 1 /\ r.at # LastStep(r.cmd)
        <4>1. AtStep(p, "create", "tenant", "record")
          BY DEF TenantRecord
        <4>2. r.cmd = "create" /\ r.at \in 1..11 /\ CreateSteps[r.at] = "tenant"
          BY <1>2, <4>1, AtCreate
        <4> QED BY <4>2, CreatePlaces, StepsBound
      <3>2. ~Advance(p) /\ ~Fail(p, "gone")
        BY <1>6, <1>7, <3>1 DEF Fail
      <3>3. PICK t \in Named(p, "tenant") :
              Become(p, [Stepped(r) EXCEPT
                           !.tid = IF @ # 0 THEN @ ELSE t.owner,
                           !.pid = t.owner,
                           !.seen = <<t.owner, NameOf[p]["group"]>> \in assigned])
        BY <3>2 DEF TenantRecord
      <3>5. Stepped(r).phase = "look"
        BY <1>2, <3>1, SteppedIs
      <3> PICK x : x = [Stepped(r) EXCEPT !.tid = IF @ # 0 THEN @ ELSE t.owner, !.pid = t.owner,
                          !.seen = <<t.owner, NameOf[p]["group"]>> \in assigned]
        OBVIOUS
      <3>6. x.phase = "look"
        BY <1>2, <3>5, SteppedIs DEF Runs
      <3> QED BY <1>8, <3>3, <3>6
    <2>5. ~ApplyPermissions(p)
      BY <1>11 DEF ApplyPermissions
    <2>6. ~AssignLook(p) /\ ~AssignGroup(p)
      BY <1>6, <1>11, <1>9 DEF AssignLook, AssignGroup, Fail
    <2>7. ~BindLook(p)
      BY <1>11, <1>9 DEF BindLook
    <2> QED BY <2>2, <2>3, <2>4, <2>5, <2>6, <2>7 DEF Create
  <1>13. ~WritePolicies(p) /\ ~SkipPool(p)
    BY <1>6, <1>11 DEF WritePolicies, SkipPool, Fail
  <1>14. ASSUME NEW k, DeleteLook(p, k) \/ DeletePut(p, k)
         PROVE  FALSE
    <2>1. k # "provider"
      BY <1>14 DEF DeleteLook, DeletePut, Deleted
    <2>2. \A code : Fail(p, code) => code = "ok"
      BY <1>6 DEF Fail
    <2>3. ~DeletePut(p, k)
      <3>1. ~Fail(p, "gone") /\ ~Fail(p, "in_use")
        BY <2>2
      <3> QED BY <1>11, <2>1, <3>1 DEF DeletePut
    <2>4. ~DeleteLook(p, k)
      <3>1. DeleteLook(p, k) => (AtStep(p, "destroy", k, "look")
                                 /\ (Advance(p) \/ \E o : ToPut(p, o)))
        BY DEF DeleteLook
      <3>2. \A o : ~ToPut(p, o)
        BY <1>9
      <3>3. AtStep(p, "destroy", k, "look") => ~Advance(p)
        BY <1>11, <2>1
      <3> QED BY <3>1, <3>2, <3>3
    <2> QED BY <1>14, <2>3, <2>4
  <1>15. ~FindTenant(p)
    BY <1>9 DEF FindTenant
  <1>16. ~Preflight(p) /\ ~UnbindLook(p)
    <2>1. ~Preflight(p)
      BY <1>6, <1>11 DEF Preflight, Fail
    <2>2. ~UnbindLook(p)
      <3>1. UnbindLook(p) =>
              /\ AtStep(p, "destroy", "unbind", "look")
              /\ \/ Advance(p)
                 \/ \E o, x : Become(p, [run[p] EXCEPT !.phase = "put", !.got = o, !.ids = x])
        BY DEF UnbindLook
      <3>2. \A o, x : ~Become(p, [run[p] EXCEPT !.phase = "put", !.got = o, !.ids = x])
        BY <1>9
      <3>3. AtStep(p, "destroy", "unbind", "look") => ~Advance(p)
        BY <1>11
      <3> QED BY <3>1, <3>2, <3>3
    <2> QED BY <2>1, <2>2
  <1>17. ReapLook(p) \/ Reap(p)
    BY <1>10, <1>12, <1>13, <1>14, <1>15, <1>16 DEF Work, Destroy
  <1>18. ~run[p].dry
    BY <1>1, <1>2, <1>8, <1>17, <1>9, SteppedIs, EndedIs DEF ReapLook, Reap, Fail, Advance
  <1> QED BY <1>17, <1>18

\* A destroy that found the tenant, and ends with 0, has deleted its provider.
LEMMA ReapsKnown ==
  ASSUME Sane, Next, NEW p \in Operators, Ends(p, "destroy", "ok"), run[p].tid # 0
  PROVE  Providers(p)' = {}
  <1> PICK r \in Runs : r = run[p]
    BY SaneRun
  <1>1. run'[p].phase = "idle" /\ run'[p].exit = "ok" /\ TypeOK
    BY SaneRun DEF Ends, Exited, Idle
  <1>2. \A x : Become(p, x) => x.phase = "idle" /\ x.exit = "ok"
    BY <1>1, Becomes
  <1>3. CASE ReapLook(p)
    <2>1. /\ r.at \in 1..12 /\ DestroySteps[r.at] = "provider" /\ r.phase = "look"
          /\ Destroying(p, r)
      BY <1>3, DestroyRun, EndsReaping DEF ReapLook
    <2>2. r.at = 12
      BY <2>1, DestroyPlaces
    <2>3. r.pid = r.tid /\ \A l \in Providers(p) : l.owner = r.pid
      BY <2>1, <2>2 DEF Destroying
    <2>4. r.pid = 1
      <3>1. ~Become(p, [r EXCEPT !.phase = "put"])
        BY <1>2 DEF Runs
      <3> QED BY <1>3, <2>3, <3>1, EndsReaping DEF ReapLook
    <2>5. Providers(p) = {}
      BY <2>3, <2>4 DEF Providers
    <2>6. objs' = objs
      BY <1>3 DEF ReapLook, cluster
    <2> QED BY <2>5, <2>6 DEF Providers
  <1>4. CASE Reap(p)
    <2>1. /\ r.at \in 1..12 /\ DestroySteps[r.at] = "provider" /\ r.phase = "put"
          /\ Destroying(p, r)
      BY <1>4, DestroyRun, EndsReaping DEF Reap
    <2>2. r.at = 12
      BY <2>1, DestroyPlaces
    <2>3. \A l \in Providers(p) : l.owner = r.pid
      BY <2>1, <2>2 DEF Destroying
    <2>4. ~Fail(p, "warned")
      BY <1>2, EndedIs DEF Fail
    <2>5. PICK o \in objs : o.kind = "provider" /\ o.owner = r.pid /\ Remove(o)
      BY <1>4, <2>4 DEF Reap
    <2>6. Providers(p)' = Providers(p) \ {o}
      BY <2>5 DEF Remove, Providers
    <2>7. \A l \in objs : (l.kind = "provider" /\ l.owner = o.owner) => l = o
      BY <2>5, ApartRun, SaneRun DEF IdsIn, IdKinds
    <2> QED BY <2>3, <2>5, <2>6, <2>7 DEF Providers
  <1> QED BY <1>3, <1>4, EndsReaping

\* A destroy that ends with 0, and no WARN, leaves nothing of the YAML, whatever
\* state it started from and whatever the others run; and it leaves no provider
\* either when it found the tenant, or when VMS calls the provider like its
\* tenant, whose name is all that is left to find it by when the tenant is gone
\* (_reap_local_provider).
THEOREM DestroyLeavesNothing ==
  ASSUME DisjointNames, EditsBetween PROVE Spec => DestroyCompletes
  <1>1. ASSUME Sane, Sane', Next, NEW p \in Operators, Ends(p, "destroy", "ok")
        PROVE  /\ \A k \in YamlKinds : Named(p, k)' = {}
               /\ (run[p].tid # 0 \/ NamedAlike(p)) => Providers(p)' = {}
    <2>1. Going(p, run[p])'
      BY <1>1 DEF Sane, Whole
    <2>2. /\ run'[p].phase = "idle" /\ ~run'[p].dry /\ run'[p].exit = "ok"
          /\ run'[p].cmd = "destroy"
      BY <1>1 DEF Ends, Exited, Idle
    <2>3. /\ \A k \in YamlKinds : Named(p, k)' = {}
          /\ NamedAlike(p) => Providers(p)' = {}
      BY <2>1, <2>2 DEF Going, NamedAlike
    <2> QED BY <1>1, <2>3, ReapsKnown
  <1>2. ASSUME UNCHANGED vars, NEW p \in Operators
        PROVE  ~Ends(p, "destroy", "ok")
    BY <1>2 DEF vars, Ends, Exited, Idle
  <1>3. Sane /\ Sane' /\ [Next]_vars =>
          [\A p \in Operators : Ends(p, "destroy", "ok") =>
             /\ \A k \in YamlKinds : Named(p, k)' = {}
             /\ (run[p].tid # 0 \/ NamedAlike(p)) => Providers(p)' = {}]_vars
    BY <1>1
  <1> QED BY <1>3, AlwaysSane, PTL DEF Spec, DestroyCompletes

\* Over what is built already a create has nothing to write.
LEMMA PutUnbuilt ==
  ASSUME Sane, NEW p \in Operators, run[p].cmd = "create", run[p].phase = "put", Built(p)
  PROVE  FALSE
  <1> PICK r \in Runs : r = run[p]
    BY SaneRun
  <1> PICK k : k = CreateSteps[r.at]
    OBVIOUS
  <1>1. /\ AtStep(p, "create", k, "put") /\ ~r.dry
    BY PutNotDry DEF AtStep, Steps
  <1>2. /\ r.at \in 1..11 /\ Creating(p, r) /\ Needed(p, r)
        /\ r.at > 1 => The(p, "tenant", r.tid) \in objs
    BY <1>1, CreateRun DEF Creating
  <1>3. PICK t \in Named(p, "tenant") :
          /\ \A j \in Wanted(p) : The(p, j, t.owner) \in objs
          /\ <<The(p, "user", t.owner), The(p, "group", t.owner)>> \in refs
          /\ <<The(p, "manager", t.owner), The(p, "role", t.owner)>> \in refs
          /\ <<The(p, "group", t.owner), The(p, "policy", t.owner)>> \in refs
          /\ <<t.owner, NameOf[p]["group"]>> \in assigned
    BY DEF Built, The
  <1> PICK id : id = t.owner
    OBVIOUS
  <1>4. r.at > 1 => r.tid = id
    <2>1. r.at > 1 => t = The(p, "tenant", r.tid)
      BY <1>2, Home, SaneRun DEF OwnerPatched, YamlKinds
    <2> QED BY <2>1, TheIs
  <1>5. \A j \in Wanted(p) : The(p, j, id) \in Named(p, j)
    BY <1>3, TheNamed, StepKinds DEF Wanted
  <1>6. (k \in Ensured /\ (k = "vippool" => p \in HasPool)) => k \in Wanted(p)
    BY DEF Wanted
  <1>7. CASE k \in Ensured /\ r.got = None
    BY <1>2, <1>5, <1>6, <1>7 DEF Needed
  <1>8. CASE k \in Ensured /\ r.got # None
    <2>1. /\ k \in Wanted(p) /\ r.got \in Named(p, k)
          /\ k \in OwnerPatched \union RefsPatched
      BY <1>2, <1>6, <1>8 DEF Needed
    <2>2. r.at > 1
      BY <1>2, <2>1, CreatePlaces DEF OwnerPatched, RefsPatched
    <2>3. r.got = The(p, k, id)
      BY <1>5, <2>1, StepKinds, SaneRun DEF Tidy, OneEach, Wanted
    <2>4. CASE k \in OwnerPatched
      BY <1>2, <1>4, <1>8, <2>2, <2>3, <2>4, TheIs DEF Needed
    <2>5. CASE k = "user"
      <3>1. The(p, "group", id) \in Named(p, "group")
        BY <1>5 DEF Wanted, Ensured
      <3>2. PICK g \in Named(p, "group") : <<r.got, g>> \notin refs
        BY <1>2, <1>8, <2>5 DEF Needed
      <3>3. g = The(p, "group", id)
        BY <3>1, <3>2, SaneRun DEF Tidy, OneEach, YamlKinds
      <3> QED BY <1>3, <2>3, <2>5, <3>2, <3>3
    <2>6. CASE k = "manager"
      <3>1. r.ref = The(p, "role", id)
        BY <1>2, <1>4, <2>2, <2>6, CreatePlaces DEF Creating
      <3> QED BY <1>2, <1>3, <1>8, <2>3, <2>6, <3>1 DEF Needed
    <2> QED BY <2>1, <2>4, <2>5, <2>6 DEF RefsPatched
  <1>9. CASE k = "assign"
    <2>1. r.at = 9
      BY <1>2, <1>9, CreatePlaces
    <2> QED BY <1>2, <1>3, <1>4, <1>9, <2>1 DEF Needed
  <1>10. CASE k = "bind"
    <2>1. r.at = 11
      BY <1>2, <1>10, CreatePlaces
    <2>2. r.ref = The(p, "policy", id) /\ r.got = The(p, "group", id)
      BY <1>2, <1>4, <1>10, <2>1 DEF Creating, Needed
    <2> QED BY <1>2, <1>3, <1>10, <2>2 DEF Needed
  <1> QED BY <1>2, <1>7, <1>8, <1>9, <1>10, CreatePlaces DEF Ensured

\* A create that is about to send a POST or a PATCH has something to write: over
\* what is built already it sends none.
THEOREM RerunsWriteNothing ==
  ASSUME DisjointNames, EditsBetween PROVE Spec => []RerunWritesNothing
  <1>1. Sane => RerunWritesNothing
    BY PutUnbuilt DEF RerunWritesNothing
  <1> QED BY <1>1, AlwaysSane, PTL

LEMMA MoreKeepsBuilt ==
  ASSUME NEW p \in Operators, Built(p),
         \A o \in objs : o.kind # "view" => o \in objs',
         \A r \in refs : (r[1].kind # "view" /\ r[2].kind # "view") => r \in refs',
         assigned \subseteq assigned'
  PROVE  Built(p)'
  <1>1. PICK t \in Named(p, "tenant") :
          /\ \A k \in Wanted(p) : The(p, k, t.owner) \in objs
          /\ <<The(p, "user", t.owner), The(p, "group", t.owner)>> \in refs
          /\ <<The(p, "manager", t.owner), The(p, "role", t.owner)>> \in refs
          /\ <<The(p, "group", t.owner), The(p, "policy", t.owner)>> \in refs
          /\ <<t.owner, NameOf[p]["group"]>> \in assigned
    BY DEF Built, The
  <1> PICK id : id = t.owner
    OBVIOUS
  <1>2. t \in Named(p, "tenant")'
    BY DEF Named
  <1>3. \A k \in Wanted(p) : The(p, k, id) \in objs'
    BY <1>1, TheIs DEF Wanted, Ensured
  <1>4. \A a, b : (<<The(p, a, id), The(p, b, id)>> \in refs /\ a # "view" /\ b # "view")
                   => <<The(p, a, id), The(p, b, id)>> \in refs'
    BY TheIs
  <1>5. /\ <<The(p, "user", id), The(p, "group", id)>> \in refs'
        /\ <<The(p, "manager", id), The(p, "role", id)>> \in refs'
        /\ <<The(p, "group", id), The(p, "policy", id)>> \in refs'
    BY <1>1, <1>4
  <1> QED BY <1>1, <1>2, <1>3, <1>5 DEF Built, The, Wanted

LEMMA SliceKeepsBuilt ==
  ASSUME NEW p \in Operators, Built(p), UNCHANGED Slice(p)
  PROVE  Built(p)'
  <1>1. PICK t \in Named(p, "tenant") :
          /\ \A k \in Wanted(p) : The(p, k, t.owner) \in objs
          /\ <<The(p, "user", t.owner), The(p, "group", t.owner)>> \in refs
          /\ <<The(p, "manager", t.owner), The(p, "role", t.owner)>> \in refs
          /\ <<The(p, "group", t.owner), The(p, "policy", t.owner)>> \in refs
          /\ <<t.owner, NameOf[p]["group"]>> \in assigned
    BY DEF Built, The
  <1> PICK id : id = t.owner
    OBVIOUS
  <1>2. /\ Own(p)' = Own(p)
        /\ {r \in refs' : r[1] \in Own(p)' \/ r[2] \in Own(p)'}
             = {r \in refs : r[1] \in Own(p) \/ r[2] \in Own(p)}
        /\ {a \in assigned' : \E o \in Own(p)' : o.kind = "tenant" /\ o.owner = a[1]}
             = {a \in assigned : \E o \in Own(p) : o.kind = "tenant" /\ o.owner = a[1]}
    BY DEF Slice
  <1>3. t \in Own(p) /\ t.kind = "tenant"
    BY DEF Own, Named, YamlKinds
  <1>4. \A o \in Own(p) : o \in objs'
    BY <1>2 DEF Own
  <1>5. \A k \in Wanted(p) : The(p, k, id) \in Own(p) /\ The(p, k, id) \in objs'
    BY <1>1, <1>4, TheIs DEF Own, Wanted, Ensured, YamlKinds
  <1>6. {"user", "manager", "group"} \subseteq Wanted(p)
    BY DEF Wanted, Ensured
  <1>7. \A x : \A o \in Own(p) : <<o, x>> \in refs => <<o, x>> \in refs'
    <2> SUFFICES ASSUME NEW o \in Own(p), NEW x, <<o, x>> \in refs PROVE <<o, x>> \in refs'
      OBVIOUS
    <2> PICK r : r = <<o, x>>
      OBVIOUS
    <2>1. r \in {e \in refs : e[1] \in Own(p) \/ e[2] \in Own(p)}
      OBVIOUS
    <2> QED BY <1>2, <2>1
  <1>8. <<id, NameOf[p]["group"]>> \in assigned'
    <2> PICK a : a = <<id, NameOf[p]["group"]>>
      OBVIOUS
    <2>1. a \in {e \in assigned : \E o \in Own(p) : o.kind = "tenant" /\ o.owner = e[1]}
      BY <1>1, <1>3
    <2> QED BY <1>2, <2>1
  <1>9. t \in Named(p, "tenant")'
    BY <1>3, <1>4 DEF Named
  <1>10. /\ <<The(p, "user", id), The(p, "group", id)>> \in refs'
         /\ <<The(p, "manager", id), The(p, "role", id)>> \in refs'
         /\ <<The(p, "group", id), The(p, "policy", id)>> \in refs'
    BY <1>1, <1>5, <1>6, <1>7
  <1> QED BY <1>5, <1>8, <1>9, <1>10 DEF Built, The, Wanted

\* The permissions of a role are all that ensure_role writes after the POST.
LEMMA PermsOnly ==
  ASSUME NEW p \in Operators, Work(p), run[p].phase = "perms"
  PROVE  UNCHANGED <<objs, refs, assigned>>
  <1>1. ASSUME NEW k, EnsureLook(p, k) \/ EnsurePost(p, k) \/ EnsurePatch(p, k)
        PROVE  FALSE
    BY <1>1 DEF EnsureLook, EnsurePost, EnsurePatch, AtStep
  <1>2. CASE ApplyPermissions(p)
    BY <1>2 DEF ApplyPermissions
  <1>3. ~TenantPost(p) /\ ~TenantRecord(p)
    BY DEF TenantPost, TenantRecord, AtStep
  <1>4. ~AssignLook(p) /\ ~AssignGroup(p) /\ ~BindLook(p) /\ ~WritePolicies(p) /\ ~SkipPool(p)
    BY DEF AssignLook, AssignGroup, BindLook, WritePolicies, SkipPool, AtStep
  <1>5. ASSUME NEW k, DeleteLook(p, k) \/ DeletePut(p, k)
        PROVE  FALSE
    BY <1>5 DEF DeleteLook, DeletePut, AtStep
  <1>6. ~FindTenant(p) /\ ~Preflight(p) /\ ~UnbindLook(p) /\ ~ReapLook(p) /\ ~Reap(p)
    BY DEF FindTenant, Preflight, UnbindLook, ReapLook, Reap, AtStep
  <1> QED BY <1>1, <1>2, <1>3, <1>4, <1>5, <1>6 DEF Work, Create, Destroy

\* What a create that exits with 0 has left lasts: whatever the others run on the
\* same cluster, however often it is run again, dry or not, cut short or not, and
\* whatever views come and go, only the operator's own destroy, or somebody who
\* edits his objects by hand, takes a part of it away.
THEOREM WhatIsBuiltLasts ==
  ASSUME DisjointNames, EditsBetween PROVE Spec => BuiltLasts
  <1>1. ASSUME Sane, Next, NEW p \in Operators, Built(p), ~Edit(p),
               ~(run[p].cmd = "destroy" /\ ~run[p].dry /\ ~Idle(p))
        PROVE  Built(p)'
    <2>1. Safe /\ Apart /\ Sound(run[p]) /\ run[p] \in Runs
      BY <1>1, SaneRun
    <2>2. PICK q \in Operators :
            \/ \E dry \in DryRuns : Start(q, dry)
            \/ ChangeGoal(q) \/ Stop(q) \/ Work(q)
            \/ \E pol \in BrokerPolicies : Enable(q, pol)
            \/ RemoveView(q) \/ Edit(q)
      BY <1>1 DEF Next
    <2>3. CASE UNCHANGED <<objs, refs, assigned>>
      BY <1>1, <2>3, MoreKeepsBuilt
    <2>4. CASE (\E dry \in DryRuns : Start(q, dry)) \/ ChangeGoal(q) \/ Stop(q)
      <3>1. (\E dry \in DryRuns : Start(q, dry)) => UNCHANGED cluster
        BY DEF Start
      <3>2. (ChangeGoal(q) \/ Stop(q)) => UNCHANGED cluster
        BY DEF ChangeGoal, Stop
      <3>3. UNCHANGED cluster
        BY <2>4, <3>1, <3>2
      <3> QED BY <2>3, <3>3 DEF cluster
    <2>5. CASE Work(q)
      <3>1. CASE p # q
        BY <1>1, <2>1, <2>5, <3>1, WorkApart, ReachSlice, SliceKeepsBuilt
      <3>2. CASE p = q /\ run[p].phase = "perms"
        BY <2>3, <2>5, <3>2, PermsOnly
      <3>3. CASE p = q /\ run[p].phase = "put"
        <4>1. run[p].cmd = "create"
          BY <1>1, <2>1, <3>3 DEF Sound, Idle, Runs
        <4> QED BY <1>1, <3>3, <4>1, PutUnbuilt
      <3>4. CASE p = q /\ run[p].phase \notin {"put", "perms"}
        BY <2>3, <2>5, <3>4, WritesInPut DEF cluster
      <3> QED BY <3>1, <3>2, <3>3, <3>4
    <2>6. CASE \E pol \in BrokerPolicies : Enable(q, pol)
      <3>1. objs \subseteq objs' /\ refs \subseteq refs' /\ assigned \subseteq assigned'
        BY <2>6 DEF Enable
      <3> QED BY <1>1, <3>1, MoreKeepsBuilt
    <2>7. CASE RemoveView(q)
      <3>1. PICK v \in Named(q, "view") : Remove(v)
        BY <2>7 DEF RemoveView
      <3>2. v.kind = "view"
        BY DEF Named
      <3>3. \A a \in assigned : a \in assigned'
        BY <3>1, <3>2 DEF Remove
      <3> QED BY <1>1, <3>1, <3>2, <3>3, MoreKeepsBuilt DEF Remove
    <2>8. CASE Edit(q)
      BY <1>1, <2>1, <2>8, EditApart, ReachSlice, SliceKeepsBuilt
    <2> QED BY <2>2, <2>4, <2>5, <2>6, <2>7, <2>8
  <1>2. ASSUME UNCHANGED vars, NEW p \in Operators, Built(p)
        PROVE  Built(p)'
    BY <1>2, MoreKeepsBuilt DEF vars, cluster
  <1>3. Sane /\ [Next]_vars =>
          [\A p \in Operators :
             (/\ Built(p) /\ ~Edit(p)
              /\ ~(run[p].cmd = "destroy" /\ ~run[p].dry /\ ~Idle(p))) => Built(p)']_vars
    BY <1>1, <1>2
  <1> QED BY <1>3, AlwaysSane, PTL DEF Spec, BuiltLasts

-----------------------------------------------------------------------------
(* The order of destroy                                                    *)

\* Nobody moves a pool or a view policy of one YAML by hand onto the tenant of
\* another: nothing is moved, or there is one YAML.
NoStrays == EditedKinds \intersect OwnerPatched = {} \/ \A p, q \in Operators : p = q

\* Past its preflight a destroy finds no view on the view policies of its YAML,
\* but one that came while it ran.
Watched(p) ==
  (/\ run[p].cmd = "destroy" /\ ~Idle(p) /\ ~run[p].dry /\ run[p].at > 1
   /\ p \notin outside.viewed) =>
     \A v \in Named(p, "view"), q \in Named(p, "s3") : <<v, q>> \notin refs
ViewsWatched == \A p \in Operators : Watched(p)

\* A create stays a create.
LEMMA CreateCmd ==
  ASSUME TypeOK, NEW p \in Operators, Create(p)
  PROVE  run'[p].cmd = "create"
  <1> PICK r \in Runs : r = run[p]
    BY RunTyped DEF TypeOK
  <1>1. AtOwnStep(r)
    BY RunTyped DEF TypeOK
  <1>2. \A k, ph : AtStep(p, "create", k, ph) => r.cmd = "create"
    BY DEF AtStep
  <1>3. \A code : Ended(r, code).cmd = r.cmd
    BY EndedIs
  <1>4. \A k, o : AfterEnsure(r, k, o).cmd = r.cmd
    BY <1>1, AfterEnsureCmd
  <1>5. Stepped(r).cmd = r.cmd /\ Stepped(r) \in Runs
    BY <1>1, SteppedIs
  <1>6. \A o, ids : /\ [r EXCEPT !.phase = "put", !.got = o].cmd = r.cmd
                    /\ [r EXCEPT !.phase = "put", !.got = o, !.ids = ids].cmd = r.cmd
    BY DEF Runs
  <1>7. \A a, b, c : [Stepped(r) EXCEPT !.tid = a, !.pid = b, !.seen = c].cmd = r.cmd
    BY <1>5 DEF Runs
  <1>8. \A x : (Become(p, x) /\ x.cmd = r.cmd /\ r.cmd = "create") => run'[p].cmd = "create"
    BY Becomes
  <1>9. ASSUME NEW k, EnsureLook(p, k) \/ EnsurePost(p, k) \/ EnsurePatch(p, k)
        PROVE  run'[p].cmd = "create"
    <2>1. r.cmd = "create"
      BY <1>2, <1>9 DEF EnsureLook, EnsurePost, EnsurePatch
    <2>2. \A code : Fail(p, code) => run'[p].cmd = "create"
      BY <1>3, <1>8, <2>1 DEF Fail
    <2>3. \A o : ToPut(p, o) => run'[p].cmd = "create"
      BY <1>6, <1>8, <2>1 DEF ToPut
    <2>4. \A o : Become(p, AfterEnsure(r, k, o)) => run'[p].cmd = "create"
      BY <1>4, <1>8, <2>1
    <2> QED BY <1>9, <2>2, <2>3, <2>4 DEF EnsureLook, EnsurePost, EnsurePatch
  <1>10. CASE TenantPost(p)
    BY <1>2, <1>3, <1>4, <1>8, <1>10 DEF TenantPost, Fail
  <1>11. CASE TenantRecord(p)
    <2>1. r.cmd = "create"
      BY <1>2, <1>11 DEF TenantRecord
    <2>2. (Advance(p) \/ \E code : Fail(p, code)) => run'[p].cmd = "create"
      BY <1>3, <1>5, <1>8, <2>1 DEF Advance, Fail
    <2>3. ASSUME NEW t,
                 Become(p, [Stepped(r) EXCEPT
                              !.tid = IF @ # 0 THEN @ ELSE t.owner,
                              !.pid = t.owner,
                              !.seen = <<t.owner, NameOf[p]["group"]>> \in assigned])
          PROVE  run'[p].cmd = "create"
      <3> PICK x : x = [Stepped(r) EXCEPT !.tid = IF @ # 0 THEN @ ELSE t.owner, !.pid = t.owner,
                          !.seen = <<t.owner, NameOf[p]["group"]>> \in assigned]
        OBVIOUS
      <3>1. x.cmd = r.cmd
        BY <1>5 DEF Runs
      <3> QED BY <1>8, <2>1, <2>3, <3>1
    <2> QED BY <1>11, <2>2, <2>3 DEF TenantRecord
  <1>12. CASE ApplyPermissions(p) \/ AssignLook(p) \/ AssignGroup(p) \/ BindLook(p)
    <2>1. r.cmd = "create"
      BY <1>2, <1>12 DEF ApplyPermissions, AssignLook, AssignGroup, BindLook
    <2>2. (Advance(p) \/ \E code : Fail(p, code)) => run'[p].cmd = "create"
      BY <1>3, <1>5, <1>8, <2>1 DEF Advance, Fail
    <2>3. \A o, ids : (\/ ToPut(p, o)
                     \/ Become(p, [r EXCEPT !.phase = "put", !.got = o, !.ids = ids]))
                      => run'[p].cmd = "create"
      BY <1>6, <1>8, <2>1 DEF ToPut
    <2>4. CASE ApplyPermissions(p)
      BY <2>2, <2>4 DEF ApplyPermissions
    <2>5. CASE AssignLook(p) \/ AssignGroup(p)
      BY <2>2, <2>3, <2>5 DEF AssignLook, AssignGroup
    <2>6. CASE BindLook(p)
      BY <2>2, <2>3, <2>6 DEF BindLook
    <2> QED BY <1>12, <2>4, <2>5, <2>6
  <1> QED BY <1>9, <1>10, <1>11, <1>12 DEF Create

LEMMA WorkOutside ==
  ASSUME NEW p \in Operators, Work(p)
  PROVE  outside' = outside
  <1>1. ASSUME NEW k, \/ EnsureLook(p, k) \/ EnsurePost(p, k) \/ EnsurePatch(p, k)
                      \/ DeleteLook(p, k) \/ DeletePut(p, k)
        PROVE  outside' = outside
    BY <1>1 DEF EnsureLook, EnsurePost, EnsurePatch, DeleteLook, DeletePut
  <1>2. CASE \/ TenantPost(p) \/ TenantRecord(p) \/ AssignLook(p) \/ AssignGroup(p) \/ BindLook(p)
             \/ ApplyPermissions(p) \/ FindTenant(p) \/ Preflight(p) \/ UnbindLook(p)
             \/ ReapLook(p) \/ Reap(p) \/ WritePolicies(p) \/ SkipPool(p)
    BY <1>2 DEF TenantPost, TenantRecord, AssignLook, AssignGroup, BindLook, ApplyPermissions,
         FindTenant, Preflight, UnbindLook, ReapLook, Reap, WritePolicies, SkipPool
  <1> QED BY <1>1, <1>2 DEF Work, Create, Destroy

LEMMA StillReach ==
  ASSUME UNCHANGED cluster, NEW q
  PROVE  Reach(q)
  BY DEF cluster, Reach, Diff

\* A step that adds no view, no view policy and no reference of a view.
LEMMA StaysWatched ==
  ASSUME NEW p, Watched(p),
         run'[p].at > 1 => (run[p].at > 1 /\ run[p].cmd = run'[p].cmd /\ ~Idle(p)),
         ~run'[p].dry => ~run[p].dry,
         outside' = outside,
         \A k \in {"view", "s3"} : Named(p, k)' \subseteq Named(p, k),
         \A v \in Named(p, "view") : \A q : <<v, q>> \in refs' => <<v, q>> \in refs
  PROVE  Watched(p)'
  BY DEF Watched, Idle

LEMMA QuietWatched ==
  ASSUME NEW p, Watched(p), UNCHANGED cluster, outside' = outside,
         run'[p].at > 1 => (run[p].at > 1 /\ run[p].cmd = run'[p].cmd /\ ~Idle(p)),
         ~run'[p].dry => ~run[p].dry
  PROVE  Watched(p)'
  <1>1. objs' = objs /\ refs' = refs
    BY DEF cluster
  <1>2. \A k : Named(p, k)' = Named(p, k)
    BY <1>1 DEF Named
  <1> QED BY <1>1, <1>2, StaysWatched

\* The steps of the operator's own destroy.
LEMMA DestroyWatched ==
  ASSUME Sane, NEW p \in Operators, Watched(p), Destroy(p)
  PROVE  Watched(p)'
  <1> PICK r \in Runs : r = run[p]
    BY SaneRun
  <1>1. AtOwnStep(r) /\ TypeOK /\ (r.phase # "idle" => ~Idle(p))
    BY SaneRun DEF Idle
  <1>2. \A k, ph : AtStep(p, "destroy", k, ph) =>
          /\ r.cmd = "destroy" /\ r.phase = ph /\ r.at \in 1..12 /\ DestroySteps[r.at] = k
    BY <1>1, AtDestroy
  <1>3. \A x : Become(p, x) => run'[p] = x
    BY <1>1, Becomes
  <1>4. \A code : Become(p, Ended(r, code)) => Watched(p)'
    <2>1. ASSUME NEW code, Become(p, Ended(r, code)) PROVE run'[p].phase = "idle"
      BY <1>3, <2>1, EndedIs
    <2> QED BY <2>1 DEF Watched, Idle
  <1>5. ASSUME r.at > 1, ~Idle(p), Advance(p)
        PROVE  \/ run'[p].phase = "idle"
               \/ /\ run'[p].at > 1 => (r.at > 1 /\ run[p].cmd = run'[p].cmd /\ ~Idle(p))
                  /\ ~run'[p].dry => ~run[p].dry
    BY <1>1, <1>3, <1>5, SteppedIs DEF Advance
  <1>6. ASSUME NEW k, NEW ph, AtStep(p, "destroy", k, ph), ph # "idle", k # "preflight",
               UNCHANGED cluster, outside' = outside, Advance(p)
        PROVE  Watched(p)'
    <2>1. r.at > 1 /\ ~Idle(p)
      BY <1>1, <1>2, <1>6, DestroyPlaces
    <2>2. CASE run'[p].phase = "idle"
      BY <2>2 DEF Watched, Idle
    <2>3. CASE run'[p].phase # "idle"
      BY <1>5, <1>6, <2>1, <2>3, QuietWatched
    <2> QED BY <2>2, <2>3
  <1>7. ASSUME NEW k, NEW ph, AtStep(p, "destroy", k, ph), ph # "idle", k # "preflight",
               UNCHANGED cluster, outside' = outside, NEW x, Become(p, x),
               x.cmd = r.cmd, x.dry = r.dry
        PROVE  Watched(p)'
    <2>1. r.at > 1 /\ ~Idle(p)
      BY <1>1, <1>2, <1>7, DestroyPlaces
    <2> QED BY <1>3, <1>7, <2>1, QuietWatched
  <1>8. ASSUME NEW o, Remove(o), NEW k, NEW ph, AtStep(p, "destroy", k, ph), ph # "idle",
               k # "preflight", outside' = outside, Advance(p)
        PROVE  Watched(p)'
    <2>1. r.at > 1 /\ ~Idle(p)
      BY <1>1, <1>2, <1>8, DestroyPlaces
    <2>2. \A j : Named(p, j)' \subseteq Named(p, j)
      BY <1>8 DEF Remove, Named
    <2>3. refs' \subseteq refs
      BY <1>8 DEF Remove
    <2>4. CASE run'[p].phase = "idle"
      BY <2>4 DEF Watched, Idle
    <2>5. CASE run'[p].phase # "idle"
      BY <1>5, <1>8, <2>1, <2>2, <2>3, <2>5, StaysWatched
    <2> QED BY <2>4, <2>5
  <1>9. ASSUME NEW k, DeleteLook(p, k)
        PROVE  Watched(p)'
    <2>1. k # "preflight" /\ AtStep(p, "destroy", k, "look") /\ UNCHANGED cluster /\ outside' = outside
      BY <1>9 DEF DeleteLook, Deleted
    <2>2. \A o : [r EXCEPT !.phase = "put", !.got = o].cmd = r.cmd
                /\ [r EXCEPT !.phase = "put", !.got = o].dry = r.dry
      BY DEF Runs
    <2>3. CASE Advance(p)
      BY <1>6, <2>1, <2>3
    <2>4. CASE \E o : ToPut(p, o)
      BY <1>7, <2>1, <2>2, <2>4 DEF ToPut
    <2> QED BY <1>9, <2>3, <2>4 DEF DeleteLook
  <1>10. ASSUME NEW k, DeletePut(p, k)
         PROVE  Watched(p)'
    <2>1. k # "preflight" /\ AtStep(p, "destroy", k, "put") /\ outside' = outside
      BY <1>10 DEF DeletePut, Deleted
    <2> QED BY <1>4, <1>8, <1>10, <2>1 DEF DeletePut, Fail
  <1>11. CASE FindTenant(p)
    <2>1. UNCHANGED cluster /\ r.at = 1 /\ Len(DestroySteps) = 12
      BY <1>2, <1>11, DestroyPlaces, StepsBound DEF FindTenant, LastStep, Steps
    <2>2. CASE Named(p, "tenant") = {}
      <3>1. Named(p, "view") = {}
        BY <2>2, NoTenantNothing, SaneRun DEF YamlKinds
      <3>2. Named(p, "view")' = {}
        BY <2>1, <3>1 DEF Named, cluster
      <3> QED BY <3>2 DEF Watched
    <2>3. ASSUME NEW t, Become(p, [r EXCEPT !.phase = "views", !.tid = t.owner, !.pid = t.owner])
          PROVE  run'[p].at = 1
      <3> PICK s : s = [r EXCEPT !.phase = "views", !.tid = t.owner, !.pid = t.owner]
        OBVIOUS
      <3>1. s.at = 1
        BY <2>1 DEF Runs
      <3>2. run'[p] = s
        BY <1>3, <2>3
      <3> QED BY <3>1, <3>2
    <2>4. CASE run'[p].at = 1
      <3>1. ~(run'[p].at > 1)
        BY <2>4
      <3> QED BY <3>1 DEF Watched
    <2> QED BY <1>11, <2>2, <2>3, <2>4 DEF FindTenant
  <1>12. CASE Preflight(p)
    <2>1. r.phase = "views" /\ AtStep(p, "destroy", "preflight", "views")
      BY <1>2, <1>12 DEF Preflight
    <2>2. CASE Advance(p) /\ UNCHANGED cluster /\ r.dry
      <3>1. run'[p].dry
        BY <1>1, <1>3, <2>2, SteppedIs DEF Advance
      <3> QED BY <3>1 DEF Watched
    <2>3. CASE UNCHANGED cluster /\ ~r.dry /\ BlockingViews(p) = {}
      <3>1. The(p, "tenant", r.tid) \in objs
        BY <2>1, <2>3, DestroyRun DEF Destroying
      <3>2. ASSUME NEW v \in Named(p, "view"), NEW q \in Named(p, "s3"), <<v, q>> \in refs
            PROVE  FALSE
        <4>1. v = The(p, "view", r.tid)
          BY <3>1, Home, SaneRun DEF OwnerPatched, YamlKinds
        <4>2. v \in objs /\ v.kind = "view" /\ v.owner = r.tid
          BY <4>1, TheIs, NamedIsThe, SaneRun
        <4> QED BY <2>3, <3>2, <4>2 DEF BlockingViews
      <3>3. /\ refs' = refs /\ Named(p, "view")' = Named(p, "view")
            /\ Named(p, "s3")' = Named(p, "s3")
        BY <2>3 DEF cluster, Named
      <3>4. \A v \in Named(p, "view")', q \in Named(p, "s3")' : <<v, q>> \notin refs'
        BY <3>2, <3>3
      <3> QED BY <3>4 DEF Watched
    <2> QED BY <1>4, <1>12, <2>2, <2>3 DEF Preflight, Fail
  <1>13. CASE UnbindLook(p)
    <2>1. \A g, ids : /\ [r EXCEPT !.phase = "put", !.got = g, !.ids = ids].cmd = r.cmd
                      /\ [r EXCEPT !.phase = "put", !.got = g, !.ids = ids].dry = r.dry
      BY DEF Runs
    <2>2. AtStep(p, "destroy", "unbind", "look") /\ UNCHANGED cluster /\ outside' = outside
      BY <1>13 DEF UnbindLook
    <2>3. CASE Advance(p)
      BY <1>6, <2>2, <2>3
    <2>4. ASSUME NEW g, NEW ids, Become(p, [r EXCEPT !.phase = "put", !.got = g, !.ids = ids])
          PROVE  Watched(p)'
      BY <1>7, <2>1, <2>2, <2>4
    <2> QED BY <1>13, <2>3, <2>4 DEF UnbindLook
  <1>14. CASE ReapLook(p)
    <2>1. \A i : /\ [r EXCEPT !.phase = "put", !.pid = i].cmd = r.cmd
                 /\ [r EXCEPT !.phase = "put", !.pid = i].dry = r.dry
                 /\ [r EXCEPT !.phase = "put"].cmd = r.cmd
                 /\ [r EXCEPT !.phase = "put"].dry = r.dry
      BY DEF Runs
    <2>2. AtStep(p, "destroy", "provider", "look") /\ UNCHANGED cluster /\ outside' = outside
      BY <1>14 DEF ReapLook
    <2>3. CASE Advance(p)
      BY <1>6, <2>2, <2>3
    <2>4. CASE Become(p, [r EXCEPT !.phase = "put"])
      BY <1>7, <2>1, <2>2, <2>4
    <2>5. CASE \E i : Become(p, [r EXCEPT !.phase = "put", !.pid = i])
      BY <1>7, <2>1, <2>2, <2>5
    <2> QED BY <1>14, <2>3, <2>4, <2>5 DEF ReapLook
  <1>15. CASE Reap(p)
    BY <1>4, <1>8, <1>15 DEF Reap, Fail
  <1> QED BY <1>9, <1>10, <1>11, <1>12, <1>13, <1>14, <1>15 DEF Destroy

LEMMA WorkWatched ==
  ASSUME Sane, NEW p \in Operators, Watched(p), Work(p)
  PROVE  Watched(p)'
  <1> PICK r \in Runs : r = run[p]
    BY SaneRun
  <1>1. AtOwnStep(r) /\ TypeOK
    BY SaneRun
  <1>2. CASE Create(p)
    <2>1. run'[p].cmd = "create"
      BY <1>2, SaneRun, CreateCmd
    <2> QED BY <2>1 DEF Watched
  <1>3. CASE SkipPool(p) \/ WritePolicies(p)
    <2>1. CASE run'[p].cmd = "create" \/ run'[p].phase = "idle"
      BY <2>1 DEF Watched, Idle
    <2>2. CASE run'[p].cmd # "create" /\ run'[p].phase # "idle"
      <3>1. Advance(p) /\ outside' = outside
        <4>1. \A code : ~Fail(p, code)
          BY <1>1, <2>2, Becomes, EndedIs DEF Fail
        <4> QED BY <1>3, <4>1 DEF SkipPool, WritePolicies
      <3>2. run'[p].cmd = r.cmd /\ run'[p].dry = r.dry
        BY <1>1, <3>1, Becomes, SteppedIs DEF Advance
      <3>3. r.cmd = "destroy"
        BY <2>2, <3>2 DEF Runs
      <3>4. r.at > 1 /\ ~Idle(p)
        <4>1. \E k \in {"vippool", "unbind"}, ph \in {"look", "put"} : AtStep(p, "destroy", k, ph)
          BY <1>3, <3>3 DEF SkipPool, WritePolicies, AtStep
        <4> QED BY <1>1, <4>1, AtDestroy, DestroyPlaces DEF Idle
      <3>5. CASE SkipPool(p)
        BY <3>1, <3>2, <3>4, <3>5, QuietWatched DEF SkipPool
      <3>6. CASE WritePolicies(p)
        <4>1. AtStep(p, "destroy", "unbind", "put")
          BY <3>3, <3>6 DEF WritePolicies, AtStep
        <4>2. r.at = 2 /\ Destroying(p, r) /\ r.phase = "put"
          BY <4>1, DestroyRun, DestroyPlaces, PutNotDry
        <4>3. r.got.kind = "group"
          BY <4>2 DEF Destroying, Named
        <4>4. \A code : ~Fail(p, code)
          BY <1>1, <2>2, Becomes, EndedIs DEF Fail
        <4>5. /\ objs' = objs
              /\ refs' = {e \in refs : e[1] # r.got} \union ({r.got} \X r.ids)
          BY <3>6, <4>4 DEF WritePolicies
        <4>6. \A v \in Named(p, "view") : \A q : <<v, q>> \in refs' => <<v, q>> \in refs
          BY <4>3, <4>5 DEF Named
        <4>7. \A k : Named(p, k)' = Named(p, k)
          BY <4>5 DEF Named
        <4> QED BY <3>1, <3>2, <3>4, <4>6, <4>7, StaysWatched
      <3> QED BY <1>3, <3>5, <3>6
    <2> QED BY <2>1, <2>2
  <1> QED BY <1>2, <1>3, DestroyWatched DEF Work

LEMMA NextWatched ==
  ASSUME DisjointNames, EditsBetween, Sane, ViewsWatched, Next
  PROVE  ViewsWatched'
  <1>1. PICK q \in Operators :
          \/ \E dry \in DryRuns : Start(q, dry)
          \/ ChangeGoal(q) \/ Stop(q) \/ Work(q)
          \/ \E pol \in BrokerPolicies : Enable(q, pol)
          \/ RemoveView(q) \/ Edit(q)
    BY DEF Next
  <1>2. Safe /\ Apart /\ TypeOK
    BY SaneRun
  <1>3. Reach(q)
    BY <1>1, <1>2, StartApart, StopApart, WorkApart, EnableWhole, RemoveViewWhole, EditApart,
       StillReach DEF ChangeGoal
  <1>4. UNCHANGED run \/ \E r : Become(q, r)
    BY <1>1, WorkBecomes DEF Start, ChangeGoal, Stop, Enable, RemoveView, Edit
  <1>5. ASSUME NEW p \in Operators, p # q
        PROVE  Watched(p)'
    <2>1. run'[p] = run[p]
      BY <1>2, <1>4, <1>5, OneCommand
    <2>2. Same(p)
      BY <1>3, <1>5, ReachSame
    <2>3. p \in outside.viewed => p \in outside'.viewed
      <3>1. ASSUME NEW dry, Start(q, dry) PROVE outside'.viewed = outside.viewed \ {q}
        BY <1>2, <3>1 DEF Start, TypeOK, ScopeTyped
      <3>2. ASSUME NEW pol, Enable(q, pol)
            PROVE  outside'.viewed = outside.viewed \union Running(q)
        BY <1>2, <3>2 DEF Enable, TypeOK, ScopeTyped
      <3>3. CASE Edit(q)
        BY <1>2, <3>3 DEF Edit, TypeOK, ScopeTyped
      <3>4. CASE ChangeGoal(q) \/ Stop(q) \/ RemoveView(q)
        BY <3>4 DEF ChangeGoal, Stop, RemoveView
      <3>5. CASE Work(q)
        BY <3>5, WorkOutside
      <3> QED BY <1>1, <1>5, <3>1, <3>2, <3>3, <3>4, <3>5
    <2>4. /\ Named(p, "view")' = Named(p, "view") /\ Named(p, "s3")' = Named(p, "s3")
          /\ \A v \in Named(p, "view") : \A x : <<v, x>> \in refs' <=> <<v, x>> \in refs
      BY <2>2, NamedMine DEF Same, YamlKinds
    <2>5. Watched(p)
      BY DEF ViewsWatched
    <2>6. (\A v \in Named(p, "view"), x \in Named(p, "s3") : <<v, x>> \notin refs)
            => (\A v \in Named(p, "view"), x \in Named(p, "s3") : <<v, x>> \notin refs)'
      <3> SUFFICES ASSUME \A v \in Named(p, "view"), x \in Named(p, "s3") : <<v, x>> \notin refs,
                          NEW v \in Named(p, "view")', NEW x \in Named(p, "s3")',
                          <<v, x>> \in refs'
                   PROVE  FALSE
        OBVIOUS
      <3>1. v \in Named(p, "view") /\ x \in Named(p, "s3")
        BY <2>4
      <3>2. <<v, x>> \in refs
        BY <2>4, <3>1
      <3> QED BY <3>1, <3>2
    <2>7. (/\ run[p].cmd = "destroy" /\ ~Idle(p) /\ ~run[p].dry /\ run[p].at > 1
           /\ p \notin outside.viewed)'
            => (/\ run[p].cmd = "destroy" /\ ~Idle(p) /\ ~run[p].dry /\ run[p].at > 1
                /\ p \notin outside.viewed)
      BY <2>1, <2>3 DEF Idle
    <2> QED BY <2>5, <2>6, <2>7 DEF Watched
  <1>6. Watched(q)'
    <2>1. Watched(q)
      BY DEF ViewsWatched
    <2>2. CASE \E dry \in DryRuns : Start(q, dry)
      <3>1. PICK dry \in DryRuns :
              Become(q, [NoRun EXCEPT !.cmd = goal[q], !.dry = dry, !.phase = "look"])
        BY <2>2 DEF Start
      <3> PICK s : s = [NoRun EXCEPT !.cmd = goal[q], !.dry = dry, !.phase = "look"]
        OBVIOUS
      <3>2. s.at = 1
        BY DEF NoRun
      <3>3. run'[q] = s
        BY <1>2, <3>1, Becomes
      <3> QED BY <3>2, <3>3 DEF Watched
    <2>3. CASE ChangeGoal(q)
      <3>1. run' = run /\ Idle(q)
        BY <2>3 DEF ChangeGoal
      <3> QED BY <3>1 DEF Watched, Idle
    <2>4. CASE Stop(q)
      <3>1. run'[q].phase = "idle"
        BY <1>2, <2>4, Becomes, EndedIs, SaneRun DEF Stop
      <3> QED BY <3>1 DEF Watched, Idle
    <2>5. CASE \E pol \in BrokerPolicies : Enable(q, pol)
      <3>1. run' = run
        BY <2>5 DEF Enable
      <3>2. ~Idle(q) => q \in outside'.viewed
        BY <1>2, <2>5 DEF Enable, Running, TypeOK, ScopeTyped
      <3> QED BY <3>1, <3>2 DEF Watched, Idle
    <2>6. CASE RemoveView(q)
      <3>1. run' = run /\ outside' = outside
        BY <2>6 DEF RemoveView
      <3>2. refs' \subseteq refs /\ \A k : Named(q, k)' \subseteq Named(q, k)
        BY <2>6 DEF RemoveView, Remove, Named
      <3> QED BY <2>1, <3>1, <3>2 DEF Watched, Idle
    <2>7. CASE Edit(q)
      <3>1. run'[q] = NoRun
        BY <1>2, <2>7, Becomes DEF Edit, EditsBetween
      <3> QED BY <3>1 DEF Watched, Idle, NoRun
    <2>8. CASE Work(q)
      BY <2>1, <2>8, WorkWatched
    <2> QED BY <1>1, <2>2, <2>3, <2>4, <2>5, <2>6, <2>7, <2>8
  <1> QED BY <1>5, <1>6 DEF ViewsWatched

LEMMA AlwaysWatched == ASSUME DisjointNames, EditsBetween PROVE Spec => []ViewsWatched
  <1>1. Init => ViewsWatched
    BY DEF Init, ViewsWatched, Watched, NoRun, Idle
  <1>2. ASSUME ViewsWatched, UNCHANGED vars PROVE ViewsWatched'
    BY <1>2 DEF ViewsWatched, Watched, Named, Idle, vars, cluster
  <1>3. Sane /\ ViewsWatched /\ [Next]_vars => ViewsWatched'
    BY <1>2, NextWatched
  <1> QED BY <1>1, <1>3, AlwaysSane, PTL DEF Spec

\* What destroy has come to delete, nothing on the cluster uses any more, when
\* no view is left.
LEMMA DeletesFree ==
  ASSUME DisjointNames, NoStrays, Sane, NEW p \in Operators, NEW k \in Deleted,
         AtStep(p, "destroy", k, "put"), Named(p, "view") = {}
  PROVE  ~InUse(run[p].got)
  <1> PICK r \in Runs : r = run[p]
    BY SaneRun
  <1> PICK o : o = r.got
    OBVIOUS
  <1>1. /\ r.phase = "put" /\ r.at \in 1..12 /\ DestroySteps[r.at] = k /\ Destroying(p, r)
    BY DestroyRun, PutNotDry
  <1>2. r.at \in 3..11
    BY <1>1, DestroyPlaces DEF Deleted
  <1>3. /\ o \in Named(p, k) /\ o \in objs /\ o.kind = k /\ Mine(p, o)
        /\ Named(p, "view") = {}
        /\ \A x \in refs : x[2] \notin Named(p, "policy")
        /\ \A i \in 3..(r.at - 1) : Named(p, DestroySteps[i]) = {}
    BY <1>1, <1>2, NamedMine, StepKinds DEF Destroying
  <1>4. TypeOK /\ Tidy(p) /\ Apart /\ AllKnown
    BY SaneRun
  <1>5. ASSUME NEW x \in objs, <<x, o>> \in refs
        PROVE  FALSE
    <2>1. Mine(p, x)
      BY <1>3, <1>4, <1>5, RefsMine
    <2>2. x \in Named(p, x.kind) /\ x.kind \in YamlKinds
      BY <1>5, <2>1, MineNamed
    <2> PICK e \in refs : e = <<x, o>>
      BY <1>5
    <2>3. /\ o.kind = "s3" => x.kind = "view"
          /\ o.kind = "vippool" => x.kind = "view"
          /\ o.kind = "role" => x.kind = "manager"
          /\ o.kind = "group" => x.kind = "user"
          /\ o.kind \in {"group", "role", "policy", "vippool", "s3"}
      BY RefKind
    <2>4. CASE k = "policy"
      BY <1>3, <2>4
    <2>5. CASE k \in {"s3", "vippool"}
      BY <1>3, <2>2, <2>3, <2>5
    <2>6. CASE k = "role"
      <3>1. r.at = 8
        BY <1>1, <2>6, DestroyPlaces
      <3> QED BY <1>3, <2>2, <2>3, <2>6, <3>1, DestroyPlace
    <2>7. CASE k = "group"
      <3>1. r.at = 10
        BY <1>1, <2>7, DestroyPlaces
      <3> QED BY <1>3, <2>2, <2>3, <2>7, <3>1, DestroyPlace
    <2> QED BY <1>3, <2>3, <2>4, <2>5, <2>6, <2>7
  <1>6. ASSUME k = "tenant", NEW x \in objs, x.owner = o.owner, x.kind \notin {"tenant", "provider"}
        PROVE  FALSE
    <2>1. r.at = 11
      BY <1>1, <1>6, DestroyPlaces
    <2>2. \A j \in YamlKinds \ {"tenant"} : Named(p, j) = {}
      BY <1>3, <2>1, DestroyPlace DEF YamlKinds
    <2>3. PICK q \in Operators : Mine(q, x)
      BY <1>4, <1>6 DEF AllKnown
    <2>4. x \in Named(q, x.kind) /\ x.kind \in YamlKinds
      BY <1>6, <2>3, MineNamed
    <2>5. p # q
      BY <1>6, <2>2, <2>4
    <2>6. x.kind \notin OwnerPatched \intersect EditedKinds
      BY <2>5 DEF NoStrays
    <2>7. PICK t \in Named(q, "tenant") : x.owner = t.owner
      BY <2>4, <2>6, SaneRun DEF Tidy, AtHome
    <2>8. t \in objs /\ t.kind = "tenant" /\ Mine(q, t)
      BY <2>7, NamedMine DEF YamlKinds
    <2>9. t = o
      <3>1. \A a, b \in objs : (a.kind = "tenant" /\ b.kind = "tenant" /\ a.owner = b.owner) => a = b
        BY <1>4, ApartRun DEF IdsIn, IdKinds
      <3> QED BY <1>3, <1>6, <2>7, <2>8, <3>1
    <2> QED BY <1>3, <2>5, <2>8, <2>9, MineOfOne
  <1>7. ~InUse(o)
    BY <1>3, <1>5, <1>6 DEF InUse
  <1> QED BY <1>7

LEMMA SteppedExit ==
  ASSUME NEW r \in Runs, AtOwnStep(r), r.exit # "in_use"
  PROVE  Stepped(r).exit # "in_use" /\ Stepped(r) \in Runs
  BY SteppedIs

LEMMA AfterEnsureExit ==
  ASSUME NEW r \in Runs, AtOwnStep(r), r.exit # "in_use", NEW k, NEW o
  PROVE  AfterEnsure(r, k, o).exit # "in_use"
  <1> PICK s \in Runs : s = Stepped(r)
    BY SteppedExit
  <1>1. s.exit # "in_use"
    BY SteppedExit
  <1>2. CASE k = "tenant"
    BY <1>2 DEF AfterEnsure, Runs
  <1>3. CASE k = "role" /\ ~r.dry
    BY <1>3 DEF AfterEnsure, Runs
  <1>4. CASE (k = "role" /\ r.dry) \/ k = "policy"
    <2>1. AfterEnsure(r, k, o) = [s EXCEPT !.ref = o]
      BY <1>4 DEF AfterEnsure
    <2> QED BY <1>1, <2>1 DEF Runs
  <1>5. CASE k \notin {"tenant", "role", "policy"}
    BY <1>1, <1>5 DEF AfterEnsure
  <1> QED BY <1>2, <1>3, <1>4, <1>5

\* What an operator runs next, when VMS has refused him nothing.
Unrefused(p) == \E r : Become(p, r) /\ r.exit # "in_use"

LEMMA Unrefusals ==
  ASSUME TypeOK, NEW p \in Operators, run[p].exit # "in_use"
  PROVE  /\ \A code : (code # "in_use" /\ Become(p, Ended(run[p], code))) => Unrefused(p)
         /\ Advance(p) => Unrefused(p)
         /\ \A o : ToPut(p, o) => Unrefused(p)
  <1> PICK r \in Runs : r = run[p]
    BY RunTyped DEF TypeOK
  <1>1. r.exit # "in_use" /\ AtOwnStep(r)
    BY RunTyped DEF TypeOK
  <1>2. \A code : Ended(r, code).exit = code
    BY EndedIs
  <1>3. Stepped(r).exit # "in_use"
    BY <1>1, SteppedExit
  <1>4. \A o : [r EXCEPT !.phase = "put", !.got = o].exit = r.exit
    BY DEF Runs
  <1> QED BY <1>1, <1>2, <1>3, <1>4 DEF Unrefused, Advance, ToPut

LEMMA CreateUnrefused ==
  ASSUME TypeOK, NEW p \in Operators, run[p].exit # "in_use", Create(p)
  PROVE  Unrefused(p)
  <1> PICK r \in Runs : r = run[p]
    BY RunTyped DEF TypeOK
  <1>1. r.exit # "in_use"
    OBVIOUS
  <1>2. ASSUME NEW k, NEW o, NEW ph, AtStep(p, "create", k, ph),
               Become(p, AfterEnsure(r, k, o))
        PROVE  Unrefused(p)
    BY <1>1, <1>2, AtCreate, AfterEnsureExit DEF Unrefused
  <1>3. ASSUME NEW k, EnsureLook(p, k) \/ EnsurePost(p, k) \/ EnsurePatch(p, k)
        PROVE  Unrefused(p)
    <2>1. CASE \E ph, o : AtStep(p, "create", k, ph) /\ Become(p, AfterEnsure(r, k, o))
      BY <1>2, <2>1
    <2>2. CASE Fail(p, "exists") \/ Fail(p, "gone") \/ \E o : ToPut(p, o)
      BY <2>2, Unrefusals DEF Fail
    <2> QED BY <1>3, <2>1, <2>2 DEF EnsureLook, EnsurePost, EnsurePatch
  <1>4. CASE TenantPost(p)
    BY <1>2, <1>4, Unrefusals DEF TenantPost, Fail
  <1>5. CASE TenantRecord(p)
    <2>1. CASE Advance(p) \/ Fail(p, "gone")
      BY <2>1, Unrefusals DEF Fail
    <2>2. ASSUME NEW t \in Named(p, "tenant"), NEW s,
                 s = [Stepped(r) EXCEPT
                        !.tid = IF @ # 0 THEN @ ELSE t.owner,
                        !.pid = t.owner,
                        !.seen = <<t.owner, NameOf[p]["group"]>> \in assigned],
                 Become(p, s)
          PROVE  Unrefused(p)
      <3> DEFINE u == Stepped(r)
                 id == IF u.tid # 0 THEN u.tid ELSE t.owner
                 now == <<t.owner, NameOf[p]["group"]>> \in assigned
      <3>1. u \in Runs /\ u.exit # "in_use"
        BY <1>1, <1>5, AtCreate, SteppedExit DEF TenantRecord
      <3>2. s = [u EXCEPT !.tid = id, !.pid = t.owner, !.seen = now]
        BY <2>2
      <3> HIDE DEF u, now
      <3>3. s.exit = u.exit
        BY <3>1, <3>2 DEF Runs
      <3> QED BY <2>2, <3>1, <3>3 DEF Unrefused
    <2> QED BY <1>5, <2>1, <2>2 DEF TenantRecord
  <1>6. CASE ApplyPermissions(p) \/ AssignLook(p) \/ AssignGroup(p)
    BY <1>6, Unrefusals DEF ApplyPermissions, AssignLook, AssignGroup, Fail
  <1>7. CASE BindLook(p)
    <2>1. \A g, ids : [r EXCEPT !.phase = "put", !.got = g, !.ids = ids].exit = r.exit
      BY DEF Runs
    <2> QED BY <1>1, <1>7, <2>1, Unrefusals DEF BindLook, Unrefused
  <1> QED BY <1>3, <1>4, <1>5, <1>6, <1>7 DEF Create

LEMMA DestroyUnrefused ==
  ASSUME DisjointNames, NoStrays, Sane, NEW p \in Operators, Watched(p), ~Unforeseen(p),
         run[p].exit # "in_use", Destroy(p)
  PROVE  Unrefused(p)
  <1> PICK r \in Runs : r = run[p]
    BY SaneRun
  <1>1. r.exit # "in_use" /\ TypeOK
    BY SaneRun
  <1>2. \A i, d, ph, o, ids :
          /\ Become(p, [r EXCEPT !.at = i]) => Unrefused(p)
          /\ Become(p, [r EXCEPT !.phase = ph]) => Unrefused(p)
          /\ Become(p, [r EXCEPT !.phase = ph, !.pid = d]) => Unrefused(p)
          /\ Become(p, [r EXCEPT !.phase = ph, !.tid = i, !.pid = d]) => Unrefused(p)
          /\ Become(p, [r EXCEPT !.phase = ph, !.got = o, !.ids = ids]) => Unrefused(p)
    <2>1. ASSUME NEW s, s.exit = r.exit, Become(p, s) PROVE Unrefused(p)
      BY <1>1, <2>1 DEF Unrefused
    <2> QED BY <2>1 DEF Runs
  <1>3. ASSUME NEW k, DeleteLook(p, k)
        PROVE  Unrefused(p)
    BY <1>1, <1>3, Unrefusals DEF DeleteLook
  <1>4. ASSUME NEW k, DeletePut(p, k)
        PROVE  Unrefused(p)
    <2>1. k \in Deleted /\ AtStep(p, "destroy", k, "put")
      BY <1>4 DEF DeletePut
    <2>2. /\ r.cmd = "destroy" /\ r.phase = "put" /\ ~r.dry
          /\ r.at \in 1..12 /\ DestroySteps[r.at] = k
      BY <2>1, DestroyRun, PutNotDry
    <2>3. r.at > 1
      BY <2>1, <2>2, DestroyPlaces DEF Deleted
    <2>4. Named(p, "view") = {}
      BY <2>2, <2>3 DEF Watched, Unforeseen, Idle
    <2> QED BY <1>1, <1>4, <2>1, <2>4, DeletesFree, Unrefusals DEF DeletePut, Fail
  <1>5. CASE FindTenant(p)
    BY <1>1, <1>2, <1>5 DEF FindTenant
  <1>6. CASE Preflight(p)
    BY <1>1, <1>6, Unrefusals DEF Preflight, Fail
  <1>7. CASE UnbindLook(p)
    BY <1>1, <1>2, <1>7, Unrefusals DEF UnbindLook
  <1>8. CASE ReapLook(p)
    BY <1>1, <1>2, <1>8, Unrefusals DEF ReapLook
  <1>9. CASE Reap(p)
    BY <1>1, <1>9, Unrefusals DEF Reap, Fail
  <1> QED BY <1>3, <1>4, <1>5, <1>6, <1>7, <1>8, <1>9 DEF Destroy

\* destroy deletes in an order in which VMS has no reason to refuse a DELETE:
\* nothing refers any more to what it has come to, and the tenant is empty when
\* its turn comes (destroy_tenant).  Only a broker view that no preflight of this
\* command could have seen gets in its way: one that came while it ran, or one
\* on a view policy it does not look for.  That nobody moves an object by hand
\* onto the tenant of another YAML is assumed.
THEOREM OrderIsSound ==
  ASSUME DisjointNames, NoStrays, EditsBetween PROVE Spec => OrderRespectsReferences
  <1>1. ASSUME Sane, ViewsWatched, Next, NEW p \in Operators,
               run[p].exit # "in_use", run'[p].exit = "in_use"
        PROVE  Unforeseen(p)
    <2> SUFFICES ASSUME ~Unforeseen(p) PROVE FALSE
      OBVIOUS
    <2>1. TypeOK
      BY <1>1 DEF Sane, Safe
    <2>2. PICK q \in Operators :
            \/ \E dry \in DryRuns : Start(q, dry)
            \/ ChangeGoal(q) \/ Stop(q) \/ Work(q)
            \/ \E pol \in BrokerPolicies : Enable(q, pol)
            \/ RemoveView(q) \/ Edit(q)
      BY <1>1 DEF Next
    <2>3. run'[p] # run[p]
      BY <1>1
    <2>4. p = q
      <3>1. UNCHANGED run \/ \E r : Become(q, r)
        BY <2>2, WorkBecomes DEF Start, ChangeGoal, Stop, Enable, RemoveView, Edit
      <3> QED BY <2>1, <2>3, <3>1, OneCommand
    <2>5. ~Unrefused(p)
      BY <1>1, <2>1, Becomes DEF Unrefused
    <2>6. CASE (\E dry \in DryRuns : Start(p, dry)) \/ Edit(p)
      <3>1. NoRun.exit # "in_use"
        BY DEF NoRun
      <3>2. ~\E dry \in DryRuns : Start(p, dry)
        <4> SUFFICES ASSUME NEW dry \in DryRuns, Start(p, dry) PROVE FALSE
          OBVIOUS
        <4> PICK s : s = [NoRun EXCEPT !.cmd = goal[p], !.dry = dry, !.phase = "look"]
          OBVIOUS
        <4>1. Become(p, s)
          BY DEF Start
        <4>2. s.exit # "in_use"
          BY DEF NoRun
        <4> QED BY <2>5, <4>1, <4>2 DEF Unrefused
      <3>3. ~Edit(p)
        <4> SUFFICES ASSUME Edit(p) PROVE FALSE
          OBVIOUS
        <4>1. Become(p, NoRun)
          BY DEF Edit, EditsBetween
        <4> QED BY <2>5, <3>1, <4>1 DEF Unrefused
      <3> QED BY <2>6, <3>2, <3>3
    <2>7. CASE Stop(p)
      BY <1>1, <2>1, <2>5, <2>7, Unrefusals DEF Stop
    <2>8. CASE Work(p)
      <3>1. CASE WritePolicies(p) \/ SkipPool(p)
        BY <1>1, <2>1, <2>5, <3>1, Unrefusals DEF WritePolicies, SkipPool, Fail
      <3> QED BY <1>1, <2>1, <2>5, <2>8, <3>1, CreateUnrefused, DestroyUnrefused
            DEF Work, ViewsWatched
    <2>9. CASE ChangeGoal(p) \/ (\E pol \in BrokerPolicies : Enable(p, pol)) \/ RemoveView(p)
      BY <2>3, <2>9 DEF ChangeGoal, Enable, RemoveView
    <2> QED BY <2>2, <2>4, <2>6, <2>7, <2>8, <2>9
  <1>2. Sane /\ ViewsWatched /\ [Next]_vars =>
          [\A p \in Operators :
             (run[p].exit # "in_use" /\ run'[p].exit = "in_use") => Unforeseen(p)]_vars
    BY <1>1
  <1> QED BY <1>2, AlwaysSane, AlwaysWatched, PTL DEF Spec, OrderRespectsReferences
=============================================================================
