-------------------------- MODULE EnablementProofs --------------------------
(***************************************************************************)
(* Proofs about `enable` for every timeout, every backoff, every duration  *)
(* of a request or of a provisioning, and every bound; the last section is *)
(* about interactive sessions, whose runs take the same steps.             *)
(***************************************************************************)
EXTENDS InteractiveProperties, TLAPS

-----------------------------------------------------------------------------
(* The record of a run                                                     *)

Exits == {"none", "ok", "error", "timeout"}

LEMMA StepsLength == Len(Steps) = 20
  BY DEF Steps

LEMMA NoRunTyped == NoRun \in Runs
  BY StepsLength, ConstantsOK DEF NoRun, Runs, Commands

\* At the start of a retry loop, and outside of one.
Rested(r) == r.elapsed = 0 /\ r.backoff = InitialBackoff

LEMMA AdvancedTyped ==
  ASSUME NEW r \in Runs, r.at > 0
  PROVE  Advanced(r) \in Runs /\ Rested(Advanced(r)) /\ Advanced(r).exit \in {r.exit, "ok"}
  <1> DEFINE next == [r EXCEPT !.elapsed = 0, !.backoff = InitialBackoff]
             last == [next EXCEPT !.at = 0, !.exit = "ok"]
             more == [next EXCEPT !.at = @ + 1]
  <1>1. r.at \in 1..20
    BY StepsLength DEF Runs
  <1>2. next \in Runs /\ next.at = r.at /\ Rested(next) /\ next.exit = r.exit
    BY ConstantsOK DEF Runs, Rested
  <1> HIDE DEF next
  <1>3. last \in Runs /\ Rested(last) /\ last.exit = "ok"
    <2>1. 0 \in 0..Len(Steps)
      BY StepsLength
    <2>2. last \in Runs
      BY <1>2, <2>1 DEF Runs
    <2> QED BY <1>2, <2>2 DEF Runs, Rested
  <1>4. ASSUME r.at # 20
        PROVE  more \in Runs /\ Rested(more) /\ more.exit = r.exit
    <2>1. next.at + 1 \in 0..20
      BY <1>1, <1>2, <1>4
    <2> QED BY <1>2, <2>1, StepsLength DEF Runs, Rested
  <1>5. Advanced(r) = IF r.at = 20 THEN last ELSE more
    BY StepsLength DEF Advanced, next
  <1> QED BY <1>3, <1>4, <1>5

LEMMA EndedTyped ==
  ASSUME NEW r \in Runs, NEW code \in Exits
  PROVE  /\ Ended(r, code) \in Runs /\ Ended(r, code).elapsed = 0
         /\ Ended(r, code).backoff = r.backoff /\ Ended(r, code).exit = code
  <1> DEFINE e == [r EXCEPT !.at = 0, !.elapsed = 0, !.exit = code]
  <1>1. 0 \in 0..Len(Steps)
    BY StepsLength
  <1>2. e \in Runs
    BY <1>1 DEF Runs, Exits
  <1>3. e.elapsed = 0 /\ e.backoff = r.backoff /\ e.exit = code
    BY DEF Runs
  <1> QED BY <1>2, <1>3 DEF Ended

LEMMA ProceedTyped ==
  ASSUME run \in Runs, NEW s, At(s), Proceed
  PROVE  run' \in Runs /\ Rested(run') /\ run'.exit \in {run.exit, "ok"}
  BY AdvancedTyped DEF At, Proceed

LEMMA ExitTyped ==
  ASSUME run \in Runs, NEW code \in Exits, Exit(code)
  PROVE  /\ run' \in Runs /\ run'.elapsed = 0 /\ run'.backoff = run.backoff
         /\ run'.exit = code
  BY EndedTyped DEF Exit

LEMMA TouchedTyped ==
  ASSUME run \in Runs, Touched
  PROVE  /\ run' \in Runs /\ run'.elapsed = run.elapsed /\ run'.backoff = run.backoff
         /\ run'.exit = run.exit
  BY DEF Touched, Runs

LEMMA UseTyped ==
  ASSUME CountTyped, NEW b \in {"slow", "trouble"}, Use(b)
  PROVE  CountTyped'
  BY ConstantsOK DEF CountTyped, Use, Bounds

-----------------------------------------------------------------------------
(* The inductive invariant: types, the bounds of the retry loop, and one   *)
(* credential at most.                                                     *)

LoopInv == SleepsEndByDeadline /\ BackoffCapped /\ ReadinessNoticed
IInv == TypeOK /\ LoopInv /\ OneOfEach

LEMMA AtRest ==
  ASSUME run' \in Runs, run'.elapsed = 0, run'.backoff <= MaxBackoff
  PROVE  LoopInv'
  BY ConstantsOK DEF LoopInv, SleepsEndByDeadline, BackoffCapped, ReadinessNoticed

LEMMA ProceedKeeps ==
  ASSUME IInv, NEW s, At(s), Proceed
  PROVE  run' \in Runs /\ LoopInv'
  <1>1. run' \in Runs /\ Rested(run')
    BY ProceedTyped DEF IInv, TypeOK
  <1> QED BY <1>1, AtRest, ConstantsOK DEF Rested

LEMMA ExitKeeps ==
  ASSUME IInv, NEW code \in Exits, Exit(code)
  PROVE  run' \in Runs /\ LoopInv'
  BY ExitTyped, AtRest DEF IInv, TypeOK, LoopInv, BackoffCapped

\* Somebody else acts, and provisioning does not get further for it.
LEMMA TouchedKeeps ==
  ASSUME IInv, Touched, engine'.left = engine.left \/ engine'.left = 0
  PROVE  run' \in Runs /\ LoopInv'
  <1>1. run' \in Runs /\ run'.elapsed = run.elapsed /\ run'.backoff = run.backoff
    BY TouchedTyped DEF IInv, TypeOK
  <1> QED BY <1>1, ConstantsOK
      DEF IInv, LoopInv, SleepsEndByDeadline, BackoffCapped, ReadinessNoticed

LEMMA SameRunKeeps ==
  ASSUME IInv, UNCHANGED run, engine' = engine \/ engine'.left = 0
  PROVE  run' \in Runs /\ LoopInv'
  BY ConstantsOK DEF IInv, TypeOK, LoopInv, SleepsEndByDeadline, BackoffCapped, ReadinessNoticed

LEMMA WorldKept ==
  ASSUME IInv, UNCHANGED world
  PROVE  WorldTyped' /\ OneOfEach'
  BY DEF IInv, TypeOK, WorldTyped, OneOfEach, world, vms, de

LEMMA DeKept ==
  ASSUME IInv, UNCHANGED de
  PROVE  OneOfEach'
  BY DEF IInv, OneOfEach, de

-----------------------------------------------------------------------------
(* One lemma per action                                                    *)

LEMMA StartKeeps ==
  ASSUME IInv, NEW cmd \in Commands, NEW dry \in DryRuns, NEW lacks \in Lacks,
         Start(cmd, dry, lacks)
  PROVE  IInv'
  <1> DEFINE first == IF cmd = "tenant enable" THEN 1 ELSE 2
             r == [NoRun EXCEPT !.cmd = cmd, !.dry = dry, !.lacks = lacks, !.at = first]
  <1>1. first \in 0..Len(Steps) /\ lacks \in SUBSET Needs /\ dry \in BOOLEAN
    BY StepsLength, ConstantsOK
  <1> HIDE DEF first
  <1>2. r \in Runs /\ r.elapsed = 0 /\ r.backoff = InitialBackoff
    <2>1. r \in Runs
      BY <1>1, NoRunTyped DEF Runs
    <2>2. r.elapsed = NoRun.elapsed /\ r.backoff = NoRun.backoff
      BY NoRunTyped DEF Runs
    <2>3. NoRun.elapsed = 0 /\ NoRun.backoff = InitialBackoff
      BY DEF NoRun
    <2> QED BY <2>1, <2>2, <2>3
  <1>3. run' = r
    BY DEF Start, first
  <1>4. LoopInv'
    BY <1>2, <1>3, AtRest, ConstantsOK
  <1>5. CountTyped'
    BY UseTyped DEF Start, IInv, TypeOK, CountTyped
  <1> QED BY <1>2, <1>3, <1>4, <1>5, WorldKept DEF IInv, TypeOK, Start

LEMMA CrashKeeps == ASSUME IInv, Crash PROVE IInv'
  <1>1. CountTyped'
    BY UseTyped DEF Crash, IInv, TypeOK
  <1>2. run' \in Runs /\ LoopInv'
    BY ExitKeeps DEF Crash, Exits
  <1> QED BY <1>1, <1>2, WorldKept DEF IInv, TypeOK, Crash

LEMMA DiscoverKeeps == ASSUME IInv, Discover PROVE IInv'
  <1>1. run' \in Runs /\ LoopInv'
    <2>1. Proceed \/ Exit("error")
      BY DEF Discover
    <2> QED BY <2>1, ProceedKeeps, ExitKeeps DEF Discover, Exits
  <1> QED BY <1>1, WorldKept DEF IInv, TypeOK, Discover, CountTyped

LEMMA PreflightKeeps == ASSUME IInv, Preflight PROVE IInv'
  <1>1. run' \in Runs /\ LoopInv'
    BY ProceedKeeps DEF Preflight
  <1> QED BY <1>1, WorldKept DEF IInv, TypeOK, Preflight, CountTyped

LEMMA K8sKeeps == ASSUME IInv, ZarfInit \/ ZarfCut \/ PackageDeploy \/ RepairZarf PROVE IInv'
  <1>1. run' \in Runs /\ LoopInv'
    <2>1. CASE ZarfInit
      BY <2>1, ProceedKeeps DEF ZarfInit
    <2>2. CASE ZarfCut
      BY <2>2, ExitKeeps DEF ZarfCut, Exits
    <2>3. CASE PackageDeploy
      <3>1. Proceed \/ Exit("error")
        BY <2>3 DEF PackageDeploy
      <3> QED BY <2>3, <3>1, ProceedKeeps, ExitKeeps DEF PackageDeploy, Exits
    <2>4. CASE RepairZarf
      BY <2>4, SameRunKeeps DEF RepairZarf, de
    <2> QED BY <2>1, <2>2, <2>3, <2>4
  <1>2. CountTyped'
    BY UseTyped DEF IInv, TypeOK, CountTyped, ZarfInit, ZarfCut, PackageDeploy, RepairZarf
  <1>3. UNCHANGED <<vms, de>> /\ k8s' \in SUBSET K8sParts
    <2>1. k8s \in SUBSET K8sParts
      BY DEF IInv, TypeOK, WorldTyped
    <2>2. UNCHANGED <<vms, de>>
      BY DEF ZarfInit, ZarfCut, PackageDeploy, RepairZarf
    <2>3. \E parts \in SUBSET K8sParts : k8s' = k8s \union parts
      <3>1. /\ {} \in SUBSET K8sParts
            /\ {"limits"} \in SUBSET K8sParts
            /\ {"limits", "ns"} \in SUBSET K8sParts
            /\ {"limits", "ns", "zarf"} \in SUBSET K8sParts
            /\ {"spaces"} \in SUBSET K8sParts
            /\ {"spaces", "package"} \in SUBSET K8sParts
            /\ {"zarf"} \in SUBSET K8sParts
        BY DEF K8sParts
      <3>2. CASE ZarfInit
        <4>1. \/ k8s' = k8s \union {}
              \/ k8s' = k8s \union {"limits"}
              \/ k8s' = k8s \union {"limits", "ns", "zarf"}
          BY <3>2 DEF ZarfInit
        <4> QED BY <3>1, <4>1
      <3>3. CASE ZarfCut
        BY <3>1, <3>3 DEF ZarfCut
      <3>4. CASE PackageDeploy
        <4>1. \/ k8s' = k8s \union {}
              \/ k8s' = k8s \union {"spaces"}
              \/ k8s' = k8s \union {"spaces", "package"}
          BY <3>4 DEF PackageDeploy
        <4> QED BY <3>1, <4>1
      <3>5. CASE RepairZarf
        BY <3>1, <3>5 DEF RepairZarf
      <3> QED BY <3>2, <3>3, <3>4, <3>5
    <2> QED BY <2>1, <2>2, <2>3
  <1>4. WorldTyped'
    BY <1>3 DEF IInv, TypeOK, WorldTyped, vms, de
  <1> QED BY <1>1, <1>2, <1>3, <1>4, DeKept DEF IInv, TypeOK

EnsuredKinds == {"tenant", "group", "user", "pool", "policy", "view", "source"}

LEMMA EnsureKeeps ==
  ASSUME IInv, NEW k \in EnsuredKinds, EnsureStep(k)
  PROVE  IInv'
  <1>1. run' \in Runs /\ LoopInv'
    <2>1. Proceed \/ Exit("error")
      BY DEF EnsureStep
    <2> QED BY <2>1, ProceedKeeps, ExitKeeps DEF EnsureStep, Exits
  <1>2. objs' \in SUBSET Kinds /\ strays' \in SUBSET {"group", "user"}
    BY DEF IInv, TypeOK, WorldTyped, EnsureStep, OnDefaultProvider, EnsuredKinds, Kinds, CreatedKinds
  <1>3. WorldTyped' /\ CountTyped' /\ UNCHANGED de
    BY <1>2 DEF IInv, TypeOK, WorldTyped, CountTyped, EnsureStep, de
  <1> QED BY <1>1, <1>3, DeKept DEF IInv, TypeOK

LEMMA RoleKeeps == ASSUME IInv, EnsureRole PROVE IInv'
  <1>1. run' \in Runs /\ LoopInv'
    <2>1. Proceed \/ Exit("error")
      BY DEF EnsureRole
    <2> QED BY <2>1, ProceedKeeps, ExitKeeps DEF EnsureRole, Exits
  <1>2. CountTyped'
    BY UseTyped DEF IInv, TypeOK, CountTyped, EnsureRole
  <1>3. objs' \in SUBSET Kinds /\ perms' \in BOOLEAN
    BY DEF IInv, TypeOK, WorldTyped, EnsureRole, Kinds, CreatedKinds
  <1>4. WorldTyped' /\ UNCHANGED de
    BY <1>3 DEF IInv, TypeOK, WorldTyped, EnsureRole, de
  <1> QED BY <1>1, <1>2, <1>4, DeKept DEF IInv, TypeOK

LEMMA ManagerKeeps == ASSUME IInv, EnsureManager PROVE IInv'
  <1>1. run' \in Runs /\ LoopInv'
    BY ProceedKeeps DEF EnsureManager
  <1>2. CountTyped'
    BY UseTyped DEF IInv, TypeOK, CountTyped, EnsureManager
  <1>3. objs' \in SUBSET Kinds /\ pw' \in BOOLEAN
    BY DEF IInv, TypeOK, WorldTyped, EnsureManager, Kinds, CreatedKinds
  <1>4. WorldTyped' /\ UNCHANGED de
    BY <1>3 DEF IInv, TypeOK, WorldTyped, EnsureManager, de
  <1> QED BY <1>1, <1>2, <1>4, DeKept DEF IInv, TypeOK

LEMMA TopicKeeps ==
  ASSUME IInv, NEW k \in {"default", "dead"}, EnsureTopic(k)
  PROVE  IInv'
  <1>1. run' \in Runs /\ LoopInv'
    BY ProceedKeeps DEF EnsureTopic
  <1>2. CountTyped'
    BY UseTyped DEF IInv, TypeOK, CountTyped, EnsureTopic
  <1>3. objs' \in SUBSET Kinds
    BY DEF IInv, TypeOK, WorldTyped, EnsureTopic, Kinds
  <1>4. WorldTyped' /\ UNCHANGED de
    BY <1>3 DEF IInv, TypeOK, WorldTyped, EnsureTopic, de
  <1> QED BY <1>1, <1>2, <1>4, DeKept DEF IInv, TypeOK

LEMMA ToggleKeeps ==
  ASSUME IInv, ToggleSkipped \/ \E d \in Durations : Toggle(d)
  PROVE  IInv'
  <1>1. run' \in Runs /\ LoopInv'
    BY ProceedKeeps DEF Toggle, ToggleSkipped
  <1>2. CountTyped'
    BY UseTyped DEF IInv, TypeOK, CountTyped, Toggle, ToggleSkipped
  <1>3. CASE ToggleSkipped
    BY <1>1, <1>2, <1>3, WorldKept DEF IInv, TypeOK, ToggleSkipped
  <1>4. CASE \E d \in Durations : Toggle(d)
    <2>1. engine' \in [on : BOOLEAN, left : Int, bound : BOOLEAN]
      <3>1. PICK d \in Durations : engine' = [engine EXCEPT !.on = TRUE, !.left = d]
        BY <1>4 DEF Toggle
      <3>2. d \in Int /\ engine \in [on : BOOLEAN, left : Int, bound : BOOLEAN]
        BY ConstantsOK DEF IInv, TypeOK, WorldTyped
      <3> QED BY <3>1, <3>2
    <2>2. UNCHANGED <<vms, k8s, creds, cluster, cr, registry, lastGuid>>
      BY <1>4 DEF Toggle
    <2>3. WorldTyped'
      BY <2>1, <2>2 DEF IInv, TypeOK, WorldTyped, vms
    <2>4. OneOfEach'
      BY <2>2 DEF IInv, OneOfEach
    <2> QED BY <1>1, <1>2, <2>3, <2>4 DEF IInv, TypeOK
  <1> QED BY <1>3, <1>4

-----------------------------------------------------------------------------
(* The calls                                                               *)

LEMMA TimeTyped ==
  ASSUME IInv, NEW t \in Nat
  PROVE  /\ Later(t) \in [on : BOOLEAN, left : Int, bound : BOOLEAN]
         /\ Later(t).left = engine.left - t
         /\ Settled(Later(t)) \in [on : BOOLEAN, left : Int, bound : BOOLEAN]
  <1>1. engine \in [on : BOOLEAN, left : Int, bound : BOOLEAN]
    BY DEF IInv, TypeOK, WorldTyped
  <1>2. /\ Later(t) \in [on : BOOLEAN, left : Int, bound : BOOLEAN]
        /\ Later(t).left = engine.left - t
    BY <1>1 DEF Later
  <1> QED BY <1>2 DEF Settled

LEMMA FindKeeps ==
  ASSUME IInv, NEW c \in Calls, NEW t \in RequestTimes, FindKnown(c, t)
  PROVE  IInv'
  <1> DEFINE g == IF c = "mtls" THEN CHOOSE x \in creds : TRUE ELSE Advanced(run).guid
  <1>1. Advanced(run) \in Runs /\ Rested(Advanced(run))
    BY AdvancedTyped DEF IInv, TypeOK, FindKnown, At
  <1>2. g \in Nat
    <2>1. CASE c = "mtls"
      <3>1. creds # {} /\ creds \subseteq Nat
        BY <2>1 DEF FindKnown, Known, IInv, TypeOK, WorldTyped
      <3> QED BY <2>1, <3>1
    <2>2. CASE c # "mtls"
      BY <1>1, <2>2 DEF Runs
    <2> QED BY <2>1, <2>2
  <1>3. run' = [Advanced(run) EXCEPT !.guid = g]
    BY DEF FindKnown
  <1> HIDE DEF g
  <1>4. run' \in Runs /\ run'.elapsed = 0 /\ run'.backoff = InitialBackoff
    BY <1>1, <1>2, <1>3 DEF Runs, Rested
  <1>5. t \in Nat
    BY ConstantsOK
  <1>6. WorldTyped' /\ OneOfEach' /\ CountTyped'
    BY <1>5, TimeTyped DEF FindKnown, IInv, TypeOK, WorldTyped, OneOfEach, CountTyped, vms
  <1> QED BY <1>4, <1>6, AtRest, ConstantsOK DEF IInv, TypeOK

LEMMA RegisterKeeps ==
  ASSUME IInv, NEW c \in Calls, NEW t \in RequestTimes, Register(c, t)
  PROVE  IInv'
  <1> DEFINE g == IF c = "mtls" THEN lastGuid + 1 ELSE Advanced(run).guid
             made == [Advanced(run) EXCEPT !.made = TRUE]
  <1>1. Advanced(run) \in Runs /\ Rested(Advanced(run))
    BY AdvancedTyped DEF IInv, TypeOK, Register, At
  <1>2. lastGuid \in Nat /\ creds \in SUBSET (1..lastGuid) /\ cluster \in 0..lastGuid
    BY DEF IInv, TypeOK, WorldTyped
  <1>3. g \in Nat
    BY <1>1, <1>2 DEF Runs
  <1>4. run' \in Runs /\ run'.elapsed = 0 /\ run'.backoff = InitialBackoff
    <2>1. made \in Runs /\ Rested(made) /\ made.guid = Advanced(run).guid
      BY <1>1 DEF Runs, Rested
    <2>2. run' = [made EXCEPT !.guid = g]
      BY <2>1 DEF Register
    <2> HIDE DEF g, made
    <2> QED BY <1>3, <2>1, <2>2 DEF Runs, Rested
  <1>5. engine' \in [on : BOOLEAN, left : Int, bound : BOOLEAN]
    BY TimeTyped, ConstantsOK DEF Register
  <1>6. lastGuid' \in Nat /\ creds' \in SUBSET (1..lastGuid') /\ cluster' \in 0..lastGuid'
        /\ OneOfEach'
    <2>1. CASE c = "mtls"
      <3>1. creds = {} /\ cluster' = cluster
        BY <2>1 DEF Register, Known
      <3>2. cluster = 0
        BY <3>1 DEF IInv, OneOfEach
      <3>3. lastGuid' = lastGuid + 1 /\ creds' = {lastGuid + 1}
        BY <2>1, <3>1 DEF Register
      <3> QED BY <1>2, <3>1, <3>2, <3>3 DEF OneOfEach
    <2>2. CASE c = "cluster"
      <3>1. run.guid \in creds /\ cluster' = run.guid /\ lastGuid' = lastGuid /\ creds' = creds
        BY <2>2 DEF Register, Grants
      <3>2. cluster' \in creds' /\ \A x, y \in creds' : x = y
        BY <3>1 DEF IInv, OneOfEach
      <3>3. run.guid \in 0..lastGuid
        <4>1. \A x \in creds : x \in 0..lastGuid
          BY <1>2
        <4> QED BY <3>1, <4>1
      <3>4. OneOfEach'
        BY <3>2 DEF OneOfEach
      <3> QED BY <1>2, <3>1, <3>3, <3>4
    <2>3. CASE c = "registry"
      <3>1. cluster' = cluster /\ lastGuid' = lastGuid /\ creds' = creds
        BY <2>3 DEF Register
      <3>2. OneOfEach'
        BY <3>1 DEF IInv, OneOfEach
      <3> QED BY <1>2, <3>1, <3>2
    <2> QED BY <2>1, <2>2, <2>3 DEF Calls
  <1>7. cr' \in {"none", "live", "deleting"} /\ registry' \in BOOLEAN
    BY DEF Register, IInv, TypeOK, WorldTyped
  <1>8. WorldTyped' /\ CountTyped'
    BY <1>5, <1>6, <1>7 DEF Register, IInv, TypeOK, WorldTyped, CountTyped, vms
  <1> QED BY <1>4, <1>6, <1>8, AtRest, ConstantsOK DEF IInv, TypeOK

LEMMA WaitKeeps ==
  ASSUME IInv, NEW c \in Calls, NEW t \in RequestTimes, Wait(c, t)
  PROVE  IInv'
  <1> DEFINE spent == run.elapsed + t
             pause == Pause(spent)
             next == NextBackoff(run.backoff)
  <1>1. t \in 0..MaxRequest /\ MaxRequest \in Nat /\ Timeout \in Nat /\ MaxBackoff \in Nat \ {0}
    BY ConstantsOK
  <1>2. run \in Runs /\ run.elapsed \in Nat /\ run.backoff \in Nat /\ run.backoff <= MaxBackoff
    BY DEF IInv, TypeOK, LoopInv, BackoffCapped, Runs
  <1>3. spent < Timeout /\ spent \in Nat
    BY <1>1, <1>2 DEF Wait
  <1>4. pause \in Nat /\ pause <= MaxBackoff /\ spent + pause <= Timeout
    BY <1>1, <1>2, <1>3 DEF Pause, Smaller
  <1>5. next \in Nat /\ next <= MaxBackoff
    BY <1>1, <1>2 DEF NextBackoff, Smaller
  <1>6. engine.left > 0 /\ engine.left \in Int
    BY DEF Wait, RefusedBusy, Busy, IInv, TypeOK, WorldTyped
  <1>7. /\ run' = [run EXCEPT !.elapsed = spent + pause, !.backoff = next]
        /\ engine' = Later(t + pause)
    BY DEF Wait
  <1> HIDE DEF spent, pause, next
  <1>8. run' \in Runs /\ run'.elapsed = spent + pause /\ run'.backoff = next
    <2> DEFINE total == spent + pause
               later == [run EXCEPT !.elapsed = total, !.backoff = next]
    <2>1. total \in Nat
      BY <1>3, <1>4
    <2>2. run' = later
      BY <1>7
    <2> HIDE DEF total
    <2>3. later \in Runs
      BY <1>2, <1>5, <2>1 DEF Runs
    <2>4. later.elapsed = total /\ later.backoff = next
      BY <1>2 DEF Runs
    <2> QED BY <2>2, <2>3, <2>4 DEF total
  <1>9. /\ engine' \in [on : BOOLEAN, left : Int, bound : BOOLEAN]
        /\ engine'.left = engine.left - (t + pause)
    BY <1>1, <1>4, <1>7, TimeTyped
  <1>10. engine'.left > -(MaxBackoff + MaxRequest)
    BY <1>1, <1>4, <1>6, <1>9
  <1>11. LoopInv'
    BY <1>4, <1>5, <1>8, <1>10 DEF LoopInv, SleepsEndByDeadline, BackoffCapped, ReadinessNoticed
  <1>12. UNCHANGED <<vms, k8s, creds, cluster, cr, registry, lastGuid, count>>
    BY DEF Wait
  <1>13. WorldTyped' /\ OneOfEach' /\ CountTyped'
    BY <1>9, <1>12 DEF IInv, TypeOK, WorldTyped, OneOfEach, CountTyped, vms
  <1> QED BY <1>8, <1>11, <1>13 DEF IInv, TypeOK

LEMMA GiveUpKeeps ==
  ASSUME IInv, NEW c \in Calls, NEW t \in RequestTimes, GiveUp(c, t)
  PROVE  IInv'
  <1>1. run' \in Runs /\ LoopInv'
    BY ExitKeeps DEF GiveUp, Exits
  <1>2. engine' \in [on : BOOLEAN, left : Int, bound : BOOLEAN]
    BY TimeTyped, ConstantsOK DEF GiveUp
  <1>3. UNCHANGED <<vms, k8s, creds, cluster, cr, registry, lastGuid, count>>
    BY DEF GiveUp
  <1>4. WorldTyped' /\ OneOfEach' /\ CountTyped'
    BY <1>2, <1>3 DEF IInv, TypeOK, WorldTyped, OneOfEach, CountTyped, vms
  <1> QED BY <1>1, <1>4 DEF IInv, TypeOK

LEMMA CallKeeps == ASSUME IInv, NEW c \in Calls, Call(c) PROVE IInv'
  <1>1. CASE SkipCall(c)
    <2>1. run' \in Runs /\ LoopInv'
      BY <1>1, ProceedKeeps DEF SkipCall
    <2> QED BY <1>1, <2>1, WorldKept DEF SkipCall, IInv, TypeOK, CountTyped
  <1>2. CASE CallFails(c)
    <2>1. run' \in Runs /\ LoopInv'
      BY <1>2, ExitKeeps DEF CallFails, Exits
    <2> QED BY <1>2, <2>1, WorldKept DEF CallFails, IInv, TypeOK, CountTyped
  <1>3. CASE \E t \in RequestTimes :
               FindKnown(c, t) \/ Register(c, t) \/ Wait(c, t) \/ GiveUp(c, t)
    BY <1>3, FindKeeps, RegisterKeeps, WaitKeeps, GiveUpKeeps
  <1> QED BY <1>1, <1>2, <1>3 DEF Call

LEMMA AttachKeeps == ASSUME IInv, AttachPolicy PROVE IInv'
  <1>1. run' \in Runs /\ LoopInv'
    BY ProceedKeeps DEF AttachPolicy
  <1>2. engine' \in [on : BOOLEAN, left : Int, bound : BOOLEAN]
    BY DEF AttachPolicy, IInv, TypeOK, WorldTyped
  <1>3. UNCHANGED <<vms, k8s, creds, cluster, cr, registry, lastGuid, count>>
    BY DEF AttachPolicy
  <1>4. WorldTyped' /\ OneOfEach' /\ CountTyped'
    BY <1>2, <1>3 DEF IInv, TypeOK, WorldTyped, OneOfEach, CountTyped, vms
  <1> QED BY <1>1, <1>4 DEF IInv, TypeOK

-----------------------------------------------------------------------------
(* The others                                                              *)

LEMMA OthersKeep ==
  ASSUME IInv, RemoveCluster \/ RemoveEngine \/ ResourceGone \/ RotatePassword \/ TimePasses
  PROVE  IInv'
  <1>1. CASE RemoveCluster
    <2>1. run' \in Runs /\ LoopInv'
      BY <1>1, TouchedKeeps DEF RemoveCluster
    <2>2. CountTyped'
      BY <1>1, UseTyped DEF RemoveCluster, IInv, TypeOK
    <2>3. creds' \subseteq creds /\ cluster' = 0 /\ cr' = "deleting"
          /\ UNCHANGED <<vms, k8s, engine, registry, lastGuid>>
      BY <1>1 DEF RemoveCluster
    <2>4. WorldTyped' /\ OneOfEach'
      BY <2>3 DEF IInv, TypeOK, WorldTyped, OneOfEach, vms
    <2> QED BY <2>1, <2>2, <2>4 DEF IInv, TypeOK
  <1>2. CASE RemoveEngine
    <2>1. engine' = [on |-> FALSE, left |-> 0, bound |-> FALSE]
      BY <1>2 DEF RemoveEngine
    <2>2. run' \in Runs /\ LoopInv'
      BY <1>2, <2>1, TouchedKeeps DEF RemoveEngine
    <2>3. CountTyped'
      BY <1>2, UseTyped DEF RemoveEngine, IInv, TypeOK
    <2>4. creds' = {} /\ cluster' = 0 /\ registry' = FALSE /\ cr' \in {"deleting", cr}
          /\ UNCHANGED <<vms, k8s, lastGuid>>
      BY <1>2 DEF RemoveEngine
    <2>5. engine' \in [on : BOOLEAN, left : Int, bound : BOOLEAN]
      BY <2>1
    <2>6. WorldTyped'
      <3>1. cr' \in {"none", "live", "deleting"} /\ registry' \in BOOLEAN
        BY <2>4 DEF IInv, TypeOK, WorldTyped
      <3>2. creds' \in SUBSET (1..lastGuid') /\ cluster' \in 0..lastGuid' /\ lastGuid' \in Nat
        BY <2>4 DEF IInv, TypeOK, WorldTyped
      <3>3. UNCHANGED <<objs, strays, perms, pw, k8s>>
        BY <2>4 DEF vms
      <3> QED BY <2>5, <3>1, <3>2, <3>3 DEF IInv, TypeOK, WorldTyped
    <2>7. OneOfEach'
      <3>1. creds' = {} /\ cluster' = 0
        BY <2>4
      <3> QED BY <3>1 DEF OneOfEach
    <2> QED BY <2>2, <2>3, <2>6, <2>7 DEF IInv, TypeOK
  <1>3. CASE ResourceGone
    <2>1. run' \in Runs /\ LoopInv'
      BY <1>3, SameRunKeeps DEF ResourceGone
    <2>2. cr' = "none" /\ UNCHANGED <<vms, k8s, engine, creds, cluster, registry, lastGuid, count>>
      BY <1>3 DEF ResourceGone
    <2>3. WorldTyped' /\ OneOfEach' /\ CountTyped'
      BY <2>2 DEF IInv, TypeOK, WorldTyped, OneOfEach, CountTyped, vms
    <2> QED BY <2>1, <2>3 DEF IInv, TypeOK
  <1>4. CASE RotatePassword
    <2>1. run' \in Runs /\ LoopInv'
      BY <1>4, SameRunKeeps DEF RotatePassword, de
    <2>2. CountTyped'
      BY <1>4, UseTyped DEF RotatePassword, IInv, TypeOK
    <2>3. pw' = FALSE /\ UNCHANGED <<objs, strays, perms, k8s, de>>
      BY <1>4 DEF RotatePassword
    <2>4. WorldTyped' /\ OneOfEach'
      BY <2>3 DEF IInv, TypeOK, WorldTyped, OneOfEach, de
    <2> QED BY <2>1, <2>2, <2>4 DEF IInv, TypeOK
  <1>5. CASE TimePasses
    <2>1. engine' = [engine EXCEPT !.left = 0]
      BY <1>5 DEF TimePasses
    <2>2. engine' \in [on : BOOLEAN, left : Int, bound : BOOLEAN] /\ engine'.left = 0
      BY <2>1 DEF IInv, TypeOK, WorldTyped
    <2>3. run' \in Runs /\ LoopInv'
      BY <1>5, <2>2, SameRunKeeps DEF TimePasses
    <2>4. UNCHANGED <<vms, k8s, creds, cluster, cr, registry, lastGuid, count>>
      BY <1>5 DEF TimePasses
    <2>5. WorldTyped' /\ OneOfEach' /\ CountTyped'
      BY <2>2, <2>4 DEF IInv, TypeOK, WorldTyped, OneOfEach, CountTyped, vms
    <2> QED BY <2>3, <2>5 DEF IInv, TypeOK
  <1> QED BY <1>1, <1>2, <1>3, <1>4, <1>5

-----------------------------------------------------------------------------

LEMMA InitInv == Init => IInv
  <1> SUFFICES ASSUME Init PROVE IInv
    OBVIOUS
  <1>1. run \in Runs /\ run.elapsed = 0 /\ run.backoff = InitialBackoff
    <2>1. NoRun.elapsed = 0 /\ NoRun.backoff = InitialBackoff
      BY DEF NoRun
    <2> QED BY <2>1, NoRunTyped DEF Init
  <1>2. LoopInv
    BY <1>1, ConstantsOK DEF LoopInv, SleepsEndByDeadline, BackoffCapped, ReadinessNoticed
  <1>3. CountTyped
    BY ConstantsOK DEF Init, CountTyped, Bounds
  <1>4. engine \in [on : BOOLEAN, left : Int, bound : BOOLEAN]
    BY DEF Init
  <1>5. objs \in SUBSET Kinds /\ perms \in BOOLEAN
    BY ConstantsOK DEF Init
  <1>6. creds = {} /\ cluster = 0 /\ lastGuid = 0 /\ strays = {} /\ k8s = {}
    BY DEF Init
  <1>7. WorldTyped
    <2>1. pw \in BOOLEAN /\ cr = "none" /\ registry \in BOOLEAN
      BY DEF Init
    <2> QED BY <1>4, <1>5, <1>6, <2>1 DEF WorldTyped
  <1>8. OneOfEach
    BY <1>6 DEF OneOfEach
  <1> QED BY <1>1, <1>2, <1>3, <1>7, <1>8 DEF IInv, TypeOK

LEMMA WorkKeeps == ASSUME IInv, Work PROVE IInv'
  <1>1. CASE Discover \/ Preflight \/ ZarfInit \/ PackageDeploy
    BY <1>1, DiscoverKeeps, PreflightKeeps, K8sKeeps
  <1>2. CASE \E k \in EnsuredKinds : EnsureStep(k)
    BY <1>2, EnsureKeeps
  <1>3. CASE EnsureRole \/ EnsureManager \/ \E k \in {"default", "dead"} : EnsureTopic(k)
    BY <1>3, RoleKeeps, ManagerKeeps, TopicKeeps
  <1>4. CASE ToggleSkipped \/ \E d \in Durations : Toggle(d)
    BY <1>4, ToggleKeeps
  <1>5. CASE (\E c \in Calls : Call(c)) \/ AttachPolicy
    BY <1>5, CallKeeps, AttachKeeps
  <1> QED BY <1>1, <1>2, <1>3, <1>4, <1>5 DEF Work, EnsuredKinds

LEMMA NextInv == ASSUME IInv, [Next]_vars PROVE IInv'
  <1>1. CASE \E cmd \in Commands, dry \in DryRuns, lacks \in Lacks : Start(cmd, dry, lacks)
    BY <1>1, StartKeeps
  <1>2. CASE Work \/ Crash \/ ZarfCut \/ RepairZarf
    BY <1>2, WorkKeeps, CrashKeeps, K8sKeeps
  <1>3. CASE RemoveCluster \/ RemoveEngine \/ ResourceGone \/ RotatePassword \/ TimePasses
    BY <1>3, OthersKeep
  <1>4. CASE UNCHANGED vars
    <2>1. UNCHANGED world /\ UNCHANGED run /\ UNCHANGED count
      BY <1>4 DEF vars
    <2>2. run' \in Runs /\ LoopInv'
      BY <2>1, SameRunKeeps DEF world, de
    <2> QED BY <2>1, <2>2, WorldKept DEF IInv, TypeOK, CountTyped
  <1> QED BY <1>1, <1>2, <1>3, <1>4 DEF Next

THEOREM Invariance == Spec => []IInv
  <1>1. Init => IInv
    BY InitInv
  <1>2. IInv /\ [Next]_vars => IInv'
    BY NextInv
  <1> QED BY <1>1, <1>2, PTL DEF Spec

\* The tenant, the run and the bounds keep their types.
THEOREM EnableTypeCorrect == Spec => []TypeOK
  <1>1. IInv => TypeOK
    BY DEF IInv
  <1> QED BY <1>1, Invariance, PTL

\* For every timeout and every backoff, _retry_on_setup_provisioning neither
\* sleeps past its deadline nor overlooks for longer than one capped backoff
\* (and one request) that the tenant is ready.
THEOREM WaitsAreBounded == Spec => [](SleepsEndByDeadline /\ ReadinessNoticed)
  <1>1. IInv => SleepsEndByDeadline /\ ReadinessNoticed
    BY DEF IInv, LoopInv
  <1> QED BY <1>1, Invariance, PTL

\* However many runs are stopped, retried and repeated, there is one mTLS
\* credential at most, and a registered cluster refers to it.
THEOREM NoDuplicates == Spec => []OneOfEach
  <1>1. IInv => OneOfEach
    BY DEF IInv
  <1> QED BY <1>1, Invariance, PTL

-----------------------------------------------------------------------------
(* Timeouts                                                                *)

LEMMA OnlyGiveUp ==
  ASSUME IInv, Work, run.exit # "timeout", run'.exit = "timeout"
  PROVE  \E c \in Calls, t \in RequestTimes : GiveUp(c, t)
  <1>1. run \in Runs
    BY DEF IInv, TypeOK
  <1>2. ASSUME NEW s, At(s), Proceed \/ Exit("error") PROVE FALSE
    BY <1>1, <1>2, ProceedTyped, ExitTyped DEF Exits
  <1>3. ASSUME NEW c \in Calls, NEW t \in RequestTimes,
               FindKnown(c, t) \/ Register(c, t) \/ Wait(c, t)
        PROVE  FALSE
    <2>1. CASE FindKnown(c, t) \/ Register(c, t)
      <3>1. Advanced(run) \in Runs /\ Advanced(run).exit # "timeout"
        BY <1>1, <2>1, AdvancedTyped DEF FindKnown, Register, At
      <3>2. run'.exit = Advanced(run).exit
        BY <2>1, <3>1 DEF FindKnown, Register, Runs
      <3> QED BY <3>1, <3>2
    <2>2. CASE Wait(c, t)
      <3>1. run'.exit = run.exit
        BY <1>1, <2>2 DEF Wait, Runs
      <3> QED BY <3>1
    <2> QED BY <1>3, <2>1, <2>2
  <1>4. CASE Discover \/ Preflight \/ ZarfInit \/ PackageDeploy
    BY <1>2, <1>4 DEF Discover, Preflight, ZarfInit, PackageDeploy
  <1>5. CASE \E k \in EnsuredKinds : EnsureStep(k)
    BY <1>2, <1>5 DEF EnsureStep
  <1>6. CASE EnsureRole \/ EnsureManager \/ \E k \in {"default", "dead"} : EnsureTopic(k)
    BY <1>2, <1>6 DEF EnsureRole, EnsureManager, EnsureTopic
  <1>7. CASE ToggleSkipped \/ (\E d \in Durations : Toggle(d)) \/ AttachPolicy
    BY <1>2, <1>7 DEF ToggleSkipped, Toggle, AttachPolicy
  <1>8. CASE \E c \in Calls : Call(c)
    <2>1. PICK c \in Calls : Call(c)
      BY <1>8
    <2>2. ~SkipCall(c) /\ ~CallFails(c)
      BY <1>2 DEF SkipCall, CallFails
    <2> QED BY <1>3, <2>1, <2>2 DEF Call
  <1> QED BY <1>4, <1>5, <1>6, <1>7, <1>8 DEF Work, EnsuredKinds

\* For every timeout: a run reports that provisioning did not complete in time
\* only if VMS had still been busy at the deadline (less one request).
THEOREM NoFalseTimeout == Spec => TimeoutIsReal
  <1> DEFINE A == (run.exit # "timeout" /\ run'.exit = "timeout")
                    => engine.left + run.elapsed > Timeout - MaxRequest
  <1>1. IInv /\ [Next]_vars => A
    <2> SUFFICES ASSUME IInv, [Next]_vars, run.exit # "timeout", run'.exit = "timeout"
                 PROVE  engine.left + run.elapsed > Timeout - MaxRequest
      OBVIOUS
    <2>1. run \in Runs
      BY DEF IInv, TypeOK
    <2>2. CASE Work
      <3>1. PICK c \in Calls, t \in RequestTimes : GiveUp(c, t)
        BY <2>2, OnlyGiveUp
      <3>2. engine.left > 0 /\ run.elapsed + t >= Timeout
        BY <3>1 DEF GiveUp, RefusedBusy, Busy
      <3>3. engine.left \in Int /\ run.elapsed \in Nat /\ t \in 0..MaxRequest
        BY <2>1, ConstantsOK DEF IInv, TypeOK, WorldTyped, Runs
      <3> QED BY <3>2, <3>3, ConstantsOK
    <2>3. CASE \E cmd \in Commands, dry \in DryRuns, lacks \in Lacks : Start(cmd, dry, lacks)
      <3>1. run'.exit = NoRun.exit
        BY <2>3, NoRunTyped DEF Start, Runs
      <3> QED BY <3>1 DEF NoRun
    <2>4. CASE Crash \/ ZarfCut
      BY <2>1, <2>4, ExitTyped DEF Crash, ZarfCut, Exits
    <2>5. CASE RemoveCluster \/ RemoveEngine
      BY <2>1, <2>5, TouchedTyped DEF RemoveCluster, RemoveEngine
    <2>6. CASE ResourceGone \/ RotatePassword \/ RepairZarf \/ TimePasses \/ UNCHANGED vars
      BY <2>6 DEF ResourceGone, RotatePassword, RepairZarf, TimePasses, vars
    <2> QED BY <2>2, <2>3, <2>4, <2>5, <2>6 DEF Next
  <1> QED BY <1>1, Invariance, PTL DEF Spec, TimeoutIsReal

-----------------------------------------------------------------------------
(* Plans                                                                   *)

LEMMA DryWorkWritesNothing == ASSUME IInv, Work, run.dry PROVE UNCHANGED world
  <1>1. CASE Discover \/ Preflight \/ ZarfInit \/ PackageDeploy
    BY <1>1 DEF Discover, Preflight, ZarfInit, PackageDeploy, SkipsK8s, world
  <1>2. CASE \E k \in EnsuredKinds : EnsureStep(k)
    BY <1>2 DEF EnsureStep, world, vms
  <1>3. CASE EnsureRole \/ EnsureManager \/ \E k \in {"default", "dead"} : EnsureTopic(k)
    BY <1>3 DEF EnsureRole, EnsureManager, EnsureTopic, world, vms
  <1>4. CASE ToggleSkipped \/ \E d \in Durations : Toggle(d)
    BY <1>4 DEF ToggleSkipped, Toggle, MayToggle
  <1>5. CASE \E c \in Calls : Call(c)
    BY <1>5 DEF Call, SkipCall, CallFails, FindKnown, Register, Wait, GiveUp,
                RefusedBusy, SkipsCalls
  <1>6. CASE AttachPolicy
    <2>1. engine' = engine
      BY <1>6 DEF AttachPolicy, IInv, TypeOK, WorldTyped
    <2> QED BY <1>6, <2>1 DEF AttachPolicy, world, de
  <1> QED BY <1>1, <1>2, <1>3, <1>4, <1>5, <1>6 DEF Work, EnsuredKinds

\* A run with --plan writes nothing, whatever is on VMS and on Kubernetes.
THEOREM PlansWriteNothing == Spec => PlanWritesNothing
  <1>1. IInv /\ [Next]_vars => ((Work /\ run.dry) => UNCHANGED world)
    BY DryWorkWritesNothing
  <1> QED BY <1>1, Invariance, PTL DEF Spec, PlanWritesNothing

-----------------------------------------------------------------------------
(* Exit code 0 means what it says: although most failures are swallowed,   *)
(* the calls at the end of a run find each of them out.                    *)

\* A run of a complete YAML that nobody has interfered with.
Complete == ~run.dry /\ run.lacks = {} /\ ~run.touched

\* What a run knows when it has passed a call: the calls are the steps 17 to
\* 19 and the policy is the step 20.
Known17 == run.at >= 18 => engine.on
Known18 == run.at >= 19 => cluster # 0
Known19 == run.at >= 20 => registry
KnownAtEnd == run.exit = "ok" => engine.on /\ engine.bound /\ cluster # 0 /\ registry
Knows == Complete => Known17 /\ Known18 /\ Known19 /\ KnownAtEnd

\* A run has no exit code while it is at a step, a cluster has its VastTenant,
\* and what a run registers it registers on a provisioned tenant, which stays
\* so until the next setup-provisioning.
Running == run.at > 0 => run.exit = "none"
ClusterLives == cluster # 0 => cr = "live"
MadeWhenReady == run.made => (run.at = 0 \/ run.at >= 18) /\ engine.left <= 0
DInv == Running /\ ClusterLives /\ MadeWhenReady /\ Knows

-----------------------------------------------------------------------------
(* The steps of a run                                                      *)

LEMMA RunTyped == IInv => run \in Runs /\ run.at \in 0..20
  BY StepsLength DEF IInv, TypeOK, Runs

LEMMA Positions ==
  ASSUME IInv, NEW s, At(s)
  PROVE  /\ run.at \in 1..20
         /\ s = "mtls" => run.at = 17
         /\ s = "cluster" => run.at = 18
         /\ s = "registry" => run.at = 19
         /\ s = "attach" => run.at = 20
         /\ s \notin Calls \union {"attach"} => run.at <= 16
  <1>1. run.at \in 1..20
    BY RunTyped DEF At
  <1> QED BY <1>1 DEF At, Steps, Calls

SameRequest(r, q) ==
  /\ q.cmd = r.cmd /\ q.dry = r.dry /\ q.lacks = r.lacks
  /\ q.touched = r.touched /\ q.made = r.made /\ q.guid = r.guid

LEMMA AdvancedFields ==
  ASSUME NEW r \in Runs, r.at > 0
  PROVE  /\ SameRequest(r, Advanced(r))
         /\ r.at = 20 => Advanced(r).at = 0 /\ Advanced(r).exit = "ok"
         /\ r.at # 20 => Advanced(r).at = r.at + 1 /\ Advanced(r).exit = r.exit
  <1> DEFINE next == [r EXCEPT !.elapsed = 0, !.backoff = InitialBackoff]
             last == [next EXCEPT !.at = 0, !.exit = "ok"]
             more == [next EXCEPT !.at = @ + 1]
  <1>1. next \in Runs /\ next.at = r.at /\ next.exit = r.exit /\ SameRequest(r, next)
    BY ConstantsOK DEF Runs, SameRequest
  <1> HIDE DEF next
  <1>2. last.at = 0 /\ last.exit = "ok" /\ SameRequest(r, last)
    BY <1>1 DEF Runs, SameRequest
  <1>3. more.at = r.at + 1 /\ more.exit = r.exit /\ SameRequest(r, more)
    BY <1>1 DEF Runs, SameRequest
  <1>4. Advanced(r) = IF r.at = 20 THEN last ELSE more
    BY StepsLength DEF Advanced, next
  <1> QED BY <1>2, <1>3, <1>4

LEMMA ExitFields ==
  ASSUME run \in Runs, NEW code \in Exits, Exit(code)
  PROVE  run'.at = 0 /\ run'.exit = code /\ SameRequest(run, run')
  BY DEF Exit, Ended, Runs, SameRequest

\* A run that stops with an error, before or after anything else.
LEMMA ExitDelivers ==
  ASSUME IInv, DInv, NEW code \in Exits \ {"ok"}, Exit(code),
         UNCHANGED <<cluster, cr>>, run.made => engine'.left <= 0
  PROVE  DInv'
  <1>1. run'.at = 0 /\ run'.exit = code /\ SameRequest(run, run')
    BY RunTyped, ExitFields DEF Exits
  <1>2. Running' /\ ClusterLives'
    BY <1>1 DEF DInv, Running, ClusterLives
  <1>3. Knows'
    BY <1>1 DEF Knows, Known17, Known18, Known19, KnownAtEnd
  <1>4. MadeWhenReady'
    BY <1>1 DEF MadeWhenReady, SameRequest
  <1> QED BY <1>2, <1>3, <1>4 DEF DInv

\* A step before the calls.
LEMMA EarlyDelivers ==
  ASSUME IInv, DInv, NEW s, s \notin Calls \union {"attach"}, At(s), Proceed,
         UNCHANGED <<cluster, cr>>
  PROVE  DInv'
  <1>1. run \in Runs /\ run.at \in 1..16
    BY RunTyped, Positions
  <1>2. run' = Advanced(run)
    BY DEF Proceed
  <1>3. run'.at = run.at + 1 /\ run'.exit = run.exit /\ SameRequest(run, run')
    BY <1>1, <1>2, AdvancedFields
  <1>4. run'.exit = "none" /\ run'.at <= 17
    BY <1>1, <1>3 DEF DInv, Running
  <1>5. ~run'.made
    BY <1>1, <1>3 DEF DInv, MadeWhenReady, SameRequest
  <1>6. ClusterLives'
    BY DEF DInv, ClusterLives
  <1>7. Knows'
    BY <1>1, <1>3, <1>4 DEF Knows, Known17, Known18, Known19, KnownAtEnd
  <1> QED BY <1>4, <1>5, <1>6, <1>7 DEF DInv, Running, MadeWhenReady

-----------------------------------------------------------------------------
(* The calls                                                               *)

\* Whatever a call finds or registers, DataEngine is on.
LEMMA PassedDelivers ==
  ASSUME IInv, DInv, NEW c \in Calls, At(c),
         NEW r \in Runs, run' = r, r.at = run.at + 1, r.exit = run.exit,
         r.dry = run.dry, r.lacks = run.lacks, r.touched = run.touched,
         r.made => engine'.left <= 0,
         engine'.on = engine.on, engine.on,
         cluster' # 0 => cr' = "live",
         cluster # 0 => cluster' # 0, registry => registry',
         c = "cluster" => cluster' # 0, c = "registry" => registry'
  PROVE  DInv'
  <1>1. run.at \in 17..19
    BY Positions DEF Calls
  <1>2. run'.at = run.at + 1 /\ run'.exit = "none"
    BY <1>1 DEF DInv, Running
  <1>3. Running' /\ ClusterLives'
    BY <1>2 DEF Running, ClusterLives
  <1>4. MadeWhenReady'
    BY <1>1, <1>2 DEF DInv, MadeWhenReady
  <1>5. Knows'
    <2> SUFFICES ASSUME Complete' PROVE Known17' /\ Known18' /\ Known19' /\ KnownAtEnd'
      BY DEF Knows
    <2>1. Complete /\ Known17 /\ Known18 /\ Known19
      BY DEF DInv, Knows, Complete
    <2>2. Known17' /\ KnownAtEnd'
      BY <1>2 DEF Known17, KnownAtEnd
    <2>3. Known18'
      BY <1>1, <1>2, <2>1, Positions DEF Known18, Calls
    <2>4. Known19'
      BY <1>1, <1>2, <2>1, Positions DEF Known19, Calls
    <2> QED BY <2>2, <2>3, <2>4
  <1> QED BY <1>3, <1>4, <1>5 DEF DInv

LEMMA Ticks ==
  ASSUME IInv, NEW t \in RequestTimes
  PROVE  /\ Settled(Later(t)).on = engine.on
         /\ engine.left <= 0 => Settled(Later(t)).left <= 0
  <1>1. t \in Nat /\ engine \in [on : BOOLEAN, left : Int, bound : BOOLEAN]
    BY ConstantsOK DEF IInv, TypeOK, WorldTyped
  <1>2. /\ Later(t) \in [on : BOOLEAN, left : Int, bound : BOOLEAN]
        /\ Later(t).left = engine.left - t /\ Later(t).on = engine.on
    BY <1>1 DEF Later
  <1> HIDE DEF Later
  <1>3. Settled(Later(t)).on = Later(t).on /\ Settled(Later(t)).left \in {Later(t).left, 0}
    BY <1>2 DEF Settled
  <1> QED BY <1>1, <1>2, <1>3

LEMMA FindDelivers ==
  ASSUME IInv, DInv, NEW c \in Calls, NEW t \in RequestTimes, FindKnown(c, t)
  PROVE  DInv'
  <1>1. At(c) /\ run.at \in 17..19 /\ run \in Runs
    BY RunTyped, Positions DEF FindKnown, Calls
  <1>2. /\ Advanced(run) \in Runs /\ SameRequest(run, Advanced(run))
        /\ Advanced(run).at = run.at + 1 /\ Advanced(run).exit = run.exit
    BY <1>1, AdvancedTyped, AdvancedFields
  <1>3. run' \in Runs
    BY FindKeeps DEF IInv, TypeOK
  <1>4. /\ run'.at = run.at + 1 /\ run'.exit = run.exit /\ run'.dry = run.dry
        /\ run'.lacks = run.lacks /\ run'.touched = run.touched /\ run'.made = run.made
    <2> DEFINE a == Advanced(run)
               g == IF c = "mtls" THEN CHOOSE x \in creds : TRUE ELSE a.guid
    <2>1. run' = [a EXCEPT !.guid = g]
      BY DEF FindKnown
    <2>2. a \in Runs /\ SameRequest(run, a) /\ a.at = run.at + 1 /\ a.exit = run.exit
      BY <1>2
    <2> HIDE DEF a, g
    <2> QED BY <2>1, <2>2 DEF Runs, SameRequest
  <1>5. run.made => engine.left <= 0
    BY DEF DInv, MadeWhenReady
  <1>6. engine'.on = engine.on /\ (run.made => engine'.left <= 0)
    BY <1>5, Ticks DEF FindKnown
  <1>7. /\ engine.on /\ UNCHANGED <<cluster, cr, registry>>
        /\ (c = "cluster" => cluster # 0) /\ (c = "registry" => registry)
    BY DEF FindKnown, Listed, Known
  <1>8. cluster # 0 => cr = "live"
    BY DEF DInv, ClusterLives
  <1> QED BY <1>1, <1>3, <1>4, <1>6, <1>7, <1>8, PassedDelivers

LEMMA RegisterDelivers ==
  ASSUME IInv, DInv, NEW c \in Calls, NEW t \in RequestTimes, Register(c, t)
  PROVE  DInv'
  <1>1. At(c) /\ run.at \in 17..19 /\ run \in Runs
    BY RunTyped, Positions DEF Register, Calls
  <1>2. /\ Advanced(run) \in Runs /\ SameRequest(run, Advanced(run))
        /\ Advanced(run).at = run.at + 1 /\ Advanced(run).exit = run.exit
    BY <1>1, AdvancedTyped, AdvancedFields
  <1>3. run' \in Runs
    BY RegisterKeeps DEF IInv, TypeOK
  <1>4. /\ run'.at = run.at + 1 /\ run'.exit = run.exit /\ run'.dry = run.dry
        /\ run'.lacks = run.lacks /\ run'.touched = run.touched
    <2> DEFINE a == Advanced(run)
               b == [a EXCEPT !.made = TRUE]
               g == IF c = "mtls" THEN lastGuid + 1 ELSE b.guid
    <2>1. run' = [b EXCEPT !.guid = g]
      BY <1>2 DEF Register, Runs
    <2>2. a \in Runs /\ SameRequest(run, a) /\ a.at = run.at + 1 /\ a.exit = run.exit
      BY <1>2
    <2> HIDE DEF a, g
    <2>3. /\ b \in Runs /\ b.at = run.at + 1 /\ b.exit = run.exit /\ b.dry = run.dry
          /\ b.lacks = run.lacks /\ b.touched = run.touched
      BY <2>2 DEF Runs, SameRequest
    <2> HIDE DEF b
    <2> QED BY <2>1, <2>3 DEF Runs
  <1>5. engine.left \in Int /\ creds \in SUBSET (1..lastGuid) /\ lastGuid \in Nat
    BY DEF IInv, TypeOK, WorldTyped
  <1>6. engine'.on = engine.on /\ engine'.left <= 0
    BY <1>5, Ticks DEF Register, Busy
  <1>7. engine.on /\ (c = "registry" => registry') /\ (registry => registry')
    BY DEF Register, Listed
  <1>8. CASE c = "cluster"
    <2>1. cluster' = run.guid /\ run.guid \in creds /\ cr' = "live"
      BY <1>8 DEF Register, Grants
    <2>2. \A x \in creds : x # 0
      BY <1>5
    <2>3. cluster' # 0 /\ cr' = "live"
      BY <2>1, <2>2
    <2> QED BY <1>1, <1>3, <1>4, <1>6, <1>7, <1>8, <2>3, PassedDelivers
  <1>9. CASE c # "cluster"
    <2>1. cluster' = cluster /\ cr' = cr /\ (cluster # 0 => cr = "live")
      BY <1>9 DEF Register, DInv, ClusterLives
    <2> QED BY <1>1, <1>3, <1>4, <1>6, <1>7, <1>9, <2>1, PassedDelivers
  <1> QED BY <1>8, <1>9

LEMMA WaitDelivers ==
  ASSUME IInv, DInv, NEW c \in Calls, NEW t \in RequestTimes, Wait(c, t)
  PROVE  DInv'
  <1>1. run \in Runs /\ engine \in [on : BOOLEAN, left : Int, bound : BOOLEAN]
    BY DEF IInv, TypeOK, WorldTyped
  <1>2. engine.left > 0
    BY DEF Wait, RefusedBusy, Busy
  <1>3. ~run.made
    BY <1>1, <1>2 DEF DInv, MadeWhenReady
  <1>4. /\ run'.at = run.at /\ run'.exit = run.exit /\ run'.dry = run.dry
        /\ run'.lacks = run.lacks /\ run'.touched = run.touched /\ run'.made = run.made
    BY <1>1 DEF Wait, Runs
  <1>5. engine'.on = engine.on /\ engine'.bound = engine.bound
        /\ UNCHANGED <<cluster, cr, registry>>
    BY <1>1 DEF Wait, Later
  <1> QED BY <1>3, <1>4, <1>5 DEF DInv, Running, ClusterLives, MadeWhenReady,
             Knows, Complete, Known17, Known18, Known19, KnownAtEnd

LEMMA GiveUpDelivers ==
  ASSUME IInv, DInv, NEW c \in Calls, NEW t \in RequestTimes, GiveUp(c, t)
  PROVE  DInv'
  <1>1. engine.left > 0 /\ engine.left \in Int
    BY DEF GiveUp, RefusedBusy, Busy, IInv, TypeOK, WorldTyped
  <1>2. ~run.made
    BY <1>1 DEF DInv, MadeWhenReady
  <1> QED BY <1>2, ExitDelivers DEF GiveUp, Exits

\* Without a complete YAML the calls may be skipped, and nothing is promised.
LEMMA SkipDelivers ==
  ASSUME IInv, DInv, NEW c \in Calls, SkipCall(c)
  PROVE  DInv'
  <1>1. At(c) /\ run.at \in 17..19 /\ run \in Runs
    BY RunTyped, Positions DEF SkipCall, Calls
  <1>2. /\ SameRequest(run, run')
        /\ run'.at = run.at + 1 /\ run'.exit = run.exit
    BY <1>1, AdvancedFields DEF SkipCall, Proceed
  <1>3. ~Complete
    BY DEF SkipCall, SkipsCalls, HasAdmin, Complete
  <1>4. UNCHANGED <<engine, cluster, cr>>
    BY DEF SkipCall, world, de
  <1> QED BY <1>1, <1>2, <1>3, <1>4 DEF DInv, Running, ClusterLives, MadeWhenReady,
             Knows, Complete, SameRequest

LEMMA CallDelivers == ASSUME IInv, DInv, NEW c \in Calls, Call(c) PROVE DInv'
  <1>1. CASE CallFails(c)
    <2>1. UNCHANGED <<engine, cluster, cr>>
      BY <1>1 DEF CallFails, world, de
    <2> QED BY <1>1, <2>1, ExitDelivers DEF CallFails, Exits, DInv, MadeWhenReady
  <1>2. CASE SkipCall(c)
    BY <1>2, SkipDelivers
  <1>3. CASE \E t \in RequestTimes :
               FindKnown(c, t) \/ Register(c, t) \/ Wait(c, t) \/ GiveUp(c, t)
    BY <1>3, FindDelivers, RegisterDelivers, WaitDelivers, GiveUpDelivers
  <1> QED BY <1>1, <1>2, <1>3 DEF Call

\* The last step binds the group: the calls have seen that DataEngine is on.
LEMMA AttachDelivers == ASSUME IInv, DInv, AttachPolicy PROVE DInv'
  <1>1. run.at = 20 /\ run \in Runs
    BY RunTyped, Positions DEF AttachPolicy
  <1>2. SameRequest(run, run') /\ run'.at = 0
    BY <1>1, AdvancedFields DEF AttachPolicy, Proceed
  <1>3. engine \in [on : BOOLEAN, left : Int, bound : BOOLEAN]
    BY DEF IInv, TypeOK, WorldTyped
  <1>4. /\ engine'.on = engine.on /\ engine'.left = engine.left
        /\ (engine.on /\ ~run.dry => engine'.bound)
        /\ UNCHANGED <<cluster, cr, registry>>
    BY <1>3 DEF AttachPolicy
  <1>5. Knows'
    BY <1>1, <1>2, <1>4 DEF DInv, Knows, Complete, SameRequest,
       Known17, Known18, Known19, KnownAtEnd
  <1> QED BY <1>2, <1>4, <1>5 DEF DInv, Running, ClusterLives, MadeWhenReady, SameRequest

LEMMA ToggleDelivers ==
  ASSUME IInv, DInv, ToggleSkipped \/ \E d \in Durations : Toggle(d)
  PROVE  DInv'
  <1>1. At("toggle") /\ Proceed /\ UNCHANGED <<cluster, cr>>
    BY DEF ToggleSkipped, Toggle, world, de
  <1> QED BY <1>1, EarlyDelivers DEF Calls

\* The steps before the calls change nothing but objects and Kubernetes.
LEMMA WorkDelivers == ASSUME IInv, DInv, Work PROVE DInv'
  <1>1. ASSUME NEW s, s \notin Calls \union {"attach"}, At(s), UNCHANGED de,
               Proceed \/ Exit("error")
        PROVE  DInv'
    <2>1. UNCHANGED <<engine, cluster, cr>>
      BY <1>1 DEF de
    <2>2. run.made => engine'.left <= 0
      BY <2>1 DEF DInv, MadeWhenReady
    <2> QED BY <1>1, <2>1, <2>2, EarlyDelivers, ExitDelivers DEF Exits
  <1>2. CASE Discover \/ Preflight \/ ZarfInit \/ PackageDeploy
    BY <1>1, <1>2 DEF Discover, Preflight, ZarfInit, PackageDeploy, world, Calls
  <1>3. CASE \E k \in EnsuredKinds : EnsureStep(k)
    BY <1>1, <1>3 DEF EnsureStep, EnsuredKinds, Calls
  <1>4. CASE EnsureRole \/ EnsureManager \/ \E k \in {"default", "dead"} : EnsureTopic(k)
    BY <1>1, <1>4 DEF EnsureRole, EnsureManager, EnsureTopic, Calls
  <1>5. CASE ToggleSkipped \/ \E d \in Durations : Toggle(d)
    BY <1>5, ToggleDelivers
  <1>6. CASE (\E c \in Calls : Call(c)) \/ AttachPolicy
    BY <1>6, CallDelivers, AttachDelivers
  <1> QED BY <1>2, <1>3, <1>4, <1>5, <1>6 DEF Work, EnsuredKinds

-----------------------------------------------------------------------------
(* The others                                                              *)

LEMMA StartDelivers ==
  ASSUME IInv, DInv, NEW cmd \in Commands, NEW dry \in DryRuns, NEW lacks \in Lacks,
         Start(cmd, dry, lacks)
  PROVE  DInv'
  <1> DEFINE first == IF cmd = "tenant enable" THEN 1 ELSE 2
             r == [NoRun EXCEPT !.cmd = cmd, !.dry = dry, !.lacks = lacks, !.at = first]
  <1>1. first \in {1, 2}
    OBVIOUS
  <1>2. run' = r
    BY DEF Start
  <1> HIDE DEF first
  <1>3. NoRun.exit = "none" /\ NoRun.made = FALSE
    BY DEF NoRun
  <1>4. r.at = first /\ r.exit = NoRun.exit /\ r.made = NoRun.made
    BY NoRunTyped DEF Runs
  <1>5. UNCHANGED <<cluster, cr>>
    BY DEF Start, world, de
  <1> QED BY <1>1, <1>2, <1>3, <1>4, <1>5 DEF DInv, Running, ClusterLives, MadeWhenReady,
             Knows, Known17, Known18, Known19, KnownAtEnd

\* What others take away is no longer promised to the run.
LEMMA RemovalDelivers ==
  ASSUME IInv, DInv, RemoveCluster \/ RemoveEngine
  PROVE  DInv'
  <1>1. run \in Runs /\ Touched
    BY RunTyped DEF RemoveCluster, RemoveEngine
  <1>2. run'.touched /\ run'.at = run.at /\ run'.exit = run.exit /\ run'.made = run.made
    BY <1>1 DEF Touched, Runs
  <1>3. engine' = engine \/ engine'.left = 0
    BY DEF RemoveCluster, RemoveEngine
  <1>4. cluster' = 0
    BY DEF RemoveCluster, RemoveEngine
  <1> QED BY <1>2, <1>3, <1>4 DEF DInv, Running, ClusterLives, MadeWhenReady, Knows, Complete

LEMMA SameRunDelivers ==
  ASSUME IInv, DInv, ResourceGone \/ RotatePassword \/ RepairZarf \/ TimePasses
                       \/ UNCHANGED vars
  PROVE  DInv'
  <1>1. UNCHANGED <<run, cluster, registry>>
    BY DEF ResourceGone, RotatePassword, RepairZarf, TimePasses, vars, world, de
  <1>2. cr' = cr \/ cluster = 0
    BY DEF ResourceGone, RotatePassword, RepairZarf, TimePasses, vars, world, de,
           DInv, ClusterLives
  <1>3. /\ engine'.on = engine.on /\ engine'.bound = engine.bound
        /\ engine'.left = engine.left \/ engine'.left = 0
    <2>1. CASE TimePasses
      BY <2>1 DEF TimePasses, IInv, TypeOK, WorldTyped
    <2>2. CASE ~TimePasses
      BY <2>2 DEF ResourceGone, RotatePassword, RepairZarf, vars, world, de
    <2> QED BY <2>1, <2>2
  <1> QED BY <1>1, <1>2, <1>3 DEF DInv, Running, ClusterLives, MadeWhenReady,
             Knows, Complete, Known17, Known18, Known19, KnownAtEnd

-----------------------------------------------------------------------------

LEMMA InitDelivers == Init => DInv
  <1>1. NoRun.at = 0 /\ NoRun.exit = "none" /\ NoRun.made = FALSE
    BY DEF NoRun
  <1> QED BY <1>1 DEF Init, DInv, Running, ClusterLives, MadeWhenReady,
             Knows, Known17, Known18, Known19, KnownAtEnd

LEMMA NextDelivers == ASSUME IInv, DInv, [Next]_vars PROVE DInv'
  <1>1. CASE \E cmd \in Commands, dry \in DryRuns, lacks \in Lacks : Start(cmd, dry, lacks)
    BY <1>1, StartDelivers
  <1>2. CASE Work
    BY <1>2, WorkDelivers
  <1>3. CASE Crash \/ ZarfCut
    <2>1. Exit("error") /\ UNCHANGED <<engine, cluster, cr>>
      BY <1>3 DEF Crash, ZarfCut, world, de
    <2> QED BY <2>1, ExitDelivers DEF Exits, DInv, MadeWhenReady
  <1>4. CASE RemoveCluster \/ RemoveEngine
    BY <1>4, RemovalDelivers
  <1>5. CASE ResourceGone \/ RotatePassword \/ RepairZarf \/ TimePasses \/ UNCHANGED vars
    BY <1>5, SameRunDelivers
  <1> QED BY <1>1, <1>2, <1>3, <1>4, <1>5 DEF Next

LEMMA InvDelivers == ASSUME IInv, DInv PROVE EnableDelivers
  <1> SUFFICES ASSUME run.exit = "ok", Complete PROVE Delivered /\ (run.made => ~Busy)
    BY DEF EnableDelivers, Complete
  <1>1. engine.on /\ engine.bound /\ cluster # 0 /\ registry
    BY DEF DInv, Knows, KnownAtEnd
  <1>2. cluster \in creds /\ cr = "live"
    BY <1>1 DEF IInv, OneOfEach, DInv, ClusterLives
  <1>3. engine.left \in Int
    BY DEF IInv, TypeOK, WorldTyped
  <1>4. run.made => ~Busy
    BY <1>3 DEF DInv, MadeWhenReady, Busy
  <1> QED BY <1>1, <1>2, <1>4 DEF Delivered

\* Exit code 0 of a run of a complete YAML, whatever failures it has swallowed
\* and whatever earlier runs left: DataEngine is on, its policy has the group,
\* and registry, cluster and credential are there and refer to one another,
\* unless others took something away since the run began.
THEOREM ZeroMeansDelivered == Spec => []EnableDelivers
  <1>1. Init => IInv /\ DInv
    BY InitInv, InitDelivers
  <1>2. IInv /\ DInv /\ [Next]_vars => (IInv /\ DInv)'
    BY NextInv, NextDelivers
  <1>3. IInv /\ DInv => EnableDelivers
    BY InvDelivers
  <1> QED BY <1>1, <1>2, <1>3, PTL DEF Spec

-----------------------------------------------------------------------------
(* Interactive sessions: the second plan, made after the questions, writes *)
(* nothing that the first did not show.                                    *)

\* The run that belongs to each stage of a session.
SessionShape ==
  /\ session = [stage |-> session.stage, lacks |-> session.lacks, shown |-> session.shown,
                yes |-> session.yes, touched |-> session.touched]
  /\ session.stage \in {"none", "plan", "ask", "apply"} /\ session.touched \in BOOLEAN
StageFits ==
  /\ (Stage("none") \/ Stage("ask")) <=> Idle
  /\ ~Stage("none") => run.cmd = "enable" /\ run.lacks = session.lacks
  /\ Stage("plan") => run.dry /\ session.yes = {}
  /\ Stage("apply") => ~run.dry

\* As long as nobody takes anything away, the plan shows what the steps it has
\* passed would change, and goes on to do so until the real run is past them.
Foreseen ==
  ~session.touched =>
    /\ Stage("plan") => \A i \in 1..20 : i < run.at => Changes(Steps[i]) \subseteq session.shown
    /\ Stage("ask") => \A i \in 1..20 : Changes(Steps[i]) \subseteq session.shown
    /\ Stage("apply") => \A i \in 1..20 : i >= run.at => Changes(Steps[i]) \subseteq session.yes
SInv == SessionShape /\ StageFits /\ Foreseen

-----------------------------------------------------------------------------
(* What a step of a run does to its place in the list and to the tenant    *)

Moves ==
  /\ run.at \in 1..20
  /\ run'.cmd = run.cmd /\ run'.dry = run.dry /\ run'.lacks = run.lacks
  /\ \/ run'.at = run.at + 1 /\ run.at < 20
     \/ run'.at = 0 /\ (run'.exit = "ok" => run.at = 20)
     \/ run'.at = run.at /\ ~run.dry /\ Steps[run.at] \in Calls

LEMMA ProceedMoves == ASSUME IInv, NEW s, At(s), Proceed PROVE Moves
  <1>1. run \in Runs /\ run.at \in 1..20
    BY RunTyped, Positions
  <1>2. run' = Advanced(run)
    BY DEF Proceed
  <1> QED BY <1>1, <1>2, AdvancedFields DEF Moves, SameRequest

LEMMA ExitMoves ==
  ASSUME IInv, NEW s, At(s), NEW code \in {"error", "timeout"}, Exit(code)
  PROVE  Moves
  BY RunTyped, Positions, ExitFields DEF Moves, SameRequest, Exits

LEMMA CallMoves == ASSUME IInv, NEW c \in Calls, Call(c) PROVE Moves
  <1> USE DEF Calls
  <1>1. CASE SkipCall(c) \/ CallFails(c)
    BY <1>1, ProceedMoves, ExitMoves DEF SkipCall, CallFails
  <1>2. CASE \E t \in RequestTimes : FindKnown(c, t) \/ Register(c, t)
    <2>1. run \in Runs /\ run.at \in 1..20
      BY <1>2, RunTyped, Positions DEF FindKnown, Register
    <2> DEFINE a == Advanced(run)
    <2>2. a \in Runs /\ SameRequest(run, a)
          /\ (run.at = 20 => a.at = 0) /\ (run.at # 20 => a.at = run.at + 1)
      BY <2>1, AdvancedTyped, AdvancedFields
    <2>3. run'.cmd = a.cmd /\ run'.dry = a.dry /\ run'.lacks = a.lacks /\ run'.at = a.at
      BY <1>2, <2>2 DEF FindKnown, Register, Runs
    <2> HIDE DEF a
    <2> QED BY <2>1, <2>2, <2>3 DEF Moves, SameRequest
  <1>3. CASE \E t \in RequestTimes : Wait(c, t)
    <2>1. run \in Runs /\ run.at \in 1..20 /\ ~run.dry /\ Steps[run.at] \in Calls
      BY <1>3, RunTyped, Positions DEF Wait, RefusedBusy, SkipsCalls, At
    <2>2. run'.cmd = run.cmd /\ run'.dry = run.dry /\ run'.lacks = run.lacks /\ run'.at = run.at
      BY <1>3, <2>1 DEF Wait, Runs
    <2> QED BY <2>1, <2>2 DEF Moves
  <1>4. CASE \E t \in RequestTimes : GiveUp(c, t)
    BY <1>4, ExitMoves DEF GiveUp, RefusedBusy
  <1> QED BY <1>1, <1>2, <1>3, <1>4 DEF Call

LEMMA WorkMoves == ASSUME IInv, Work PROVE Moves
  <1>1. ASSUME NEW s, At(s), Proceed \/ Exit("error") PROVE Moves
    BY <1>1, ProceedMoves, ExitMoves
  <1>2. CASE Discover \/ Preflight \/ ZarfInit \/ PackageDeploy
    BY <1>1, <1>2 DEF Discover, Preflight, ZarfInit, PackageDeploy
  <1>3. CASE \E k \in EnsuredKinds : EnsureStep(k)
    BY <1>1, <1>3 DEF EnsureStep
  <1>4. CASE EnsureRole \/ EnsureManager \/ \E k \in {"default", "dead"} : EnsureTopic(k)
    BY <1>1, <1>4 DEF EnsureRole, EnsureManager, EnsureTopic
  <1>5. CASE ToggleSkipped \/ (\E d \in Durations : Toggle(d)) \/ AttachPolicy
    BY <1>1, <1>5 DEF ToggleSkipped, Toggle, AttachPolicy
  <1>6. CASE \E c \in Calls : Call(c)
    BY <1>6, CallMoves
  <1> QED BY <1>2, <1>3, <1>4, <1>5, <1>6 DEF Work, EnsuredKinds

\* A run takes nothing away, and adds no object but the one its step is about.
Adds ==
  /\ objs \subseteq objs' /\ \A k \in objs' \ objs : At(k)
  /\ engine.bound => engine'.bound

\* What a step may write, one effect at a time.
WritesWithin(types) ==
  /\ \A k \in objs' \ objs : k \in DOMAIN TypeOf => TypeOf[k] \in types
  /\ pw' # pw /\ objs' = objs => "managers/password" \in types
  /\ At("toggle") /\ engine' # engine => TypeOf["toggle"] \in types
  /\ engine'.bound /\ ~engine.bound => TypeOf["attach"] \in types
  /\ creds' # creds => TypeOf["mtls"] \in types
  /\ cluster' # cluster => TypeOf["cluster"] \in types
  /\ registry' # registry => TypeOf["registry"] \in types

LEMMA WrittenWithin == ASSUME NEW types, WritesWithin(types) PROVE Written \subseteq types
  BY DEF WritesWithin, Written

LEMMA QuietStep ==
  ASSUME UNCHANGED <<vms, de>>, NEW types
  PROVE  Adds /\ WritesWithin(types)
  BY DEF Adds, WritesWithin, vms, de

LEMMA ObjectChanges ==
  ASSUME NEW s, s \in DOMAIN TypeOf, s \notin objs,
         s \in {"group", "user", "view", "source", "default", "dead"}
           \/ (s \in {"role", "manager"} /\ HasAdmin)
  PROVE  TypeOf[s] \in Changes(s)
  BY DEF Changes

\* A step about one object.
LEMMA ObjectStep ==
  ASSUME NEW s, At(s), UNCHANGED de,
         objs' = objs \/ (objs' = objs \union {s} /\ s \notin objs),
         s \notin objs /\ objs' # objs /\ s \in DOMAIN TypeOf => TypeOf[s] \in Changes(s),
         pw' # pw /\ objs' = objs => "managers/password" \in Changes(s)
  PROVE  Adds /\ WritesWithin(Changes(s))
  <1>1. UNCHANGED <<engine, creds, cluster, registry>>
    BY DEF de
  <1> QED BY <1>1 DEF Adds, WritesWithin

LEMMA ObjectEffects ==
  ASSUME IInv, NEW s, At(s),
         (\E k \in EnsuredKinds : EnsureStep(k)) \/ EnsureRole \/ EnsureManager
           \/ \E k \in {"default", "dead"} : EnsureTopic(k)
  PROVE  Adds /\ WritesWithin(Changes(s))
  <1>1. CASE \E k \in EnsuredKinds : EnsureStep(k)
    <2>1. PICK k \in EnsuredKinds : EnsureStep(k)
      BY <1>1
    <2>2. k = s
      BY <2>1 DEF EnsureStep, At
    <2>3. UNCHANGED de /\ pw' = pw /\ (objs' = objs \/ (objs' = objs \union {s} /\ s \notin objs))
      BY <2>1, <2>2 DEF EnsureStep
    <2>4. s \in DOMAIN TypeOf => s \in {"group", "user", "view", "source"}
      BY <2>2 DEF EnsuredKinds, TypeOf
    <2> QED BY <2>3, <2>4, ObjectStep, ObjectChanges
  <1>2. CASE EnsureRole
    <2>1. s = "role" /\ UNCHANGED <<pw, de>> /\ (objs' # objs => HasAdmin /\ objs' = objs \union {s})
      BY <1>2 DEF EnsureRole, At
    <2> QED BY <2>1, ObjectStep, ObjectChanges
  <1>3. CASE EnsureManager
    <2>1. s = "manager" /\ UNCHANGED de
      BY <1>3 DEF EnsureManager, At
    <2>2. (objs' # objs \/ pw' # pw) => HasAdmin /\ objs' = objs \union {s}
      BY <1>3, <2>1 DEF EnsureManager
    <2>3. pw' # pw /\ objs' = objs => "managers/password" \in Changes(s)
      <3> SUFFICES ASSUME "manager" \in objs, HasAdmin
                   PROVE  Changes("manager") = {"managers/password"}
        BY <2>1, <2>2
      <3> QED BY DEF Changes, Calls
    <2> QED BY <2>1, <2>2, <2>3, ObjectStep, ObjectChanges
  <1>4. CASE \E k \in {"default", "dead"} : EnsureTopic(k)
    <2>1. s \in {"default", "dead"} /\ UNCHANGED <<pw, de>>
          /\ (objs' # objs => objs' = objs \union {s})
      BY <1>4 DEF EnsureTopic, At
    <2> QED BY <2>1, ObjectStep, ObjectChanges
  <1> QED BY <1>1, <1>2, <1>3, <1>4

LEMMA CallEffects ==
  ASSUME IInv, NEW s, At(s), NEW c \in Calls, Call(c)
  PROVE  Adds /\ WritesWithin(Changes(s))
  <1>1. s = c
    BY DEF Call, SkipCall, CallFails, FindKnown, Register, Wait, GiveUp, RefusedBusy, At
  <1>2. CASE SkipCall(c) \/ CallFails(c)
    BY <1>2, QuietStep DEF SkipCall, CallFails, world
  <1>3. CASE \E t \in RequestTimes :
               FindKnown(c, t) \/ Register(c, t) \/ Wait(c, t) \/ GiveUp(c, t)
    <2>1. ~SkipsCalls /\ UNCHANGED vms /\ s # "toggle"
      BY <1>1, <1>3 DEF FindKnown, Register, Wait, GiveUp, RefusedBusy, Calls
    <2>2. engine'.bound = engine.bound
      BY <1>3 DEF FindKnown, Register, Wait, GiveUp, Settled, Later, IInv, TypeOK, WorldTyped
    <2>3. TypeOf[c] \in Changes(c)
      BY <2>1 DEF SkipsCalls, Changes, Calls
    <2>4. /\ creds' # creds => c = "mtls"
          /\ cluster' # cluster => c = "cluster"
          /\ registry' # registry => c = "registry"
      BY <1>3 DEF FindKnown, Register, Wait, GiveUp, IInv, TypeOK, WorldTyped
    <2>5. ~At("toggle")
      BY <2>1 DEF At
    <2>6. objs' = objs /\ pw' = pw
      BY <2>1 DEF vms
    <2> QED BY <1>1, <2>2, <2>3, <2>4, <2>5, <2>6 DEF Adds, WritesWithin
  <1> QED BY <1>2, <1>3 DEF Call

LEMMA EngineEffects ==
  ASSUME IInv, NEW s, At(s),
         ToggleSkipped \/ (\E d \in Durations : Toggle(d)) \/ AttachPolicy
  PROVE  Adds /\ WritesWithin(Changes(s))
  <1>1. CASE ToggleSkipped
    BY <1>1, QuietStep DEF ToggleSkipped, world
  <1>2. CASE \E d \in Durations : Toggle(d)
    <2>1. s = "toggle" /\ UNCHANGED <<vms, creds, cluster, registry>>
      BY <1>2 DEF Toggle, At
    <2>2. engine'.bound = engine.bound
      BY <1>2 DEF Toggle, IInv, TypeOK, WorldTyped
    <2>3. TypeOf["toggle"] \in Changes(s)
      BY <2>1 DEF Changes, Calls
    <2> QED BY <2>1, <2>2, <2>3 DEF Adds, WritesWithin, vms
  <1>3. CASE AttachPolicy
    <2>1. s = "attach" /\ UNCHANGED <<vms, creds, cluster, registry>>
      BY <1>3 DEF AttachPolicy, At
    <2>2. engine.bound => engine'.bound
      BY <1>3 DEF AttachPolicy, IInv, TypeOK, WorldTyped
    <2>3. ~engine.bound => TypeOf["attach"] \in Changes(s)
      BY <2>1 DEF Changes, Calls
    <2>4. ~At("toggle")
      BY <2>1 DEF At
    <2> QED BY <2>1, <2>2, <2>3, <2>4 DEF Adds, WritesWithin, vms
  <1> QED BY <1>1, <1>2, <1>3

\* What a step writes is what a plan says of it, made at that very moment.
LEMMA StepEffects ==
  ASSUME IInv, Work, NEW s, At(s)
  PROVE  Adds /\ WritesWithin(Changes(s))
  <1>1. CASE Discover \/ Preflight \/ ZarfInit \/ PackageDeploy
    BY <1>1, QuietStep DEF Discover, Preflight, ZarfInit, PackageDeploy, world
  <1>2. CASE (\E k \in EnsuredKinds : EnsureStep(k)) \/ EnsureRole \/ EnsureManager
               \/ \E k \in {"default", "dead"} : EnsureTopic(k)
    BY <1>2, ObjectEffects
  <1>3. CASE ToggleSkipped \/ (\E d \in Durations : Toggle(d)) \/ AttachPolicy
    BY <1>3, EngineEffects
  <1>4. CASE \E c \in Calls : Call(c)
    BY <1>4, CallEffects
  <1> QED BY <1>1, <1>2, <1>3, <1>4 DEF Work, EnsuredKinds

-----------------------------------------------------------------------------
(* What a plan would show can only shrink while nobody takes anything away *)

LEMMA ChangesShrink ==
  ASSUME NEW s, objs \subseteq objs', s = "manager" /\ "manager" \in objs' => "manager" \in objs,
         engine.bound => engine'.bound, HasAdmin' => HasAdmin, run'.lacks = run.lacks
  PROVE  Changes(s)' \subseteq Changes(s)
  BY DEF Changes, Calls

LEMMA SameChanges ==
  ASSUME NEW s, objs' = objs, engine'.bound = engine.bound, run.cmd = "enable",
         run'.cmd = run.cmd, run'.lacks = run.lacks
  PROVE  Changes(s)' = Changes(s)
  BY DEF Changes, HasAdmin, Calls

\* The steps ahead of a real run.
LEMMA LaterChangesShrink ==
  ASSUME IInv, Work, run.cmd = "enable", run'.at # 0,
         NEW i \in 1..20, i >= run'.at
  PROVE  i >= run.at /\ Changes(Steps[i])' \subseteq Changes(Steps[i])
  <1>1. Moves
    BY WorkMoves
  <1>2. i >= run.at /\ (i = run.at => run'.at = run.at)
    BY <1>1 DEF Moves
  <1>3. At(Steps[run.at])
    BY <1>1 DEF Moves, At
  <1>4. Adds
    BY <1>3, StepEffects
  <1>5. HasAdmin' => HasAdmin
    BY <1>1 DEF Moves, HasAdmin
  <1>6. Steps[i] = "manager" /\ "manager" \in objs' => "manager" \in objs
    <2> SUFFICES ASSUME Steps[i] = "manager", "manager" \in objs', "manager" \notin objs
                 PROVE  FALSE
      OBVIOUS
    <2>1. At("manager")
      BY <1>4 DEF Adds
    <2>2. run.at = i
      BY <1>1, <2>1 DEF At, Steps, Moves
    <2>3. Steps[run.at] \in Calls
      BY <1>1, <1>2, <2>2 DEF Moves
    <2> QED BY <2>1, <2>3 DEF At, Calls
  <1> QED BY <1>1, <1>2, <1>4, <1>5, <1>6, ChangesShrink DEF Adds, Moves

-----------------------------------------------------------------------------
(* The actions of a session                                                *)

\* The fields of the two runs of a session.
Fresh(r, lacks) ==
  /\ r \in Runs /\ Rested(r) /\ r.at = 2 /\ r.cmd = "enable" /\ r.lacks = lacks
  /\ r.exit = "none" /\ ~r.made

LEMMA DryRun ==
  ASSUME NEW lacks \in SUBSET Needs, NEW r,
         r = [NoRun EXCEPT !.dry = TRUE, !.lacks = lacks, !.at = 2]
  PROVE  Fresh(r, lacks) /\ r.dry
  <1>1. 2 \in 0..Len(Steps)
    BY StepsLength
  <1>2. r \in Runs /\ r.at = 2 /\ r.dry /\ r.lacks = lacks
        /\ r.elapsed = NoRun.elapsed /\ r.backoff = NoRun.backoff /\ r.cmd = NoRun.cmd
        /\ r.exit = NoRun.exit /\ r.made = NoRun.made
    BY <1>1, NoRunTyped DEF Runs
  <1>3. NoRun.elapsed = 0 /\ NoRun.backoff = InitialBackoff /\ NoRun.cmd = "enable"
        /\ NoRun.exit = "none" /\ NoRun.made = FALSE
    BY DEF NoRun
  <1> QED BY <1>2, <1>3 DEF Rested, Fresh

LEMMA RealRun ==
  ASSUME NEW lacks \in SUBSET Needs, NEW r,
         r = [NoRun EXCEPT !.lacks = lacks, !.at = 2]
  PROVE  Fresh(r, lacks) /\ ~r.dry
  <1>1. 2 \in 0..Len(Steps)
    BY StepsLength
  <1>2. r \in Runs /\ r.at = 2 /\ r.dry = NoRun.dry /\ r.lacks = lacks
        /\ r.elapsed = NoRun.elapsed /\ r.backoff = NoRun.backoff /\ r.cmd = NoRun.cmd
        /\ r.exit = NoRun.exit /\ r.made = NoRun.made
    BY <1>1, NoRunTyped DEF Runs
  <1>3. NoRun.elapsed = 0 /\ NoRun.backoff = InitialBackoff /\ NoRun.cmd = "enable"
        /\ NoRun.exit = "none" /\ NoRun.made = FALSE /\ NoRun.dry = FALSE
    BY DEF NoRun
  <1> QED BY <1>2, <1>3 DEF Rested, Fresh

\* The real run, or the dry one, begins and the world stands still.
LEMMA FreshRunKeeps ==
  ASSUME IInv, UNCHANGED world, CountTyped', run' \in Runs, Rested(run')
  PROVE  IInv'
  <1>1. LoopInv'
    BY AtRest, ConstantsOK DEF Rested
  <1> QED BY <1>1, WorldKept DEF IInv, TypeOK

LEMMA OpenStarts ==
  ASSUME NEW lacks \in SUBSET Needs, Open(lacks)
  PROVE  Fresh(run', lacks) /\ run'.dry
  <1>1. PICK r : r = [NoRun EXCEPT !.dry = TRUE, !.lacks = lacks, !.at = 2]
    OBVIOUS
  <1>2. run' = r
    BY <1>1 DEF Open
  <1> QED BY <1>1, <1>2, DryRun

LEMMA ApproveStarts ==
  ASSUME IInv, SInv, NEW types, Approve(types)
  PROVE  UNCHANGED run \/ (Fresh(run', session.lacks) /\ ~run'.dry)
  <1> DEFINE s == [session EXCEPT !.yes = @ \union types]
  <1>1. session.lacks \in SUBSET Needs
    BY RunTyped DEF Approve, SInv, StageFits, Stage, Runs
  <1>2. s.lacks = session.lacks
    BY DEF SInv, SessionShape
  <1>3. UNCHANGED run \/ run' = [NoRun EXCEPT !.lacks = s.lacks, !.at = 2]
    BY DEF Approve, BeginApply
  <1> HIDE DEF s
  <1>4. PICK r : r = [NoRun EXCEPT !.lacks = session.lacks, !.at = 2]
    OBVIOUS
  <1>5. UNCHANGED run \/ run' = r
    BY <1>2, <1>3, <1>4
  <1> QED BY <1>1, <1>4, <1>5, RealRun

LEMMA OpenKeeps ==
  ASSUME IInv, SInv, NEW lacks \in Lacks, Open(lacks)
  PROVE  IInv' /\ SInv'
  <1>1. lacks \in SUBSET Needs
    BY ConstantsOK
  <1>2. Fresh(run', lacks) /\ run'.dry
    BY <1>1, OpenStarts
  <1>3. CountTyped'
    BY UseTyped DEF Open, IInv, TypeOK, CountTyped
  <1>4. IInv'
    BY <1>2, <1>3, FreshRunKeeps DEF Open, Fresh
  <1>5. session' = [stage |-> "plan", lacks |-> lacks, shown |-> {}, yes |-> {}, touched |-> FALSE]
    BY DEF Open, NoSession
  <1>6. SessionShape'
    BY <1>5 DEF SessionShape
  <1>7. StageFits'
    BY <1>2, <1>5 DEF StageFits, Stage, Idle, Fresh
  <1>8. Foreseen'
    <2>1. Changes(Steps[1])' = {}
      BY DEF Changes, Steps, Calls
    <2> QED BY <1>2, <1>5, <2>1 DEF Foreseen, Stage, Fresh
  <1> QED BY <1>4, <1>6, <1>7, <1>8 DEF SInv

LEMMA NoSessionFits ==
  ASSUME session' = NoSession, run'.at = 0
  PROVE  SInv'
  <1>1. session' = [stage |-> "none", lacks |-> {}, shown |-> {}, yes |-> {}, touched |-> FALSE]
    BY DEF NoSession
  <1> QED BY <1>1 DEF SInv, SessionShape, StageFits, Foreseen, Stage, Idle

LEMMA PlanKeeps == ASSUME IInv, SInv, PlanStep PROVE SInv'
  <1> DEFINE shown == session.shown \union Changes(Steps[run.at])
  <1>1. Work /\ Stage("plan") /\ run.dry /\ run.cmd = "enable" /\ run.lacks = session.lacks
        /\ session.yes = {}
    BY DEF PlanStep, SInv, StageFits, Stage
  <1>2. Moves /\ UNCHANGED world
    BY <1>1, WorkMoves, DryWorkWritesNothing
  <1>3. run'.cmd = run.cmd /\ run'.lacks = run.lacks /\ run'.dry /\ run'.at # run.at
    BY <1>1, <1>2 DEF Moves
  <1>4. \A s : Changes(s)' = Changes(s)
    BY <1>1, <1>2, <1>3, SameChanges DEF world, vms, de
  <1>5. CASE run'.at > 0
    <2>1. session' = [session EXCEPT !.shown = shown]
      BY <1>5 DEF PlanStep
    <2>2. session' = [stage |-> "plan", lacks |-> session.lacks, shown |-> shown,
                      yes |-> {}, touched |-> session.touched]
      BY <1>1, <2>1 DEF SInv, SessionShape, Stage
    <2>3. run'.at = run.at + 1 /\ run.at \in 1..20
      BY <1>2, <1>3, <1>5 DEF Moves
    <2>4. Foreseen'
      BY <1>1, <1>4, <2>2, <2>3 DEF SInv, Foreseen, Stage
    <2>5. SessionShape'
      BY <2>2 DEF SInv, SessionShape
    <2>6. StageFits'
      BY <1>1, <1>3, <2>2, <2>3 DEF StageFits, Stage, Idle
    <2> QED BY <2>4, <2>5, <2>6 DEF SInv
  <1>6. CASE run'.at = 0 /\ run'.exit = "ok" /\ shown # {}
    <2>1. session' = [session EXCEPT !.stage = "ask", !.shown = shown]
      BY <1>6 DEF PlanStep
    <2>2. session' = [stage |-> "ask", lacks |-> session.lacks, shown |-> shown,
                      yes |-> {}, touched |-> session.touched]
      BY <1>1, <2>1 DEF SInv, SessionShape, Stage
    <2>3. run.at = 20
      BY <1>2, <1>6 DEF Moves
    <2>4. Foreseen'
      BY <1>1, <1>4, <2>2, <2>3 DEF SInv, Foreseen, Stage
    <2>5. SessionShape'
      BY <2>2 DEF SInv, SessionShape
    <2>6. StageFits'
      BY <1>1, <1>3, <1>6, <2>2 DEF StageFits, Stage, Idle
    <2> QED BY <2>4, <2>5, <2>6 DEF SInv
  <1>7. CASE run'.at = 0 /\ ~(run'.exit = "ok" /\ shown # {})
    BY <1>7, NoSessionFits DEF PlanStep
  <1> QED BY <1>2, <1>5, <1>6, <1>7 DEF Moves

LEMMA ApproveKeeps ==
  ASSUME IInv, SInv, NEW types, Approve(types)
  PROVE  IInv' /\ SInv'
  <1> DEFINE s == [session EXCEPT !.yes = @ \union types]
  <1>1. Stage("ask") /\ run.cmd = "enable" /\ run.lacks = session.lacks /\ UNCHANGED <<world, count>>
    BY DEF Approve, SInv, StageFits, Stage
  <1>2. s = [stage |-> "ask", lacks |-> session.lacks, shown |-> session.shown,
             yes |-> session.yes \union types, touched |-> session.touched]
    BY <1>1 DEF SInv, SessionShape, Stage
  <1> HIDE DEF s
  <1>3. UNCHANGED <<objs, engine>>
    BY <1>1 DEF world, vms, de
  <1>4. CASE s.yes = s.shown
    <2>1. session' = [s EXCEPT !.stage = "apply"]
          /\ run' = [NoRun EXCEPT !.lacks = s.lacks, !.at = 2]
      BY <1>4 DEF Approve, BeginApply, s
    <2>2. session' = [stage |-> "apply", lacks |-> session.lacks, shown |-> session.shown,
                      yes |-> session.shown, touched |-> session.touched]
      BY <1>2, <1>4, <2>1
    <2>4. Fresh(run', session.lacks) /\ ~run'.dry
      <3>1. run'.at # run.at
        <4>1. PICK r : r = [NoRun EXCEPT !.lacks = session.lacks, !.at = 2]
          OBVIOUS
        <4>2. run' = r /\ r.at = 2
          BY <1>2, <2>1, <4>1, NoRunTyped DEF Runs
        <4> QED BY <1>1, <4>2 DEF SInv, StageFits, Idle
      <3> QED BY <3>1, ApproveStarts
    <2>5. IInv'
      BY <1>1, <2>4, FreshRunKeeps DEF IInv, TypeOK, CountTyped, Fresh
    <2>6. \A t : Changes(t)' = Changes(t)
      BY <1>1, <1>3, <2>4, SameChanges DEF Fresh
    <2>7. Foreseen'
      BY <1>1, <2>2, <2>6 DEF SInv, Foreseen, Stage
    <2>8. SessionShape'
      BY <2>2 DEF SInv, SessionShape
    <2>9. StageFits'
      BY <2>2, <2>4 DEF StageFits, Stage, Idle, Fresh
    <2> QED BY <2>5, <2>7, <2>8, <2>9 DEF SInv
  <1>5. CASE s.yes # s.shown
    <2>1. session' = s /\ UNCHANGED run
      BY <1>5 DEF Approve, s
    <2>2. IInv'
      BY <1>1, <2>1, NextInv DEF vars
    <2>3. \A t : Changes(t)' = Changes(t)
      BY <1>1, <1>3, <2>1, SameChanges
    <2>4. Foreseen'
      BY <1>1, <1>2, <2>1, <2>3 DEF SInv, Foreseen, Stage
    <2>5. SessionShape'
      BY <1>2, <2>1 DEF SInv, SessionShape
    <2>6. StageFits'
      BY <1>1, <1>2, <2>1 DEF SInv, StageFits, Stage, Idle
    <2> QED BY <2>2, <2>4, <2>5, <2>6 DEF SInv
  <1> QED BY <1>4, <1>5

LEMMA ApplyKeeps == ASSUME IInv, SInv, ApplyStep PROVE SInv'
  <1>1. Work /\ Stage("apply") /\ ~run.dry /\ run.cmd = "enable" /\ run.lacks = session.lacks
    BY DEF ApplyStep, SInv, StageFits, Stage
  <1>2. Moves
    BY <1>1, WorkMoves
  <1>3. CASE run'.at = 0
    BY <1>3, NoSessionFits DEF ApplyStep
  <1>4. CASE run'.at # 0
    <2>1. session' = session
      BY <1>4 DEF ApplyStep
    <2>2. \A i \in 1..20 : i >= run'.at =>
            i >= run.at /\ Changes(Steps[i])' \subseteq Changes(Steps[i])
      BY <1>1, <1>4, LaterChangesShrink
    <2>3. Foreseen'
      BY <1>1, <2>1, <2>2 DEF SInv, Foreseen, Stage
    <2>4. run'.cmd = "enable" /\ run'.lacks = session.lacks /\ ~run'.dry
      BY <1>1, <1>2 DEF Moves
    <2>5. StageFits'
      BY <1>1, <1>4, <2>1, <2>4 DEF StageFits, Stage, Idle
    <2> QED BY <2>1, <2>3, <2>5 DEF SInv, SessionShape
  <1> QED BY <1>3, <1>4

LEMMA RemoveObjectKeeps == ASSUME IInv, NEW k, RemoveObject(k) PROVE IInv'
  <1>1. Touched /\ UNCHANGED <<strays, perms, pw, k8s, de>> /\ objs' \subseteq objs
    BY DEF RemoveObject, Touched
  <1>2. run' \in Runs /\ LoopInv'
    BY <1>1, TouchedKeeps DEF de
  <1>3. CountTyped'
    BY UseTyped DEF RemoveObject, IInv, TypeOK
  <1>4. WorldTyped' /\ OneOfEach'
    BY <1>1 DEF IInv, TypeOK, WorldTyped, OneOfEach, de
  <1> QED BY <1>2, <1>3, <1>4 DEF IInv, TypeOK

LEMMA TakenKeeps == ASSUME IInv, SInv, Taken PROVE IInv' /\ SInv'
  <1>1. IInv'
    BY OthersKeep, RemoveObjectKeeps DEF Taken
  <1>2. Touched
    BY DEF Taken, RemoveCluster, RemoveEngine, RemoveObject, Touched
  <1>3. run'.at = run.at /\ run'.cmd = run.cmd /\ run'.dry = run.dry /\ run'.lacks = run.lacks
    BY <1>2, RunTyped DEF Touched, Runs
  <1>4. session' = [stage |-> session.stage, lacks |-> session.lacks, shown |-> session.shown,
                    yes |-> session.yes, touched |-> (session.touched \/ ~Stage("none"))]
    BY DEF Taken, SInv, SessionShape
  <1>5. SessionShape'
    BY <1>4 DEF SInv, SessionShape
  <1>6. StageFits'
    BY <1>3, <1>4 DEF SInv, StageFits, Stage, Idle
  <1>7. Foreseen'
    BY <1>4 DEF Foreseen, Stage
  <1> QED BY <1>1, <1>5, <1>6, <1>7 DEF SInv

\* Nothing that a plan looks at.
LEMMA PassingKeeps ==
  ASSUME IInv, SInv, Passing \/ UNCHANGED ivars
  PROVE  IInv' /\ SInv'
  <1>1. IInv'
    <2>1. CASE Passing
      BY <2>1, OthersKeep, K8sKeeps DEF Passing
    <2>2. CASE UNCHANGED ivars
      BY <2>2, NextInv DEF ivars
    <2> QED BY <2>1, <2>2
  <1>2. UNCHANGED <<run, session, objs>>
    BY DEF Passing, ResourceGone, RotatePassword, RepairZarf, TimePasses, ivars, vars, world, vms
  <1>3. engine'.bound = engine.bound
    BY DEF Passing, ResourceGone, RotatePassword, RepairZarf, TimePasses, ivars, vars, world, de,
           IInv, TypeOK, WorldTyped
  <1>4. ~Stage("none") => \A s : Changes(s)' = Changes(s)
    BY <1>2, <1>3, SameChanges DEF SInv, StageFits
  <1> QED BY <1>1, <1>2, <1>4 DEF SInv, SessionShape, StageFits, Foreseen, Stage, Idle

LEMMA SessionInit == InteractiveInit => IInv /\ SInv
  <1> SUFFICES ASSUME InteractiveInit PROVE IInv /\ SInv
    OBVIOUS
  <1>1. IInv
    BY InitInv DEF InteractiveInit
  <1>2. session = [stage |-> "none", lacks |-> {}, shown |-> {}, yes |-> {}, touched |-> FALSE]
    BY DEF InteractiveInit, NoSession
  <1>3. run.at = 0
    BY DEF InteractiveInit, Init, NoRun
  <1> QED BY <1>1, <1>2, <1>3 DEF SInv, SessionShape, StageFits, Foreseen, Stage, Idle

LEMMA SessionNext == ASSUME IInv, SInv, [InteractiveNext]_ivars PROVE IInv' /\ SInv'
  <1>1. CASE \E lacks \in Lacks : Open(lacks)
    BY <1>1, OpenKeeps
  <1>2. CASE PlanStep
    BY <1>2, WorkKeeps, PlanKeeps DEF PlanStep
  <1>3. CASE Refuse
    <2>1. session' = NoSession /\ UNCHANGED <<world, run>> /\ Use("trouble") /\ run.at = 0
      BY <1>3 DEF Refuse, SInv, StageFits, Idle
    <2>2. CountTyped'
      BY <2>1, UseTyped DEF IInv, TypeOK
    <2>3. run' \in Runs /\ LoopInv'
      BY <2>1, SameRunKeeps DEF world, de
    <2>4. WorldTyped' /\ OneOfEach'
      BY <2>1, WorldKept DEF IInv, TypeOK
    <2> QED BY <2>1, <2>2, <2>3, <2>4, NoSessionFits DEF IInv, TypeOK
  <1>4. CASE Approve({Asked(session)}) \/ Approve(session.shown \ session.yes)
    BY <1>4, ApproveKeeps
  <1>5. CASE ApplyStep
    BY <1>5, WorkKeeps, ApplyKeeps DEF ApplyStep
  <1>6. CASE Killed
    <2>1. IInv'
      BY <1>6, CrashKeeps, K8sKeeps DEF Killed
    <2>2. run'.at = 0
      BY <1>6, RunTyped, ExitFields DEF Killed, Crash, ZarfCut, Exits
    <2> QED BY <1>6, <2>1, <2>2, NoSessionFits DEF Killed
  <1>7. CASE Taken
    BY <1>7, TakenKeeps
  <1>8. CASE Passing \/ UNCHANGED ivars
    BY <1>8, PassingKeeps
  <1> QED BY <1>1, <1>2, <1>3, <1>4, <1>5, <1>6, <1>7, <1>8 DEF InteractiveNext

\* Whatever a session's real run writes, on its own look at the cluster, is of a
\* type that the plan showed and the operator approved, and the dry run writes
\* nothing: for any answers and any number of sessions, cut runs, rotated
\* passwords and swallowed failures, unless somebody took something away after
\* the session began.
THEOREM OnlyTheApproved == InteractiveSpec => WritesWereApproved
  <1> DEFINE A == ((PlanStep \/ ApplyStep) /\ ~session.touched) => Written \subseteq session.yes
  <1>1. IInv /\ SInv /\ [InteractiveNext]_ivars => A
    <2> SUFFICES ASSUME IInv, SInv, PlanStep \/ ApplyStep, ~session.touched
                 PROVE  Written \subseteq session.yes
      OBVIOUS
    <2>1. CASE PlanStep
      <3>1. UNCHANGED world
        BY <2>1, DryWorkWritesNothing DEF PlanStep, SInv, StageFits, Stage
      <3>2. WritesWithin(session.yes)
        BY <3>1, QuietStep DEF world
      <3> QED BY <3>2, WrittenWithin
    <2>2. CASE ApplyStep
      <3>1. Work /\ Moves /\ At(Steps[run.at])
        BY <2>2, WorkMoves DEF ApplyStep, Moves, At
      <3>2. WritesWithin(Changes(Steps[run.at]))
        BY <3>1, StepEffects
      <3>3. run.at \in 1..20 => Changes(Steps[run.at]) \subseteq session.yes
        BY <2>2, <3>1 DEF ApplyStep, SInv, Foreseen, Moves
      <3> QED BY <3>1, <3>2, <3>3, WrittenWithin DEF Moves
    <2> QED BY <2>1, <2>2
  <1>2. InteractiveInit => IInv /\ SInv
    BY SessionInit
  <1>3. IInv /\ SInv /\ [InteractiveNext]_ivars => (IInv /\ SInv)'
    BY SessionNext
  <1> QED BY <1>1, <1>2, <1>3, PTL DEF InteractiveSpec, WritesWereApproved

-----------------------------------------------------------------------------
(* Sessions deliver what runs deliver                                      *)

LEMMA FreshDelivers ==
  ASSUME IInv, DInv, NEW lacks, Fresh(run', lacks), UNCHANGED world
  PROVE  DInv'
  <1>1. UNCHANGED <<cluster, cr>>
    BY DEF world, de
  <1> QED BY <1>1 DEF Fresh, DInv, Running, ClusterLives, MadeWhenReady,
             Knows, Known17, Known18, Known19, KnownAtEnd

LEMMA StillDelivers ==
  ASSUME DInv, UNCHANGED <<run, world>>
  PROVE  DInv'
  BY DEF world, de, DInv, Running, ClusterLives, MadeWhenReady,
         Knows, Complete, Known17, Known18, Known19, KnownAtEnd

LEMMA SessionDelivers ==
  ASSUME IInv, SInv, DInv, [InteractiveNext]_ivars
  PROVE  DInv'
  <1>1. CASE \E lacks \in Lacks : Open(lacks)
    BY <1>1, OpenStarts, FreshDelivers, ConstantsOK DEF Open
  <1>2. CASE PlanStep \/ ApplyStep
    BY <1>2, WorkDelivers DEF PlanStep, ApplyStep
  <1>3. CASE Refuse
    BY <1>3, StillDelivers DEF Refuse
  <1>4. CASE Approve({Asked(session)}) \/ Approve(session.shown \ session.yes)
    BY <1>4, ApproveStarts, FreshDelivers, StillDelivers DEF Approve
  <1>5. CASE Killed
    <2>1. Exit("error") /\ UNCHANGED <<engine, cluster, cr>>
      BY <1>5 DEF Killed, Crash, ZarfCut, world, de
    <2> QED BY <2>1, ExitDelivers DEF Exits, DInv, MadeWhenReady
  <1>6. CASE Taken
    <2>1. CASE RemoveCluster \/ RemoveEngine
      BY <2>1, RemovalDelivers
    <2>2. CASE \E k \in {"view", "default", "dead"} : RemoveObject(k)
      <3>1. Touched /\ UNCHANGED de /\ run \in Runs
        BY <2>2, RunTyped DEF RemoveObject, Touched
      <3>2. run'.touched /\ run'.at = run.at /\ run'.exit = run.exit /\ run'.made = run.made
        BY <3>1 DEF Touched, Runs
      <3> QED BY <3>1, <3>2 DEF de, DInv, Running, ClusterLives, MadeWhenReady, Knows, Complete
    <2> QED BY <1>6, <2>1, <2>2 DEF Taken
  <1>7. CASE Passing
    BY <1>7, SameRunDelivers DEF Passing
  <1>8. CASE UNCHANGED ivars
    BY <1>8, SameRunDelivers DEF ivars
  <1> QED BY <1>1, <1>2, <1>3, <1>4, <1>5, <1>6, <1>7, <1>8 DEF InteractiveNext

\* A session whose real run exits with 0 has delivered, as a plain run has,
\* although it was planned before the questions and others acted meanwhile,
\* unless they took something away since the real run began.
THEOREM SessionsDeliver == InteractiveSpec => []EnableDelivers
  <1>1. InteractiveInit => IInv /\ SInv /\ DInv
    BY SessionInit, InitDelivers DEF InteractiveInit
  <1>2. IInv /\ SInv /\ DInv /\ [InteractiveNext]_ivars => (IInv /\ SInv /\ DInv)'
    BY SessionNext, SessionDelivers
  <1>3. IInv /\ DInv => EnableDelivers
    BY InvDelivers
  <1> QED BY <1>1, <1>2, <1>3, PTL DEF InteractiveSpec
-----------------------------------------------------------------------------
(* A run ends: what TLC's liveness run needs of the retry loop, without    *)
(* its numbers.                                                            *)

\* A sleep is never of no length: the backoff grows, and integer division does
\* not take it to 0.
Awake == run.backoff >= 1
Ahead == run'.at = 0 \/ run'.at > run.at

LEMMA ProceedAhead == ASSUME IInv, NEW s, At(s), Proceed PROVE Ahead /\ Awake'
  <1>1. run \in Runs /\ run.at \in 1..20 /\ run' = Advanced(run)
    BY RunTyped, Positions DEF Proceed
  <1>2. Rested(run')
    BY <1>1, AdvancedTyped
  <1> QED BY <1>1, <1>2, AdvancedFields, ConstantsOK DEF Ahead, Awake, Rested

LEMMA ExitAhead ==
  ASSUME IInv, Awake, NEW code \in Exits, Exit(code)
  PROVE  Ahead /\ Awake'
  BY RunTyped, ExitFields, ExitTyped DEF Ahead, Awake

LEMMA AttachDoes ==
  ASSUME AttachPolicy
  PROVE  /\ At("attach") /\ Proceed
         /\ engine' = [engine EXCEPT !.bound = @ \/ (engine.on /\ ~run.dry)]
         /\ UNCHANGED <<vms, creds, cluster, cr, registry>>
  BY DEF AttachPolicy

\* The code sleeps for min(backoff, remaining), where something remains.
LEMMA WaitNearer ==
  ASSUME IInv, Awake, NEW c \in Calls, NEW t \in RequestTimes, Wait(c, t)
  PROVE  Nearer /\ Awake'
  <1> DEFINE spent == run.elapsed + t
             pause == Pause(spent)
             next == NextBackoff(run.backoff)
             total == spent + pause
  <1>1. t \in Nat /\ Timeout \in Nat /\ MaxBackoff \in Nat \ {0}
    BY ConstantsOK
  <1>2. run \in Runs /\ run.elapsed \in Nat /\ run.backoff \in Nat /\ run.backoff >= 1
    BY DEF IInv, TypeOK, Runs, Awake
  <1>3. spent < Timeout /\ spent \in Nat
    BY <1>1, <1>2 DEF Wait
  <1>4. pause \in Nat /\ pause >= 1 /\ spent + pause <= Timeout
    BY <1>1, <1>2, <1>3 DEF Pause, Smaller
  <1>5. next \in Nat /\ next >= 1
    BY <1>1, <1>2 DEF NextBackoff, Smaller
  <1>6. total \in Nat /\ total > run.elapsed /\ total <= Timeout
    BY <1>1, <1>2, <1>3, <1>4
  <1>7. run' = [run EXCEPT !.elapsed = total, !.backoff = next]
    BY DEF Wait
  <1> HIDE DEF spent, pause, next, total
  <1>8. run'.elapsed = total /\ run'.backoff = next /\ run'.at = run.at
    BY <1>2, <1>7 DEF Runs
  <1> QED BY <1>5, <1>6, <1>8 DEF Nearer, Awake

LEMMA CallNearer ==
  ASSUME IInv, Awake, NEW c \in Calls, Call(c)
  PROVE  Nearer /\ Awake'
  <1>1. CASE SkipCall(c) \/ CallFails(c)
    BY <1>1, ProceedAhead, ExitAhead DEF SkipCall, CallFails, Ahead, Nearer, Exits
  <1>2. CASE \E t \in RequestTimes : FindKnown(c, t) \/ Register(c, t)
    <2>1. run \in Runs /\ run.at \in 1..20
      BY <1>2, RunTyped, Positions DEF FindKnown, Register
    <2> DEFINE a == Advanced(run)
    <2>2. a \in Runs /\ (a.at = 0 \/ a.at = run.at + 1) /\ a.backoff = InitialBackoff
      BY <2>1, AdvancedTyped, AdvancedFields DEF Rested
    <2>3. run'.at = a.at /\ run'.backoff = a.backoff
      BY <1>2, <2>2 DEF FindKnown, Register, Runs
    <2> HIDE DEF a
    <2> QED BY <2>1, <2>2, <2>3, ConstantsOK DEF Nearer, Awake
  <1>3. CASE \E t \in RequestTimes : Wait(c, t)
    BY <1>3, WaitNearer
  <1>4. CASE \E t \in RequestTimes : GiveUp(c, t)
    BY <1>4, ExitAhead DEF GiveUp, Ahead, Nearer, Exits
  <1> QED BY <1>1, <1>2, <1>3, <1>4 DEF Call

LEMMA WorkNearer == ASSUME IInv, Awake, Work PROVE Nearer /\ Awake'
  <1>1. ASSUME NEW s, At(s), Proceed \/ Exit("error") PROVE Nearer /\ Awake'
    BY <1>1, ProceedAhead, ExitAhead DEF Ahead, Nearer, Exits
  <1>2. CASE Discover \/ Preflight \/ ZarfInit \/ PackageDeploy
    BY <1>1, <1>2 DEF Discover, Preflight, ZarfInit, PackageDeploy
  <1>3. CASE \E k \in EnsuredKinds : EnsureStep(k)
    BY <1>1, <1>3 DEF EnsureStep
  <1>4. CASE EnsureRole \/ EnsureManager \/ \E k \in {"default", "dead"} : EnsureTopic(k)
    BY <1>1, <1>4 DEF EnsureRole, EnsureManager, EnsureTopic
  <1>5. CASE ToggleSkipped
    BY <1>1, <1>5 DEF ToggleSkipped
  <1>6. CASE \E d \in Durations : Toggle(d)
    BY <1>1, <1>6 DEF Toggle
  <1>7. CASE AttachPolicy
    BY <1>1, <1>7, AttachDoes
  <1>8. CASE \E c \in Calls : Call(c)
    BY <1>8, CallNearer
  <1> QED BY <1>2, <1>3, <1>4, <1>5, <1>6, <1>7, <1>8 DEF Work, EnsuredKinds

LEMMA NextAwake == ASSUME IInv, Awake, [Next]_vars PROVE Awake'
  <1>1. CASE \E cmd \in Commands, dry \in DryRuns, lacks \in Lacks : Start(cmd, dry, lacks)
    <2>1. run'.backoff = NoRun.backoff
      BY <1>1, NoRunTyped DEF Start, Runs
    <2> QED BY <2>1, ConstantsOK DEF Awake, NoRun
  <1>2. CASE Work
    BY <1>2, WorkNearer
  <1>3. CASE Crash \/ ZarfCut
    BY <1>3, ExitAhead DEF Crash, ZarfCut, Exits
  <1>4. CASE RemoveCluster \/ RemoveEngine
    BY <1>4, RunTyped, TouchedTyped DEF RemoveCluster, RemoveEngine, Awake
  <1>5. CASE ResourceGone \/ RotatePassword \/ RepairZarf \/ TimePasses \/ UNCHANGED vars
    BY <1>5 DEF ResourceGone, RotatePassword, RepairZarf, TimePasses, vars, Awake
  <1> QED BY <1>1, <1>2, <1>3, <1>4, <1>5 DEF Next

\* For every timeout and every backoff, also where VMS answers in no time: each
\* step of a run takes it to a later one of its 20, ends it, or uses up some of
\* the budget of the call in hand.  A run therefore has finitely many steps.
THEOREM RunsComeToAnEnd == Spec => RunsEnd
  <1>1. Init => IInv /\ Awake
    <2>1. NoRun.backoff = InitialBackoff
      BY DEF NoRun
    <2> QED BY <2>1, InitInv, ConstantsOK DEF Init, Awake
  <1>2. IInv /\ Awake /\ [Next]_vars => (IInv /\ Awake)'
    BY NextInv, NextAwake
  <1>3. IInv /\ Awake /\ [Next]_vars => (Work => Nearer)
    BY WorkNearer
  <1> QED BY <1>1, <1>2, <1>3, PTL DEF Spec, RunsEnd

-----------------------------------------------------------------------------
(* What is delivered stays so                                              *)

LEMMA CallLasts ==
  ASSUME IInv, Delivered, NEW c \in Calls, Call(c)
  PROVE  Delivered'
  <1>1. engine \in [on : BOOLEAN, left : Int, bound : BOOLEAN]
    BY DEF IInv, TypeOK, WorldTyped
  <1>2. Known(c)
    <2>1. cluster # 0
      BY DEF Delivered, IInv, TypeOK, WorldTyped
    <2> QED BY <2>1 DEF Known, Delivered, Calls
  <1>3. CASE SkipCall(c) \/ CallFails(c)
    BY <1>3 DEF SkipCall, CallFails, world, de, Delivered
  <1>4. CASE \E t \in RequestTimes : FindKnown(c, t)
    <2>1. engine'.on = engine.on /\ engine'.bound = engine.bound
          /\ UNCHANGED <<creds, cluster, cr, registry>>
      BY <1>1, <1>4 DEF FindKnown, Settled, Later
    <2> QED BY <2>1 DEF Delivered
  <1> QED BY <1>2, <1>3, <1>4 DEF Call, Register, Wait, GiveUp, RefusedBusy

LEMMA WorkLasts == ASSUME IInv, Delivered, Work PROVE Delivered'
  <1>1. engine \in [on : BOOLEAN, left : Int, bound : BOOLEAN]
    BY DEF IInv, TypeOK, WorldTyped
  <1>2. ASSUME UNCHANGED de PROVE Delivered'
    BY <1>2 DEF de, Delivered
  <1>3. CASE Discover \/ Preflight \/ ZarfInit \/ PackageDeploy
    BY <1>2, <1>3 DEF Discover, Preflight, ZarfInit, PackageDeploy, world
  <1>4. CASE \E k \in EnsuredKinds : EnsureStep(k)
    BY <1>2, <1>4 DEF EnsureStep
  <1>5. CASE EnsureRole \/ EnsureManager \/ \E k \in {"default", "dead"} : EnsureTopic(k)
    BY <1>2, <1>5 DEF EnsureRole, EnsureManager, EnsureTopic
  <1>6. CASE ToggleSkipped
    BY <1>2, <1>6 DEF ToggleSkipped, world
  <1>7. CASE \E d \in Durations : Toggle(d)
    <2>1. PICK d \in Durations : Toggle(d)
      BY <1>7
    <2>2. engine' = [engine EXCEPT !.on = TRUE, !.left = d]
          /\ UNCHANGED <<creds, cluster, cr, registry>>
      BY <2>1 DEF Toggle
    <2>3. engine'.on /\ engine'.bound
      BY <1>1, <2>2 DEF Delivered
    <2> QED BY <2>2, <2>3 DEF Delivered
  <1>8. CASE AttachPolicy
    <2>1. engine' = [engine EXCEPT !.bound = @ \/ (engine.on /\ ~run.dry)]
          /\ UNCHANGED <<creds, cluster, cr, registry>>
      BY <1>8, AttachDoes
    <2>2. engine'.on /\ engine'.bound
      BY <1>1, <2>1 DEF Delivered
    <2> QED BY <2>1, <2>2 DEF Delivered
  <1>9. CASE \E c \in Calls : Call(c)
    BY <1>9, CallLasts
  <1> QED BY <1>3, <1>4, <1>5, <1>6, <1>7, <1>8, <1>9 DEF Work, EnsuredKinds

\* Enabling a tenant once more, by whichever command, with whatever lacking and
\* however it ends, takes nothing away of what an earlier run has delivered.
THEOREM NothingDeliveredIsLost == Spec => DeliveryLasts
  <1>1. IInv /\ [Next]_vars =>
          ((Delivered /\ ~RemoveCluster /\ ~RemoveEngine) => Delivered')
    <2> SUFFICES ASSUME IInv, [Next]_vars, Delivered, ~RemoveCluster, ~RemoveEngine
                 PROVE  Delivered'
      OBVIOUS
    <2>1. CASE Work
      BY <2>1, WorkLasts
    <2>2. ASSUME UNCHANGED de PROVE Delivered'
      BY <2>2 DEF de, Delivered
    <2>3. CASE \E cmd \in Commands, dry \in DryRuns, lacks \in Lacks : Start(cmd, dry, lacks)
      BY <2>2, <2>3 DEF Start, world
    <2>4. CASE Crash \/ ZarfCut \/ RotatePassword \/ RepairZarf
      <3>1. UNCHANGED de
        BY <2>4 DEF Crash, ZarfCut, RotatePassword, RepairZarf, world
      <3> QED BY <2>2, <3>1
    <2>5. CASE UNCHANGED vars
      BY <2>2, <2>5 DEF vars, world
    <2>6. CASE TimePasses
      BY <2>6 DEF TimePasses, Delivered, IInv, TypeOK, WorldTyped
    <2>7. ~ResourceGone
      BY DEF ResourceGone, Delivered
    <2> QED BY <2>1, <2>3, <2>4, <2>5, <2>6, <2>7 DEF Next
  <1> QED BY <1>1, Invariance, PTL DEF Spec, DeliveryLasts

-----------------------------------------------------------------------------
(* A tenant without a user of its own                                      *)

\* What the operator starts from: no user and no view, as on a tenant that enable
\* has to make itself.
WithoutUser == \A i \in Initials : {"user", "view"} \intersect i = {}

\* The user that enable makes lives on the default provider, so the view is
\* refused, and without it the setup of DataEngine.
Refused ==
  /\ "view" \notin objs /\ ~engine.on
  /\ "user" \in objs => "user" \in strays
  /\ run.at > 7 /\ ~run.dry => "user" \in objs

SameUser ==
  /\ "user" \in objs' <=> "user" \in objs
  /\ "view" \in objs' <=> "view" \in objs
  /\ strays \subseteq strays'

\* A step that makes neither the user nor the view.
LEMMA AdvanceRefused ==
  ASSUME IInv, Refused, NEW s, At(s), Proceed \/ Exit("error"), s # "user",
         SameUser, engine'.on = engine.on
  PROVE  Refused'
  <1>1. run \in Runs /\ run.at \in 1..20 /\ run.at # 7
    BY RunTyped, Positions DEF At, Steps
  <1>2. run'.at = 0 \/ (run'.at = run.at + 1 /\ run'.dry = run.dry)
    BY <1>1, AdvancedFields, ExitFields DEF Proceed, SameRequest, Exits
  <1> QED BY <1>1, <1>2 DEF Refused, SameUser

LEMMA EnsureRefused ==
  ASSUME IInv, Refused, NEW k \in EnsuredKinds, EnsureStep(k)
  PROVE  Refused'
  <1>1. run \in Runs /\ run.at \in 1..20 /\ At(k) /\ engine' = engine
    BY RunTyped, Positions DEF EnsureStep, de
  <1>2. CASE k \in objs \/ run.dry \/ Skipped(k) \/ UNCHANGED <<objs, strays>>
    <2>1. UNCHANGED <<objs, strays>> /\ (Proceed \/ Exit("error"))
      BY <1>2 DEF EnsureStep
    <2>2. CASE k = "user" /\ Proceed
      <3>1. run.at = 7
        BY <1>1, <2>2 DEF At, Steps
      <3>2. run'.at = 8 /\ run'.dry = run.dry
        BY <1>1, <2>2, <3>1, AdvancedFields DEF Proceed, SameRequest
      <3>3. "user" \in objs \/ run.dry
        <4> SUFFICES ASSUME "user" \notin objs PROVE run.dry
          OBVIOUS
        <4>1. UNCHANGED objs
          BY <2>1
        <4>2. objs' # objs \union {"user"}
          BY <4>1
        <4>3. Exit("error") => run'.at = 0
          BY <1>1, ExitFields DEF Exits
        <4> QED BY <2>2, <3>2, <4>2, <4>3 DEF EnsureStep, Skipped
      <3> QED BY <1>1, <2>1, <3>2, <3>3 DEF Refused
    <2>3. CASE k = "user" /\ Exit("error")
      <3>1. run'.at = 0
        BY <1>1, <2>3, ExitFields DEF Exits
      <3> QED BY <1>1, <2>1, <3>1 DEF Refused
    <2>4. CASE k # "user"
      BY <1>1, <2>1, <2>4, AdvanceRefused DEF SameUser
    <2> QED BY <2>1, <2>2, <2>3, <2>4
  <1>3. CASE ~(k \in objs \/ run.dry \/ Skipped(k) \/ UNCHANGED <<objs, strays>>)
    <2>1. /\ Accepted(k) /\ Proceed /\ ~run.dry
          /\ objs' = objs \union {k} /\ strays' = strays \union ({k} \intersect OnDefaultProvider)
      BY <1>3 DEF EnsureStep
    <2>2. CASE k = "user"
      <3>1. "user" \in objs' /\ "user" \in strays' /\ "view" \notin objs'
        BY <2>1, <2>2 DEF Refused, OnDefaultProvider
      <3> QED BY <1>1, <3>1 DEF Refused
    <2>3. k # "view"
      <3> SUFFICES ASSUME k = "view" PROVE FALSE
        OBVIOUS
      <3>1. run.at = 12
        BY <1>1 DEF At, Steps
      <3>2. "user" \in strays
        BY <2>1, <3>1 DEF Refused
      <3> QED BY <2>1, <3>2 DEF Accepted
    <2>4. CASE k # "user"
      BY <1>1, <2>1, <2>3, <2>4, AdvanceRefused DEF SameUser
    <2> QED BY <2>2, <2>4
  <1> QED BY <1>2, <1>3

LEMMA WorkRefused == ASSUME IInv, Refused, Work PROVE Refused'
  <1>1. ~Listed /\ ~SetupAccepted
    BY DEF Refused, Listed, SetupAccepted
  <1>2. CASE Discover \/ Preflight \/ ZarfInit \/ PackageDeploy
    BY <1>2, AdvanceRefused DEF Discover, Preflight, ZarfInit, PackageDeploy, SameUser, world, vms, de
  <1>3. CASE \E k \in EnsuredKinds : EnsureStep(k)
    BY <1>3, EnsureRefused
  <1>4. CASE EnsureRole
    <2>1. At("role") /\ (Proceed \/ Exit("error")) /\ SameUser /\ engine' = engine
      BY <1>4 DEF EnsureRole, SameUser, de
    <2> QED BY <2>1, AdvanceRefused
  <1>5. CASE EnsureManager
    <2>1. At("manager") /\ Proceed /\ SameUser /\ engine' = engine
      BY <1>5 DEF EnsureManager, SameUser, de
    <2> QED BY <2>1, AdvanceRefused
  <1>6. CASE \E k \in {"default", "dead"} : EnsureTopic(k)
    <2>1. PICK k \in {"default", "dead"} : EnsureTopic(k)
      BY <1>6
    <2>2. At(k) /\ k # "user" /\ Proceed /\ SameUser /\ engine' = engine
      BY <2>1 DEF EnsureTopic, SameUser, de
    <2> QED BY <2>2, AdvanceRefused
  <1>7. CASE ToggleSkipped \/ \E d \in Durations : Toggle(d)
    <2>1. \A d : ~Toggle(d)
      BY <1>1 DEF Toggle
    <2>2. At("toggle") /\ Proceed /\ SameUser /\ engine' = engine
      BY <1>7, <2>1 DEF ToggleSkipped, SameUser, world, vms, de
    <2> QED BY <2>2, AdvanceRefused
  <1>8. CASE \E c \in Calls : Call(c)
    <2>1. PICK c \in Calls : Call(c)
      BY <1>8
    <2>2. ASSUME NEW t PROVE ~FindKnown(c, t) /\ ~Register(c, t) /\ ~Wait(c, t) /\ ~GiveUp(c, t)
      BY <1>1 DEF FindKnown, Register, Wait, GiveUp, RefusedBusy
    <2>3. SkipCall(c) \/ CallFails(c)
      BY <2>1, <2>2 DEF Call
    <2>4. At(c) /\ c # "user" /\ (Proceed \/ Exit("error")) /\ SameUser /\ engine' = engine
      BY <2>3 DEF SkipCall, CallFails, SameUser, world, vms, de, Calls
    <2> QED BY <2>4, AdvanceRefused
  <1>9. CASE AttachPolicy
    <2>1. At("attach") /\ Proceed /\ SameUser
      BY <1>9, AttachDoes DEF SameUser, vms
    <2>2. engine'.on = engine.on
      BY <1>9, AttachDoes DEF IInv, TypeOK, WorldTyped
    <2> QED BY <2>1, <2>2, AdvanceRefused
  <1> QED BY <1>2, <1>3, <1>4, <1>5, <1>6, <1>7, <1>8, <1>9 DEF Work, EnsuredKinds

LEMMA NextRefused == ASSUME IInv, Refused, [Next]_vars PROVE Refused'
  <1>1. run \in Runs
    BY RunTyped
  <1>2. CASE \E cmd \in Commands, dry \in DryRuns, lacks \in Lacks : Start(cmd, dry, lacks)
    <2>1. run'.at \in {1, 2} /\ UNCHANGED world
      BY <1>2, NoRunTyped DEF Start, Runs
    <2> QED BY <2>1 DEF Refused, world, vms, de
  <1>3. CASE Work
    BY <1>3, WorkRefused
  <1>4. CASE Crash \/ ZarfCut
    <2>1. run'.at = 0
      BY <1>1, <1>4, ExitFields DEF Crash, ZarfCut, Exits
    <2> QED BY <1>4, <2>1 DEF Crash, ZarfCut, Refused, world, vms, de
  <1>5. CASE RemoveCluster \/ RemoveEngine
    <2>1. run'.at = run.at /\ run'.dry = run.dry
      BY <1>1, <1>5 DEF RemoveCluster, RemoveEngine, Touched, Runs
    <2>2. UNCHANGED <<objs, strays>> /\ ~engine'.on
      BY <1>5 DEF RemoveCluster, RemoveEngine, Refused, vms
    <2> QED BY <2>1, <2>2 DEF Refused
  <1>6. CASE ResourceGone \/ RotatePassword \/ RepairZarf \/ TimePasses \/ UNCHANGED vars
    <2>1. UNCHANGED <<objs, strays, run>> /\ engine'.on = engine.on
      BY <1>6 DEF ResourceGone, RotatePassword, RepairZarf, TimePasses, vars, world, vms, de,
                  IInv, TypeOK, WorldTyped
    <2> QED BY <2>1 DEF Refused
  <1> QED BY <1>2, <1>3, <1>4, <1>5, <1>6 DEF Next

\* On a tenant that starts without a user, enable never delivers, however often it
\* is run, with whatever configuration and however the environment behaves: not
\* by bad luck, as the violated run FreshSettles may suggest, but for good.
THEOREM FreshIsNeverDelivered ==
  ASSUME WithoutUser
  PROVE  Spec => []~Delivered
  <1>1. Init => IInv /\ Refused
    <2>1. NoRun.at = 0
      BY DEF NoRun
    <2> QED BY <2>1, InitInv DEF Init, Refused, WithoutUser
  <1>2. IInv /\ Refused /\ [Next]_vars => (IInv /\ Refused)'
    BY NextInv, NextRefused
  <1>3. Refused => ~Delivered
    BY DEF Refused, Delivered
  <1> QED BY <1>1, <1>2, <1>3, PTL DEF Spec

-----------------------------------------------------------------------------
(* A VMS that insists on the pools                                         *)

\* Nothing but a registration makes a cluster.
LEMMA NoCluster ==
  ASSUME PoolsRequired, [Next]_vars, cluster = 0
  PROVE  cluster' = 0
  <1>1. CASE \E cmd \in Commands, dry \in DryRuns, lacks \in Lacks : Start(cmd, dry, lacks)
    BY <1>1 DEF Start, world, de
  <1>2. CASE Crash \/ ZarfCut \/ ResourceGone \/ RotatePassword \/ RepairZarf \/ TimePasses
    BY <1>2 DEF Crash, ZarfCut, ResourceGone, RotatePassword, RepairZarf, TimePasses, world, de
  <1>3. CASE RemoveCluster \/ RemoveEngine \/ UNCHANGED vars
    BY <1>3 DEF RemoveCluster, RemoveEngine, vars, world, de
  <1>4. CASE Discover \/ Preflight \/ ZarfInit \/ PackageDeploy
    BY <1>4 DEF Discover, Preflight, ZarfInit, PackageDeploy, world, de
  <1>5. CASE \/ \E k \in EnsuredKinds : EnsureStep(k)
             \/ EnsureRole \/ EnsureManager \/ \E k \in {"default", "dead"} : EnsureTopic(k)
    BY <1>5 DEF EnsureStep, EnsureRole, EnsureManager, EnsureTopic, de
  <1>6. CASE (\E d \in Durations : Toggle(d)) \/ ToggleSkipped \/ AttachPolicy
    BY <1>6 DEF Toggle, ToggleSkipped, AttachPolicy, world, de
  <1>7. CASE \E c \in Calls : Call(c)
    <2>1. PICK c \in Calls : Call(c)
      BY <1>7
    <2>2. ASSUME NEW t, Register(c, t) PROVE cluster' = 0
      <3>1. ~Grants("cluster")
        BY DEF Grants, SetupBody
      <3>2. c # "cluster"
        BY <2>2, <3>1 DEF Register
      <3> QED BY <2>2, <3>2 DEF Register
    <2>3. ASSUME NEW t, FindKnown(c, t) \/ Wait(c, t) \/ GiveUp(c, t) PROVE cluster' = 0
      BY <2>3 DEF FindKnown, Wait, GiveUp
    <2>4. (SkipCall(c) \/ CallFails(c)) => cluster' = 0
      BY DEF SkipCall, CallFails, world, de
    <2> QED BY <2>1, <2>2, <2>3, <2>4 DEF Call
  <1> QED BY <1>1, <1>2, <1>3, <1>4, <1>5, <1>6, <1>7 DEF Next, Work, EnsuredKinds

\* Where VMS registers a Kubernetes cluster only after a setup-provisioning that
\* named the pools, enable never delivers, from whatever state and however often
\* it is run: the body it posts names none.
THEOREM WithoutPoolsNeverDelivered ==
  ASSUME PoolsRequired
  PROVE  Spec => []~Delivered
  <1>1. Init => IInv /\ cluster = 0
    BY InitInv DEF Init
  <1>2. IInv /\ cluster = 0 /\ [Next]_vars => (IInv /\ cluster = 0)'
    BY NextInv, NoCluster
  <1>3. IInv /\ cluster = 0 => ~Delivered
    BY DEF IInv, TypeOK, WorldTyped, Delivered
  <1> QED BY <1>1, <1>2, <1>3, PTL DEF Spec
=============================================================================
