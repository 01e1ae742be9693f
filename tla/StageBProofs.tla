---------------------------- MODULE StageBProofs ----------------------------
(***************************************************************************)
(* Proofs about Stage B, for any number of terminals, tenants, YAML files  *)
(* and commands: which tenant an apply writes to, and that nothing is ever *)
(* written through a `vastde` that rejects the flag for the bodies.        *)
(***************************************************************************)
EXTENDS StageBProperties, SequenceTheorems, TLAPS

-----------------------------------------------------------------------------
(* The items of a command                                                  *)

AllNames == Triggers \union Functions \union Pipelines \union {Disable}
ItemSet == [op : {"ensure", "deploy", "delete", "disable", "show", "ask"},
            kind : {"trigger", "function", "pipeline", "tenant"}, name : AllNames]

\* A list of items with such operations, where a prompt is about a pipeline.
Listed(s, ops) ==
  /\ s \in Seq(ItemSet)
  /\ \A n \in 1..Len(s) : s[n].op \in ops /\ (s[n].op = "ask" => s[n].name \in Pipelines)

\* A list to work off: a deployment comes after the item that ensures its
\* pipeline, which is done already (looked) if the deployment is the first.
Chained(s, looked) ==
  /\ s \in Seq(ItemSet) /\ s # <<>>
  /\ \A n \in 1..Len(s) :
       /\ s[n].op = "ask" => s[n].name \in Pipelines
       /\ s[n].op = "deploy" => IF n = 1 THEN looked ELSE s[n - 1].op = "ensure"

LEMMA OneItem ==
  ASSUME NEW op \in {"ensure", "deploy", "delete", "disable", "show", "ask"},
         NEW kind \in {"trigger", "function", "pipeline", "tenant"}, NEW name \in AllNames,
         op = "ask" => name \in Pipelines
  PROVE  Listed(<<Item(op, kind, name)>>, {op})
  BY DEF Item, Listed, ItemSet

LEMMA ManyItems ==
  ASSUME NEW op \in {"ensure", "delete"}, NEW kind \in {"trigger", "function"},
         NEW names \in Seq(Triggers) \union Seq(Functions)
  PROVE  Listed(Items(op, kind, names), {op})
  <1> DEFINE s == Items(op, kind, names)
  <1>1. Len(names) \in Nat /\ \A i \in 1..Len(names) : names[i] \in AllNames
    <2>1. CASE names \in Seq(Triggers)
      BY <2>1, ElementOfSeq, LenProperties DEF AllNames
    <2>2. CASE names \in Seq(Functions)
      BY <2>2, ElementOfSeq, LenProperties DEF AllNames
    <2> QED BY <2>1, <2>2
  <1>2. \A i \in 1..Len(names) : Item(op, kind, names[i]) \in ItemSet
    BY <1>1 DEF Item, ItemSet
  <1>3. s \in Seq(ItemSet)
    BY <1>1, <1>2 DEF Items
  <1>4. Len(s) = Len(names)
    BY <1>1 DEF Items
  <1>5. \A n \in 1..Len(s) : s[n] = Item(op, kind, names[n])
    BY <1>4 DEF Items
  <1> HIDE DEF s
  <1>6. \A n \in 1..Len(s) : s[n].op = op
    <2>1. \A n : Item(op, kind, n).op = op
      BY DEF Item
    <2> QED BY <1>5, <2>1
  <1> QED BY <1>3, <1>6 DEF Listed, s

LEMMA Joined ==
  ASSUME NEW S, NEW T, NEW s, NEW t, Listed(s, S), Listed(t, T)
  PROVE  Listed(s \o t, S \union T)
  <1>1. /\ s \o t \in Seq(ItemSet) /\ Len(s \o t) = Len(s) + Len(t)
        /\ \A i \in 1..Len(s) + Len(t) :
             (s \o t)[i] = IF i <= Len(s) THEN s[i] ELSE t[i - Len(s)]
    BY ConcatProperties DEF Listed
  <1>2. Len(s) \in Nat /\ Len(t) \in Nat
    BY LenProperties DEF Listed
  <1>3. ASSUME NEW i \in 1..Len(s \o t)
        PROVE  \/ \E j \in 1..Len(s) : (s \o t)[i] = s[j]
               \/ \E j \in 1..Len(t) : (s \o t)[i] = t[j]
    BY <1>1, <1>2
  <1> QED BY <1>1, <1>3 DEF Listed

LEMMA ListedIsChained ==
  ASSUME NEW S, NEW s, Listed(s, S), s # <<>>, "deploy" \notin S
  PROVE  Chained(s, FALSE)
  BY DEF Listed, Chained

LEMMA EnsureListed ==
  ASSUME NEW p \in Pipelines
  PROVE  Listed(EnsureItems(p), {"ensure"}) /\ EnsureItems(p) # <<>>
  <1> DEFINE a == Items("ensure", "trigger", TriggersOf[p])
             b == Items("ensure", "function", FunctionsOf[p])
             c == <<Item("ensure", "pipeline", p)>>
  <1>1. Listed(a, {"ensure"}) /\ Listed(b, {"ensure"})
    BY ManyItems, StageBConstants
  <1>2. Listed(c, {"ensure"}) /\ c # <<>>
    BY OneItem DEF AllNames
  <1> HIDE DEF a, b, c
  <1>3. Listed(a \o b, {"ensure"})
    BY <1>1, Joined, {"ensure"} \union {"ensure"} = {"ensure"}
  <1>4. Listed((a \o b) \o c, {"ensure"})
    BY <1>2, <1>3, Joined, {"ensure"} \union {"ensure"} = {"ensure"}
  <1>5. (a \o b) \o c # <<>>
    BY <1>2, <1>3, ConcatSimplifications DEF Listed
  <1> QED BY <1>4, <1>5 DEF EnsureItems, a, b, c

TargetSet(o) == IF o.cmd = "build" THEN Functions ELSE Pipelines \union {Disable}

LEMMA TargetChained ==
  ASSUME NEW o \in Commands, NEW x \in TargetSet(o) \union Pipelines
  PROVE  Chained(Target(o, x), FALSE)
  <1>1. CASE x = Disable
    <2>1. Target(o, x) = <<Item("disable", "tenant", x)>>
      BY <1>1 DEF Target
    <2>2. Listed(<<Item("disable", "tenant", x)>>, {"disable"})
      BY <1>1, OneItem DEF AllNames
    <2> QED BY <2>1, <2>2, ListedIsChained
  <1>2. CASE x # Disable /\ o.cmd = "build"
    <2>1. Target(o, x) = <<Item("ensure", "function", x)>>
      BY <1>2 DEF Target
    <2>2. Listed(<<Item("ensure", "function", x)>>, {"ensure"})
      BY <1>2, OneItem DEF AllNames, TargetSet
    <2> QED BY <2>1, <2>2, ListedIsChained
  <1>3. CASE x # Disable /\ o.cmd = "status"
    <2>1. Target(o, x) = <<Item("show", "pipeline", x)>>
      BY <1>3 DEF Target
    <2>2. Listed(<<Item("show", "pipeline", x)>>, {"show"})
      BY <1>3, OneItem DEF AllNames, TargetSet
    <2> QED BY <2>1, <2>2, ListedIsChained
  <1>4. CASE x # Disable /\ o.cmd = "destroy"
    <2>1. x \in Pipelines /\ Target(o, x) = DestroyItems(x)
      BY <1>4 DEF Target, TargetSet
    <2> DEFINE a == <<Item("delete", "pipeline", x)>>
               b == Items("delete", "trigger", TriggersOf[x])
               c == Items("delete", "function", FunctionsOf[x])
    <2>2. Listed(a, {"delete"}) /\ a # <<>>
      BY <2>1, OneItem DEF AllNames
    <2>3. Listed(b, {"delete"}) /\ Listed(c, {"delete"})
      BY <2>1, ManyItems, StageBConstants
    <2> HIDE DEF a, b, c
    <2>4. Listed(a \o b, {"delete"}) /\ a \o b # <<>>
      BY <2>2, <2>3, Joined, ConcatSimplifications, {"delete"} \union {"delete"} = {"delete"}
      DEF Listed
    <2>5. Listed((a \o b) \o c, {"delete"}) /\ (a \o b) \o c # <<>>
      BY <2>3, <2>4, Joined, ConcatSimplifications, {"delete"} \union {"delete"} = {"delete"}
      DEF Listed
    <2>6. DestroyItems(x) = (a \o b) \o c
      BY DEF DestroyItems, a, b, c
    <2> QED BY <2>1, <2>5, <2>6, ListedIsChained
  <1>5. CASE x # Disable /\ o.cmd = "apply"
    <2> DEFINE d == o.deploy /\ ~o.dry
    <2>1. x \in Pipelines /\ Target(o, x) = ApplyItems(x, d)
      BY <1>5 DEF Target, TargetSet
    <2>2. Listed(EnsureItems(x), {"ensure"}) /\ EnsureItems(x) # <<>>
      BY <2>1, EnsureListed
    <2>3. CASE ~d
      <3>1. ApplyItems(x, d) = EnsureItems(x) \o <<>>
        BY <2>3 DEF ApplyItems
      <3>2. ApplyItems(x, d) = EnsureItems(x)
        BY <2>2, <3>1, ConcatEmptySeq DEF Listed
      <3> QED BY <2>1, <2>2, <3>2, ListedIsChained
    <2>4. CASE d
      <3> DEFINE s == EnsureItems(x)
                 e == <<Item("deploy", "pipeline", x)>>
      <3>1. ApplyItems(x, d) = s \o e
        BY <2>4 DEF ApplyItems
      <3>2. e \in Seq(ItemSet) /\ Len(e) = 1 /\ e[1].op = "deploy"
        BY <2>1 DEF Item, ItemSet, AllNames
      <3> HIDE DEF s, e, d
      <3>3. s \in Seq(ItemSet) /\ s # <<>> /\ \A n \in 1..Len(s) : s[n].op = "ensure"
        BY <2>2 DEF Listed, s
      <3>4. Len(s) \in Nat \ {0}
        BY <3>3, EmptySeq
      <3>5. /\ s \o e \in Seq(ItemSet) /\ Len(s \o e) = Len(s) + 1
            /\ \A i \in 1..Len(s) + 1 :
                 (s \o e)[i] = IF i <= Len(s) THEN s[i] ELSE e[i - Len(s)]
        <4>1. s \in Seq(ItemSet) /\ e \in Seq(ItemSet)
          BY <3>2, <3>3
        <4>2. /\ s \o e \in Seq(ItemSet) /\ Len(s \o e) = Len(s) + Len(e)
              /\ \A i \in 1..Len(s) + Len(e) :
                   (s \o e)[i] = IF i <= Len(s) THEN s[i] ELSE e[i - Len(s)]
          BY <4>1, ConcatProperties
        <4>3. Len(e) = 1
          BY <3>2
        <4> QED BY <4>2, <4>3
      <3>6. s \o e # <<>>
        <4>1. Len(s \o e) # 0
          BY <3>4, <3>5
        <4>2. Len(<<>>) = 0
          OBVIOUS
        <4> QED BY <4>1, <4>2, Zenon
      <3>7. ASSUME NEW n \in 1..Len(s \o e)
            PROVE  IF n <= Len(s) THEN (s \o e)[n].op = "ensure"
                   ELSE n = Len(s) + 1 /\ (s \o e)[n].op = "deploy"
        <4>1. CASE n <= Len(s)
          <5>1. n \in 1..Len(s) /\ (s \o e)[n] = s[n]
            BY <3>4, <3>5, <4>1
          <5> QED BY <3>3, <4>1, <5>1
        <4>2. CASE ~(n <= Len(s))
          <5>1. n = Len(s) + 1 /\ n - Len(s) = 1
            BY <3>4, <3>5, <4>2
          <5>2. (s \o e)[n] = e[n - Len(s)]
            BY <3>4, <3>5, <4>2
          <5> QED BY <3>2, <4>2, <5>1, <5>2
        <4> QED BY <4>1, <4>2
      <3>8. ASSUME NEW n \in 1..Len(s \o e), (s \o e)[n].op = "deploy"
            PROVE  n # 1 /\ (s \o e)[n - 1].op = "ensure"
        <4>1. n = Len(s) + 1
          BY <3>7, <3>8
        <4>2. n - 1 \in 1..Len(s \o e) /\ n - 1 <= Len(s) /\ n # 1
          BY <3>4, <3>5, <4>1
        <4> QED BY <3>7, <4>2
      <3>9. \A n \in 1..Len(s \o e) : (s \o e)[n].op # "ask"
        BY <3>7
      <3>10. Chained(s \o e, FALSE)
        BY <3>5, <3>6, <3>8, <3>9 DEF Chained
      <3> QED BY <2>1, <3>1, <3>10
    <2> QED BY <2>3, <2>4
  <1> QED BY <1>1, <1>2, <1>3, <1>4, <1>5 DEF Commands

LEMMA PreviewChained ==
  ASSUME NEW p \in Pipelines
  PROVE  Chained(Preview(p), FALSE)
  <1>1. Listed(EnsureItems(p), {"ensure"}) /\ EnsureItems(p) # <<>>
    BY EnsureListed
  <1>2. Listed(<<Item("ask", "pipeline", p)>>, {"ask"})
    BY OneItem DEF AllNames
  <1>3. Listed(Preview(p), {"ensure"} \union {"ask"})
    BY <1>1, <1>2, Joined DEF Preview
  <1>4. Preview(p) # <<>>
    BY <1>1, <1>2, ConcatSimplifications DEF Preview, Listed
  <1> QED BY <1>3, <1>4, ListedIsChained

LEMMA ChainedTail ==
  ASSUME NEW s, NEW c \in BOOLEAN, Chained(s, c), Len(s) > 1, s[1].op = "ensure" => c
  PROVE  Chained(Tail(s), c)
  <1>1. s \in Seq(ItemSet) /\ s # <<>> /\ Len(s) \in Nat
    BY LenProperties DEF Chained
  <1>2. /\ Tail(s) \in Seq(ItemSet) /\ Len(Tail(s)) = Len(s) - 1
        /\ \A i \in 1..Len(Tail(s)) : Tail(s)[i] = s[i + 1]
    BY <1>1, HeadTailProperties
  <1>3. Tail(s) # <<>>
    <2>1. Len(Tail(s)) # 0
      BY <1>1, <1>2
    <2>2. Len(<<>>) = 0
      OBVIOUS
    <2> QED BY <2>1, <2>2, Zenon
  <1>4. ASSUME NEW n \in 1..Len(Tail(s))
        PROVE  /\ Tail(s)[n].op = "ask" => Tail(s)[n].name \in Pipelines
               /\ Tail(s)[n].op = "deploy" => IF n = 1 THEN c ELSE Tail(s)[n - 1].op = "ensure"
    <2>1. n + 1 \in 1..Len(s) /\ n + 1 # 1 /\ Tail(s)[n] = s[n + 1] /\ (n + 1) - 1 = n
      BY <1>1, <1>2
    <2>2. s[n + 1].op = "ask" => s[n + 1].name \in Pipelines
      BY <2>1 DEF Chained
    <2>3. s[n + 1].op = "deploy" => s[n].op = "ensure"
      BY <2>1 DEF Chained
    <2>4. CASE n = 1
      BY <2>1, <2>2, <2>3, <2>4
    <2>5. CASE n # 1
      <3>1. n - 1 \in 1..Len(Tail(s)) /\ (n - 1) + 1 = n
        BY <1>1, <1>2, <2>5
      <3>2. Tail(s)[n - 1] = s[n]
        BY <1>2, <3>1
      <3> QED BY <2>1, <2>2, <2>3, <2>5, <3>2
    <2> QED BY <2>4, <2>5
  <1> QED BY <1>2, <1>3, <1>4 DEF Chained

-----------------------------------------------------------------------------
(* The record of a run                                                     *)

Fields == {"opt", "left", "todo", "phase", "ask", "trial", "conf", "want", "tag", "seen",
           "ok", "shown", "refused", "done", "moved", "robbed", "stale", "blind"}

\* Of a run of terminal t, whatever it does: it knows its targets; if it has
\* logged in and no other terminal did so elsewhere since, the machine's login
\* is the tenant of its YAML.
Based(r, t, tenant) ==
  /\ DOMAIN r = Fields /\ r.opt \in Commands /\ r.left \in Seq(TargetSet(r.opt))
  /\ r.ask => r.opt.cmd # "build"
  /\ r.conf \in BOOLEAN
  /\ (r.conf /\ ~r.robbed) => tenant = TenantOf[t]
\* And where it is in its work: it writes, or deploys, only what it has looked
\* at, after it had logged in.
InHand(r) ==
  /\ r.phase = "idle" => ~r.conf
  /\ r.phase # "idle" => Chained(r.todo, r.conf)
  /\ r.phase = "write" => r.conf
RunOK(r, t, tenant) == Based(r, t, tenant) /\ InHand(r)

LEMMA NothingTyped == Nothing \in Commands /\ <<>> \in Seq(TargetSet(Nothing))
  BY EmptySeq DEF Nothing, Commands

LEMMA NoRunFields == DOMAIN NoRun = Fields
  BY DEF NoRun, Fields

LEMMA NoRunOK ==
  ASSUME NEW t, NEW tenant
  PROVE  RunOK(NoRun, t, tenant)
  BY NothingTyped, NoRunFields DEF RunOK, Based, InHand, NoRun

LEMMA EndedOK ==
  ASSUME NEW r, NEW t, NEW tenant, Based(r, t, tenant)
  PROVE  RunOK(Ended(r), t, tenant)
  <1> DEFINE e == [NoRun EXCEPT !.opt = r.opt, !.refused = r.refused, !.ok = TRUE]
  <1>1. /\ DOMAIN e = Fields /\ e.opt = r.opt /\ e.left = <<>> /\ e.phase = "idle"
        /\ e.ask = FALSE /\ e.conf = FALSE
    BY NoRunFields DEF NoRun, Fields
  <1>2. <<>> \in Seq(TargetSet(r.opt))
    BY EmptySeq
  <1> HIDE DEF e
  <1>3. RunOK(e, t, tenant)
    BY <1>1, <1>2 DEF RunOK, Based, InHand
  <1>4. Ended(r) = IF r.moved THEN NoRun ELSE e
    BY DEF Ended, e
  <1> QED BY <1>3, <1>4, NoRunOK

LEMMA BeginOK ==
  ASSUME NEW r, NEW t, NEW tenant, Based(r, t, tenant), NEW s, Chained(s, r.conf)
  PROVE  RunOK(Begin(r, s), t, tenant) /\ Begin(r, s).phase # "idle"
  <1> DEFINE b == [r EXCEPT !.todo = s, !.phase = FirstPhase(Head(s)),
                            !.seen = None, !.stale = FALSE]
  <1>1. DOMAIN r = Fields
    BY DEF Based
  <1>2. /\ DOMAIN b = Fields /\ b.opt = r.opt /\ b.left = r.left /\ b.ask = r.ask
        /\ b.conf = r.conf /\ b.robbed = r.robbed /\ b.todo = s
        /\ b.phase = FirstPhase(Head(s))
    BY <1>1 DEF Fields
  <1>3. FirstPhase(Head(s)) \in {"check", "look", "do"}
    BY DEF FirstPhase
  <1> HIDE DEF b
  <1>4. RunOK(b, t, tenant) /\ b.phase # "idle"
    BY <1>2, <1>3 DEF RunOK, Based, InHand
  <1> QED BY <1>4 DEF Begin, b

LEMMA ChainedWeaker ==
  ASSUME NEW s, NEW c \in BOOLEAN, Chained(s, FALSE)
  PROVE  Chained(s, c)
  BY DEF Chained

LEMMA NextTargetOK ==
  ASSUME NEW r, NEW t, NEW tenant, Based(r, t, tenant)
  PROVE  RunOK(NextTarget(r), t, tenant)
  <1>1. CASE r.left = <<>>
    BY <1>1, EndedOK DEF NextTarget
  <1>2. CASE r.left # <<>>
    <2> DEFINE x == Head(r.left)
               trial == r.ask /\ x # Disable
               n == [r EXCEPT !.left = Tail(@), !.trial = trial, !.shown = {},
                              !.conf = @ /\ r.opt.cmd # "apply"]
               s == IF trial THEN Preview(x) ELSE Target(r.opt, x)
    <2>1. DOMAIN r = Fields /\ r.opt \in Commands /\ r.left \in Seq(TargetSet(r.opt))
      BY DEF Based
    <2>2. x \in TargetSet(r.opt) /\ Tail(r.left) \in Seq(TargetSet(r.opt))
      BY <1>2, <2>1, HeadTailProperties
    <2>3. /\ DOMAIN n = Fields /\ n.opt = r.opt /\ n.left = Tail(r.left) /\ n.ask = r.ask
          /\ n.conf = (r.conf /\ r.opt.cmd # "apply") /\ n.robbed = r.robbed
      BY <2>1 DEF Fields
    <2>4. NextTarget(r) = Begin(n, s)
      BY <1>2 DEF NextTarget
    <2>5. trial => x \in Pipelines
      BY <2>2 DEF Based, TargetSet
    <2> HIDE DEF x, n
    <2>6. Chained(s, FALSE)
      BY <2>1, <2>2, <2>5, TargetChained, PreviewChained
    <2> HIDE DEF trial, s
    <2>7. Based(n, t, tenant)
      BY <2>1, <2>2, <2>3 DEF Based
    <2>8. Chained(s, n.conf)
      BY <2>6, <2>7, ChainedWeaker DEF Based
    <2> QED BY <2>4, <2>7, <2>8, BeginOK
  <1> QED BY <1>1, <1>2

LEMMA SteppedOK ==
  ASSUME NEW r, NEW t, NEW tenant, RunOK(r, t, tenant), r.phase # "idle",
         Head(r.todo).op = "ensure" => r.conf
  PROVE  RunOK(Stepped(r), t, tenant)
  <1>1. Based(r, t, tenant) /\ Chained(r.todo, r.conf) /\ r.conf \in BOOLEAN
    BY DEF RunOK, InHand, Based
  <1>2. CASE Len(r.todo) > 1
    <2>1. Head(r.todo) = r.todo[1]
      BY <1>1 DEF Chained
    <2>2. Chained(Tail(r.todo), r.conf)
      BY <1>1, <1>2, <2>1, ChainedTail
    <2> QED BY <1>1, <1>2, <2>2, BeginOK DEF Stepped
  <1>3. CASE ~(Len(r.todo) > 1)
    BY <1>1, <1>3, NextTargetOK DEF Stepped
  <1> QED BY <1>2, <1>3

\* What others do to the record of a run, and what the history notes of it.
LEMMA NotedOK ==
  ASSUME NEW r, NEW t, NEW tenant, RunOK(r, t, tenant), NEW q, DOMAIN q = Fields,
         q.opt = r.opt, q.left = r.left, q.todo = r.todo, q.phase = r.phase,
         q.ask = r.ask, q.conf = r.conf, q.robbed = r.robbed
  PROVE  RunOK(q, t, tenant)
  BY DEF RunOK, Based, InHand

LEMMA DisturbedOK ==
  ASSUME NEW r, NEW t, NEW tenant, RunOK(r, t, tenant)
  PROVE  /\ RunOK(Disturbed(r), t, tenant)
         /\ r.phase # "idle" => /\ Disturbed(r).phase = r.phase /\ Disturbed(r).todo = r.todo
                                /\ Disturbed(r).robbed = r.robbed /\ Disturbed(r).conf = r.conf
         /\ r.phase = "idle" => Disturbed(r).phase = "idle"
         /\ DOMAIN Disturbed(r) = Fields
  <1> DEFINE d == [r EXCEPT !.moved = TRUE, !.done = FALSE, !.shown = {}]
  <1>1. DOMAIN r = Fields
    BY DEF RunOK, Based
  <1>2. /\ DOMAIN d = Fields /\ d.opt = r.opt /\ d.left = r.left /\ d.todo = r.todo
        /\ d.phase = r.phase /\ d.ask = r.ask /\ d.conf = r.conf /\ d.robbed = r.robbed
    BY <1>1 DEF Fields
  <1> HIDE DEF d
  <1>3. RunOK(d, t, tenant)
    BY <1>2, NotedOK
  <1>4. Disturbed(r) = IF r.phase = "idle" THEN NoRun ELSE d
    BY DEF Disturbed, d
  <1>5. NoRun.phase = "idle"
    BY DEF NoRun
  <1> QED BY <1>2, <1>3, <1>4, <1>5, NoRunOK, NoRunFields

-----------------------------------------------------------------------------
(* The invariant                                                           *)

HomeInv ==
  /\ DOMAIN run = Terminals /\ DOMAIN held = Tenants /\ DOMAIN running = Tenants
  /\ \A t \in Terminals : RunOK(run[t], t, login)

LEMMA TargetsTyped ==
  ASSUME NEW o \in Commands
  PROVE  Targets(o) \in Seq(TargetSet(o)) /\ (o.ask => o.cmd # "build")
  <1>1. o.ask => o.cmd # "build"
    BY DEF Commands
  <1>2. CASE o.cmd = "build"
    <2>1. o.targets \in Seq(Functions) /\ o.off = FALSE
      BY <1>2 DEF Commands
    <2>2. Targets(o) = o.targets \o <<>>
      BY <2>1 DEF Targets
    <2>3. Targets(o) = o.targets
      BY <2>1, <2>2, ConcatEmptySeq
    <2> QED BY <1>1, <1>2, <2>1, <2>3 DEF TargetSet
  <1>3. CASE o.cmd # "build"
    <2>1. o.targets \in Seq(Pipelines)
      BY <1>3 DEF Commands
    <2>2. TargetSet(o) = Pipelines \union {Disable}
      BY <1>3 DEF TargetSet
    <2>3. o.targets \in Seq(TargetSet(o))
      BY <2>1, <2>2
    <2>4. <<Disable>> \in Seq(TargetSet(o)) /\ <<>> \in Seq(TargetSet(o))
      BY <2>2
    <2> DEFINE e == IF o.off THEN <<Disable>> ELSE <<>>
    <2>5. e \in Seq(TargetSet(o))
      BY <2>4
    <2> HIDE DEF e
    <2>6. o.targets \o e \in Seq(TargetSet(o))
      BY <2>3, <2>5, ConcatProperties
    <2> QED BY <1>1, <2>6 DEF Targets, e
  <1> QED BY <1>2, <1>3

\* A step of one terminal that the others do not notice.
LEMMA OwnStep ==
  ASSUME HomeInv, NEW t \in Terminals, NEW r, RunOK(r, t, login),
         run' = [run EXCEPT ![t] = r], login' = login,
         DOMAIN held' = DOMAIN held, DOMAIN running' = DOMAIN running
  PROVE  HomeInv'
  <1>1. DOMAIN run' = Terminals /\ DOMAIN held' = Tenants /\ DOMAIN running' = Tenants
    BY DEF HomeInv
  <1>2. ASSUME NEW s \in Terminals PROVE RunOK(run'[s], s, login')
    <2>1. CASE s = t
      <3>1. run'[s] = r
        BY <2>1 DEF HomeInv
      <3> QED BY <2>1, <3>1
    <2>2. CASE s # t
      <3>1. run'[s] = run[s]
        BY <2>2 DEF HomeInv
      <3> QED BY <3>1 DEF HomeInv
    <2> QED BY <2>1, <2>2
  <1> QED BY <1>1, <1>2 DEF HomeInv

\* A step of one terminal that moves the world of the others.
LEMMA MovedStep ==
  ASSUME HomeInv, NEW t \in Terminals, NEW r, RunOK(r, t, login),
         run' = Moved(t, r), login' = login,
         DOMAIN held' = DOMAIN held, DOMAIN running' = DOMAIN running
  PROVE  HomeInv'
  <1>1. DOMAIN run' = Terminals /\ DOMAIN held' = Tenants /\ DOMAIN running' = Tenants
    BY DEF HomeInv, Moved
  <1>2. ASSUME NEW s \in Terminals PROVE RunOK(run'[s], s, login')
    <2>1. CASE s = t
      <3>1. run'[s] = r
        BY <2>1 DEF Moved
      <3> QED BY <2>1, <3>1
    <2>2. CASE s # t
      <3>1. run'[s] = Disturbed(run[s])
        BY <2>2 DEF Moved
      <3>2. RunOK(run[s], s, login)
        BY DEF HomeInv
      <3> QED BY <3>1, <3>2, DisturbedOK
    <2> QED BY <2>1, <2>2
  <1> QED BY <1>1, <1>2 DEF HomeInv

\* A change that nobody here makes.
LEMMA WorldStep ==
  ASSUME HomeInv, run' = [s \in Terminals |-> Disturbed(run[s])], login' = login,
         DOMAIN held' = DOMAIN held, DOMAIN running' = DOMAIN running
  PROVE  HomeInv'
  <1>1. DOMAIN run' = Terminals /\ DOMAIN held' = Tenants /\ DOMAIN running' = Tenants
    BY DEF HomeInv
  <1>2. ASSUME NEW s \in Terminals PROVE RunOK(run'[s], s, login')
    <2>1. run'[s] = Disturbed(run[s]) /\ RunOK(run[s], s, login)
      BY DEF HomeInv
    <2> QED BY <2>1, DisturbedOK
  <1> QED BY <1>1, <1>2 DEF HomeInv

LEMMA StartKeepsHome ==
  ASSUME HomeInv, NEW t \in Terminals, NEW o \in Options[t], Start(t, o)
  PROVE  HomeInv'
  <1> DEFINE r == [NoRun EXCEPT !.opt = o, !.left = Targets(o), !.ask = o.ask,
                                !.want = yaml, !.done = InPlace(t)]
  <1>1. o \in Commands
    BY StageBConstants
  <1>2. /\ DOMAIN r = Fields /\ r.opt = o /\ r.left = Targets(o) /\ r.ask = o.ask
        /\ r.conf = FALSE
    BY NoRunFields DEF NoRun, Fields
  <1>3. run' = [run EXCEPT ![t] = NextTarget(r)]
    BY DEF Start
  <1> HIDE DEF r
  <1>4. Based(r, t, login)
    BY <1>1, <1>2, TargetsTyped DEF Based
  <1>5. RunOK(NextTarget(r), t, login)
    BY <1>4, NextTargetOK
  <1>6. login' = login /\ held' = held /\ running' = running
    BY DEF Start, remote
  <1> QED BY <1>3, <1>5, <1>6, OwnStep

LEMMA StopKeepsHome ==
  ASSUME HomeInv, NEW t \in Terminals, Stop(t)
  PROVE  HomeInv'
  BY NoRunOK, OwnStep DEF Stop, Fail, remote

LEMMA Running ==
  ASSUME HomeInv, NEW t \in Terminals, ~Idle(t)
  PROVE  /\ RunOK(run[t], t, login) /\ run[t].phase # "idle" /\ DOMAIN run[t] = Fields
         /\ Chained(run[t].todo, run[t].conf) /\ run[t].conf \in BOOLEAN
         /\ Now(t) \in ItemSet /\ Now(t) = run[t].todo[1]
         /\ 1 \in 1..Len(run[t].todo)
  <1>1. RunOK(run[t], t, login) /\ run[t].phase # "idle"
    BY DEF HomeInv, Idle
  <1>2. /\ Chained(run[t].todo, run[t].conf) /\ run[t].conf \in BOOLEAN
        /\ DOMAIN run[t] = Fields
    BY <1>1 DEF RunOK, Based, InHand
  <1>3. run[t].todo \in Seq(ItemSet) /\ run[t].todo # <<>>
    BY <1>2 DEF Chained
  <1>4. Len(run[t].todo) \in Nat /\ Len(run[t].todo) # 0
    BY <1>3, EmptySeq, LenProperties
  <1>5. 1 \in 1..Len(run[t].todo)
    BY <1>4
  <1>6. Now(t) = run[t].todo[1]
    BY <1>3 DEF Now
  <1>7. run[t].todo[1] \in ItemSet
    BY <1>3, <1>5, ElementOfSeq
  <1> QED BY <1>1, <1>2, <1>5, <1>6, <1>7

\* What `vastde config init` is for: from then on the machine works on the
\* tenant of the YAML.
LEMMA ConfigureKeepsHome ==
  ASSUME HomeInv, NEW t \in Terminals, Configure(t)
  PROVE  HomeInv'
  <1> DEFINE other(s) == IF login = TenantOf[t] THEN run[s] ELSE Disturbed(run[s])
             q(s) == [other(s) EXCEPT !.robbed = @ \/ (~Idle(s) /\ TenantOf[s] # TenantOf[t])]
             mine == [run[t] EXCEPT !.conf = TRUE, !.robbed = FALSE]
  <1>1. /\ run' = [s \in Terminals |-> IF s = t THEN mine ELSE q(s)]
        /\ login' = TenantOf[t] /\ held' = held /\ running' = running
        /\ ~Idle(t) /\ AtPhase(t, "look")
    BY DEF Configure, AtPhase, remote
  <1>2. DOMAIN run' = Terminals /\ DOMAIN held' = Tenants /\ DOMAIN running' = Tenants
    BY <1>1 DEF HomeInv
  <1>3. ASSUME NEW s \in Terminals PROVE RunOK(run'[s], s, login')
    <2>1. CASE s = t
      <3>1. RunOK(run[t], t, login) /\ DOMAIN run[t] = Fields /\ Chained(run[t].todo, run[t].conf)
        BY <1>1, Running
      <3>2. /\ DOMAIN mine = Fields /\ mine.opt = run[t].opt /\ mine.left = run[t].left
            /\ mine.todo = run[t].todo /\ mine.phase = run[t].phase /\ mine.ask = run[t].ask
            /\ mine.conf = TRUE /\ mine.robbed = FALSE
        BY <3>1 DEF Fields
      <3>3. run'[t] = mine /\ run[t].phase = "look"
        BY <1>1 DEF AtPhase
      <3> HIDE DEF mine
      <3>4. Chained(run[t].todo, TRUE)
        BY <3>1 DEF Chained
      <3>5. Based(mine, t, login')
        BY <1>1, <3>1, <3>2 DEF RunOK, Based
      <3>6. InHand(mine)
        BY <3>2, <3>3, <3>4 DEF InHand
      <3> QED BY <2>1, <3>3, <3>5, <3>6 DEF RunOK
    <2>2. CASE s # t
      <3>1. run'[s] = q(s) /\ RunOK(run[s], s, login)
        BY <1>1, <2>2 DEF HomeInv
      <3>2. RunOK(other(s), s, login) /\ DOMAIN other(s) = Fields
        <4>1. RunOK(Disturbed(run[s]), s, login) /\ DOMAIN Disturbed(run[s]) = Fields
          BY <3>1, DisturbedOK
        <4>2. DOMAIN run[s] = Fields
          BY <3>1 DEF RunOK, Based
        <4> QED BY <3>1, <4>1, <4>2
      <3>3. (other(s).phase = "idle") <=> Idle(s)
        BY <3>1, DisturbedOK DEF Idle
      <3> HIDE DEF other
      <3>4. /\ DOMAIN q(s) = Fields /\ q(s).opt = other(s).opt /\ q(s).left = other(s).left
            /\ q(s).todo = other(s).todo /\ q(s).phase = other(s).phase
            /\ q(s).ask = other(s).ask /\ q(s).conf = other(s).conf
            /\ q(s).robbed = (other(s).robbed \/ (~Idle(s) /\ TenantOf[s] # TenantOf[t]))
        BY <3>2 DEF Fields
      <3> HIDE DEF q
      <3>5. InHand(q(s))
        BY <3>2, <3>4 DEF RunOK, InHand
      <3>6. (q(s).conf /\ ~q(s).robbed) => login' = TenantOf[s]
        BY <1>1, <3>2, <3>3, <3>4 DEF RunOK, InHand
      <3>7. Based(q(s), s, login')
        BY <3>2, <3>4, <3>6 DEF RunOK, Based
      <3> QED BY <3>1, <3>5, <3>7 DEF RunOK
    <2> QED BY <2>1, <2>2
  <1> QED BY <1>2, <1>3 DEF HomeInv

\* The record of a run with other values in fields that the invariant does not
\* mention, in another phase.
LEMMA PhaseOK ==
  ASSUME NEW r, NEW t, NEW tenant, RunOK(r, t, tenant), r.phase # "idle",
         NEW q, DOMAIN q = Fields, q.opt = r.opt, q.left = r.left, q.todo = r.todo,
         q.ask = r.ask, q.conf = r.conf, q.robbed = r.robbed,
         q.phase # "idle", q.phase = "write" => r.conf
  PROVE  RunOK(q, t, tenant)
  BY DEF RunOK, Based, InHand

LEMMA LookKeepsHome ==
  ASSUME HomeInv, NEW t \in Terminals, Look(t)
  PROVE  HomeInv'
  <1>1. ~Idle(t) /\ run[t].conf /\ login' = login /\ held' = held /\ running' = running
    BY DEF Look, AtPhase, NeedsLogin, remote
  <1>2. PICK failed \in BOOLEAN :
          run' = [run EXCEPT ![t] =
            Looked([run[t] EXCEPT !.blind = @ \/ failed, !.done = @ /\ ~failed],
                   Answers(Object(Now(t)), failed))]
    BY DEF Look
  <1> DEFINE r == [run[t] EXCEPT !.blind = @ \/ failed, !.done = @ /\ ~failed]
             seen == Answers(Object(Now(t)), failed)
             item == Head(r.todo)
             op == Change(seen, Wanted(r, item))
             note == [r EXCEPT !.shown = IF r.trial THEN @ \union {<<Object(item), op>>} ELSE @]
             last == [note EXCEPT !.seen = seen, !.phase = "write"]
  <1>3. /\ RunOK(run[t], t, login) /\ run[t].phase # "idle" /\ DOMAIN run[t] = Fields
        /\ run[t].conf \in BOOLEAN
    BY <1>1, Running
  <1>4. /\ DOMAIN r = Fields /\ r.opt = run[t].opt /\ r.left = run[t].left
        /\ r.todo = run[t].todo /\ r.phase = run[t].phase /\ r.ask = run[t].ask
        /\ r.conf = run[t].conf /\ r.robbed = run[t].robbed
    BY <1>3 DEF Fields
  <1>5. Looked(r, seen) =
          IF item.op = "show" \/ op = "none" \/ Dry(r) THEN Stepped(note) ELSE last
    BY DEF Looked
  <1>6. run' = [run EXCEPT ![t] = Looked(r, seen)]
    BY <1>2
  <1> HIDE DEF r, seen, item, op
  <1>7. /\ DOMAIN note = Fields /\ note.opt = r.opt /\ note.left = r.left
        /\ note.todo = r.todo /\ note.phase = r.phase /\ note.ask = r.ask
        /\ note.conf = r.conf /\ note.robbed = r.robbed
    BY <1>4 DEF Fields
  <1> HIDE DEF note
  <1>8. /\ DOMAIN last = Fields /\ last.opt = note.opt /\ last.left = note.left
        /\ last.todo = note.todo /\ last.phase = "write" /\ last.ask = note.ask
        /\ last.conf = note.conf /\ last.robbed = note.robbed
    BY <1>7 DEF Fields
  <1> HIDE DEF last
  <1>9. RunOK(note, t, login) /\ note.phase # "idle" /\ note.conf
    BY <1>1, <1>3, <1>4, <1>7, PhaseOK
  <1>10. RunOK(Stepped(note), t, login)
    BY <1>9, SteppedOK
  <1>11. RunOK(last, t, login)
    BY <1>8, <1>9, PhaseOK
  <1>12. RunOK(Looked(r, seen), t, login)
    BY <1>5, <1>10, <1>11
  <1> QED BY <1>1, <1>6, <1>12, OwnStep

LEMMA CheckKeepsHome ==
  ASSUME HomeInv, NEW t \in Terminals, Check(t)
  PROVE  HomeInv'
  <1>1. ~Idle(t) /\ login' = login /\ held' = held /\ running' = running
    BY DEF Check, AtPhase, remote
  <1> DEFINE f == Now(t).name
             ph == IF Cached(f, Tag(f)) \/ Dry(run[t]) THEN "look" ELSE "build"
             q == [run[t] EXCEPT !.tag = Tag(f), !.stale = FALSE, !.phase = ph]
  <1>2. RunOK(run[t], t, login) /\ run[t].phase # "idle" /\ DOMAIN run[t] = Fields
    BY <1>1, Running
  <1>3. run' = [run EXCEPT ![t] = q]
    BY <1>2 DEF Check, HomeInv
  <1>4. ph \in {"look", "build"}
    OBVIOUS
  <1> HIDE DEF ph, f
  <1>5. /\ DOMAIN q = Fields /\ q.opt = run[t].opt /\ q.left = run[t].left
        /\ q.todo = run[t].todo /\ q.phase = ph /\ q.ask = run[t].ask
        /\ q.conf = run[t].conf /\ q.robbed = run[t].robbed
    BY <1>2 DEF Fields
  <1> HIDE DEF q
  <1>6. RunOK(q, t, login)
    BY <1>2, <1>4, <1>5, PhaseOK
  <1> QED BY <1>1, <1>3, <1>6, OwnStep

LEMMA BuildKeepsHome ==
  ASSUME HomeInv, NEW t \in Terminals, Build(t)
  PROVE  HomeInv'
  <1> DEFINE mine == [run[t] EXCEPT !.phase = "tag"]
             q(s) == [run[s] EXCEPT !.stale = @ \/ (/\ AtPhase(s, "tag") \/ AtPhase(s, "push")
                                                   /\ Now(s).name = Now(t).name)]
  <1>1. /\ run' = [s \in Terminals |-> IF s = t THEN mine ELSE q(s)]
        /\ ~Idle(t) /\ login' = login /\ held' = held /\ running' = running
    BY DEF Build, AtPhase, remote
  <1>2. DOMAIN run' = Terminals /\ DOMAIN held' = Tenants /\ DOMAIN running' = Tenants
    BY <1>1 DEF HomeInv
  <1>3. ASSUME NEW s \in Terminals PROVE RunOK(run'[s], s, login')
    <2>1. RunOK(run[s], s, login) /\ DOMAIN run[s] = Fields
      BY DEF HomeInv, RunOK, Based
    <2>2. CASE s = t
      <3>1. run'[s] = mine /\ run[s].phase # "idle"
        BY <1>1, <2>2 DEF Idle
      <3>2. /\ DOMAIN mine = Fields /\ mine.opt = run[s].opt /\ mine.left = run[s].left
            /\ mine.todo = run[s].todo /\ mine.phase = "tag" /\ mine.ask = run[s].ask
            /\ mine.conf = run[s].conf /\ mine.robbed = run[s].robbed
        BY <2>1, <2>2 DEF Fields
      <3> HIDE DEF mine
      <3> QED BY <1>1, <2>1, <3>1, <3>2, PhaseOK
    <2>3. CASE s # t
      <3>1. run'[s] = q(s)
        BY <1>1, <2>3
      <3>2. /\ DOMAIN q(s) = Fields /\ q(s).opt = run[s].opt /\ q(s).left = run[s].left
            /\ q(s).todo = run[s].todo /\ q(s).phase = run[s].phase /\ q(s).ask = run[s].ask
            /\ q(s).conf = run[s].conf /\ q(s).robbed = run[s].robbed
        BY <2>1 DEF Fields
      <3> HIDE DEF q
      <3> QED BY <1>1, <2>1, <3>1, <3>2, NotedOK
    <2> QED BY <2>2, <2>3
  <1> QED BY <1>2, <1>3 DEF HomeInv

LEMMA TagKeepsHome ==
  ASSUME HomeInv, NEW t \in Terminals, DockerTag(t)
  PROVE  HomeInv'
  <1> DEFINE q == [run[t] EXCEPT !.phase = "push"]
  <1>1. ~Idle(t) /\ login' = login /\ held' = held /\ running' = running
    BY DEF DockerTag, AtPhase, remote
  <1>2. RunOK(run[t], t, login) /\ run[t].phase # "idle" /\ DOMAIN run[t] = Fields
    BY <1>1, Running
  <1>3. run' = [run EXCEPT ![t] = q]
    BY DEF DockerTag
  <1>4. /\ DOMAIN q = Fields /\ q.opt = run[t].opt /\ q.left = run[t].left
        /\ q.todo = run[t].todo /\ q.phase = "push" /\ q.ask = run[t].ask
        /\ q.conf = run[t].conf /\ q.robbed = run[t].robbed
    BY <1>2 DEF Fields
  <1> HIDE DEF q
  <1>5. RunOK(q, t, login)
    BY <1>2, <1>4, PhaseOK
  <1> QED BY <1>1, <1>3, <1>5, OwnStep

LEMMA PushKeepsHome ==
  ASSUME HomeInv, NEW t \in Terminals, Push(t)
  PROVE  HomeInv'
  <1> DEFINE q == [run[t] EXCEPT !.phase = "look"]
  <1>1. ~Idle(t) /\ login' = login /\ held' = held /\ running' = running
    BY DEF Push, AtPhase
  <1>2. RunOK(run[t], t, login) /\ run[t].phase # "idle" /\ DOMAIN run[t] = Fields
    BY <1>1, Running
  <1>3. run' = [run EXCEPT ![t] = q]
    BY DEF Push
  <1>4. /\ DOMAIN q = Fields /\ q.opt = run[t].opt /\ q.left = run[t].left
        /\ q.todo = run[t].todo /\ q.phase = "look" /\ q.ask = run[t].ask
        /\ q.conf = run[t].conf /\ q.robbed = run[t].robbed
    BY <1>2 DEF Fields
  <1> HIDE DEF q
  <1>5. RunOK(q, t, login)
    BY <1>2, <1>4, PhaseOK
  <1> QED BY <1>1, <1>3, <1>5, OwnStep

LEMMA WriteKeepsHome ==
  ASSUME HomeInv, NEW t \in Terminals, Write(t)
  PROVE  HomeInv'
  <1>1. /\ ~Idle(t) /\ run[t].phase = "write" /\ login' = login
        /\ DOMAIN held' = DOMAIN held /\ DOMAIN running' = DOMAIN running
    BY DEF Write, AtPhase
  <1>2. RunOK(run[t], t, login) /\ run[t].phase # "idle"
    BY <1>1, Running
  <1>3. RunOK(Stepped(run[t]), t, login)
    BY <1>1, <1>2, SteppedOK DEF RunOK, InHand
  <1>4. CASE run' = Moved(t, Stepped(run[t]))
    BY <1>1, <1>3, <1>4, MovedStep
  <1>5. CASE Fail(t)
    BY <1>1, <1>5, NoRunOK, OwnStep DEF Fail
  <1> QED BY <1>4, <1>5 DEF Write

LEMMA DoingOK ==
  ASSUME HomeInv, NEW t \in Terminals, NEW op, op # "ensure", Doing(t, op)
  PROVE  /\ ~Idle(t) /\ RunOK(run[t], t, login) /\ run[t].phase # "idle"
         /\ RunOK(Stepped(run[t]), t, login)
  <1>1. ~Idle(t) /\ Now(t).op = op
    BY DEF Doing, AtPhase
  <1>2. RunOK(run[t], t, login) /\ run[t].phase # "idle"
    BY <1>1, Running
  <1>3. Head(run[t].todo).op # "ensure"
    BY <1>1 DEF Now
  <1> QED BY <1>1, <1>2, <1>3, SteppedOK

LEMMA DeployKeepsHome ==
  ASSUME HomeInv, NEW t \in Terminals, Deploy(t)
  PROVE  HomeInv'
  <1>1. /\ Doing(t, "deploy") /\ login' = login
        /\ DOMAIN held' = DOMAIN held /\ DOMAIN running' = DOMAIN running
    BY DEF Deploy
  <1>2. RunOK(Stepped(run[t]), t, login)
    BY <1>1, DoingOK
  <1>3. CASE run' = Moved(t, Stepped(run[t]))
    BY <1>1, <1>2, <1>3, MovedStep
  <1>4. CASE Fail(t)
    BY <1>1, <1>4, NoRunOK, OwnStep DEF Fail
  <1> QED BY <1>3, <1>4 DEF Deploy

LEMMA DeleteKeepsHome ==
  ASSUME HomeInv, NEW t \in Terminals, Delete(t)
  PROVE  HomeInv'
  <1>1. /\ Doing(t, "delete") /\ login' = login
        /\ DOMAIN held' = DOMAIN held /\ DOMAIN running' = DOMAIN running
    BY DEF Delete
  <1>2. RunOK(Stepped(run[t]), t, login)
    BY <1>1, DoingOK
  <1>3. CASE run' = Moved(t, Stepped(run[t]))
    BY <1>1, <1>2, <1>3, MovedStep
  <1>4. CASE Fail(t)
    BY <1>1, <1>4, NoRunOK, OwnStep DEF Fail
  <1>5. CASE Step(t)
    BY <1>1, <1>2, <1>5, OwnStep DEF Step
  <1> QED BY <1>3, <1>4, <1>5 DEF Delete

LEMMA DisableKeepsHome ==
  ASSUME HomeInv, NEW t \in Terminals, DisableEngine(t)
  PROVE  HomeInv'
  <1>1. /\ Doing(t, "disable") /\ Step(t) /\ login' = login
        /\ held' = held /\ running' = running
    BY DEF DisableEngine
  <1>2. RunOK(Stepped(run[t]), t, login)
    BY <1>1, DoingOK
  <1> QED BY <1>1, <1>2, OwnStep DEF Step

LEMMA AnswerKeepsHome ==
  ASSUME HomeInv, NEW t \in Terminals, NEW answer, Answer(t, answer)
  PROVE  HomeInv'
  <1>1. /\ Doing(t, "ask") /\ login' = login /\ held' = held /\ running' = running
    BY DEF Answer, remote
  <1>2. RunOK(run[t], t, login) /\ ~Idle(t) /\ Now(t).op = "ask"
    BY <1>1, DoingOK DEF Doing
  <1>3. Based(run[t], t, login) /\ DOMAIN run[t] = Fields
    BY <1>2 DEF RunOK, Based
  <1>4. CASE answer = "no"
    <2> DEFINE q == [run[t] EXCEPT !.refused = @ \union {Now(t).name}]
    <2>1. run' = [run EXCEPT ![t] = NextTarget(q)]
      <3>1. run' = [run EXCEPT ![t] =
                      NextTarget([run[t] EXCEPT !.refused = @ \union {Now(t).name}])]
        BY <1>4 DEF Answer
      <3> QED BY <3>1, Zenon
    <2>2. /\ DOMAIN q = Fields /\ q.opt = run[t].opt /\ q.left = run[t].left
          /\ q.ask = run[t].ask /\ q.conf = run[t].conf /\ q.robbed = run[t].robbed
      BY <1>3 DEF Fields
    <2> HIDE DEF q
    <2>3. Based(q, t, login)
      BY <1>3, <2>2 DEF Based
    <2>4. RunOK(NextTarget(q), t, login)
      BY <2>3, NextTargetOK
    <2> QED BY <1>1, <2>1, <2>4, OwnStep
  <1>5. CASE answer # "no"
    <2> DEFINE q == [run[t] EXCEPT !.ask = @ /\ answer = "yes", !.trial = FALSE, !.conf = FALSE]
               x == Now(t).name
    <2>1. Chained(run[t].todo, run[t].conf) /\ Now(t) = run[t].todo[1] /\ 1 \in 1..Len(run[t].todo)
      BY <1>2, Running
    <2>2. x \in Pipelines
      BY <1>2, <2>1 DEF Chained
    <2>3. run' = [run EXCEPT ![t] = Begin(q, Target(run[t].opt, x))]
      <3>1. run' = [run EXCEPT ![t] =
                 Begin([run[t] EXCEPT !.ask = @ /\ answer = "yes", !.trial = FALSE,
                                      !.conf = FALSE],
                       Target(run[t].opt, Now(t).name))]
        BY <1>5 DEF Answer
      <3> QED BY <3>1, Zenon
    <2>4. /\ DOMAIN q = Fields /\ q.opt = run[t].opt /\ q.left = run[t].left
          /\ (q.ask => run[t].ask) /\ q.conf = FALSE
      BY <1>3 DEF Fields
    <2> HIDE DEF q, x
    <2>5. Chained(Target(run[t].opt, x), FALSE)
      BY <1>3, <2>2, TargetChained DEF Based
    <2>6. Based(q, t, login)
      BY <1>3, <2>4 DEF Based
    <2>7. RunOK(Begin(q, Target(run[t].opt, x)), t, login)
      BY <2>4, <2>5, <2>6, BeginOK
    <2> QED BY <1>1, <2>3, <2>7, OwnStep
  <1> QED BY <1>4, <1>5

LEMMA EditsKeepHome ==
  ASSUME HomeInv, EditYaml \/ \E f \in Functions : EditSource(f)
  PROVE  HomeInv'
  <1>1. CASE EditYaml
    BY <1>1, WorldStep DEF EditYaml, remote
  <1>2. ASSUME NEW f \in Functions, EditSource(f) PROVE HomeInv'
    <2> DEFINE q(s) == [Disturbed(run[s]) EXCEPT
                          !.stale = @ \/ (AtPhase(s, "build") /\ Now(s).name = f)]
    <2>1. /\ run' = [s \in Terminals |-> q(s)]
          /\ login' = login /\ held' = held /\ running' = running
      BY <1>2 DEF EditSource, remote
    <2>2. ASSUME NEW s \in Terminals PROVE RunOK(run'[s], s, login')
      <3> DEFINE d == Disturbed(run[s])
      <3>1. RunOK(d, s, login) /\ DOMAIN d = Fields
        BY DisturbedOK DEF HomeInv
      <3> HIDE DEF d
      <3>2. run'[s] = [d EXCEPT !.stale = @ \/ (AtPhase(s, "build") /\ Now(s).name = f)]
        BY <2>1 DEF d
      <3>3. /\ DOMAIN run'[s] = Fields /\ run'[s].opt = d.opt /\ run'[s].left = d.left
            /\ run'[s].todo = d.todo /\ run'[s].phase = d.phase /\ run'[s].ask = d.ask
            /\ run'[s].conf = d.conf /\ run'[s].robbed = d.robbed
        BY <3>1, <3>2 DEF Fields
      <3> QED BY <2>1, <3>1, <3>3, NotedOK
    <2>3. DOMAIN run' = Terminals /\ DOMAIN held' = Tenants /\ DOMAIN running' = Tenants
      BY <2>1 DEF HomeInv
    <2> QED BY <2>2, <2>3 DEF HomeInv
  <1> QED BY <1>1, <1>2

LEMMA OutsideKeepsHome ==
  ASSUME HomeInv, NEW ten, NEW o, NEW v, Outside(ten, o, v)
  PROVE  HomeInv'
  <1>1. /\ run' = [s \in Terminals |-> Disturbed(run[s])] /\ login' = login
        /\ DOMAIN held' = DOMAIN held /\ DOMAIN running' = DOMAIN running
    BY DEF Outside
  <1> QED BY <1>1, WorldStep

LEMMA StepKeepsHome ==
  ASSUME HomeInv, [Next]_vars
  PROVE  HomeInv'
  <1>1. CASE UNCHANGED vars
    BY <1>1 DEF vars, images, remote, HomeInv
  <1>2. ASSUME NEW t \in Terminals, NEW o \in Options[t], Start(t, o) PROVE HomeInv'
    BY <1>2, StartKeepsHome
  <1>3. ASSUME NEW t \in Terminals, Stop(t) PROVE HomeInv'
    BY <1>3, StopKeepsHome
  <1>4. ASSUME NEW t \in Terminals, Work(t) PROVE HomeInv'
    <2>1. CASE Configure(t)
      BY <2>1, ConfigureKeepsHome
    <2>2. CASE Look(t)
      BY <2>2, LookKeepsHome
    <2>3. CASE Check(t)
      BY <2>3, CheckKeepsHome
    <2>4. CASE Build(t)
      BY <2>4, BuildKeepsHome
    <2>5. CASE Push(t)
      BY <2>5, PushKeepsHome
    <2>6. CASE Write(t)
      BY <2>6, WriteKeepsHome
    <2>7. CASE Deploy(t)
      BY <2>7, DeployKeepsHome
    <2>8. CASE Delete(t)
      BY <2>8, DeleteKeepsHome
    <2>9. CASE DisableEngine(t)
      BY <2>9, DisableKeepsHome
    <2>10. CASE \E answer \in {"yes", "no", "continue"} : Answer(t, answer)
      BY <2>10, AnswerKeepsHome
    <2>11. CASE DockerTag(t)
      BY <2>11, TagKeepsHome
    <2> QED BY <1>4, <2>1, <2>2, <2>3, <2>4, <2>5, <2>6, <2>7, <2>8, <2>9, <2>10, <2>11
          DEF Work
  <1>5. CASE EditYaml \/ \E f \in Functions : EditSource(f)
    BY <1>5, EditsKeepHome
  <1>6. ASSUME NEW ten \in Tenants, NEW o \in Objects, NEW v \in {None, 0}, Outside(ten, o, v)
        PROVE  HomeInv'
    BY <1>6, OutsideKeepsHome
  <1> QED BY <1>1, <1>2, <1>3, <1>4, <1>5, <1>6 DEF Next

LEMMA HomeInvariant == Spec => []HomeInv
  <1>1. Init => HomeInv
    <2> SUFFICES ASSUME Init PROVE HomeInv
      OBVIOUS
    <2>1. DOMAIN run = Terminals /\ DOMAIN held = Tenants /\ DOMAIN running = Tenants
      BY DEF Init
    <2>2. ASSUME NEW t \in Terminals PROVE RunOK(run[t], t, login)
      <3>1. run[t] = NoRun
        BY DEF Init
      <3> QED BY <3>1, NoRunOK
    <2> QED BY <2>1, <2>2 DEF HomeInv
  <1>2. HomeInv /\ [Next]_vars => HomeInv'
    BY StepKeepsHome
  <1> QED BY <1>1, <1>2, PTL DEF Spec

-----------------------------------------------------------------------------
(* Where an apply writes                                                   *)

\* To others, a run that is moved looks where it was.
LEMMA OthersDoNotAct ==
  ASSUME HomeInv, NEW s \in Terminals, ~Idle(s),
         run'[s] = run[s] \/ run'[s] = Disturbed(run[s])
  PROVE  ~Acts(s)
  <1>1. RunOK(run[s], s, login) /\ run[s].phase # "idle"
    BY DEF HomeInv, Idle
  <1>2. run'[s].phase = run[s].phase /\ run'[s].todo = run[s].todo
    BY <1>1, DisturbedOK
  <1> QED BY <1>2 DEF Acts

\* A terminal that writes, or deploys, has logged in.
LEMMA AtHome ==
  ASSUME HomeInv, NEW t \in Terminals, AtPhase(t, "write") \/ Doing(t, "deploy"),
         ~run[t].robbed
  PROVE  login = TenantOf[t]
  <1>1. ~Idle(t)
    BY DEF AtPhase, Doing
  <1>2. /\ RunOK(run[t], t, login) /\ Chained(run[t].todo, run[t].conf)
        /\ Now(t) = run[t].todo[1] /\ 1 \in 1..Len(run[t].todo)
    BY <1>1, Running
  <1>3. run[t].conf
    <2>1. CASE AtPhase(t, "write")
      BY <1>2, <2>1 DEF RunOK, InHand, AtPhase
    <2>2. CASE Doing(t, "deploy")
      BY <1>2, <2>2 DEF Chained, Doing
    <2> QED BY <2>1, <2>2
  <1> QED BY <1>2, <1>3 DEF RunOK, Based

LEMMA StepStaysHome ==
  ASSUME HomeInv, [Next]_vars, NEW t \in Terminals, NEW ten \in Tenants \ {TenantOf[t]},
         AtPhase(t, "write") \/ Doing(t, "deploy"), Acts(t), ~run[t].robbed
  PROVE  ~Touched(ten)
  <1>1. login = TenantOf[t] /\ ~Idle(t)
    BY AtHome DEF AtPhase, Doing
  <1>2. CASE held' = held /\ running' = running
    BY <1>2 DEF Touched
  <1>3. ASSUME NEW s \in Terminals, run' = Moved(s, Stepped(run[s])), s # t
        PROVE  FALSE
    <2>1. run'[t] = Disturbed(run[t])
      BY <1>3 DEF Moved
    <2> QED BY <1>1, <2>1, OthersDoNotAct
  <1>4. ASSUME NEW s \in Terminals, Write(s) \/ Deploy(s) PROVE ~Touched(ten)
    <2>1. CASE held' = held /\ running' = running
      BY <1>2, <2>1
    <2>2. CASE run' = Moved(s, Stepped(run[s]))
      <3>1. held'[ten] = held[ten] /\ running'[ten] = running[ten]
        <4>1. CASE Write(s)
          BY <1>1, <4>1 DEF Write, HomeInv
        <4>2. CASE Deploy(s)
          BY <1>1, <4>2 DEF Deploy, HomeInv
        <4> QED BY <1>4, <4>1, <4>2
      <3> QED BY <3>1 DEF Touched
    <2> QED BY <1>4, <2>1, <2>2 DEF Write, Deploy
  <1>5. ASSUME NEW s \in Terminals, Delete(s) PROVE ~Touched(ten)
    <2>1. s # t
      BY <1>5 DEF Delete, Doing, AtPhase
    <2>2. run' # Moved(s, Stepped(run[s]))
      BY <1>3, <2>1
    <2>3. held' = held /\ running' = running
      BY <1>5, <2>2 DEF Delete
    <2> QED BY <1>2, <2>3
  <1>6. ASSUME NEW s \in Terminals, Work(s) PROVE ~Touched(ten)
    <2>1. \/ Write(s) \/ Deploy(s) \/ Delete(s)
          \/ held' = held /\ running' = running
      BY <1>6 DEF Work, Configure, Look, Check, Build, DockerTag, Push, DisableEngine, Answer, remote
    <2> QED BY <1>2, <1>4, <1>5, <2>1
  <1>7. ASSUME NEW u \in Tenants, NEW o \in Objects, NEW v \in {None, 0}, Outside(u, o, v)
        PROVE  FALSE
    <2>1. run'[t] = Disturbed(run[t])
      BY <1>7 DEF Outside
    <2> QED BY <1>1, <2>1, OthersDoNotAct
  <1>8. CASE \/ UNCHANGED vars \/ EditYaml \/ \E f \in Functions : EditSource(f)
             \/ \E s \in Terminals : Stop(s) \/ \E o \in Options[s] : Start(s, o)
    <2>1. held' = held /\ running' = running
      BY <1>8 DEF vars, images, remote, EditYaml, EditSource, Stop, Start
    <2> QED BY <1>2, <2>1
  <1> QED BY <1>6, <1>7, <1>8 DEF Next

\* An apply, and a build, writes to the tenant of its YAML only, however many
\* terminals work on one machine, as long as no other terminal logs in to
\* another tenant between its `vastde config init` and its last write.
THEOREM AppliesHome == Spec => AppliesStayHome
  <1>1. HomeInv /\ [Next]_vars =>
          [\A t \in Terminals : \A ten \in Tenants \ {TenantOf[t]} :
             ((AtPhase(t, "write") \/ Doing(t, "deploy")) /\ Acts(t) /\ ~run[t].robbed)
               => ~Touched(ten)]_vars
    BY StepStaysHome
  <1> QED BY <1>1, HomeInvariant, PTL DEF Spec, AppliesStayHome

-----------------------------------------------------------------------------
(* A `vastde` that rejects --file-input                                    *)

NothingHeld ==
  /\ held = [ten \in Tenants |-> [o \in Objects |-> None]]
  /\ yaml \in Nat

LEMMA NothingIsWritten ==
  ASSUME ~TakesFileInput, NothingHeld, [Next]_vars
  PROVE  NothingHeld'
  <1>1. \A ten \in Tenants, o \in Objects : held[ten][o] = None
    BY DEF NothingHeld
  <1>3. ASSUME NEW t \in Terminals, Delete(t) PROVE UNCHANGED <<held, yaml>>
    <2>1. CASE UNCHANGED held
      BY <1>3, <2>1 DEF Delete
    <2>2. CASE ~UNCHANGED held
      <3> DEFINE o == Object(Now(t))
      <3>1. Accepts(o, TRUE) /\ held' = [held EXCEPT ![login][o] = None]
        BY <1>3, <2>2 DEF Delete
      <3> HIDE DEF o
      <3>2. ASSUME login \in Tenants /\ o \in Objects PROVE FALSE
        BY <1>1, <3>1, <3>2 DEF Accepts
      <3> DEFINE new == [held EXCEPT ![login][o] = None]
      <3>3. ASSUME ~(login \in Tenants /\ o \in Objects) PROVE new = held
        <4>1. \A ten \in Tenants : held[ten] = [x \in Objects |-> None]
          BY DEF NothingHeld
        <4>2. DOMAIN held = Tenants /\ held = [ten \in Tenants |-> held[ten]]
          BY DEF NothingHeld
        <4>3. \A ten \in Tenants : new[ten] = held[ten]
          BY <3>3, <4>1, <4>2
        <4>4. new = [ten \in Tenants |-> new[ten]]
          BY <4>2
        <4> HIDE DEF new
        <4> QED BY <4>2, <4>3, <4>4
      <3> QED BY <2>2, <3>1, <3>2, <3>3
    <2> QED BY <2>1, <2>2
  <1>4. ASSUME NEW t \in Terminals, Work(t) PROVE UNCHANGED <<held, yaml>>
    BY <1>3, <1>4
    DEF Work, Configure, Look, Check, Build, DockerTag, Push, Write, Deploy, DisableEngine,
        Answer, remote
  <1>5. ASSUME NEW ten \in Tenants, NEW o \in Objects, NEW v \in {None, 0}, Outside(ten, o, v)
        PROVE  FALSE
    BY <1>1, <1>5 DEF Outside
  <1>6. CASE EditYaml
    BY <1>6 DEF EditYaml, NothingHeld, remote
  <1>7. CASE \/ UNCHANGED vars \/ \E f \in Functions : EditSource(f)
             \/ \E t \in Terminals : Stop(t) \/ \E o \in Options[t] : Start(t, o)
    BY <1>7 DEF vars, remote, EditSource, Stop, Start, NothingHeld
  <1>8. UNCHANGED <<held, yaml>> => NothingHeld'
    BY DEF NothingHeld
  <1> QED BY <1>4, <1>5, <1>6, <1>7, <1>8 DEF Next

\* With a `vastde` that rejects the flag all bodies are passed with, no behaviour
\* ever has in place what a YAML with a pipeline lists, however often it is
\* applied (vastde_cli.py passes `--file-input -` in every create and update).
THEOREM RejectedIsNeverInPlace ==
  ASSUME ~TakesFileInput, NEW t \in Terminals, PipelinesOf[t] # <<>>
  PROVE  Spec => []~InPlace(t)
  <1>1. Init => NothingHeld
    BY DEF Init, NothingHeld
  <1>2. NothingHeld /\ [Next]_vars => NothingHeld'
    BY NothingIsWritten
  <1>3. NothingHeld => ~InPlace(t)
    <2> SUFFICES ASSUME NothingHeld, InPlace(t) PROVE FALSE
      OBVIOUS
    <2> DEFINE p == PipelinesOf[t][1]
               o == <<"pipeline", p>>
    <2>1. PipelinesOf[t] \in Seq(Pipelines) /\ TenantOf[t] \in Tenants /\ None \notin Int
      BY StageBConstants
    <2>2. p \in Pipelines /\ Len(PipelinesOf[t]) \in Nat \ {0}
      BY <2>1, EmptySeq, ElementOfSeq
    <2>3. p \in Among(Pipelines, PipelinesOf[t])
      BY <2>2 DEF Among
    <2>4. o \in ObjectsOf(p) /\ o \in Objects /\ o[1] = "pipeline"
      BY <2>2 DEF ObjectsOf, Objects
    <2> HIDE DEF p, o
    <2>5. held[TenantOf[t]][o] = yaml
      BY <2>3, <2>4 DEF InPlace
    <2>6. held[TenantOf[t]][o] = None /\ yaml \in Nat
      BY <2>1, <2>4 DEF NothingHeld
    <2> QED BY <2>1, <2>5, <2>6
  <1> QED BY <1>1, <1>2, <1>3, PTL DEF Spec
=============================================================================
