--------------------------- MODULE StageBDelivery ---------------------------
(***************************************************************************)
(* What a command of Stage B has done when it exits with 0, that an        *)
(* interactive apply does what its preview showed, and that an image has   *)
(* the content of its tag: proofs of ApplyDelivers, DestroyDone,           *)
(* ShownIsDone and PushesWhatItHashed, for any number of terminals.        *)
(***************************************************************************)
EXTENDS StageBProofs
-----------------------------------------------------------------------------
(* What is on a list                                                       *)

Elements(s) == {s[n] : n \in 1..Len(s)}
Each(op, p) == {Item(op, o[1], o[2]) : o \in ObjectsOf(p)}
Task(o, p) == Elements(Target(o, p))
Ask(p) == Item("ask", "pipeline", p)

\* A list to work off, with these operations: only its last item asks or
\* deploys, and to switch DataEngine off is all that it does.
Proper(s, ops) ==
  /\ s \in Seq(ItemSet) /\ s # <<>>
  /\ \A n \in 1..Len(s) :
       /\ s[n].op \in ops /\ (s[n].op # "disable" => Object(s[n]) \in Objects)
       /\ s[n].op \in {"ask", "deploy", "show"} => s[n].kind = "pipeline"
       /\ s[n].op \in {"ask", "deploy"} => n = Len(s)
       /\ s[n].op = "disable" => Len(s) = 1

\* One operation, on objects.
AllOf(s, op) == s \in Seq(ItemSet) /\ \A n \in 1..Len(s) : s[n].op = op /\ Object(s[n]) \in Objects

LEMMA ElementsJoined ==
  ASSUME NEW S, NEW s \in Seq(S), NEW t \in Seq(S)
  PROVE  Elements(s \o t) = Elements(s) \union Elements(t)
  <1>1. Len(s) \in Nat /\ Len(t) \in Nat
    BY LenProperties
  <1>2. /\ Len(s \o t) = Len(s) + Len(t)
        /\ \A i \in 1..Len(s) + Len(t) :
             (s \o t)[i] = IF i <= Len(s) THEN s[i] ELSE t[i - Len(s)]
    BY ConcatProperties
  <1> DEFINE u == s \o t
  <1> HIDE DEF u
  <1>3. Len(u) = Len(s) + Len(t) /\ \A i \in 1..Len(u) : u[i] = IF i <= Len(s) THEN s[i] ELSE t[i - Len(s)]
    BY <1>2 DEF u
  <1>4. Elements(u) \subseteq Elements(s) \union Elements(t)
    <2> SUFFICES ASSUME NEW i \in 1..Len(u) PROVE u[i] \in Elements(s) \union Elements(t)
      BY DEF Elements
    <2>1. CASE i <= Len(s)
      BY <1>1, <1>3, <2>1 DEF Elements
    <2>2. CASE ~(i <= Len(s))
      <3>1. i - Len(s) \in 1..Len(t) /\ u[i] = t[i - Len(s)]
        BY <1>1, <1>3, <2>2
      <3> QED BY <3>1 DEF Elements
    <2> QED BY <2>1, <2>2
  <1>5. Elements(s) \subseteq Elements(u)
    <2> SUFFICES ASSUME NEW i \in 1..Len(s) PROVE s[i] \in Elements(u)
      BY DEF Elements
    <2>1. i \in 1..Len(u) /\ u[i] = s[i]
      BY <1>1, <1>3
    <2> QED BY <2>1 DEF Elements
  <1>6. Elements(t) \subseteq Elements(u)
    <2> SUFFICES ASSUME NEW i \in 1..Len(t) PROVE t[i] \in Elements(u)
      BY DEF Elements
    <2>1. i + Len(s) \in 1..Len(u) /\ ~(i + Len(s) <= Len(s)) /\ (i + Len(s)) - Len(s) = i
      BY <1>1, <1>3
    <2>2. u[i + Len(s)] = t[i]
      BY <1>3, <2>1
    <2> QED BY <2>1, <2>2 DEF Elements
  <1> QED BY <1>4, <1>5, <1>6 DEF u

LEMMA ElementsOfOne == Elements(<<>>) = {} /\ \A e : Elements(<<e>>) = {e}
  BY DEF Elements

LEMMA ElementsTail ==
  ASSUME NEW S, NEW s \in Seq(S), s # <<>>
  PROVE  /\ Elements(s) = {s[1]} \union Elements(Tail(s)) /\ Head(s) = s[1] /\ s[1] \in S
         /\ Tail(s) \in Seq(S) /\ Len(s) \in Nat \ {0} /\ Len(Tail(s)) = Len(s) - 1
         /\ \A n \in 1..Len(Tail(s)) : Tail(s)[n] = s[n + 1]
         /\ Len(s) = 1 => Tail(s) = <<>>
  <1>1. Len(s) \in Nat \ {0}
    BY EmptySeq
  <1>2. Head(s) = s[1] /\ s[1] \in S
    BY <1>1, ElementOfSeq
  <1>3. /\ Tail(s) \in Seq(S) /\ Len(Tail(s)) = Len(s) - 1
        /\ \A n \in 1..Len(Tail(s)) : Tail(s)[n] = s[n + 1]
    BY HeadTailProperties
  <1> DEFINE t == Tail(s)
  <1> HIDE DEF t
  <1>4. Len(t) = Len(s) - 1 /\ \A n \in 1..Len(t) : t[n] = s[n + 1]
    BY <1>3 DEF t
  <1>5. Elements(s) \subseteq {s[1]} \union Elements(t)
    <2> SUFFICES ASSUME NEW n \in 1..Len(s), n # 1 PROVE s[n] \in Elements(t)
      BY DEF Elements
    <2>1. n - 1 \in 1..Len(t) /\ (n - 1) + 1 = n
      BY <1>1, <1>4
    <2>2. t[n - 1] = s[n]
      BY <1>4, <2>1
    <2> QED BY <2>1, <2>2 DEF Elements
  <1>6. Elements(t) \subseteq Elements(s)
    <2> SUFFICES ASSUME NEW n \in 1..Len(t) PROVE t[n] \in Elements(s)
      BY DEF Elements
    <2>1. n + 1 \in 1..Len(s) /\ t[n] = s[n + 1]
      BY <1>1, <1>4
    <2> QED BY <2>1 DEF Elements
  <1>7. s[1] \in Elements(s)
    BY <1>1 DEF Elements
  <1>8. Len(s) = 1 => Tail(s) = <<>>
    <2>1. t \in Seq(S) /\ (t # <<>> => Len(t) \in Nat \ {0})
      BY <1>3, EmptySeq DEF t
    <2> QED BY <1>4, <2>1 DEF t
  <1> QED BY <1>1, <1>2, <1>3, <1>5, <1>6, <1>7, <1>8 DEF t

LEMMA ElementsTyped ==
  ASSUME NEW S, NEW s \in Seq(S)
  PROVE  Elements(s) \subseteq S
  BY ElementOfSeq DEF Elements

LEMMA AmongIs ==
  ASSUME NEW S, NEW s \in Seq(S)
  PROVE  Among(S, s) = Elements(s)
  BY ElementOfSeq DEF Among, Elements

LEMMA ItemsAre ==
  ASSUME NEW op \in {"ensure", "delete"}, NEW kind \in {"trigger", "function"}, NEW names,
         \/ kind = "trigger" /\ names \in Seq(Triggers)
         \/ kind = "function" /\ names \in Seq(Functions)
  PROVE  /\ AllOf(Items(op, kind, names), op)
         /\ Elements(Items(op, kind, names)) = {Item(op, kind, x) : x \in Elements(names)}
  <1> DEFINE s == Items(op, kind, names)
  <1>1. Listed(s, {op})
    BY ManyItems
  <1>2. Len(names) \in Nat
    BY LenProperties
  <1>3. Len(s) = Len(names) /\ \A n \in 1..Len(s) : s[n] = Item(op, kind, names[n])
    BY <1>2 DEF Items
  <1>4. \A n \in 1..Len(names) : <<kind, names[n]>> \in Objects
    BY ElementOfSeq DEF Objects
  <1>5. \A x : Object(Item(op, kind, x)) = <<kind, x>> /\ Item(op, kind, x).op = op
    BY DEF Object, Item
  <1> HIDE DEF s
  <1>6. AllOf(s, op)
    BY <1>1, <1>3, <1>4, <1>5 DEF AllOf, Listed
  <1>7. Elements(s) = {Item(op, kind, x) : x \in Elements(names)}
    BY <1>3 DEF Elements
  <1> QED BY <1>6, <1>7 DEF s

LEMMA OneItemIs ==
  ASSUME NEW op \in {"ensure", "delete"}, NEW p \in Pipelines
  PROVE  /\ AllOf(<<Item(op, "pipeline", p)>>, op) /\ <<Item(op, "pipeline", p)>> # <<>>
         /\ Elements(<<Item(op, "pipeline", p)>>) = {Item(op, "pipeline", p)}
  BY ElementsOfOne DEF AllOf, Item, ItemSet, Object, Objects, AllNames

LEMMA AllOfJoined ==
  ASSUME NEW op, NEW s, NEW t, AllOf(s, op), AllOf(t, op)
  PROVE  AllOf(s \o t, op)
  <1>1. s \o t \in Seq(ItemSet)
    BY ConcatProperties DEF AllOf
  <1>2. Elements(s \o t) = Elements(s) \union Elements(t)
    BY ElementsJoined DEF AllOf
  <1>3. \A e \in Elements(s) \union Elements(t) : e.op = op /\ Object(e) \in Objects
    BY DEF AllOf, Elements
  <1>4. \A n \in 1..Len(s \o t) : (s \o t)[n] \in Elements(s \o t)
    BY DEF Elements
  <1> QED BY <1>1, <1>2, <1>3, <1>4 DEF AllOf

LEMMA ThreeJoined ==
  ASSUME NEW op, NEW a, NEW b, NEW c, AllOf(a, op), AllOf(b, op), AllOf(c, op)
  PROVE  AllOf((a \o b) \o c, op)
  BY AllOfJoined

LEMMA ThreeElements ==
  ASSUME NEW S, NEW a \in Seq(S), NEW b \in Seq(S), NEW c \in Seq(S)
  PROVE  Elements((a \o b) \o c) = Elements(a) \union Elements(b) \union Elements(c)
  <1>1. Elements(a \o b) = Elements(a) \union Elements(b) /\ a \o b \in Seq(S)
    BY ElementsJoined, ConcatProperties
  <1> DEFINE d == a \o b
  <1> HIDE DEF d
  <1>2. Elements(d) = Elements(a) \union Elements(b) /\ d \in Seq(S)
    BY <1>1 DEF d
  <1>3. Elements(d \o c) = Elements(d) \union Elements(c)
    BY <1>2, ElementsJoined
  <1> QED BY <1>2, <1>3 DEF d

\* The objects of a pipeline, one by one.
LEMMA EachIs ==
  ASSUME NEW op, NEW p \in Pipelines
  PROVE  Each(op, p) = {Item(op, "trigger", x) : x \in Elements(TriggersOf[p])}
                         \union {Item(op, "function", x) : x \in Elements(FunctionsOf[p])}
                         \union {Item(op, "pipeline", p)}
  <1>1. TriggersOf[p] \in Seq(Triggers) /\ FunctionsOf[p] \in Seq(Functions)
    BY StageBConstants
  <1>2. /\ Among(Triggers, TriggersOf[p]) = Elements(TriggersOf[p])
        /\ Among(Functions, FunctionsOf[p]) = Elements(FunctionsOf[p])
    BY <1>1, AmongIs
  <1> DEFINE T == Elements(TriggersOf[p])
             F == Elements(FunctionsOf[p])
  <1>3. ObjectsOf(p) = ({"trigger"} \X T) \union ({"function"} \X F) \union {<<"pipeline", p>>}
    BY <1>2 DEF ObjectsOf
  <1> HIDE DEF T, F
  <1>4. Each(op, p) \subseteq {Item(op, "trigger", x) : x \in T}
                        \union {Item(op, "function", x) : x \in F} \union {Item(op, "pipeline", p)}
    BY <1>3 DEF Each
  <1>5. ASSUME NEW kind, NEW x, <<kind, x>> \in ObjectsOf(p)
        PROVE  Item(op, kind, x) \in Each(op, p)
    <2>1. <<kind, x>>[1] = kind /\ <<kind, x>>[2] = x
      OBVIOUS
    <2> QED BY <1>5, <2>1, Zenon DEF Each
  <1>6. /\ \A x \in T : <<"trigger", x>> \in ObjectsOf(p)
        /\ \A x \in F : <<"function", x>> \in ObjectsOf(p)
        /\ <<"pipeline", p>> \in ObjectsOf(p)
    BY <1>3
  <1> QED BY <1>4, <1>5, <1>6 DEF T, F

LEMMA EachObject ==
  ASSUME NEW op, NEW p \in Pipelines
  PROVE  /\ \A e \in Each(op, p) : e.op = op /\ Object(e) \in ObjectsOf(p) /\ e.kind = Object(e)[1]
         /\ \A o \in ObjectsOf(p) : \E e \in Each(op, p) : Object(e) = o
         /\ ObjectsOf(p) \subseteq Objects
  <1>1. ObjectsOf(p) \subseteq Objects
    BY DEF ObjectsOf, Objects, Among
  <1>2. \A o \in Objects : Object(Item(op, o[1], o[2])) = o /\ Item(op, o[1], o[2]).op = op
    BY DEF Object, Objects, Item
  <1>3. \A e : Object(e)[1] = e.kind
    BY DEF Object
  <1> QED BY <1>1, <1>2, <1>3 DEF Each

LEMMA EnsureIs ==
  ASSUME NEW p \in Pipelines
  PROVE  AllOf(EnsureItems(p), "ensure") /\ Elements(EnsureItems(p)) = Each("ensure", p)
  <1> DEFINE a == Items("ensure", "trigger", TriggersOf[p])
             b == Items("ensure", "function", FunctionsOf[p])
             c == <<Item("ensure", "pipeline", p)>>
  <1>1. /\ AllOf(a, "ensure") /\ Elements(a) = {Item("ensure", "trigger", x) : x \in Elements(TriggersOf[p])}
        /\ AllOf(b, "ensure") /\ Elements(b) = {Item("ensure", "function", x) : x \in Elements(FunctionsOf[p])}
        /\ AllOf(c, "ensure") /\ Elements(c) = {Item("ensure", "pipeline", p)}
    BY ItemsAre, OneItemIs, StageBConstants
  <1>2. EnsureItems(p) = (a \o b) \o c
    BY DEF EnsureItems
  <1> HIDE DEF a, b, c
  <1>3. AllOf(a, "ensure") /\ AllOf(b, "ensure") /\ AllOf(c, "ensure")
    BY <1>1
  <1> DEFINE d == (a \o b) \o c
  <1>4. AllOf(d, "ensure")
    BY <1>3, ThreeJoined
  <1>5. a \in Seq(ItemSet) /\ b \in Seq(ItemSet) /\ c \in Seq(ItemSet)
    BY <1>3 DEF AllOf
  <1>6. Elements(d) = Elements(a) \union Elements(b) \union Elements(c)
    BY <1>5, ThreeElements
  <1> QED BY <1>1, <1>2, <1>4, <1>6, EachIs

LEMMA DestroyIs ==
  ASSUME NEW p \in Pipelines
  PROVE  AllOf(DestroyItems(p), "delete") /\ Elements(DestroyItems(p)) = Each("delete", p)
  <1> DEFINE a == <<Item("delete", "pipeline", p)>>
             b == Items("delete", "trigger", TriggersOf[p])
             c == Items("delete", "function", FunctionsOf[p])
  <1>1. /\ AllOf(a, "delete") /\ Elements(a) = {Item("delete", "pipeline", p)}
        /\ AllOf(b, "delete") /\ Elements(b) = {Item("delete", "trigger", x) : x \in Elements(TriggersOf[p])}
        /\ AllOf(c, "delete") /\ Elements(c) = {Item("delete", "function", x) : x \in Elements(FunctionsOf[p])}
    BY ItemsAre, OneItemIs, StageBConstants
  <1>2. DestroyItems(p) = (a \o b) \o c
    BY DEF DestroyItems
  <1> HIDE DEF a, b, c
  <1>3. AllOf(a, "delete") /\ AllOf(b, "delete") /\ AllOf(c, "delete")
    BY <1>1
  <1> DEFINE d == (a \o b) \o c
  <1>4. AllOf(d, "delete")
    BY <1>3, ThreeJoined
  <1>5. a \in Seq(ItemSet) /\ b \in Seq(ItemSet) /\ c \in Seq(ItemSet)
    BY <1>3 DEF AllOf
  <1>6. Elements(d) = Elements(a) \union Elements(b) \union Elements(c)
    BY <1>5, ThreeElements
  <1> QED BY <1>1, <1>2, <1>4, <1>6, EachIs

LEMMA AllOfProper ==
  ASSUME NEW op \in {"ensure", "delete"}, NEW s, AllOf(s, op), Elements(s) # {}, NEW ops, op \in ops
  PROVE  Proper(s, ops)
  BY ElementsOfOne DEF AllOf, Proper

\* A list with a prompt, or a deployment, at its end.
LEMMA EndProper ==
  ASSUME NEW s, AllOf(s, "ensure"), NEW op \in {"ask", "deploy"}, NEW p \in Pipelines
  PROVE  LET e == Item(op, "pipeline", p)
             u == s \o <<e>> IN
         /\ Proper(u, {"ensure", op}) /\ u[Len(u)] = e
         /\ Elements(u) = Elements(s) \union {e}
  <1> DEFINE e == Item(op, "pipeline", p)
             w == <<e>>
             u == s \o w
  <1>1. e \in ItemSet /\ e.op = op /\ e.kind = "pipeline" /\ Object(e) \in Objects
    BY DEF Item, ItemSet, AllNames, Object, Objects
  <1>2. w \in Seq(ItemSet) /\ Len(w) = 1 /\ w[1] = e /\ Elements(w) = {e}
    BY <1>1, ElementsOfOne
  <1>3. s \in Seq(ItemSet) /\ Len(s) \in Nat
    BY LenProperties DEF AllOf
  <1> HIDE DEF e, w
  <1>4. /\ u \in Seq(ItemSet) /\ Len(u) = Len(s) + 1 /\ Elements(u) = Elements(s) \union {e}
        /\ \A i \in 1..Len(s) + 1 : u[i] = IF i <= Len(s) THEN s[i] ELSE w[i - Len(s)]
    BY <1>2, <1>3, ConcatProperties, ElementsJoined
  <1> HIDE DEF u
  <1>5. ASSUME NEW i \in 1..Len(u)
        PROVE  \/ u[i] = e /\ i = Len(u)
               \/ u[i].op = "ensure" /\ Object(u[i]) \in Objects
    <2>1. CASE i <= Len(s)
      BY <1>3, <1>4, <2>1 DEF AllOf
    <2>2. CASE ~(i <= Len(s))
      <3>1. i - Len(s) = 1 /\ i = Len(u)
        BY <1>3, <1>4, <2>2
      <3> QED BY <1>2, <1>4, <2>2, <3>1
    <2> QED BY <2>1, <2>2
  <1>6. Len(u) \in 1..Len(u) /\ ~(Len(u) <= Len(s)) /\ Len(u) - Len(s) = 1
    BY <1>3, <1>4
  <1>7. u[Len(u)] = e
    BY <1>2, <1>4, <1>6
  <1>8. u # <<>>
    BY <1>4, ElementsOfOne
  <1>9. \A i \in 1..Len(u) : u[i].op \in {"ensure", op} /\ Object(u[i]) \in Objects
           /\ (u[i].op \in {"ask", "deploy"} => u[i].kind = "pipeline" /\ i = Len(u))
           /\ u[i].op # "show" /\ u[i].op # "disable"
    BY <1>1, <1>5
  <1>10. Proper(u, {"ensure", op})
    BY <1>4, <1>8, <1>9 DEF Proper
  <1> QED BY <1>4, <1>7, <1>10 DEF u, w, e

LEMMA ProperTail ==
  ASSUME NEW ops, NEW s, Proper(s, ops), Len(s) > 1
  PROVE  /\ Proper(Tail(s), ops) /\ Elements(s) = {s[1]} \union Elements(Tail(s))
         /\ Tail(s)[Len(Tail(s))] = s[Len(s)] /\ Tail(s)[1].op # "disable"
  <1>1. s \in Seq(ItemSet) /\ s # <<>>
    BY DEF Proper
  <1> DEFINE t == Tail(s)
  <1>2. /\ Elements(s) = {s[1]} \union Elements(t) /\ t \in Seq(ItemSet)
        /\ Len(s) \in Nat \ {0} /\ Len(t) = Len(s) - 1
        /\ \A n \in 1..Len(t) : t[n] = s[n + 1]
    BY <1>1, ElementsTail
  <1> HIDE DEF t
  <1>3. t # <<>>
    BY <1>2, ElementsOfOne
  <1>4. \A n \in 1..Len(t) : n + 1 \in 1..Len(s) /\ (n + 1 = Len(s) <=> n = Len(t))
    BY <1>2
  <1>5. Proper(t, ops)
    <2>1. ASSUME NEW n \in 1..Len(t)
          PROVE  /\ t[n].op \in ops /\ (t[n].op # "disable" => Object(t[n]) \in Objects)
                 /\ t[n].op \in {"ask", "deploy", "show"} => t[n].kind = "pipeline"
                 /\ t[n].op \in {"ask", "deploy"} => n = Len(t)
                 /\ t[n].op # "disable"
      <3>1. n + 1 \in 1..Len(s) /\ t[n] = s[n + 1] /\ (n + 1 = Len(s) => n = Len(t))
        BY <1>2, <1>4
      <3>2. s[n + 1].op # "disable"
        BY <3>1 DEF Proper
      <3> QED BY <3>1, <3>2 DEF Proper
    <2> QED BY <1>2, <1>3, <2>1 DEF Proper
  <1>6. t[Len(t)] = s[Len(s)]
    BY <1>2
  <1>7. 1 \in 1..Len(t) /\ 2 \in 1..Len(s)
    BY <1>2
  <1>8. t[1].op # "disable"
    BY <1>2, <1>7 DEF Proper
  <1> QED BY <1>2, <1>5, <1>6, <1>8 DEF t

LEMMA ProperFirst ==
  ASSUME NEW ops, NEW s, Proper(s, ops)
  PROVE  /\ Head(s) = s[1] /\ s[1] \in ItemSet /\ s[1].op \in ops /\ s[1] \in Elements(s)
         /\ s[1].op # "disable" => Object(s[1]) \in Objects
         /\ s[1].op \in {"ask", "deploy", "show"} => s[1].kind = "pipeline"
         /\ s[1].op \in {"ask", "deploy", "disable"} => Len(s) = 1
         /\ Len(s) \in Nat \ {0} /\ 1 \in 1..Len(s)
         /\ ~(Len(s) > 1) => Elements(s) = {s[1]}
  <1>1. s \in Seq(ItemSet) /\ s # <<>>
    BY DEF Proper
  <1>2. Len(s) \in Nat \ {0} /\ Head(s) = s[1] /\ s[1] \in ItemSet
    BY <1>1, ElementsTail
  <1>3. 1 \in 1..Len(s)
    BY <1>2
  <1>4. ~(Len(s) > 1) => Elements(s) = {s[1]}
    BY <1>2 DEF Elements
  <1> QED BY <1>2, <1>3, <1>4 DEF Proper, Elements

\* The operations of a command.
CmdOps(o) ==
  IF o.cmd = "apply" THEN {"ensure", "deploy"}
  ELSE IF o.cmd = "destroy" THEN {"delete", "disable"}
  ELSE IF o.cmd = "status" THEN {"show"} ELSE {"ensure"}

LEMMA TargetIs ==
  ASSUME NEW o \in Commands, NEW p \in Pipelines
  PROVE  /\ o.cmd = "apply" =>
              Task(o, p) = Each("ensure", p) \union
                (IF o.deploy /\ ~o.dry THEN {Item("deploy", "pipeline", p)} ELSE {})
         /\ o.cmd = "destroy" => Task(o, p) = Each("delete", p)
  <1>1. p # Disable
    BY StageBConstants
  <1>2. CASE o.cmd = "apply"
    <2> DEFINE d == o.deploy /\ ~o.dry
               w == IF d THEN <<Item("deploy", "pipeline", p)>> ELSE <<>>
    <2>1. Target(o, p) = EnsureItems(p) \o w
      BY <1>1, <1>2 DEF Target, ApplyItems
    <2>2. EnsureItems(p) \in Seq(ItemSet) /\ Elements(EnsureItems(p)) = Each("ensure", p)
      BY EnsureIs DEF AllOf
    <2>3. w \in Seq(ItemSet)
      <3>1. Item("deploy", "pipeline", p) \in ItemSet
        BY DEF Item, ItemSet, AllNames
      <3>2. CASE d
        BY <3>1, <3>2
      <3>3. CASE ~d
        BY <3>3, EmptySeq
      <3> QED BY <3>2, <3>3
    <2>4. Elements(w) = IF d THEN {Item("deploy", "pipeline", p)} ELSE {}
      BY ElementsOfOne
    <2> HIDE DEF w, d
    <2>5. Elements(EnsureItems(p) \o w) = Elements(EnsureItems(p)) \union Elements(w)
      BY <2>2, <2>3, ElementsJoined
    <2> QED BY <1>2, <2>1, <2>2, <2>4, <2>5 DEF Task, d
  <1>3. CASE o.cmd = "destroy"
    <2>1. Target(o, p) = DestroyItems(p)
      BY <1>1, <1>3 DEF Target
    <2> QED BY <1>3, <2>1, DestroyIs DEF Task
  <1> QED BY <1>2, <1>3

LEMMA PreviewIs ==
  ASSUME NEW p \in Pipelines
  PROVE  /\ Proper(Preview(p), {"ensure", "ask"}) /\ Preview(p)[Len(Preview(p))].op = "ask"
         /\ Elements(Preview(p)) = Each("ensure", p) \union {Ask(p)}
  <1>1. AllOf(EnsureItems(p), "ensure") /\ Elements(EnsureItems(p)) = Each("ensure", p)
    BY EnsureIs
  <1> DEFINE e == Item("ask", "pipeline", p)
             u == EnsureItems(p) \o <<e>>
  <1>2. Proper(u, {"ensure", "ask"}) /\ u[Len(u)] = e
        /\ Elements(u) = Elements(EnsureItems(p)) \union {e}
    BY <1>1, EndProper
  <1>3. e.op = "ask"
    BY DEF Item
  <1>4. Preview(p) = u /\ Ask(p) = e
    BY DEF Preview, Ask
  <1> HIDE DEF u, e
  <1> QED BY <1>1, <1>2, <1>3, <1>4

LEMMA EachNotEmpty ==
  ASSUME NEW op, NEW p \in Pipelines
  PROVE  Each(op, p) # {}
  BY EachIs

LEMMA TargetProper ==
  ASSUME NEW o \in Commands, NEW x \in TargetSet(o), x = Disable => o.cmd = "destroy"
  PROVE  /\ Proper(Target(o, x), CmdOps(o))
         /\ Target(o, x)[1].op = "disable" => x = Disable
  <1>1. CASE x = Disable
    <2>1. Target(o, x) = <<Item("disable", "tenant", x)>>
      BY <1>1 DEF Target
    <2> QED BY <1>1, <2>1 DEF Proper, Item, ItemSet, AllNames, CmdOps
  <1>2. CASE x # Disable /\ o.cmd = "build"
    <2>1. Target(o, x) = <<Item("ensure", "function", x)>> /\ x \in Functions
      BY <1>2 DEF Target, TargetSet
    <2> QED BY <1>2, <2>1 DEF Proper, Item, ItemSet, AllNames, CmdOps, Object, Objects
  <1>3. CASE x # Disable /\ o.cmd = "status"
    <2>1. Target(o, x) = <<Item("show", "pipeline", x)>> /\ x \in Pipelines
      BY <1>3 DEF Target, TargetSet
    <2> QED BY <1>3, <2>1 DEF Proper, Item, ItemSet, AllNames, CmdOps, Object, Objects
  <1>4. CASE x # Disable /\ o.cmd = "destroy"
    <2>1. Target(o, x) = DestroyItems(x) /\ x \in Pipelines
      BY <1>4 DEF Target, TargetSet
    <2>2. AllOf(Target(o, x), "delete") /\ Elements(Target(o, x)) # {}
      BY <2>1, DestroyIs, EachNotEmpty
    <2>3. Proper(Target(o, x), {"delete", "disable"})
      BY <2>2, AllOfProper
    <2>4. Target(o, x)[1].op = "delete"
      BY <2>2, <2>3, ProperFirst DEF AllOf
    <2> QED BY <1>4, <2>3, <2>4 DEF CmdOps
  <1>5. CASE x # Disable /\ o.cmd = "apply"
    <2> DEFINE d == o.deploy /\ ~o.dry
               s == EnsureItems(x)
    <2>1. x \in Pipelines /\ Target(o, x) = ApplyItems(x, d)
      BY <1>5 DEF Target, TargetSet
    <2>2. AllOf(s, "ensure") /\ Elements(s) # {}
      BY <2>1, EnsureIs, EachNotEmpty
    <2> HIDE DEF s, d
    <2>3. Proper(Target(o, x), {"ensure", "deploy"})
      <3>1. CASE d
        <4>1. Target(o, x) = s \o <<Item("deploy", "pipeline", x)>>
          BY <2>1, <3>1 DEF ApplyItems, s
        <4> QED BY <2>1, <2>2, <4>1, EndProper
      <3>2. CASE ~d
        <4>1. Target(o, x) = s \o <<>>
          BY <2>1, <3>2 DEF ApplyItems, s
        <4>2. Target(o, x) = s
          BY <2>2, <4>1, ConcatEmptySeq DEF AllOf
        <4> QED BY <2>2, <4>2, AllOfProper
      <3> QED BY <3>1, <3>2
    <2>4. Target(o, x)[1].op \in {"ensure", "deploy"}
      BY <2>3, ProperFirst
    <2> QED BY <1>5, <2>3, <2>4 DEF CmdOps
  <1> QED BY <1>1, <1>2, <1>3, <1>4, <1>5 DEF Commands

-----------------------------------------------------------------------------
(* Where a run is                                                          *)

OpsOf(r) == IF r.trial THEN {"ensure", "ask"} ELSE CmdOps(r.opt)

\* What is in hand fits the phase; a write is never without need.
Placed(r) ==
  LET e == r.todo[1] IN
  /\ r.phase \in {"check", "build", "tag", "push", "look", "write", "do"}
  /\ r.phase = "do" => e.op \notin {"ensure", "show"}
  /\ r.phase = "look" => e.op \in {"ensure", "show"}
  /\ r.phase \in {"check", "build", "tag", "push"} => e.op = "ensure" /\ e.kind = "function"
  /\ r.phase = "write" => e.op = "ensure" /\ Change(r.seen, Wanted(r, e)) # "none"

\* Only an apply has a preview and a prompt, and only a destroy switches
\* DataEngine off, in the end.
Core(r) ==
  /\ r.refused # {} \/ r.trial \/ r.ask => r.opt.cmd = "apply"
  /\ \A n \in 1..Len(r.left) : r.left[n] = Disable => r.opt.cmd = "destroy" /\ n = Len(r.left)
Busy(r) ==
  /\ Proper(r.todo, OpsOf(r)) /\ Placed(r) /\ ~r.ok
  /\ r.trial => r.todo[Len(r.todo)].op = "ask"
  /\ r.todo[1].op = "disable" => r.left = <<>>
  /\ r.phase \in {"build", "tag", "push", "write"} => ~Dry(r)
Shape(r) ==
  /\ Core(r)
  /\ r.phase # "idle" => Busy(r)
  /\ r.phase = "idle" => r.left = <<>> /\ r.todo = <<>> /\ ~r.trial

\* The two agree on all but the login and the history.
Alike(q, r) ==
  /\ q.opt = r.opt /\ q.left = r.left /\ q.todo = r.todo /\ q.phase = r.phase
  /\ q.ask = r.ask /\ q.trial = r.trial /\ q.want = r.want
  /\ q.tag = r.tag /\ q.seen = r.seen /\ q.ok = r.ok /\ q.refused = r.refused

LEMMA AlikeShape ==
  ASSUME NEW q, NEW r, Alike(q, r), Shape(r)
  PROVE  Shape(q)
  <1>1. OpsOf(q) = OpsOf(r) /\ Wanted(q, q.todo[1]) = Wanted(r, r.todo[1])
    BY DEF Alike, OpsOf, Wanted
  <1>2. Placed(r) => Placed(q)
    BY <1>1 DEF Alike, Placed
  <1>3. Dry(q) <=> Dry(r)
    BY DEF Alike, Dry
  <1>4. Busy(r) => Busy(q)
    BY <1>1, <1>2, <1>3 DEF Alike, Busy
  <1> QED BY <1>4 DEF Alike, Shape, Core

LEMMA NoRunShape == Shape(NoRun)
  BY DEF Shape, Core, NoRun, Nothing

\* A list begun.
Begun(b, r, s) ==
  /\ DOMAIN b = Fields /\ b.todo = s /\ b.phase = FirstPhase(Head(s)) /\ b.seen = None
  /\ b.opt = r.opt /\ b.left = r.left /\ b.ask = r.ask /\ b.trial = r.trial
  /\ b.conf = r.conf /\ b.want = r.want /\ b.tag = r.tag /\ b.ok = r.ok
  /\ b.shown = r.shown /\ b.refused = r.refused /\ b.moved = r.moved /\ b.blind = r.blind

LEMMA BeginFields ==
  ASSUME NEW r, DOMAIN r = Fields, NEW s
  PROVE  Begun(Begin(r, s), r, s)
  BY DEF Begin, Fields, Begun

LEMMA BeginShape ==
  ASSUME NEW r, DOMAIN r = Fields, Core(r), ~r.ok, NEW s, Proper(s, OpsOf(r)),
         r.trial => s[Len(s)].op = "ask", s[1].op = "disable" => r.left = <<>>
  PROVE  /\ Shape(Begin(r, s)) /\ Begin(r, s).phase \in {"check", "look", "do"}
         /\ Begin(r, s).phase = "look" => s[1].kind # "function"
  <1> DEFINE b == Begin(r, s)
  <1>0. Begun(b, r, s)
    BY BeginFields
  <1> HIDE DEF b
  <1>1. /\ b.todo = s /\ b.phase = FirstPhase(Head(s)) /\ b.opt = r.opt /\ b.left = r.left
        /\ b.ask = r.ask /\ b.trial = r.trial /\ b.ok = r.ok /\ b.refused = r.refused
    BY <1>0 DEF Begun
  <1>2. /\ Head(s) = s[1]
        /\ s[1].op = "show" => s[1].kind = "pipeline"
    BY ProperFirst
  <1>3. /\ FirstPhase(s[1]) \in {"check", "look", "do"}
        /\ FirstPhase(s[1]) = "check" => s[1].op = "ensure" /\ s[1].kind = "function"
        /\ FirstPhase(s[1]) = "look" => s[1].op \in {"ensure", "show"} /\ s[1].kind # "function"
        /\ FirstPhase(s[1]) = "do" => s[1].op \notin {"ensure", "show"}
    BY <1>2 DEF FirstPhase
  <1>4. Placed(b)
    BY <1>1, <1>2, <1>3 DEF Placed
  <1>5. OpsOf(b) = OpsOf(r)
    BY <1>1 DEF OpsOf
  <1>6. b.phase \notin {"build", "tag", "push", "write", "idle"}
    BY <1>1, <1>2, <1>3
  <1>7. Busy(b)
    BY <1>1, <1>4, <1>5, <1>6 DEF Busy
  <1>8. Core(b)
    BY <1>1 DEF Core
  <1>9. Shape(b)
    BY <1>6, <1>7, <1>8 DEF Shape
  <1> QED BY <1>1, <1>2, <1>3, <1>9 DEF b

LEMMA EndedFields ==
  ASSUME NEW r
  PROVE  LET e == Ended(r) IN
         /\ r.moved => e = NoRun
         /\ ~r.moved => /\ e.opt = r.opt /\ e.refused = r.refused /\ e.ok /\ e.left = <<>>
                        /\ e.todo = <<>> /\ e.phase = "idle" /\ ~e.trial /\ ~e.ask /\ ~e.moved
  BY NoRunFields DEF Ended, NoRun, Fields

LEMMA NextTargetShape ==
  ASSUME NEW r, NEW t, NEW tenant, Based(r, t, tenant), Core(r), ~r.ok
  PROVE  /\ Shape(NextTarget(r))
         /\ NextTarget(r).phase \in {"idle", "check", "look", "do"}
         /\ NextTarget(r).phase = "look" => NextTarget(r).todo[1].kind # "function"
  <1>0. DOMAIN r = Fields /\ r.opt \in Commands /\ r.left \in Seq(TargetSet(r.opt))
    BY DEF Based
  <1>1. CASE r.left = <<>>
    <2> DEFINE e == Ended(r)
    <2>1. NextTarget(r) = e
      BY <1>1 DEF NextTarget
    <2>2. CASE r.moved
      <3>1. e = NoRun
        BY <2>2, EndedFields
      <3> QED BY <2>1, <3>1, NoRunShape DEF NoRun
    <2>3. CASE ~r.moved
      <3>1. /\ e.opt = r.opt /\ e.refused = r.refused /\ e.left = <<>>
            /\ e.todo = <<>> /\ e.phase = "idle" /\ ~e.trial /\ ~e.ask
        BY <2>3, EndedFields
      <3> HIDE DEF e
      <3>2. Shape(e)
        BY <3>1 DEF Core, Shape
      <3> QED BY <2>1, <3>1, <3>2
    <2> QED BY <2>2, <2>3
  <1>2. CASE r.left # <<>>
    <2> DEFINE x == Head(r.left)
               trial == r.ask /\ x # Disable
               n == [r EXCEPT !.left = Tail(@), !.trial = trial, !.shown = {},
                              !.conf = @ /\ r.opt.cmd # "apply"]
               s == IF trial THEN Preview(x) ELSE Target(r.opt, x)
    <2>1. /\ x = r.left[1] /\ x \in TargetSet(r.opt) /\ Len(r.left) \in Nat \ {0}
          /\ Len(Tail(r.left)) = Len(r.left) - 1
          /\ \A i \in 1..Len(Tail(r.left)) : Tail(r.left)[i] = r.left[i + 1]
          /\ Len(r.left) = 1 => Tail(r.left) = <<>>
      BY <1>0, <1>2, ElementsTail
    <2>2. /\ DOMAIN n = Fields /\ n.opt = r.opt /\ n.left = Tail(r.left) /\ n.ask = r.ask
          /\ n.trial = trial /\ n.refused = r.refused /\ n.ok = r.ok
      BY <1>0 DEF Fields
    <2>3. NextTarget(r) = Begin(n, s)
      BY <1>2 DEF NextTarget
    <2> HIDE DEF n, x
    <2>4. x = Disable => r.opt.cmd = "destroy" /\ n.left = <<>>
      <3>1. 1 \in 1..Len(r.left)
        BY <2>1
      <3>2. r.left[1] = Disable => r.opt.cmd = "destroy" /\ 1 = Len(r.left)
        BY <3>1 DEF Core
      <3>3. x = Disable => r.opt.cmd = "destroy" /\ Len(r.left) = 1
        BY <2>1, <3>2
      <3> QED BY <2>1, <2>2, <3>3
    <2>5. \A i \in 1..Len(n.left) : n.left[i] = Disable => n.opt.cmd = "destroy" /\ i = Len(n.left)
      <3> SUFFICES ASSUME NEW i \in 1..Len(n.left), n.left[i] = Disable
                   PROVE  n.opt.cmd = "destroy" /\ i = Len(n.left)
        OBVIOUS
      <3>1. i + 1 \in 1..Len(r.left) /\ r.left[i + 1] = Disable /\ n.left = Tail(r.left)
        BY <2>1, <2>2
      <3>2. i + 1 = Len(r.left) /\ r.opt.cmd = "destroy"
        BY <3>1 DEF Core
      <3> QED BY <2>1, <2>2, <3>2
    <2>6. Core(n)
      BY <2>2, <2>5 DEF Core
    <2>7. trial => r.opt.cmd = "apply" /\ x \in Pipelines
      BY <2>1 DEF Core, TargetSet
    <2>8. Proper(s, OpsOf(n)) /\ (trial => s[Len(s)].op = "ask")
      <3>1. CASE trial
        <4>1. OpsOf(n) = {"ensure", "ask"} /\ s = Preview(x)
          BY <2>2, <3>1 DEF OpsOf
        <4> QED BY <2>7, <3>1, <4>1, PreviewIs
      <3>2. CASE ~trial
        <4>1. OpsOf(n) = CmdOps(r.opt) /\ s = Target(r.opt, x)
          BY <2>2, <3>2 DEF OpsOf
        <4> QED BY <1>0, <2>1, <2>4, <3>2, <4>1, TargetProper
      <3> QED BY <3>1, <3>2
    <2>9. s[1].op = "disable" => n.left = <<>>
      <3>1. CASE trial
        <4>1. s[1].op \in OpsOf(n) /\ OpsOf(n) = {"ensure", "ask"}
          BY <2>2, <2>8, <3>1, ProperFirst DEF OpsOf
        <4> QED BY <4>1
      <3>2. CASE ~trial
        <4>1. s[1].op = "disable" => x = Disable
          BY <1>0, <2>1, <2>4, <3>2, TargetProper
        <4> QED BY <2>4, <4>1
      <3> QED BY <3>1, <3>2
    <2> HIDE DEF s
    <2> DEFINE b == Begin(n, s)
    <2>10. b.todo = s
      <3>1. DOMAIN n = Fields
        BY <2>2
      <3>2. Begun(b, n, s)
        BY <3>1, BeginFields
      <3> QED BY <3>2 DEF Begun
    <2>11. /\ Shape(b) /\ b.phase \in {"check", "look", "do"}
           /\ b.phase = "look" => s[1].kind # "function"
      BY <2>2, <2>6, <2>8, <2>9, BeginShape
    <2> QED BY <2>3, <2>10, <2>11
  <1> QED BY <1>1, <1>2

LEMMA SteppedShape ==
  ASSUME NEW r, NEW t, NEW tenant, Based(r, t, tenant), Core(r), Busy(r)
  PROVE  /\ Shape(Stepped(r))
         /\ Stepped(r).phase \in {"idle", "check", "look", "do"}
         /\ Stepped(r).phase = "look" => Stepped(r).todo[1].kind # "function"
  <1>1. CASE Len(r.todo) > 1
    <2> DEFINE s == Tail(r.todo)
    <2>1. Proper(s, OpsOf(r)) /\ s[Len(s)] = r.todo[Len(r.todo)] /\ s[1].op # "disable"
      BY <1>1, ProperTail DEF Busy
    <2>2. Stepped(r) = Begin(r, s)
      BY <1>1 DEF Stepped
    <2> HIDE DEF s
    <2>3. Begin(r, s).todo = s /\ DOMAIN r = Fields
      <3>1. DOMAIN r = Fields
        BY DEF Based
      <3>2. Begun(Begin(r, s), r, s)
        BY <3>1, BeginFields
      <3> QED BY <3>1, <3>2 DEF Begun
    <2> QED BY <2>1, <2>2, <2>3, BeginShape DEF Busy
  <1>2. CASE ~(Len(r.todo) > 1)
    BY <1>2, NextTargetShape DEF Stepped, Busy
  <1> QED BY <1>1, <1>2

-----------------------------------------------------------------------------
(* What is in hand                                                         *)

WorldTyped ==
  /\ trouble \in 0..MaxTrouble /\ yaml \in Nat
  /\ source \in [Functions -> Nat \ {0}] /\ \A f \in Functions : source[f] <= trouble + 1
  /\ local \in [Functions -> Nat \union {None}]
  /\ tagged \in [Functions -> [Revisions -> Nat \union {None}]]
  /\ registry \in [Functions -> [Revisions -> Nat \union {None}]]
  /\ \A ten \in Tenants : DOMAIN held[ten] = Objects /\ DOMAIN running[ten] = Pipelines

\* Between the hash and the push: what there is of the image, and that it is of
\* the revision that was hashed unless somebody touched it (stale).
Stamped(r, src, loc, tgd) ==
  LET f == r.todo[1].name IN
  /\ r.phase \in {"build", "tag", "push"} => r.tag \in Revisions
  /\ r.phase = "tag" => loc[f] # None
  /\ r.phase = "push" => tgd[f][r.tag] # None
  /\ (r.phase = "build" /\ ~r.stale /\ r.tag # 0) => src[f] = r.tag
  /\ (r.phase \in {"tag", "push"} /\ ~r.stale /\ r.tag # 0) => loc[f] = r.tag
  /\ (r.phase = "push" /\ ~r.stale /\ r.tag # 0) => tgd[f][r.tag] = r.tag

WorkOK(r) == Shape(r) /\ Stamped(r, source, local, tagged)
WorkInv == WorldTyped /\ \A t \in Terminals : WorkOK(run[t])

\* The record of a run that does nothing: what others do leaves it as it was, but
\* for the history, or has its result forgotten; and one that sees nothing of it.
Beside(q, r) == q = NoRun \/ (Alike(q, r) /\ q.conf = r.conf /\ q.stale = r.stale)
Follows(q, r) ==
  Alike(q, r) /\ q.conf = r.conf /\ q.moved = r.moved /\ q.shown = r.shown /\ q.blind = r.blind

LEMMA Unstamped ==
  ASSUME NEW r, r.phase \notin {"build", "tag", "push"}, NEW src, NEW loc, NEW tgd
  PROVE  Stamped(r, src, loc, tgd)
  BY DEF Stamped

LEMMA BesideStamped ==
  ASSUME NEW q, NEW r, Beside(q, r), NEW src, NEW loc, NEW tgd, Stamped(r, src, loc, tgd), Shape(r)
  PROVE  Stamped(q, src, loc, tgd) /\ Shape(q)
  <1>1. CASE q = NoRun
    BY <1>1, NoRunShape DEF Stamped, NoRun
  <1>2. CASE Alike(q, r) /\ q.conf = r.conf /\ q.stale = r.stale
    <2>1. Shape(q)
      BY <1>2, AlikeShape
    <2>2. q.todo = r.todo /\ q.phase = r.phase /\ q.tag = r.tag /\ q.stale = r.stale
      BY <1>2 DEF Alike
    <2> QED BY <2>1, <2>2 DEF Stamped
  <1> QED BY <1>1, <1>2 DEF Beside

LEMMA DisturbedBeside ==
  ASSUME NEW r, DOMAIN r = Fields
  PROVE  /\ Beside(Disturbed(r), r)
         /\ r.phase # "idle" => Disturbed(r).moved
         /\ r.phase = "idle" => Disturbed(r) = NoRun
  <1> DEFINE d == [r EXCEPT !.moved = TRUE, !.done = FALSE, !.shown = {}]
  <1>1. /\ Alike(d, r) /\ d.conf = r.conf /\ d.stale = r.stale /\ d.moved
    BY DEF Fields, Alike
  <1> HIDE DEF d
  <1>2. Disturbed(r) = IF r.phase = "idle" THEN NoRun ELSE d
    BY DEF Disturbed, d
  <1> QED BY <1>1, <1>2 DEF Beside

LEMMA BesideItself ==
  ASSUME NEW r
  PROVE  Beside(r, r)
  BY DEF Beside, Alike

\* A step that leaves the images alone.
LEMMA QuietWork ==
  ASSUME WorkInv, source' = source, local' = local, tagged' = tagged, WorldTyped',
         \A s \in Terminals : \/ Beside(run'[s], run[s])
                              \/ Shape(run'[s]) /\ run'[s].phase \notin {"build", "tag", "push"}
  PROVE  WorkInv'
  <1>1. ASSUME NEW s \in Terminals
        PROVE  Shape(run'[s]) /\ Stamped(run'[s], source, local, tagged)
    <2>1. CASE Beside(run'[s], run[s])
      <3>1. Shape(run[s]) /\ Stamped(run[s], source, local, tagged)
        BY DEF WorkInv, WorkOK
      <3> QED BY <2>1, <3>1, BesideStamped
    <2>2. CASE Shape(run'[s]) /\ run'[s].phase \notin {"build", "tag", "push"}
      BY <2>2, Unstamped
    <2> QED BY <2>1, <2>2
  <1> QED BY <1>1 DEF WorkInv, WorkOK

\* A step of one terminal.
LEMMA OwnWork ==
  ASSUME HomeInv, WorkInv, NEW t \in Terminals, NEW q, run' = [run EXCEPT ![t] = q],
         Shape(q), Stamped(q, source, local, tagged),
         source' = source, local' = local, tagged' = tagged, WorldTyped'
  PROVE  WorkInv'
  <1>1. ASSUME NEW s \in Terminals
        PROVE  Shape(run'[s]) /\ Stamped(run'[s], source, local, tagged)
    <2>1. CASE s = t
      <3>1. run'[s] = q
        BY <2>1 DEF HomeInv
      <3> QED BY <3>1
    <2>2. CASE s # t
      <3>1. run'[s] = run[s]
        BY <2>2 DEF HomeInv
      <3> QED BY <3>1 DEF WorkInv, WorkOK
    <2> QED BY <2>1, <2>2
  <1> QED BY <1>1 DEF WorkInv, WorkOK

\* A step of one terminal that moves the world of the others.
LEMMA MovedWork ==
  ASSUME HomeInv, WorkInv, NEW t \in Terminals, NEW q, run' = Moved(t, q),
         Shape(q), q.phase \notin {"build", "tag", "push"},
         source' = source, local' = local, tagged' = tagged, WorldTyped'
  PROVE  WorkInv'
  <1>1. ASSUME NEW s \in Terminals
        PROVE  \/ Beside(run'[s], run[s])
               \/ Shape(run'[s]) /\ run'[s].phase \notin {"build", "tag", "push"}
    <2>1. CASE s = t
      <3>1. run'[s] = q
        BY <2>1 DEF Moved
      <3> QED BY <3>1
    <2>2. CASE s # t
      <3>1. run'[s] = Disturbed(run[s])
        BY <2>2 DEF Moved
      <3>2. DOMAIN run[s] = Fields
        BY DEF HomeInv, RunOK, Based
      <3> QED BY <3>1, <3>2, DisturbedBeside
    <2> QED BY <2>1, <2>2
  <1> QED BY <1>1, QuietWork

\* A change that nobody here makes.
LEMMA WorldWork ==
  ASSUME HomeInv, WorkInv, run' = [s \in Terminals |-> Disturbed(run[s])],
         source' = source, local' = local, tagged' = tagged, WorldTyped'
  PROVE  WorkInv'
  <1>1. ASSUME NEW s \in Terminals PROVE Beside(run'[s], run[s])
    <2>1. run'[s] = Disturbed(run[s]) /\ DOMAIN run[s] = Fields
      BY DEF HomeInv, RunOK, Based
    <2> QED BY <2>1, DisturbedBeside
  <1> QED BY <1>1, QuietWork

LEMMA InHandIs ==
  ASSUME HomeInv, WorkInv, NEW t \in Terminals, ~Idle(t)
  PROVE  /\ Based(run[t], t, login) /\ Core(run[t]) /\ Busy(run[t]) /\ DOMAIN run[t] = Fields
         /\ Stamped(run[t], source, local, tagged) /\ run[t].phase # "idle"
         /\ Proper(run[t].todo, OpsOf(run[t])) /\ Placed(run[t])
         /\ Now(t) = run[t].todo[1] /\ Head(run[t].todo) = run[t].todo[1]
         /\ Now(t) \in ItemSet /\ Now(t).op \in OpsOf(run[t])
         /\ Now(t).op # "disable" => Object(Now(t)) \in Objects
         /\ Now(t).kind = "function" /\ Now(t).op # "disable" => Now(t).name \in Functions
  <1>1. Based(run[t], t, login) /\ DOMAIN run[t] = Fields /\ run[t].phase # "idle"
    BY DEF HomeInv, RunOK, Based, Idle
  <1>2. Shape(run[t]) /\ Stamped(run[t], source, local, tagged)
    BY DEF WorkInv, WorkOK
  <1>3. Core(run[t]) /\ Busy(run[t])
    BY <1>1, <1>2 DEF Shape
  <1>4. Proper(run[t].todo, OpsOf(run[t])) /\ Placed(run[t])
    BY <1>3 DEF Busy
  <1> PICK e : e = run[t].todo[1]
    OBVIOUS
  <1>5. /\ Head(run[t].todo) = e /\ e \in ItemSet /\ e.op \in OpsOf(run[t])
        /\ e.op # "disable" => Object(e) \in Objects
    BY <1>4, ProperFirst
  <1>6. e.kind = "function" /\ e.op # "disable" => e.name \in Functions
    BY <1>5 DEF Object, Objects
  <1>7. Now(t) = e
    BY <1>5 DEF Now
  <1> QED BY <1>1, <1>2, <1>3, <1>4, <1>5, <1>6, <1>7

LEMMA ImageInHand ==
  ASSUME HomeInv, WorkInv, NEW t \in Terminals, run[t].phase \in {"check", "build", "tag", "push"}
  PROVE  /\ ~Idle(t) /\ Now(t) = run[t].todo[1] /\ Now(t).name \in Functions
         /\ Now(t).op = "ensure" /\ Now(t).kind = "function"
  <1>1. ~Idle(t)
    BY DEF Idle
  <1> PICK e : e = Now(t)
    OBVIOUS
  <1>2. /\ Placed(run[t]) /\ e = run[t].todo[1]
        /\ e.kind = "function" /\ e.op # "disable" => e.name \in Functions
    BY <1>1, InHandIs
  <1>3. e.op = "ensure" /\ e.kind = "function"
    BY <1>2 DEF Placed
  <1> QED BY <1>1, <1>2, <1>3

LEMMA SteppedWork ==
  ASSUME HomeInv, WorkInv, NEW t \in Terminals, ~Idle(t)
  PROVE  /\ Shape(Stepped(run[t])) /\ Stepped(run[t]).phase \notin {"build", "tag", "push"}
         /\ Stamped(Stepped(run[t]), source, local, tagged)
  <1>1. Based(run[t], t, login) /\ Core(run[t]) /\ Busy(run[t])
    BY InHandIs
  <1>2. Shape(Stepped(run[t])) /\ Stepped(run[t]).phase \in {"idle", "check", "look", "do"}
    BY <1>1, SteppedShape
  <1>3. Stepped(run[t]).phase \notin {"build", "tag", "push"}
    BY <1>2
  <1> QED BY <1>2, <1>3, Unstamped

LEMMA NoRunWork == Shape(NoRun) /\ Stamped(NoRun, source, local, tagged)
  BY NoRunShape DEF Stamped, NoRun

LEMMA TargetsEnd ==
  ASSUME NEW o \in Commands
  PROVE  \A n \in 1..Len(Targets(o)) : Targets(o)[n] = Disable => o.cmd = "destroy" /\ n = Len(Targets(o))
  <1> DEFINE e == IF o.off THEN <<Disable>> ELSE <<>>
             S == Pipelines \union Functions \union {Disable}
             u == o.targets \o e
  <1>1. o.targets \in Seq(Pipelines) \/ o.targets \in Seq(Functions)
    BY DEF Commands
  <1>2. /\ Len(o.targets) \in Nat
        /\ \A n \in 1..Len(o.targets) : o.targets[n] \in Pipelines \union Functions
        /\ o.targets \in Seq(S)
    <2>1. CASE o.targets \in Seq(Pipelines)
      BY <2>1, ElementOfSeq, LenProperties
    <2>2. CASE o.targets \in Seq(Functions)
      BY <2>2, ElementOfSeq, LenProperties
    <2> QED BY <1>1, <2>1, <2>2
  <1>3. /\ o.off => e = <<Disable>> /\ o.cmd = "destroy"
        /\ ~o.off => e = <<>>
    BY DEF Commands
  <1>4. /\ e \in Seq(S) /\ Len(e) \in {0, 1} /\ (Len(e) = 1 => o.cmd = "destroy")
    <2>1. CASE o.off
      BY <1>3, <2>1
    <2>2. CASE ~o.off
      BY <1>3, <2>2
    <2> QED BY <2>1, <2>2
  <1>5. Targets(o) = u
    BY DEF Targets
  <1> HIDE DEF e, S
  <1>6. /\ Len(u) = Len(o.targets) + Len(e)
        /\ \A i \in 1..Len(o.targets) + Len(e) :
             u[i] = IF i <= Len(o.targets) THEN o.targets[i] ELSE e[i - Len(o.targets)]
    BY <1>2, <1>4, ConcatProperties
  <1> HIDE DEF u
  <1>7. ASSUME NEW n \in 1..Len(u), u[n] = Disable PROVE o.cmd = "destroy" /\ n = Len(u)
    <2>1. ~(n <= Len(o.targets))
      <3>1. Disable \notin Pipelines \union Functions
        BY StageBConstants
      <3> QED BY <1>2, <1>6, <1>7, <3>1
    <2> QED BY <1>2, <1>4, <1>6, <2>1
  <1> QED BY <1>5, <1>7

LEMMA StartKeepsWork ==
  ASSUME HomeInv, WorkInv, NEW t \in Terminals, NEW o \in Options[t], Start(t, o)
  PROVE  WorkInv'
  <1> DEFINE r == [NoRun EXCEPT !.opt = o, !.left = Targets(o), !.ask = o.ask,
                                !.want = yaml, !.done = InPlace(t)]
  <1>1. o \in Commands
    BY StageBConstants
  <1>2. /\ DOMAIN r = Fields /\ r.opt = o /\ r.left = Targets(o) /\ r.ask = o.ask
        /\ r.conf = FALSE /\ ~r.ok /\ r.refused = {} /\ r.trial = FALSE
    BY NoRunFields DEF NoRun, Fields
  <1>3. run' = [run EXCEPT ![t] = NextTarget(r)]
    BY DEF Start
  <1> HIDE DEF r
  <1>4. Based(r, t, login)
    BY <1>1, <1>2, TargetsTyped DEF Based
  <1>5. o.ask => o.cmd = "apply"
    BY <1>1 DEF Commands
  <1>6. Core(r)
    BY <1>1, <1>2, <1>5, TargetsEnd DEF Core
  <1>7. Shape(NextTarget(r)) /\ NextTarget(r).phase \in {"idle", "check", "look", "do"}
    BY <1>2, <1>4, <1>6, NextTargetShape
  <1>8. Stamped(NextTarget(r), source, local, tagged)
    BY <1>7, Unstamped
  <1>9. source' = source /\ local' = local /\ tagged' = tagged
    BY DEF Start, images
  <1>10. WorldTyped'
    BY StageBConstants DEF WorkInv, WorldTyped, Start, Trouble, images, remote
  <1> QED BY <1>3, <1>7, <1>8, <1>9, <1>10, OwnWork

LEMMA StopKeepsWork ==
  ASSUME HomeInv, WorkInv, NEW t \in Terminals, Stop(t)
  PROVE  WorkInv'
  <1>1. WorldTyped'
    BY StageBConstants DEF WorkInv, WorldTyped, Stop, Trouble, images, remote
  <1>2. run' = [run EXCEPT ![t] = NoRun] /\ source' = source /\ local' = local /\ tagged' = tagged
    BY DEF Stop, Fail, images
  <1> QED BY <1>1, <1>2, NoRunWork, OwnWork

\* A login: the others lose theirs, or see nothing of it.
LEMMA ConfigureIs ==
  ASSUME HomeInv, NEW t \in Terminals, Configure(t)
  PROVE  /\ ~Idle(t) /\ run[t].phase = "look" /\ login' = TenantOf[t]
         /\ Alike(run'[t], run[t]) /\ run'[t].stale = run[t].stale
         /\ run'[t].moved = run[t].moved /\ run'[t].shown = run[t].shown
         /\ run'[t].blind = run[t].blind
         /\ \A s \in Terminals \ {t} :
              /\ Beside(run'[s], run[s])
              /\ login # login' => run'[s] = NoRun \/ run'[s].moved
              /\ login = login' => Follows(run'[s], run[s])
  <1> DEFINE other(s) == IF login = TenantOf[t] THEN run[s] ELSE Disturbed(run[s])
             q(s) == [other(s) EXCEPT !.robbed = @ \/ (~Idle(s) /\ TenantOf[s] # TenantOf[t])]
             mine == [run[t] EXCEPT !.conf = TRUE, !.robbed = FALSE]
  <1>1. /\ run' = [s \in Terminals |-> IF s = t THEN mine ELSE q(s)]
        /\ login' = TenantOf[t] /\ ~Idle(t) /\ run[t].phase = "look"
    BY DEF Configure, AtPhase
  <1>2. DOMAIN run[t] = Fields
    BY DEF HomeInv, RunOK, Based
  <1>3. /\ Alike(mine, run[t]) /\ mine.stale = run[t].stale
        /\ mine.moved = run[t].moved /\ mine.shown = run[t].shown /\ mine.blind = run[t].blind
    BY <1>2 DEF Alike, Fields
  <1>4. run'[t] = mine
    BY <1>1
  <1>5. ASSUME NEW s \in Terminals \ {t}
        PROVE  /\ Beside(run'[s], run[s])
               /\ login # login' => run'[s] = NoRun \/ run'[s].moved
               /\ login = login' => Follows(run'[s], run[s])
    <2>1. run'[s] = q(s) /\ DOMAIN run[s] = Fields
      BY <1>1 DEF HomeInv, RunOK, Based
    <2>2. CASE login = TenantOf[t]
      <3> DEFINE u == [run[s] EXCEPT !.robbed = @ \/ (~Idle(s) /\ TenantOf[s] # TenantOf[t])]
      <3>1. q(s) = u
        BY <2>2
      <3>2. Alike(u, run[s]) /\ u.conf = run[s].conf /\ u.moved = run[s].moved
            /\ u.shown = run[s].shown /\ u.blind = run[s].blind /\ u.stale = run[s].stale
        BY <2>1 DEF Alike, Fields
      <3> HIDE DEF u, q
      <3> QED BY <1>1, <2>1, <2>2, <3>1, <3>2 DEF Beside, Follows
    <2>3. CASE login # TenantOf[t]
      <3> DEFINE d == Disturbed(run[s])
                 u == [d EXCEPT !.robbed = @ \/ (~Idle(s) /\ TenantOf[s] # TenantOf[t])]
      <3>1. q(s) = u
        BY <2>3
      <3>2. Beside(d, run[s]) /\ DOMAIN d = Fields
        BY <2>1, DisturbedBeside, DisturbedOK DEF HomeInv
      <3>3. CASE Idle(s)
        <4>1. d = NoRun /\ ~NoRun.robbed /\ NoRun.robbed = FALSE
          BY <2>1, <3>3, DisturbedBeside DEF Idle, NoRun
        <4>2. u = NoRun
          BY <3>3, <4>1 DEF NoRun
        <4> HIDE DEF q, u
        <4> QED BY <1>1, <2>1, <2>3, <3>1, <4>2 DEF Beside
      <3>4. CASE ~Idle(s)
        <4>1. d.moved /\ d # NoRun
          BY <2>1, <3>4, DisturbedBeside DEF Idle, NoRun
        <4>2. Alike(d, run[s]) /\ d.conf = run[s].conf /\ d.stale = run[s].stale
          BY <3>2, <4>1 DEF Beside
        <4> HIDE DEF d
        <4>3. Alike(u, d) /\ u.conf = d.conf /\ u.stale = d.stale /\ u.moved = d.moved
          BY <3>2 DEF Alike, Fields
        <4> HIDE DEF q, u
        <4>4. Alike(u, run[s])
          BY <4>2, <4>3 DEF Alike
        <4> QED BY <1>1, <2>1, <2>3, <3>1, <4>1, <4>2, <4>3, <4>4 DEF Beside
      <3> QED BY <3>3, <3>4
    <2> QED BY <2>2, <2>3
  <1> HIDE DEF mine
  <1> QED BY <1>1, <1>3, <1>4, <1>5

LEMMA ConfigureKeepsWork ==
  ASSUME HomeInv, WorkInv, NEW t \in Terminals, Configure(t)
  PROVE  WorkInv'
  <1>1. source' = source /\ local' = local /\ tagged' = tagged
    BY DEF Configure, images
  <1>2. WorldTyped'
    BY DEF WorkInv, WorldTyped, Configure, images, remote
  <1>3. ASSUME NEW s \in Terminals
        PROVE  \/ Beside(run'[s], run[s])
               \/ Shape(run'[s]) /\ run'[s].phase \notin {"build", "tag", "push"}
    <2>1. CASE s = t
      <3>1. Alike(run'[t], run[t]) /\ run[t].phase = "look"
        BY ConfigureIs
      <3>2. Shape(run[t])
        BY DEF WorkInv, WorkOK
      <3>3. Shape(run'[t])
        BY <3>1, <3>2, AlikeShape
      <3> QED BY <2>1, <3>1, <3>3 DEF Alike
    <2>2. CASE s # t
      BY <2>2, ConfigureIs
    <2> QED BY <2>1, <2>2
  <1> QED BY <1>1, <1>2, <1>3, QuietWork

\* A look: the record of the run with the answer noted, which is done with the
\* item, or will write.
LookedAt(t, failed, note) ==
  LET e    == Now(t)
      seen == Answers(Object(e), failed)
      op   == Change(seen, Wanted(run[t], e)) IN
  /\ DOMAIN note = Fields /\ Alike(note, run[t]) /\ note.conf = run[t].conf
  /\ note.robbed = run[t].robbed /\ note.moved = run[t].moved
  /\ note.blind <=> (run[t].blind \/ failed)
  /\ run[t].trial => note.shown = run[t].shown \union {<<Object(e), op>>}
  /\ ~run[t].trial => note.shown = run[t].shown
  /\ IF e.op = "show" \/ op = "none" \/ Dry(run[t]) THEN run'[t] = Stepped(note)
     ELSE /\ DOMAIN run'[t] = Fields /\ run'[t].phase = "write" /\ run'[t].seen = seen
          /\ run'[t].opt = note.opt /\ run'[t].left = note.left /\ run'[t].todo = note.todo
          /\ run'[t].ask = note.ask /\ run'[t].trial = note.trial /\ run'[t].conf = note.conf
          /\ run'[t].want = note.want /\ run'[t].tag = note.tag /\ run'[t].ok = note.ok
          /\ run'[t].refused = note.refused /\ run'[t].moved = note.moved
          /\ run'[t].shown = note.shown /\ run'[t].blind = note.blind

LEMMA LookIs ==
  ASSUME HomeInv, NEW t \in Terminals, Look(t)
  PROVE  /\ ~Idle(t) /\ run[t].phase = "look" /\ run[t].conf /\ run' = [run EXCEPT ![t] = run'[t]]
         /\ \E failed \in BOOLEAN : \E note : LookedAt(t, failed, note)
  <1>1. ~Idle(t) /\ run[t].phase = "look" /\ run[t].conf
    BY DEF Look, AtPhase, NeedsLogin
  <1>2. PICK failed \in BOOLEAN :
          run' = [run EXCEPT ![t] =
            Looked([run[t] EXCEPT !.blind = @ \/ failed, !.done = @ /\ ~failed],
                   Answers(Object(Now(t)), failed))]
    BY DEF Look
  <1> DEFINE r == [run[t] EXCEPT !.blind = @ \/ failed, !.done = @ /\ ~failed]
             seen == Answers(Object(Now(t)), failed)
             item == Head(r.todo)
             op == Change(seen, Wanted(r, item))
             note == [r EXCEPT !.shown = IF r.trial THEN @ \union {<<Object(item), op>>} ELSE @]
             last == [note EXCEPT !.seen = seen, !.phase = "write"]
  <1>3. DOMAIN run[t] = Fields /\ DOMAIN run = Terminals
    BY DEF HomeInv, RunOK, Based
  <1>4. /\ DOMAIN r = Fields /\ Alike(r, run[t]) /\ r.conf = run[t].conf
        /\ r.robbed = run[t].robbed /\ r.moved = run[t].moved /\ r.shown = run[t].shown
    BY <1>3 DEF Fields, Alike
  <1>5. r.blind = (run[t].blind \/ failed)
    BY <1>3 DEF Fields
  <1>6. Looked(r, seen) =
          IF item.op = "show" \/ op = "none" \/ Dry(r) THEN Stepped(note) ELSE last
    BY DEF Looked
  <1>7. run'[t] = Looked(r, seen) /\ run' = [run EXCEPT ![t] = run'[t]]
    BY <1>2, <1>3
  <1> HIDE DEF r
  <1>8. item = Now(t) /\ r.trial = run[t].trial /\ (Dry(r) <=> Dry(run[t]))
        /\ Wanted(r, item) = Wanted(run[t], item)
    BY <1>4 DEF Now, Dry, Wanted, Alike
  <1> HIDE DEF seen, item, op
  <1>9. /\ DOMAIN note = Fields /\ Alike(note, r) /\ note.conf = r.conf
        /\ note.robbed = r.robbed /\ note.moved = r.moved /\ note.blind = r.blind
    BY <1>4 DEF Fields, Alike
  <1>10. note.shown = IF r.trial THEN r.shown \union {<<Object(item), op>>} ELSE r.shown
    BY <1>4 DEF Fields
  <1> HIDE DEF note
  <1>11. /\ DOMAIN last = Fields /\ last.phase = "write" /\ last.seen = seen
         /\ last.opt = note.opt /\ last.left = note.left /\ last.todo = note.todo
         /\ last.ask = note.ask /\ last.trial = note.trial /\ last.conf = note.conf
         /\ last.want = note.want /\ last.tag = note.tag /\ last.ok = note.ok
         /\ last.refused = note.refused /\ last.moved = note.moved
         /\ last.shown = note.shown /\ last.blind = note.blind
    BY <1>9 DEF Fields
  <1> HIDE DEF last
  <1>12. Alike(note, run[t])
    BY <1>4, <1>9 DEF Alike
  <1>13. op = Change(seen, Wanted(run[t], item))
    BY <1>8 DEF op
  <1>14. /\ run[t].trial => note.shown = run[t].shown \union {<<Object(item), op>>}
         /\ ~run[t].trial => note.shown = run[t].shown
    BY <1>4, <1>8, <1>10
  <1>15. note.blind <=> (run[t].blind \/ failed)
    BY <1>5, <1>9
  <1>16. CASE item.op = "show" \/ op = "none" \/ Dry(run[t])
    <2>1. run'[t] = Stepped(note)
      BY <1>6, <1>7, <1>8, <1>16
    <2>2. LookedAt(t, failed, note)
      BY <1>4, <1>8, <1>9, <1>12, <1>13, <1>14, <1>15, <1>16, <2>1 DEF LookedAt, seen
    <2> QED BY <1>1, <1>7, <2>2
  <1>17. CASE ~(item.op = "show" \/ op = "none" \/ Dry(run[t]))
    <2>1. run'[t] = last
      BY <1>6, <1>7, <1>8, <1>17
    <2>2. LookedAt(t, failed, note)
      BY <1>4, <1>8, <1>9, <1>11, <1>12, <1>13, <1>14, <1>15, <1>17, <2>1 DEF LookedAt, seen
    <2> QED BY <1>1, <1>7, <2>2
  <1> QED BY <1>16, <1>17

LEMMA LookKeepsWork ==
  ASSUME HomeInv, WorkInv, NEW t \in Terminals, Look(t)
  PROVE  WorkInv'
  <1>1. /\ ~Idle(t) /\ run[t].phase = "look" /\ run' = [run EXCEPT ![t] = run'[t]]
    BY LookIs
  <1>2. PICK failed, note : failed \in BOOLEAN /\ LookedAt(t, failed, note)
    BY LookIs
  <1>3. /\ Based(run[t], t, login) /\ Busy(run[t]) /\ Shape(run[t]) /\ Now(t) = run[t].todo[1]
        /\ Placed(run[t])
    BY <1>1, InHandIs DEF WorkInv, WorkOK
  <1>4. /\ DOMAIN note = Fields /\ Alike(note, run[t]) /\ note.conf = run[t].conf
        /\ note.robbed = run[t].robbed
    BY <1>2 DEF LookedAt
  <1>5. Based(note, t, login) /\ Core(note) /\ Busy(note)
    <2>1. Shape(note) /\ note.phase # "idle"
      BY <1>1, <1>3, <1>4, AlikeShape DEF Alike
    <2>2. Based(note, t, login)
      BY <1>3, <1>4 DEF Based, Alike
    <2> QED BY <2>1, <2>2 DEF Shape
  <1> DEFINE e == Now(t)
             seen == Answers(Object(e), failed)
             op == Change(seen, Wanted(run[t], e))
  <1>6. Shape(run'[t]) /\ run'[t].phase \notin {"build", "tag", "push"}
    <2>1. CASE e.op = "show" \/ op = "none" \/ Dry(run[t])
      <3>1. run'[t] = Stepped(note)
        BY <1>2, <2>1 DEF LookedAt
      <3>2. Shape(Stepped(note)) /\ Stepped(note).phase \in {"idle", "check", "look", "do"}
        BY <1>5, SteppedShape
      <3> QED BY <3>1, <3>2
    <2>2. CASE ~(e.op = "show" \/ op = "none" \/ Dry(run[t]))
      <3> PICK q : q = run'[t]
        OBVIOUS
      <3>1. /\ q.phase = "write" /\ q.seen = seen /\ q.opt = note.opt /\ q.left = note.left
            /\ q.todo = note.todo /\ q.ask = note.ask /\ q.trial = note.trial
            /\ q.want = note.want /\ q.tag = note.tag /\ q.ok = note.ok
            /\ q.refused = note.refused
        BY <1>2, <2>2 DEF LookedAt
      <3>2. Wanted(q, e) = Wanted(run[t], e) /\ OpsOf(q) = OpsOf(note) /\ (Dry(q) <=> Dry(run[t]))
        BY <1>4, <3>1 DEF Wanted, OpsOf, Dry, Alike
      <3>3. e.op = "ensure" /\ q.todo[1] = e
        BY <1>1, <1>3, <1>4, <2>2, <3>1 DEF Placed, Alike
      <3>4. Change(q.seen, Wanted(q, e)) # "none"
        BY <2>2, <3>1, <3>2
      <3>5. Placed(q)
        BY <3>1, <3>3, <3>4 DEF Placed
      <3>6. Busy(q)
        BY <1>5, <2>2, <3>1, <3>2, <3>5 DEF Busy
      <3>7. Core(q)
        BY <1>5, <3>1 DEF Core
      <3> QED BY <3>1, <3>6, <3>7 DEF Shape
    <2> QED BY <2>1, <2>2
  <1>7. Stamped(run'[t], source, local, tagged)
    BY <1>6, Unstamped
  <1>8. source' = source /\ local' = local /\ tagged' = tagged
    BY DEF Look, images
  <1>9. WorldTyped'
    BY StageBConstants DEF WorkInv, WorldTyped, Look, Trouble, images, remote
  <1> QED BY <1>1, <1>6, <1>7, <1>8, <1>9, OwnWork

\* The next step with an image.
NextPhase(q, r, ph) ==
  /\ DOMAIN q = Fields /\ q.opt = r.opt /\ q.left = r.left /\ q.todo = r.todo
  /\ q.ask = r.ask /\ q.trial = r.trial /\ q.want = r.want /\ q.ok = r.ok
  /\ q.refused = r.refused /\ q.conf = r.conf /\ q.moved = r.moved /\ q.shown = r.shown
  /\ q.blind = r.blind /\ q.phase = ph

LEMMA PhaseShape ==
  ASSUME NEW r, NEW q, NEW ph \in {"build", "tag", "push", "look"}, NextPhase(q, r, ph),
         Core(r), Busy(r), r.phase \in {"check", "build", "tag", "push"},
         ph # "look" => ~Dry(r)
  PROVE  Shape(q)
  <1>1. OpsOf(q) = OpsOf(r) /\ (Dry(q) <=> Dry(r))
    BY DEF NextPhase, OpsOf, Dry
  <1>2. r.todo[1].op = "ensure" /\ r.todo[1].kind = "function"
    BY DEF Busy, Placed
  <1>3. Placed(q)
    BY <1>2 DEF NextPhase, Placed
  <1>4. Busy(q)
    BY <1>1, <1>3 DEF NextPhase, Busy
  <1>5. Core(q)
    BY DEF NextPhase, Core
  <1> QED BY <1>4, <1>5 DEF NextPhase, Shape

LEMMA CheckIs ==
  ASSUME HomeInv, NEW t \in Terminals, Check(t)
  PROVE  /\ ~Idle(t) /\ run[t].phase = "check" /\ run' = [run EXCEPT ![t] = run'[t]]
         /\ run'[t].tag = Tag(Now(t).name) /\ ~run'[t].stale
         /\ IF Cached(Now(t).name, Tag(Now(t).name)) \/ Dry(run[t])
              THEN NextPhase(run'[t], run[t], "look") ELSE NextPhase(run'[t], run[t], "build")
  <1> DEFINE f == Now(t).name
             ph == IF Cached(f, Tag(f)) \/ Dry(run[t]) THEN "look" ELSE "build"
             q == [run[t] EXCEPT !.tag = Tag(f), !.stale = FALSE, !.phase = ph]
  <1>1. DOMAIN run[t] = Fields /\ DOMAIN run = Terminals
    BY DEF HomeInv, RunOK, Based
  <1>2. run' = [run EXCEPT ![t] = q] /\ ~Idle(t) /\ run[t].phase = "check"
    BY <1>1 DEF Check, AtPhase
  <1> HIDE DEF ph
  <1>3. NextPhase(q, run[t], ph) /\ q.tag = Tag(f) /\ ~q.stale
    BY <1>1 DEF Fields, NextPhase
  <1> HIDE DEF q
  <1>4. run'[t] = q
    BY <1>1, <1>2
  <1> QED BY <1>2, <1>3, <1>4 DEF ph

LEMMA TagTyped ==
  ASSUME WorldTyped, NEW f \in Functions
  PROVE  Tag(f) \in Revisions /\ Tag(f) \in Nat /\ (Tag(f) # 0 => source[f] = Tag(f))
  <1>1. source[f] \in Nat \ {0} /\ source[f] <= trouble + 1 /\ trouble \in 0..MaxTrouble
    BY DEF WorldTyped
  <1>2. MaxTrouble \in Nat
    BY StageBConstants
  <1>3. source[f] \in Revisions /\ 0 \in Revisions
    BY <1>1, <1>2 DEF Revisions
  <1> QED BY <1>1, <1>3 DEF Tag

LEMMA CheckKeepsWork ==
  ASSUME HomeInv, WorkInv, NEW t \in Terminals, Check(t)
  PROVE  WorkInv'
  <1> PICK q : q = run'[t]
    OBVIOUS
  <1> PICK r : r = run[t]
    OBVIOUS
  <1> PICK f : f = Now(t).name
    OBVIOUS
  <1>1. /\ ~Idle(t) /\ r.phase = "check" /\ run' = [run EXCEPT ![t] = q]
        /\ q.tag = Tag(f) /\ ~q.stale
    BY CheckIs
  <1>2. \/ NextPhase(q, r, "look")
        \/ NextPhase(q, r, "build") /\ ~Dry(r)
    BY CheckIs
  <1>3. /\ Core(r) /\ Busy(r) /\ Placed(r) /\ Now(t) = r.todo[1]
        /\ Now(t).kind = "function" /\ Now(t).op # "disable" => f \in Functions
    BY <1>1, InHandIs
  <1>4. f \in Functions
    BY <1>1, <1>3 DEF Placed
  <1>5. Tag(f) \in Revisions /\ (Tag(f) # 0 => source[f] = Tag(f))
    BY <1>4, TagTyped DEF WorkInv
  <1>6. Shape(q)
    BY <1>1, <1>2, <1>3, PhaseShape
  <1>7. Stamped(q, source, local, tagged)
    <2>1. CASE NextPhase(q, r, "look")
      BY <2>1, Unstamped DEF NextPhase
    <2>2. CASE NextPhase(q, r, "build")
      <3>1. q.phase = "build" /\ q.todo[1].name = f
        BY <1>3, <2>2 DEF NextPhase
      <3> QED BY <1>1, <1>5, <3>1 DEF Stamped
    <2> QED BY <1>2, <2>1, <2>2
  <1>8. source' = source /\ local' = local /\ tagged' = tagged /\ WorldTyped'
    BY DEF Check, images, remote, WorkInv, WorldTyped
  <1> QED BY <1>1, <1>6, <1>7, <1>8, OwnWork

LEMMA BuildIs ==
  ASSUME HomeInv, WorkInv, NEW t \in Terminals, Build(t)
  PROVE  /\ ~Idle(t) /\ run[t].phase = "build" /\ Now(t).name \in Functions
         /\ NextPhase(run'[t], run[t], "tag") /\ run'[t].tag = run[t].tag
         /\ run'[t].stale = run[t].stale
         /\ \A s \in Terminals \ {t} :
              /\ Follows(run'[s], run[s])
              /\ ~run'[s].stale =>
                   /\ ~run[s].stale
                   /\ ~(run[s].phase \in {"tag", "push"} /\ Now(s).name = Now(t).name)
  <1> DEFINE q(s) == [run[s] EXCEPT !.stale = @ \/ (/\ AtPhase(s, "tag") \/ AtPhase(s, "push")
                                                   /\ Now(s).name = Now(t).name)]
             mine == [run[t] EXCEPT !.phase = "tag"]
  <1>1. /\ run' = [s \in Terminals |-> IF s = t THEN mine ELSE q(s)]
        /\ ~Idle(t) /\ run[t].phase = "build"
    BY DEF Build, AtPhase
  <1>2. DOMAIN run[t] = Fields
    BY DEF HomeInv, RunOK, Based
  <1>3. NextPhase(mine, run[t], "tag") /\ mine.tag = run[t].tag /\ mine.stale = run[t].stale
    BY <1>2 DEF NextPhase, Fields
  <1>4. run'[t] = mine
    BY <1>1
  <1>5. ASSUME NEW s \in Terminals \ {t}
        PROVE  /\ Follows(run'[s], run[s])
               /\ ~run'[s].stale =>
                    /\ ~run[s].stale
                    /\ ~(run[s].phase \in {"tag", "push"} /\ Now(s).name = Now(t).name)
    <2>1. run'[s] = q(s) /\ DOMAIN run[s] = Fields
      BY <1>1 DEF HomeInv, RunOK, Based
    <2>2. /\ Alike(q(s), run[s]) /\ q(s).conf = run[s].conf /\ q(s).moved = run[s].moved
          /\ q(s).shown = run[s].shown /\ q(s).blind = run[s].blind
      BY <2>1 DEF Alike, Fields
    <2>3. q(s).stale = (run[s].stale \/ ((AtPhase(s, "tag") \/ AtPhase(s, "push")) /\ Now(s).name = Now(t).name))
      BY <2>1 DEF Fields
    <2> HIDE DEF q
    <2>4. run[s].phase \in {"tag", "push"} => AtPhase(s, "tag") \/ AtPhase(s, "push")
      BY DEF AtPhase, Idle
    <2> QED BY <2>1, <2>2, <2>3, <2>4 DEF Follows
  <1>6. Now(t).name \in Functions
    BY <1>1, ImageInHand
  <1> HIDE DEF mine, q
  <1> QED BY <1>1, <1>3, <1>4, <1>5, <1>6

LEMMA BuildKeepsWork ==
  ASSUME HomeInv, WorkInv, NEW t \in Terminals, Build(t)
  PROVE  WorkInv'
  <1> PICK f : f = Now(t).name
    OBVIOUS
  <1>1. ~Idle(t) /\ run[t].phase = "build" /\ f \in Functions
    BY BuildIs
  <1>2. /\ local' = [local EXCEPT ![f] = source[f]] /\ source' = source /\ tagged' = tagged
    BY DEF Build
  <1>3. WorldTyped'
    <2>1. local' \in [Functions -> Nat \union {None}]
      BY <1>1, <1>2 DEF WorkInv, WorldTyped
    <2> QED BY <2>1 DEF Build, remote, WorkInv, WorldTyped
  <1>4. /\ local'[f] = source[f] /\ source[f] # None
        /\ \A g \in Functions : g # f => local'[g] = local[g]
    BY <1>1, <1>2, StageBConstants DEF WorkInv, WorldTyped
  <1>5. Shape(run'[t]) /\ Stamped(run'[t], source, local', tagged)
    <2> PICK q : q = run'[t]
      OBVIOUS
    <2> PICK r : r = run[t]
      OBVIOUS
    <2>1. /\ NextPhase(q, r, "tag") /\ q.tag = r.tag /\ q.stale = r.stale
      BY BuildIs
    <2>2. Core(r) /\ Busy(r) /\ Now(t) = r.todo[1] /\ Stamped(r, source, local, tagged)
      BY <1>1, InHandIs
    <2>3. ~Dry(r)
      BY <1>1, <2>2 DEF Busy
    <2>4. Shape(q)
      BY <1>1, <2>1, <2>2, <2>3, PhaseShape
    <2>5. q.phase = "tag" /\ q.todo[1].name = f /\ r.todo[1].name = f
      BY <2>1, <2>2 DEF NextPhase
    <2>6. Stamped(q, source, local', tagged)
      BY <1>1, <1>4, <2>1, <2>2, <2>5 DEF Stamped
    <2> QED BY <2>4, <2>6
  <1>6. ASSUME NEW s \in Terminals \ {t}
        PROVE  Shape(run'[s]) /\ Stamped(run'[s], source, local', tagged)
    <2> PICK q : q = run'[s]
      OBVIOUS
    <2> PICK r : r = run[s]
      OBVIOUS
    <2>1. /\ Follows(q, r)
          /\ ~q.stale => ~r.stale /\ ~(r.phase \in {"tag", "push"} /\ Now(s).name = f)
      BY BuildIs
    <2>2. Shape(r) /\ Stamped(r, source, local, tagged)
      BY DEF WorkInv, WorkOK
    <2>3. q.todo = r.todo /\ q.phase = r.phase /\ q.tag = r.tag /\ Alike(q, r)
      BY <2>1 DEF Follows, Alike
    <2>4. Shape(q)
      BY <2>2, <2>3, AlikeShape
    <2>5. CASE r.phase \in {"build", "tag", "push"}
      <3> PICK g : g = r.todo[1].name
        OBVIOUS
      <3>1. Now(s) = r.todo[1] /\ g \in Functions
        BY <2>5, ImageInHand
      <3>2. ~q.stale /\ r.phase \in {"tag", "push"} => local'[g] = local[g]
        BY <1>4, <2>1, <3>1
      <3>3. local[g] # None => local'[g] # None
        BY <1>4, <3>1
      <3> QED BY <2>1, <2>2, <2>3, <2>4, <3>1, <3>2, <3>3 DEF Stamped
    <2>6. CASE r.phase \notin {"build", "tag", "push"}
      BY <2>3, <2>4, <2>6, Unstamped
    <2> QED BY <2>5, <2>6
  <1>7. \A s \in Terminals : Shape(run'[s]) /\ Stamped(run'[s], source, local', tagged)
    BY <1>5, <1>6
  <1> QED BY <1>2, <1>3, <1>7 DEF WorkInv, WorkOK

LEMMA TagIs ==
  ASSUME HomeInv, WorkInv, NEW t \in Terminals, DockerTag(t)
  PROVE  /\ ~Idle(t) /\ run[t].phase = "tag" /\ Now(t).name \in Functions
         /\ run' = [run EXCEPT ![t] = run'[t]] /\ NextPhase(run'[t], run[t], "push")
         /\ run'[t].tag = run[t].tag /\ run'[t].stale = run[t].stale
  <1> DEFINE q == [run[t] EXCEPT !.phase = "push"]
  <1>1. DOMAIN run[t] = Fields /\ DOMAIN run = Terminals
    BY DEF HomeInv, RunOK, Based
  <1>2. run' = [run EXCEPT ![t] = q] /\ ~Idle(t) /\ run[t].phase = "tag"
    BY <1>1 DEF DockerTag, AtPhase
  <1>3. NextPhase(q, run[t], "push") /\ q.tag = run[t].tag /\ q.stale = run[t].stale
    BY <1>1 DEF Fields, NextPhase
  <1> HIDE DEF q
  <1>4. run'[t] = q
    BY <1>1, <1>2
  <1>5. Now(t).name \in Functions
    BY <1>2, ImageInHand
  <1> QED BY <1>2, <1>3, <1>4, <1>5

LEMMA TagKeepsWork ==
  ASSUME HomeInv, WorkInv, NEW t \in Terminals, DockerTag(t)
  PROVE  WorkInv'
  <1> PICK f : f = Now(t).name
    OBVIOUS
  <1> PICK q : q = run'[t]
    OBVIOUS
  <1> PICK r : r = run[t]
    OBVIOUS
  <1>1. /\ ~Idle(t) /\ r.phase = "tag" /\ f \in Functions /\ run' = [run EXCEPT ![t] = q]
        /\ NextPhase(q, r, "push") /\ q.tag = r.tag /\ q.stale = r.stale
    BY TagIs
  <1>2. Core(r) /\ Busy(r) /\ r.todo[1].name = f /\ Stamped(r, source, local, tagged)
    BY <1>1, InHandIs
  <1> PICK n : n = r.tag
    OBVIOUS
  <1>3. n \in Revisions /\ local[f] # None /\ (~r.stale /\ n # 0 => local[f] = n)
    BY <1>1, <1>2 DEF Stamped
  <1>4. tagged' = [tagged EXCEPT ![f][n] = local[f]] /\ source' = source /\ local' = local
    BY DEF DockerTag
  <1>5. /\ tagged'[f][n] = local[f] /\ tagged' \in [Functions -> [Revisions -> Nat \union {None}]]
        /\ \A g \in Functions, m \in Revisions : <<g, m>> # <<f, n>> => tagged'[g][m] = tagged[g][m]
    BY <1>1, <1>3, <1>4 DEF WorkInv, WorldTyped
  <1>6. WorldTyped'
    BY <1>5 DEF DockerTag, remote, WorkInv, WorldTyped
  <1>7. Shape(q) /\ Stamped(q, source, local, tagged')
    <2>1. ~Dry(r)
      BY <1>1, <1>2 DEF Busy
    <2>2. Shape(q)
      BY <1>1, <1>2, <2>1, PhaseShape
    <2>3. q.phase = "push" /\ q.todo[1].name = f
      BY <1>1, <1>2 DEF NextPhase
    <2>4. Stamped(q, source, local, tagged')
      BY <1>1, <1>3, <1>5, <2>3 DEF Stamped
    <2> QED BY <2>2, <2>4
  <1>8. ASSUME NEW s \in Terminals \ {t}
        PROVE  Shape(run'[s]) /\ Stamped(run'[s], source, local, tagged')
    <2> PICK u : u = run[s]
      OBVIOUS
    <2>1. run'[s] = u
      BY <1>1 DEF HomeInv
    <2>2. Shape(u) /\ Stamped(u, source, local, tagged)
      BY DEF WorkInv, WorkOK
    <2>3. CASE u.phase = "push"
      <3> PICK g : g = u.todo[1].name
        OBVIOUS
      <3>1. g \in Functions
        BY <2>3, ImageInHand
      <3>2. u.tag \in Revisions /\ tagged[g][u.tag] # None
            /\ (~u.stale /\ u.tag # 0 => local[g] = u.tag /\ tagged[g][u.tag] = u.tag)
        BY <2>2, <2>3 DEF Stamped
      <3>3. CASE <<g, u.tag>> = <<f, n>>
        <4>1. g = f /\ u.tag = n
          BY <3>3
        <4>2. tagged'[g][u.tag] = local[g] /\ local[g] # None
          BY <1>3, <1>5, <4>1
        <4> QED BY <2>1, <2>2, <2>3, <3>2, <4>2 DEF Stamped
      <3>4. CASE <<g, u.tag>> # <<f, n>>
        <4>1. tagged'[g][u.tag] = tagged[g][u.tag]
          BY <1>5, <3>1, <3>2, <3>4
        <4> QED BY <2>1, <2>2, <2>3, <3>2, <4>1 DEF Stamped
      <3> QED BY <2>1, <2>2, <3>3, <3>4
    <2>4. CASE u.phase # "push"
      BY <2>1, <2>2, <2>4 DEF Stamped
    <2> QED BY <2>3, <2>4
  <1>9. \A s \in Terminals : Shape(run'[s]) /\ Stamped(run'[s], source, local, tagged')
    BY <1>7, <1>8
  <1> QED BY <1>4, <1>6, <1>9 DEF WorkInv, WorkOK

LEMMA PushIs ==
  ASSUME HomeInv, WorkInv, NEW t \in Terminals, Push(t)
  PROVE  /\ ~Idle(t) /\ run[t].phase = "push" /\ run[t].tag \in Revisions /\ Now(t).name \in Functions
         /\ run' = [run EXCEPT ![t] = run'[t]] /\ NextPhase(run'[t], run[t], "look")
         /\ run'[t].tag = run[t].tag
         /\ registry'[Now(t).name][run[t].tag] = tagged[Now(t).name][run[t].tag]
         /\ tagged[Now(t).name][run[t].tag] # None
         /\ \A g \in Functions, m \in Revisions :
              <<g, m>> # <<Now(t).name, run[t].tag>> => registry'[g][m] = registry[g][m]
         /\ registry' \in [Functions -> [Revisions -> Nat \union {None}]]
  <1> PICK f : f = Now(t).name
    OBVIOUS
  <1> PICK n : n = run[t].tag
    OBVIOUS
  <1> DEFINE q == [run[t] EXCEPT !.phase = "look"]
  <1>1. DOMAIN run[t] = Fields /\ DOMAIN run = Terminals
    BY DEF HomeInv, RunOK, Based
  <1>2. run' = [run EXCEPT ![t] = q] /\ ~Idle(t) /\ run[t].phase = "push"
    BY <1>1 DEF Push, AtPhase
  <1>3. NextPhase(q, run[t], "look") /\ q.tag = run[t].tag
    BY <1>1 DEF Fields, NextPhase
  <1> HIDE DEF q
  <1>4. run'[t] = q
    BY <1>1, <1>2
  <1>5. Now(t) = run[t].todo[1] /\ Stamped(run[t], source, local, tagged)
    BY <1>2, InHandIs
  <1>6. f \in Functions
    BY <1>2, ImageInHand
  <1>7. n \in Revisions /\ tagged[f][n] # None
    BY <1>2, <1>5 DEF Stamped
  <1>8. registry' = [registry EXCEPT ![f][n] = tagged[f][n]]
    BY DEF Push
  <1>9. /\ registry'[f][n] = tagged[f][n]
        /\ \A g \in Functions, m \in Revisions : <<g, m>> # <<f, n>> => registry'[g][m] = registry[g][m]
        /\ registry' \in [Functions -> [Revisions -> Nat \union {None}]]
    BY <1>6, <1>7, <1>8 DEF WorkInv, WorldTyped
  <1> QED BY <1>2, <1>3, <1>4, <1>6, <1>7, <1>9

LEMMA PushKeepsWork ==
  ASSUME HomeInv, WorkInv, NEW t \in Terminals, Push(t)
  PROVE  WorkInv'
  <1>1. /\ ~Idle(t) /\ run[t].phase = "push" /\ run' = [run EXCEPT ![t] = run'[t]]
        /\ NextPhase(run'[t], run[t], "look")
    BY PushIs
  <1>2. Core(run[t]) /\ Busy(run[t])
    BY <1>1, InHandIs
  <1>3. Shape(run'[t])
    BY <1>1, <1>2, PhaseShape
  <1>4. run'[t].phase = "look"
    BY <1>1 DEF NextPhase
  <1>5. Stamped(run'[t], source, local, tagged)
    BY <1>4, Unstamped
  <1>6. registry' \in [Functions -> [Revisions -> Nat \union {None}]]
    BY PushIs
  <1>7. source' = source /\ local' = local /\ tagged' = tagged
    BY DEF Push, images
  <1>8. WorldTyped'
    BY <1>6 DEF Push, images, WorkInv, WorldTyped
  <1> QED BY <1>1, <1>3, <1>5, <1>7, <1>8, OwnWork

LEMMA WriteKeepsWork ==
  ASSUME HomeInv, WorkInv, NEW t \in Terminals, Write(t)
  PROVE  WorkInv'
  <1>1. ~Idle(t) /\ source' = source /\ local' = local /\ tagged' = tagged
    BY DEF Write, AtPhase, images
  <1>2. \A ten \in Tenants : DOMAIN held'[ten] = DOMAIN held[ten] /\ running' = running
    BY DEF Write, HomeInv
  <1>3. WorldTyped'
    BY <1>2 DEF Write, images, WorkInv, WorldTyped
  <1>4. Shape(Stepped(run[t])) /\ Stepped(run[t]).phase \notin {"build", "tag", "push"}
    BY <1>1, SteppedWork
  <1>5. CASE run' = Moved(t, Stepped(run[t]))
    BY <1>1, <1>3, <1>4, <1>5, MovedWork
  <1>6. CASE Fail(t)
    BY <1>1, <1>3, <1>6, NoRunWork, OwnWork DEF Fail
  <1> QED BY <1>5, <1>6 DEF Write

LEMMA DeployKeepsWork ==
  ASSUME HomeInv, WorkInv, NEW t \in Terminals, Deploy(t)
  PROVE  WorkInv'
  <1>1. ~Idle(t) /\ source' = source /\ local' = local /\ tagged' = tagged
    BY DEF Deploy, Doing, AtPhase, images
  <1>2. \A ten \in Tenants : DOMAIN running'[ten] = DOMAIN running[ten] /\ held' = held
    BY DEF Deploy, HomeInv
  <1>3. WorldTyped'
    BY <1>2 DEF Deploy, images, WorkInv, WorldTyped
  <1>4. Shape(Stepped(run[t])) /\ Stepped(run[t]).phase \notin {"build", "tag", "push"}
    BY <1>1, SteppedWork
  <1>5. CASE run' = Moved(t, Stepped(run[t]))
    BY <1>1, <1>3, <1>4, <1>5, MovedWork
  <1>6. CASE Fail(t)
    BY <1>1, <1>3, <1>6, NoRunWork, OwnWork DEF Fail
  <1> QED BY <1>5, <1>6 DEF Deploy

LEMMA DeleteKeepsWork ==
  ASSUME HomeInv, WorkInv, NEW t \in Terminals, Delete(t)
  PROVE  WorkInv'
  <1>1. ~Idle(t) /\ source' = source /\ local' = local /\ tagged' = tagged
    BY DEF Delete, Doing, AtPhase, images
  <1>2. \A ten \in Tenants : DOMAIN held'[ten] = DOMAIN held[ten] /\ DOMAIN running'[ten] = DOMAIN running[ten]
    BY DEF Delete, HomeInv
  <1>3. WorldTyped'
    BY <1>2 DEF Delete, images, WorkInv, WorldTyped
  <1>4. /\ Shape(Stepped(run[t])) /\ Stepped(run[t]).phase \notin {"build", "tag", "push"}
        /\ Stamped(Stepped(run[t]), source, local, tagged)
    BY <1>1, SteppedWork
  <1>5. CASE run' = Moved(t, Stepped(run[t]))
    BY <1>1, <1>3, <1>4, <1>5, MovedWork
  <1>6. CASE Fail(t)
    BY <1>1, <1>3, <1>6, NoRunWork, OwnWork DEF Fail
  <1>7. CASE Step(t)
    BY <1>1, <1>3, <1>4, <1>7, OwnWork DEF Step
  <1> QED BY <1>5, <1>6, <1>7 DEF Delete

LEMMA DisableKeepsWork ==
  ASSUME HomeInv, WorkInv, NEW t \in Terminals, DisableEngine(t)
  PROVE  WorkInv'
  <1>1. ~Idle(t) /\ source' = source /\ local' = local /\ tagged' = tagged /\ Step(t)
    BY DEF DisableEngine, Doing, AtPhase, images
  <1>2. WorldTyped'
    BY DEF DisableEngine, images, WorkInv, WorldTyped
  <1>3. Shape(Stepped(run[t])) /\ Stamped(Stepped(run[t]), source, local, tagged)
    BY <1>1, SteppedWork
  <1> QED BY <1>1, <1>2, <1>3, OwnWork DEF Step

\* An answer at the prompt: the pipeline is refused, or its real run begins.
Refusing(q, r, p) ==
  /\ DOMAIN q = Fields /\ q.opt = r.opt /\ q.left = r.left /\ q.ask = r.ask /\ q.trial = r.trial
  /\ q.conf = r.conf /\ q.robbed = r.robbed /\ q.want = r.want /\ q.ok = r.ok /\ q.moved = r.moved
  /\ q.blind = r.blind /\ q.refused = r.refused \union {p}
Going(q, r) ==
  /\ DOMAIN q = Fields /\ q.opt = r.opt /\ q.left = r.left /\ ~q.trial /\ ~q.conf /\ q.conf \in BOOLEAN
  /\ q.robbed = r.robbed /\ q.want = r.want /\ q.ok = r.ok /\ q.moved = r.moved /\ q.blind = r.blind
  /\ q.shown = r.shown /\ q.refused = r.refused /\ (q.ask => r.ask)

LEMMA AnswerIs ==
  ASSUME HomeInv, WorkInv, NEW t \in Terminals, NEW answer, Answer(t, answer)
  PROVE  LET r == run[t]
             p == Now(t).name IN
         /\ ~Idle(t) /\ run' = [run EXCEPT ![t] = run'[t]] /\ p \in Pipelines /\ r.trial
         /\ Elements(r.todo) = {Ask(p)} /\ r.phase = "do" /\ r.opt.cmd = "apply"
         /\ \/ \E q : Refusing(q, r, p) /\ run'[t] = NextTarget(q)
            \/ \E q : Going(q, r) /\ run'[t] = Begin(q, Target(r.opt, p))
  <1> PICK r : r = run[t]
    OBVIOUS
  <1> PICK p : p = Now(t).name
    OBVIOUS
  <1>1. ~Idle(t) /\ r.phase = "do" /\ Now(t).op = "ask"
    BY DEF Answer, Doing, AtPhase
  <1>2. /\ DOMAIN r = Fields /\ Based(r, t, login) /\ Core(r) /\ Proper(r.todo, OpsOf(r))
        /\ Now(t) = r.todo[1] /\ Now(t).op \in OpsOf(r) /\ Now(t) \in ItemSet
        /\ Now(t).op # "disable" => Object(Now(t)) \in Objects
    BY <1>1, InHandIs
  <1>3. Now(t).kind = "pipeline" /\ Elements(r.todo) = {Now(t)}
    <2> PICK s : s = r.todo
      OBVIOUS
    <2> PICK ops : ops = OpsOf(r)
      OBVIOUS
    <2>1. Proper(s, ops) /\ s[1].op = "ask" /\ Now(t) = s[1]
      BY <1>1, <1>2
    <2>2. s[1].kind = "pipeline" /\ Len(s) = 1 /\ (~(Len(s) > 1) => Elements(s) = {s[1]})
      BY <2>1, ProperFirst
    <2> QED BY <2>1, <2>2
  <1>4. p \in Pipelines
    BY <1>1, <1>2, <1>3 DEF Object, Objects
  <1>5. Now(t) = Ask(p)
    BY <1>1, <1>2, <1>3 DEF ItemSet, Ask, Item
  <1>6. r.trial
    BY <1>1, <1>2 DEF OpsOf, CmdOps
  <1>7. r.opt.cmd = "apply"
    BY <1>2, <1>6 DEF Core
  <1>8. DOMAIN run = Terminals
    BY DEF HomeInv
  <1>9. CASE answer = "no"
    <2> DEFINE q == [r EXCEPT !.refused = @ \union {p}]
    <2>1. run' = [run EXCEPT ![t] = NextTarget(q)]
      <3>1. run' = [run EXCEPT ![t] =
                      NextTarget([run[t] EXCEPT !.refused = @ \union {Now(t).name}])]
        BY <1>9 DEF Answer
      <3> QED BY <3>1
    <2>2. Refusing(q, r, p)
      BY <1>2 DEF Refusing, Fields, Based
    <2> HIDE DEF q
    <2>3. run'[t] = NextTarget(q)
      BY <1>8, <2>1
    <2>4. run' = [run EXCEPT ![t] = run'[t]]
      BY <2>1, <2>3
    <2> QED BY <1>1, <1>3, <1>4, <1>5, <1>6, <1>7, <2>2, <2>3, <2>4
  <1>10. CASE answer # "no"
    <2> DEFINE q == [r EXCEPT !.ask = @ /\ answer = "yes", !.trial = FALSE, !.conf = FALSE]
    <2>1. run' = [run EXCEPT ![t] = Begin(q, Target(r.opt, p))]
      <3>1. run' = [run EXCEPT ![t] =
                 Begin([run[t] EXCEPT !.ask = @ /\ answer = "yes", !.trial = FALSE,
                                      !.conf = FALSE],
                       Target(run[t].opt, Now(t).name))]
        BY <1>10 DEF Answer
      <3> QED BY <3>1
    <2>2. Going(q, r)
      BY <1>2 DEF Going, Fields, Based
    <2> HIDE DEF q
    <2>3. run'[t] = Begin(q, Target(r.opt, p))
      BY <1>8, <2>1
    <2>4. run' = [run EXCEPT ![t] = run'[t]]
      BY <2>1, <2>3
    <2> QED BY <1>1, <1>3, <1>4, <1>5, <1>6, <1>7, <2>2, <2>3, <2>4
  <1> QED BY <1>9, <1>10

LEMMA AnswerKeepsWork ==
  ASSUME HomeInv, WorkInv, NEW t \in Terminals, NEW answer, Answer(t, answer)
  PROVE  WorkInv'
  <1> PICK r : r = run[t]
    OBVIOUS
  <1> PICK p : p = Now(t).name
    OBVIOUS
  <1>1. /\ ~Idle(t) /\ run' = [run EXCEPT ![t] = run'[t]] /\ p \in Pipelines /\ r.opt.cmd = "apply"
    BY AnswerIs
  <1>2. Based(r, t, login) /\ Core(r) /\ Busy(r)
    BY <1>1, InHandIs
  <1>3. Shape(run'[t]) /\ run'[t].phase \notin {"build", "tag", "push"}
    <2>1. ASSUME NEW q, Refusing(q, r, p), run'[t] = NextTarget(q)
          PROVE  Shape(run'[t]) /\ run'[t].phase \notin {"build", "tag", "push"}
      <3>1. Based(q, t, login)
        BY <1>2, <2>1 DEF Refusing, Based
      <3>2. Core(q) /\ ~q.ok
        BY <1>1, <1>2, <2>1 DEF Refusing, Core, Busy
      <3>3. Shape(NextTarget(q)) /\ NextTarget(q).phase \in {"idle", "check", "look", "do"}
        BY <3>1, <3>2, NextTargetShape
      <3> QED BY <2>1, <3>3
    <2>2. ASSUME NEW q, Going(q, r), run'[t] = Begin(q, Target(r.opt, p))
          PROVE  Shape(run'[t]) /\ run'[t].phase \notin {"build", "tag", "push"}
      <3>1. DOMAIN q = Fields /\ q.opt = r.opt /\ q.left = r.left /\ ~q.trial /\ ~q.ok
        BY <1>2, <2>2 DEF Going, Busy
      <3>2. Core(q)
        BY <1>1, <1>2, <2>2 DEF Going, Core
      <3>3. p # Disable /\ r.opt \in Commands /\ p \in TargetSet(r.opt)
        BY <1>1, <1>2, StageBConstants DEF Based, TargetSet
      <3> DEFINE s == Target(r.opt, p)
      <3>4. Proper(s, CmdOps(r.opt)) /\ s[1].op # "disable"
        BY <3>3, TargetProper
      <3> HIDE DEF s
      <3>5. OpsOf(q) = CmdOps(r.opt)
        BY <3>1 DEF OpsOf
      <3>6. Shape(Begin(q, s)) /\ Begin(q, s).phase \in {"check", "look", "do"}
        BY <3>1, <3>2, <3>4, <3>5, BeginShape
      <3> QED BY <2>2, <3>6 DEF s
    <2>3. \/ \E q : Refusing(q, r, p) /\ run'[t] = NextTarget(q)
          \/ \E q : Going(q, r) /\ run'[t] = Begin(q, Target(r.opt, p))
      BY AnswerIs
    <2> QED BY <2>1, <2>2, <2>3
  <1>4. Stamped(run'[t], source, local, tagged)
    BY <1>3, Unstamped
  <1>5. source' = source /\ local' = local /\ tagged' = tagged /\ WorldTyped'
    BY DEF Answer, images, remote, WorkInv, WorldTyped
  <1> QED BY <1>1, <1>3, <1>4, <1>5, OwnWork

LEMMA SourceEdited ==
  ASSUME HomeInv, NEW f, EditSource(f), NEW s \in Terminals
  PROVE  /\ run[s].phase = "idle" => Alike(run'[s], NoRun)
         /\ run[s].phase # "idle" =>
              /\ Alike(run'[s], run[s]) /\ run'[s].conf = run[s].conf /\ run'[s].moved
              /\ ~run'[s].stale => ~run[s].stale /\ ~(run[s].phase = "build" /\ Now(s).name = f)
  <1> DEFINE d == Disturbed(run[s])
             q == [d EXCEPT !.stale = @ \/ (AtPhase(s, "build") /\ Now(s).name = f)]
  <1>1. run'[s] = q /\ DOMAIN run[s] = Fields
    BY DEF EditSource, HomeInv, RunOK, Based
  <1>2. DOMAIN d = Fields /\ Beside(d, run[s])
        /\ (run[s].phase # "idle" => d.moved) /\ (run[s].phase = "idle" => d = NoRun)
    BY <1>1, DisturbedBeside, DisturbedOK DEF HomeInv
  <1> HIDE DEF d
  <1>3. /\ Alike(q, d) /\ q.conf = d.conf /\ q.moved = d.moved
        /\ q.stale = (d.stale \/ (AtPhase(s, "build") /\ Now(s).name = f))
    BY <1>2 DEF Alike, Fields
  <1> HIDE DEF q
  <1>4. CASE run[s].phase = "idle"
    BY <1>1, <1>2, <1>3, <1>4
  <1>5. CASE run[s].phase # "idle"
    <2>1. d # NoRun
      BY <1>2, <1>5 DEF NoRun
    <2>2. Alike(d, run[s]) /\ d.conf = run[s].conf /\ d.stale = run[s].stale /\ d.moved
      BY <1>2, <1>5, <2>1 DEF Beside
    <2>3. Alike(q, run[s])
      BY <1>3, <2>2 DEF Alike
    <2>4. run[s].phase = "build" => AtPhase(s, "build")
      BY DEF AtPhase, Idle
    <2> QED BY <1>1, <1>3, <1>5, <2>2, <2>3, <2>4
  <1> QED BY <1>4, <1>5

LEMMA EditsKeepWork ==
  ASSUME HomeInv, WorkInv, NEW f \in Functions, EditSource(f)
  PROVE  WorkInv'
  <1>1. source' = [source EXCEPT ![f] = @ + 1] /\ local' = local /\ tagged' = tagged
    BY DEF EditSource, images
  <1>2. WorldTyped'
    BY <1>1, StageBConstants DEF EditSource, Trouble, images, remote, WorkInv, WorldTyped
  <1>3. \A g \in Functions : g # f => source'[g] = source[g]
    BY <1>1 DEF WorkInv, WorldTyped
  <1>4. ASSUME NEW s \in Terminals
        PROVE  Shape(run'[s]) /\ Stamped(run'[s], source', local, tagged)
    <2> PICK q : q = run'[s]
      OBVIOUS
    <2> PICK r : r = run[s]
      OBVIOUS
    <2>1. CASE r.phase = "idle"
      <3>1. Alike(q, NoRun)
        BY <2>1, SourceEdited
      <3>2. Shape(q) /\ q.phase = "idle"
        BY <3>1, AlikeShape, NoRunShape DEF Alike, NoRun
      <3> QED BY <3>2, Unstamped
    <2>2. CASE r.phase # "idle"
      <3>1. /\ Alike(q, r)
            /\ ~q.stale => ~r.stale /\ ~(r.phase = "build" /\ Now(s).name = f)
        BY <2>2, SourceEdited
      <3>2. Shape(r) /\ Stamped(r, source, local, tagged)
        BY DEF WorkInv, WorkOK
      <3>3. Shape(q) /\ q.todo = r.todo /\ q.phase = r.phase /\ q.tag = r.tag
        BY <3>1, <3>2, AlikeShape DEF Alike
      <3>4. CASE r.phase = "build"
        <4>1. Now(s) = r.todo[1] /\ Now(s).name \in Functions
          BY <3>4, ImageInHand
        <4>2. ~q.stale => source'[Now(s).name] = source[Now(s).name]
          BY <1>3, <3>1, <3>4, <4>1
        <4> QED BY <3>1, <3>2, <3>3, <3>4, <4>1, <4>2 DEF Stamped
      <3>5. CASE r.phase # "build"
        BY <3>1, <3>2, <3>3, <3>5 DEF Stamped
      <3> QED BY <3>4, <3>5
    <2> QED BY <2>1, <2>2
  <1> QED BY <1>1, <1>2, <1>4 DEF WorkInv, WorkOK

LEMMA OutsideKeepsWork ==
  ASSUME HomeInv, WorkInv, EditYaml \/ \E ten \in Tenants, o \in Objects, v \in {None, 0} : Outside(ten, o, v)
  PROVE  WorkInv'
  <1>1. CASE EditYaml
    <2>1. WorldTyped'
      BY <1>1, StageBConstants DEF EditYaml, Trouble, images, remote, WorkInv, WorldTyped
    <2> QED BY <1>1, <2>1, WorldWork DEF EditYaml, images
  <1>2. ASSUME NEW ten \in Tenants, NEW o \in Objects, NEW v \in {None, 0}, Outside(ten, o, v)
        PROVE  WorkInv'
    <2>1. \A u \in Tenants : DOMAIN held'[u] = DOMAIN held[u] /\ DOMAIN running'[u] = DOMAIN running[u]
      BY <1>2 DEF Outside, HomeInv
    <2>2. WorldTyped'
      BY <1>2, <2>1, StageBConstants DEF Outside, Trouble, images, WorkInv, WorldTyped
    <2> QED BY <1>2, <2>2, WorldWork DEF Outside, images
  <1> QED BY <1>1, <1>2

LEMMA StepKeepsWork ==
  ASSUME HomeInv, WorkInv, [Next]_vars
  PROVE  WorkInv'
  <1>1. CASE UNCHANGED vars
    BY <1>1 DEF vars, images, remote, WorkInv, WorldTyped, WorkOK
  <1>2. ASSUME NEW t \in Terminals, NEW o \in Options[t], Start(t, o) PROVE WorkInv'
    BY <1>2, StartKeepsWork
  <1>3. ASSUME NEW t \in Terminals, Stop(t) PROVE WorkInv'
    BY <1>3, StopKeepsWork
  <1>4. ASSUME NEW t \in Terminals, Work(t) PROVE WorkInv'
    <2>1. CASE Configure(t)
      BY <2>1, ConfigureKeepsWork
    <2>2. CASE Look(t)
      BY <2>2, LookKeepsWork
    <2>3. CASE Check(t)
      BY <2>3, CheckKeepsWork
    <2>4. CASE Build(t)
      BY <2>4, BuildKeepsWork
    <2>5. CASE DockerTag(t)
      BY <2>5, TagKeepsWork
    <2>6. CASE Push(t)
      BY <2>6, PushKeepsWork
    <2>7. CASE Write(t)
      BY <2>7, WriteKeepsWork
    <2>8. CASE Deploy(t)
      BY <2>8, DeployKeepsWork
    <2>9. CASE Delete(t)
      BY <2>9, DeleteKeepsWork
    <2>10. CASE DisableEngine(t)
      BY <2>10, DisableKeepsWork
    <2>11. CASE \E answer \in {"yes", "no", "continue"} : Answer(t, answer)
      BY <2>11, AnswerKeepsWork
    <2> QED BY <1>4, <2>1, <2>2, <2>3, <2>4, <2>5, <2>6, <2>7, <2>8, <2>9, <2>10, <2>11
          DEF Work
  <1>5. ASSUME NEW f \in Functions, EditSource(f) PROVE WorkInv'
    BY <1>5, EditsKeepWork
  <1>6. CASE EditYaml \/ \E ten \in Tenants, o \in Objects, v \in {None, 0} : Outside(ten, o, v)
    BY <1>6, OutsideKeepsWork
  <1> QED BY <1>1, <1>2, <1>3, <1>4, <1>5, <1>6 DEF Next

LEMMA WorkInvariant == Spec => [](HomeInv /\ WorkInv)
  <1>1. Init => WorkInv
    <2> SUFFICES ASSUME Init PROVE WorkInv
      OBVIOUS
    <2>1. WorldTyped
      BY StageBConstants DEF Init, WorldTyped
    <2>2. ASSUME NEW t \in Terminals PROVE WorkOK(run[t])
      <3>1. run[t] = NoRun
        BY DEF Init
      <3> QED BY <3>1, NoRunWork DEF WorkOK
    <2> QED BY <2>1, <2>2 DEF WorkInv
  <1>2. HomeInv /\ WorkInv /\ [Next]_vars => WorkInv'
    BY StepKeepsWork
  <1> QED BY <1>1, <1>2, HomeInvariant, PTL DEF Spec

LEMMA StepPushesWhatItHashed ==
  ASSUME HomeInv, WorkInv, [Next]_vars, NEW t \in Terminals, AtPhase(t, "push"), Acts(t),
         ~run[t].stale, run[t].tag # 0
  PROVE  registry'[Now(t).name][run[t].tag] \in {run[t].tag, registry[Now(t).name][run[t].tag]}
  <1>1. CASE registry' = registry
    BY <1>1
  <1>2. ASSUME NEW s \in Terminals, Push(s)
        PROVE  registry'[Now(t).name][run[t].tag] = run[t].tag
    <2>1. s = t
      <3>1. s # t => run'[t] = run[t]
        BY <1>2 DEF Push, HomeInv
      <3> QED BY <3>1 DEF Acts
    <2>2. registry'[Now(t).name][run[t].tag] = tagged[Now(t).name][run[t].tag]
      BY <1>2, <2>1, PushIs
    <2>3. /\ run[t].phase = "push" /\ Now(t) = run[t].todo[1] /\ Stamped(run[t], source, local, tagged)
      BY InHandIs DEF AtPhase
    <2> QED BY <2>2, <2>3 DEF Stamped
  <1>3. \/ \E s \in Terminals : Push(s)
        \/ registry' = registry
    <2>1. ASSUME NEW s \in Terminals, Work(s) PROVE Push(s) \/ registry' = registry
      BY <2>1 DEF Work, Configure, Look, Check, Build, DockerTag, Write, Deploy, Delete,
                  DisableEngine, Answer, remote
    <2> QED BY <2>1 DEF Next, vars, remote, EditYaml, EditSource, Outside, Stop, Start
  <1> QED BY <1>1, <1>2, <1>3

\* Whatever is pushed under a content hash has that content, for any number of
\* terminals that build, tag and push at once on one machine, but for the two
\* windows: the source edited between the hash and the build, a function of the
\* same name built by another terminal between the build and the push.
THEOREM PushedIsHashed == Spec => PushesWhatItHashed
  <1>1. HomeInv /\ WorkInv /\ [Next]_vars =>
          [\A t \in Terminals : (AtPhase(t, "push") /\ Acts(t) /\ ~run[t].stale /\ run[t].tag # 0)
             => registry'[Now(t).name][run[t].tag] \in {run[t].tag, registry[Now(t).name][run[t].tag]}]_vars
    BY StepPushesWhatItHashed
  <1> QED BY <1>1, WorkInvariant, PTL DEF Spec, PushesWhatItHashed

-----------------------------------------------------------------------------
(* What a run has done, and knows                                          *)

\* What the YAML asks for, and what of a command is done for good.
Goal(o) == IF o[1] = "function" THEN Tag(o[2]) ELSE yaml
Right(t, o) ==
  held[TenantOf[t]][o] = Goal(o) /\ (o[1] = "function" => Cached(o[2], Tag(o[2])))
DoneItem(t, e) ==
  /\ e.op = "ensure" => Right(t, Object(e))
  /\ e.op = "deploy" =>
       /\ \A o \in ObjectsOf(e.name) : Right(t, o)
       /\ running[TenantOf[t]][e.name] = [o \in ObjectsOf(e.name) |-> held[TenantOf[t]][o]]
  /\ e.op = "delete" => held[TenantOf[t]][Object(e)] = None
ProperItems == {e \in ItemSet : e.op # "disable" => Object(e) \in Objects}
DoneItems(t) == {e \in ProperItems : DoneItem(t, e)}
\* What a look would say of each object.
Due(t) == [o \in Objects |-> Change(held[TenantOf[t]][o], Goal(o))]
Tags == [f \in Functions |-> Tag(f)]
Stored == {e \in Functions \X Revisions : Cached(e[1], e[2])}

\* The work for a pipeline is to come, was refused, or is among these items.
Settled(r, p, S) == p \in Elements(r.left) \/ p \in r.refused \/ Task(r.opt, p) \subseteq S
Provided(r, p, D) ==
  \/ r.trial /\ Ask(p) \in Elements(r.todo)
  \/ Settled(r, p, D \union IF r.trial THEN {} ELSE Elements(r.todo))
Owes(r, D) == \A p \in Elements(r.opt.targets) : Provided(r, p, D)
\* What a preview has still to show, or what is left to do was shown.
Foresees(r, C) ==
  /\ r.trial => \A p \in Pipelines : Ask(p) \in Elements(r.todo) =>
       \A e \in Each("ensure", p) : e \in Elements(r.todo) \/ <<Object(e), C[Object(e)]>> \in r.shown
  /\ r.ask /\ ~r.trial => \A e \in Elements(r.todo) : e.op = "ensure" =>
       C[Object(e)] = "none" \/ <<Object(e), C[Object(e)]>> \in r.shown

\* A command whose work can be told: a destroy deletes where the machine is
\* logged in.
Bound(o, t, tenant) == ~o.dry /\ (o.cmd = "apply" \/ (o.cmd = "destroy" /\ tenant = TenantOf[t]))
Knows(r, t, D, C, y, tenant) ==
  ~r.moved =>
    /\ (r.phase # "idle" \/ r.ok) /\ Bound(r.opt, t, tenant) => Owes(r, D)
    /\ r.phase # "idle" => r.want = y /\ (r.conf => tenant = TenantOf[t])
    /\ r.phase # "idle" /\ ~r.blind => Foresees(r, C)
\* In the middle of an item: what was looked up is so, and the image is there.
Midway(r, h, T, K) ==
  LET e == r.todo[1] IN
  ~r.moved =>
    /\ r.phase = "write" /\ ~r.blind => r.seen = h[Object(e)]
    /\ e.kind = "function" /\ r.phase \in {"build", "tag", "push", "look", "write"} => r.tag = T[e.name]
    /\ e.kind = "function" /\ r.phase \in {"look", "write"} /\ ~Dry(r) => <<e.name, r.tag>> \in K
Aware(t) ==
  /\ Knows(run[t], t, DoneItems(t), Due(t), yaml, login)
  /\ Midway(run[t], held[TenantOf[t]], Tags, Stored)
AwareInv == \A t \in Terminals : Aware(t)

LEMMA TargetsPipelines ==
  ASSUME NEW o \in Commands, o.cmd \in {"apply", "destroy"}
  PROVE  o.targets \in Seq(Pipelines) /\ Elements(o.targets) \subseteq Pipelines
  <1>1. o.targets \in Seq(Pipelines)
    BY DEF Commands
  <1> QED BY <1>1, ElementsTyped

\* The work for one pipeline.
LEMMA TaskIs ==
  ASSUME NEW o \in Commands, NEW p \in Pipelines
  PROVE  /\ o.cmd = "apply" =>
              /\ \A e \in Task(o, p) : e \in Each("ensure", p) \/ e = Item("deploy", "pipeline", p)
              /\ Each("ensure", p) \subseteq Task(o, p)
              /\ o.deploy /\ ~o.dry => Item("deploy", "pipeline", p) \in Task(o, p)
         /\ o.cmd = "destroy" => Task(o, p) = Each("delete", p)
         /\ \A e \in Each("ensure", p) : e.op = "ensure"
         /\ \A e \in Each("delete", p) : e.op = "delete"
         /\ Item("deploy", "pipeline", p).op = "deploy"
  <1>1. \A op : \A e \in Each(op, p) : e.op = op
    BY EachObject
  <1>2. Item("deploy", "pipeline", p).op = "deploy"
    BY DEF Item
  <1>3. CASE o.cmd = "apply"
    <2>1. Task(o, p) = Each("ensure", p) \union
                (IF o.deploy /\ ~o.dry THEN {Item("deploy", "pipeline", p)} ELSE {})
      BY <1>3, TargetIs
    <2> QED BY <1>1, <1>2, <1>3, <2>1
  <1>4. CASE o.cmd # "apply"
    BY <1>1, <1>2, <1>4, TargetIs
  <1> QED BY <1>3, <1>4

LEMMA SettledMore ==
  ASSUME NEW r, NEW p, NEW S, NEW S2, Settled(r, p, S), Task(r.opt, p) \intersect S \subseteq S2
  PROVE  Settled(r, p, S2)
  BY DEF Settled

LEMMA OwesMore ==
  ASSUME NEW r, NEW D, NEW D2, Owes(r, D),
         \A p \in Elements(r.opt.targets) : Task(r.opt, p) \intersect D \subseteq D2
  PROVE  Owes(r, D2)
  <1> SUFFICES ASSUME NEW p \in Elements(r.opt.targets) PROVE Provided(r, p, D2)
    BY DEF Owes
  <1> DEFINE X == IF r.trial THEN {} ELSE Elements(r.todo)
  <1>1. \/ r.trial /\ Ask(p) \in Elements(r.todo)
        \/ Settled(r, p, D \union X)
    BY DEF Owes, Provided
  <1> HIDE DEF X
  <1>2. Task(r.opt, p) \intersect (D \union X) \subseteq D2 \union X
    OBVIOUS
  <1>3. Settled(r, p, D \union X) => Settled(r, p, D2 \union X)
    BY <1>2, SettledMore
  <1> QED BY <1>1, <1>3 DEF Provided, X

\* The next target, when there is nothing left in hand.
LEMMA NextTargetOwes ==
  ASSUME NEW r, DOMAIN r = Fields, r.left \in Seq(TargetSet(r.opt)), r.left # <<>>, NEW D,
         \A p \in Elements(r.opt.targets) : Settled(r, p, D), NEW n, NEW b, NEW x, x = Head(r.left),
         n.opt = r.opt, n.left = Tail(r.left), n.refused = r.refused,
         b.opt = n.opt, b.left = n.left, b.refused = n.refused, b.trial = n.trial,
         \/ n.trial /\ Ask(x) \in Elements(b.todo)
         \/ ~n.trial /\ Elements(b.todo) = Task(r.opt, x)
  PROVE  Owes(b, D)
  <1>1. Elements(r.left) = {x} \union Elements(Tail(r.left))
    BY ElementsTail
  <1> SUFFICES ASSUME NEW p \in Elements(r.opt.targets) PROVE Provided(b, p, D)
    BY DEF Owes
  <1>2. CASE p = x
    <2>1. CASE n.trial
      BY <1>2, <2>1 DEF Provided
    <2>2. CASE ~n.trial
      <3>1. Task(b.opt, p) \subseteq D \union Elements(b.todo)
        BY <1>2, <2>2
      <3> QED BY <2>2, <3>1 DEF Provided, Settled
    <2> QED BY <2>1, <2>2
  <1>3. CASE p # x
    <2>1. Settled(r, p, D)
      OBVIOUS
    <2>2. p \in Elements(b.left) \/ p \in b.refused \/ Task(b.opt, p) \subseteq D
      BY <1>1, <1>3, <2>1 DEF Settled
    <2> QED BY <2>2 DEF Provided, Settled
  <1> QED BY <1>2, <1>3

LEMMA FreshMidway ==
  ASSUME NEW q, q.phase \in {"idle", "check", "look", "do"},
         q.phase = "look" => q.todo[1].kind # "function", NEW h, NEW T, NEW K
  PROVE  Midway(q, h, T, K)
  BY DEF Midway

LEMMA NothingKnown ==
  ASSUME NEW q, q = NoRun \/ q.moved \/ (q.phase = "idle" /\ ~q.ok), NEW t, NEW D, NEW C, NEW y, NEW tenant, NEW h, NEW T, NEW K
  PROVE  Knows(q, t, D, C, y, tenant) /\ Midway(q, h, T, K)
  BY DEF Knows, Midway, NoRun

LEMMA NextTargetKnows ==
  ASSUME NEW r, NEW t, NEW tenant, Based(r, t, tenant), Core(r), NEW D, NEW C, NEW y,
         ~r.moved => /\ r.want = y
                     /\ r.conf /\ r.opt.cmd # "apply" => tenant = TenantOf[t]
                     /\ Bound(r.opt, t, tenant) => \A p \in Elements(r.opt.targets) : Settled(r, p, D)
  PROVE  Knows(NextTarget(r), t, D, C, y, tenant)
  <1>0. DOMAIN r = Fields /\ r.opt \in Commands /\ r.left \in Seq(TargetSet(r.opt))
    BY DEF Based
  <1>1. CASE r.left = <<>>
    <2> DEFINE e == Ended(r)
    <2>1. NextTarget(r) = e
      BY <1>1 DEF NextTarget
    <2>2. CASE r.moved
      BY <2>1, <2>2, EndedFields, NothingKnown
    <2>3. CASE ~r.moved
      <3>1. /\ e.opt = r.opt /\ e.refused = r.refused /\ e.left = <<>>
            /\ e.todo = <<>> /\ e.phase = "idle" /\ ~e.trial
        BY <2>3, EndedFields
      <3> HIDE DEF e
      <3>2. Bound(r.opt, t, tenant) => Owes(e, D)
        <4> SUFFICES ASSUME Bound(r.opt, t, tenant), NEW p \in Elements(r.opt.targets)
                     PROVE  Provided(e, p, D)
          BY <3>1 DEF Owes
        <4>1. Settled(r, p, D) /\ Elements(r.left) = {}
          BY <1>1, <2>3, ElementsOfOne
        <4> QED BY <3>1, <4>1 DEF Settled, Provided
      <3> QED BY <2>1, <3>1, <3>2 DEF Knows
    <2> QED BY <2>2, <2>3
  <1>2. CASE r.left # <<>> /\ r.moved
    <2> DEFINE x == Head(r.left)
               trial == r.ask /\ x # Disable
               n == [r EXCEPT !.left = Tail(@), !.trial = trial, !.shown = {},
                              !.conf = @ /\ r.opt.cmd # "apply"]
               s == IF trial THEN Preview(x) ELSE Target(r.opt, x)
    <2>1. DOMAIN n = Fields /\ n.moved = r.moved
      BY <1>0 DEF Fields
    <2>2. NextTarget(r) = Begin(n, s)
      BY <1>2 DEF NextTarget
    <2> HIDE DEF n, s
    <2>3. Begin(n, s).moved
      BY <1>2, <2>1, BeginFields DEF Begun
    <2> QED BY <2>2, <2>3, NothingKnown
  <1>3. CASE r.left # <<>> /\ ~r.moved
    <2> DEFINE x == Head(r.left)
               trial == r.ask /\ x # Disable
               n == [r EXCEPT !.left = Tail(@), !.trial = trial, !.shown = {},
                              !.conf = @ /\ r.opt.cmd # "apply"]
               s == IF trial THEN Preview(x) ELSE Target(r.opt, x)
               b == Begin(n, s)
    <2>1. x = r.left[1] /\ x \in TargetSet(r.opt) /\ Len(r.left) \in Nat \ {0}
      BY <1>0, <1>3, ElementsTail
    <2>2. /\ DOMAIN n = Fields /\ n.opt = r.opt /\ n.left = Tail(r.left) /\ n.ask = r.ask
          /\ n.trial = trial /\ n.refused = r.refused /\ n.moved = r.moved
          /\ n.conf = (r.conf /\ r.opt.cmd # "apply") /\ n.want = r.want /\ n.shown = {}
      BY <1>0 DEF Fields
    <2>3. NextTarget(r) = b
      BY <1>3 DEF NextTarget
    <2>4. r.ask => x # Disable /\ x \in Pipelines
      <3>1. 1 \in 1..Len(r.left)
        BY <2>1
      <3>2. x = Disable => r.opt.cmd = "destroy"
        BY <2>1, <3>1 DEF Core
      <3>3. r.ask => r.opt.cmd = "apply"
        BY DEF Core
      <3> QED BY <2>1, <3>2, <3>3 DEF TargetSet
    <2>5. trial <=> r.ask
      BY <2>4
    <2> HIDE DEF n, x
    <2>6. /\ trial => Elements(s) = Each("ensure", x) \union {Ask(x)}
          /\ ~trial => Elements(s) = Task(r.opt, x)
      BY <2>4, PreviewIs DEF Task
    <2> HIDE DEF s, trial
    <2>7. Begun(b, n, s)
      BY <2>2, BeginFields
    <2> HIDE DEF b
    <2>8. /\ b.phase # "idle" /\ b.todo = s /\ b.trial = trial /\ b.ask = r.ask /\ b.opt = r.opt
          /\ b.want = y /\ (b.conf => tenant = TenantOf[t])
      <3>1. FirstPhase(Head(s)) # "idle"
        BY DEF FirstPhase
      <3> QED BY <1>3, <2>2, <2>7, <3>1 DEF Begun
    <2>9. Bound(r.opt, t, tenant) => Owes(b, D)
      <3> SUFFICES ASSUME Bound(r.opt, t, tenant) PROVE Owes(b, D)
        OBVIOUS
      <3>1. \A p \in Elements(r.opt.targets) : Settled(r, p, D)
        BY <1>3
      <3>2. /\ n.opt = r.opt /\ n.left = Tail(r.left) /\ n.refused = r.refused
            /\ b.opt = n.opt /\ b.left = n.left /\ b.refused = n.refused /\ b.trial = n.trial
        BY <2>2, <2>7 DEF Begun
      <3>3. \/ n.trial /\ Ask(x) \in Elements(b.todo)
            \/ ~n.trial /\ Elements(b.todo) = Task(r.opt, x)
        BY <2>2, <2>6, <2>8
      <3> QED BY <1>0, <1>3, <3>1, <3>2, <3>3, NextTargetOwes DEF x
    <2>10. Foresees(b, C)
      <3>1. b.trial \/ ~b.ask
        BY <2>5, <2>8
      <3>2. ASSUME b.trial, NEW p \in Pipelines, Ask(p) \in Elements(b.todo), NEW e \in Each("ensure", p)
            PROVE  e \in Elements(b.todo)
        <4>1. Elements(b.todo) = Each("ensure", x) \union {Ask(x)} /\ x \in Pipelines
          BY <2>4, <2>5, <2>6, <2>8, <3>2
        <4>2. Ask(p) \notin Each("ensure", x)
          <5>1. \A d \in Each("ensure", x) : d.op = "ensure"
            BY <4>1, EachObject
          <5>2. Ask(p).op = "ask"
            BY DEF Ask, Item
          <5> QED BY <5>1, <5>2
        <4>3. Ask(p) = Ask(x)
          BY <3>2, <4>1, <4>2
        <4>4. Ask(p).name = p /\ Ask(x).name = x
          BY DEF Ask, Item
        <4>5. p = x
          BY <4>3, <4>4
        <4> QED BY <3>2, <4>1, <4>5
      <3> QED BY <3>1, <3>2 DEF Foresees
    <2> QED BY <2>3, <2>8, <2>9, <2>10 DEF Knows
  <1> QED BY <1>1, <1>2, <1>3

LEMMA OnlyItem ==
  ASSUME NEW ops, NEW s, Proper(s, ops), ~(Len(s) > 1)
  PROVE  Elements(s) = {s[1]} /\ s[Len(s)] = s[1]
  <1>1. s \in Seq(ItemSet) /\ s # <<>>
    BY DEF Proper
  <1>2. Len(s) \in Nat \ {0}
    BY <1>1, ElementsTail
  <1>3. Len(s) \in Nat /\ Len(s) # 0
    BY <1>2
  <1>4. \A n \in Nat : n # 0 => n > 1 \/ n = 1
    OBVIOUS
  <1>5. Len(s) = 1
    BY <1>3, <1>4
  <1> QED BY <1>5 DEF Elements

\* The item in hand is done: so it is, or there is more to do for its pipeline.
LEMMA SteppedKnows ==
  ASSUME NEW r, NEW t, NEW tenant, Based(r, t, tenant), Core(r), Busy(r), NEW D, NEW C, NEW y,
         Knows(r, t, D, C, y, tenant), NEW e, e = r.todo[1], e.op # "ask",
         ~r.moved /\ Bound(r.opt, t, tenant) /\ ~r.trial =>
           \A p \in Elements(r.opt.targets) : e \in Task(r.opt, p) =>
             e \in D \/ p \in Elements(r.left) \/ p \in r.refused,
         ~r.moved /\ ~r.blind /\ r.trial /\ e.op = "ensure" => <<Object(e), C[Object(e)]>> \in r.shown
  PROVE  Knows(Stepped(r), t, D, C, y, tenant)
  <1>0. DOMAIN r = Fields /\ r.phase # "idle"
    BY DEF Based, Busy, Placed
  <1>1. CASE Len(r.todo) > 1
    <2> DEFINE s == Tail(r.todo)
               b == Begin(r, s)
    <2>1. Elements(r.todo) = {e} \union Elements(s)
      BY <1>1, ProperTail DEF Busy
    <2>2. Stepped(r) = b
      BY <1>1 DEF Stepped
    <2> HIDE DEF s
    <2>3. Begun(b, r, s)
      BY <1>0, BeginFields
    <2> HIDE DEF b
    <2>4. /\ b.phase # "idle" /\ b.todo = s /\ b.trial = r.trial /\ b.ask = r.ask /\ b.opt = r.opt
          /\ b.want = r.want /\ b.conf = r.conf /\ b.left = r.left /\ b.refused = r.refused
          /\ b.shown = r.shown /\ b.moved = r.moved /\ b.blind = r.blind
      <3>1. FirstPhase(Head(s)) # "idle"
        BY DEF FirstPhase
      <3> QED BY <2>3, <3>1 DEF Begun
    <2> SUFFICES ASSUME ~r.moved PROVE Knows(b, t, D, C, y, tenant)
      BY <2>2, <2>4, NothingKnown
    <2>5. Bound(r.opt, t, tenant) => Owes(b, D)
      <3> SUFFICES ASSUME Bound(r.opt, t, tenant), NEW p \in Elements(r.opt.targets)
                   PROVE  Provided(b, p, D)
        BY <2>4 DEF Owes
      <3>1. Provided(r, p, D)
        BY <1>0 DEF Knows, Owes
      <3>2. CASE r.trial /\ Ask(p) \in Elements(r.todo)
        <4>1. Ask(p) # e
          BY DEF Ask, Item
        <4> QED BY <2>1, <2>4, <3>2, <4>1 DEF Provided
      <3>3. CASE r.trial /\ Settled(r, p, D \union {})
        BY <2>4, <3>3 DEF Provided, Settled
      <3>4. CASE ~r.trial /\ Settled(r, p, D \union Elements(r.todo))
        BY <2>1, <2>4, <3>4 DEF Provided, Settled
      <3> QED BY <3>1, <3>2, <3>3, <3>4 DEF Provided
    <2>6. ~r.blind => Foresees(b, C)
      <3> SUFFICES ASSUME ~r.blind PROVE Foresees(b, C)
        OBVIOUS
      <3>1. Foresees(r, C)
        BY <1>0 DEF Knows
      <3>2. ASSUME r.trial, NEW p \in Pipelines, Ask(p) \in Elements(s), NEW d \in Each("ensure", p)
            PROVE  d \in Elements(s) \/ <<Object(d), C[Object(d)]>> \in r.shown
        <4>1. d \in Elements(r.todo) \/ <<Object(d), C[Object(d)]>> \in r.shown
          BY <2>1, <3>1, <3>2 DEF Foresees
        <4>2. d.op = "ensure"
          BY EachObject
        <4> QED BY <2>1, <3>2, <4>1, <4>2
      <3>3. ASSUME r.ask, ~r.trial, NEW d \in Elements(s), d.op = "ensure"
            PROVE  C[Object(d)] = "none" \/ <<Object(d), C[Object(d)]>> \in r.shown
        BY <2>1, <3>1, <3>3 DEF Foresees
      <3> QED BY <2>4, <3>2, <3>3 DEF Foresees
    <2> QED BY <1>0, <2>4, <2>5, <2>6 DEF Knows
  <1>2. CASE ~(Len(r.todo) > 1)
    <2>1. Elements(r.todo) = {e} /\ r.todo[Len(r.todo)] = e
      <3>1. Proper(r.todo, OpsOf(r))
        BY DEF Busy
      <3> QED BY <1>2, <3>1, OnlyItem
    <2>2. ~r.trial
      BY <2>1 DEF Busy
    <2>3. ~r.moved => /\ r.want = y
                      /\ r.conf /\ r.opt.cmd # "apply" => tenant = TenantOf[t]
                      /\ Bound(r.opt, t, tenant) => \A p \in Elements(r.opt.targets) : Settled(r, p, D)
      <3>1. ASSUME ~r.moved, Bound(r.opt, t, tenant), NEW p \in Elements(r.opt.targets)
            PROVE  Settled(r, p, D)
        <4>1. Provided(r, p, D)
          BY <1>0, <3>1 DEF Knows, Owes
        <4>2. Settled(r, p, D \union {e})
          BY <2>1, <2>2, <4>1 DEF Provided
        <4> QED BY <2>2, <3>1, <4>2 DEF Settled
      <3> QED BY <1>0, <3>1 DEF Knows
    <2>4. Stepped(r) = NextTarget(r)
      BY <1>2 DEF Stepped
    <2>5. Knows(NextTarget(r), t, D, C, y, tenant)
      BY <2>3, NextTargetKnows
    <2> QED BY <2>4, <2>5
  <1> QED BY <1>1, <1>2

-----------------------------------------------------------------------------
(* A world that stands still                                               *)

Still ==
  /\ held' = held /\ running' = running /\ yaml' = yaml /\ source' = source
  /\ \A f \in Functions, n \in Revisions : Cached(f, n) => Cached(f, n)'

LEMMA StillWorld ==
  ASSUME WorldTyped, Still, NEW t \in Terminals
  PROVE  /\ DoneItems(t) \subseteq DoneItems(t)' /\ Due(t)' = Due(t) /\ Tags' = Tags
         /\ Stored \subseteq Stored'
  <1>1. \A o : Goal(o)' = Goal(o)
    BY DEF Still, Goal, Tag
  <1>2. \A f \in Functions : Tag(f)' = Tag(f)
    BY DEF Still, Tag
  <1>3. ASSUME NEW o, o[1] = "function" => o[2] \in Functions, Right(t, o)
        PROVE  Right(t, o)'
    <2>1. held[TenantOf[t]][o] = Goal(o)
      BY <1>3 DEF Right
    <2>2. ASSUME o[1] = "function" PROVE Cached(o[2], Tag(o[2]))'
      <3>1. o[2] \in Functions /\ Cached(o[2], Tag(o[2]))
        BY <1>3, <2>2 DEF Right
      <3>2. Tag(o[2]) \in Revisions
        BY <3>1, TagTyped
      <3>3. registry'[o[2]][Tag(o[2])] # None
        BY <3>1, <3>2 DEF Still, Cached
      <3>4. Tag(o[2])' = Tag(o[2])
        BY <1>2, <3>1
      <3> QED BY <3>3, <3>4 DEF Cached
    <2>3. held'[TenantOf[t]][o] = Goal(o)'
      BY <1>1, <2>1 DEF Still
    <2> QED BY <2>2, <2>3 DEF Right
  <1>4. ASSUME NEW e \in DoneItems(t) PROVE e \in DoneItems(t)'
    <2>1. e \in ProperItems /\ DoneItem(t, e)
      BY DEF DoneItems
    <2>2. e.op = "ensure" => Right(t, Object(e))'
      <3> SUFFICES ASSUME e.op = "ensure" PROVE Right(t, Object(e))'
        OBVIOUS
      <3> PICK o : o = Object(e)
        OBVIOUS
      <3>1. o \in Objects /\ Right(t, o)
        BY <2>1 DEF ProperItems, DoneItem
      <3>2. o[1] = "function" => o[2] \in Functions
        BY <3>1 DEF Objects
      <3>3. Right(t, o)'
        BY <1>3, <3>1, <3>2
      <3> QED BY <3>3 DEF Object
    <2>3. e.op = "deploy" => \A o \in ObjectsOf(e.name) : Right(t, o)'
      <3> SUFFICES ASSUME e.op = "deploy", NEW o \in ObjectsOf(e.name) PROVE Right(t, o)'
        OBVIOUS
      <3>1. Right(t, o)
        BY <2>1 DEF DoneItem
      <3>2. o[1] = "function" => o[2] \in Functions
        BY DEF ObjectsOf, Among
      <3> QED BY <1>3, <3>1, <3>2
    <2>4. DoneItem(t, e)'
      BY <2>1, <2>2, <2>3 DEF DoneItem, Still
    <2> QED BY <2>1, <2>4 DEF DoneItems
  <1>5. Due(t)' = Due(t)
    BY <1>1 DEF Due, Still
  <1>6. Tags' = Tags
    BY <1>2 DEF Tags
  <1>7. Stored \subseteq Stored'
    BY DEF Stored, Still
  <1> QED BY <1>4, <1>5, <1>6, <1>7

\* A record that agrees, in all that it knows.
Echoes(q, r) ==
  /\ q.opt = r.opt /\ q.left = r.left /\ q.todo = r.todo /\ q.trial = r.trial /\ q.ask = r.ask
  /\ q.refused = r.refused /\ q.want = r.want /\ q.conf = r.conf /\ q.moved = r.moved
  /\ q.shown = r.shown /\ (r.blind => q.blind)
  /\ (q.phase # "idle" \/ q.ok => r.phase # "idle" \/ r.ok) /\ (q.phase # "idle" => r.phase # "idle")

LEMMA EchoesKnows ==
  ASSUME NEW q, NEW r, Echoes(q, r), NEW t, NEW D, NEW D2, D \subseteq D2, NEW C, NEW y, NEW tenant,
         Knows(r, t, D, C, y, tenant)
  PROVE  Knows(q, t, D2, C, y, tenant)
  <1> SUFFICES ASSUME ~q.moved PROVE Knows(q, t, D2, C, y, tenant)
    BY DEF Knows
  <1>1. ~r.moved
    BY DEF Echoes
  <1>2. ASSUME Owes(r, D) PROVE Owes(q, D2)
    <2> SUFFICES ASSUME NEW p \in Elements(r.opt.targets) PROVE Provided(q, p, D2)
      BY DEF Owes, Echoes
    <2>1. Provided(r, p, D)
      BY <1>2 DEF Owes
    <2> DEFINE X == IF r.trial THEN {} ELSE Elements(r.todo)
    <2>2. X = IF q.trial THEN {} ELSE Elements(q.todo)
      BY DEF Echoes
    <2>3. (r.trial /\ Ask(p) \in Elements(r.todo)) \/ Settled(r, p, D \union X)
      BY <2>1 DEF Provided
    <2> HIDE DEF X
    <2>4. Settled(r, p, D \union X) => Settled(q, p, D2 \union X)
      BY DEF Settled, Echoes
    <2>5. q.trial = r.trial /\ q.todo = r.todo
      BY DEF Echoes
    <2> QED BY <2>2, <2>3, <2>4, <2>5 DEF Provided
  <1>3. Foresees(r, C) => Foresees(q, C)
    BY DEF Foresees, Echoes
  <1> QED BY <1>1, <1>2, <1>3 DEF Knows, Echoes

LEMMA FollowsEchoes ==
  ASSUME NEW q, NEW r, Follows(q, r)
  PROVE  Echoes(q, r)
  BY DEF Follows, Alike, Echoes

LEMMA FollowsMidway ==
  ASSUME NEW q, NEW r, Follows(q, r), NEW h, NEW T, NEW K, NEW K2, K \subseteq K2, Midway(r, h, T, K)
  PROVE  Midway(q, h, T, K2)
  <1>1. /\ q.todo = r.todo /\ q.phase = r.phase /\ q.seen = r.seen /\ q.tag = r.tag
        /\ q.moved = r.moved /\ q.blind = r.blind /\ (Dry(q) <=> Dry(r))
    BY DEF Follows, Alike, Dry
  <1> QED BY <1>1 DEF Midway

LEMMA StillAware ==
  ASSUME WorldTyped, Still, NEW t \in Terminals, NEW q, q = run'[t],
         Knows(q, t, DoneItems(t), Due(t), yaml, login'),
         Midway(q, held[TenantOf[t]], Tags, Stored) \/ Midway(q, held[TenantOf[t]], Tags, Stored')
  PROVE  Aware(t)'
  <1>1. /\ DoneItems(t) \subseteq DoneItems(t)' /\ Due(t)' = Due(t) /\ Tags' = Tags
        /\ Stored \subseteq Stored' /\ held' = held /\ yaml' = yaml
    BY StillWorld DEF Still
  <1>2. Echoes(q, q) /\ Follows(q, q)
    BY DEF Echoes, Follows, Alike
  <1>3. Knows(q, t, DoneItems(t)', Due(t), yaml, login')
    BY <1>1, <1>2, EchoesKnows
  <1>4. Midway(q, held[TenantOf[t]], Tags, Stored')
    BY <1>1, <1>2, FollowsMidway
  <1>5. Knows(run'[t], t, DoneItems(t)', Due(t)', yaml', login')
    BY <1>1, <1>3
  <1>6. Midway(run'[t], held'[TenantOf[t]], Tags', Stored')
    BY <1>1, <1>4
  <1> QED BY <1>5, <1>6 DEF Aware

LEMMA LostAware ==
  ASSUME NEW t \in Terminals,
         run'[t] = NoRun \/ run'[t].moved \/ (run'[t].phase = "idle" /\ ~run'[t].ok)
  PROVE  Aware(t)'
  <1> PICK q : q = run'[t]
    OBVIOUS
  <1>1. Knows(q, t, DoneItems(t)', Due(t)', yaml', login')
    BY NothingKnown
  <1>2. Midway(q, held'[TenantOf[t]], Tags', Stored')
    BY NothingKnown
  <1> QED BY <1>1, <1>2 DEF Aware

LEMMA LeftAware ==
  ASSUME WorldTyped, Still, NEW s \in Terminals, Aware(s), Follows(run'[s], run[s]), login' = login
  PROVE  Aware(s)'
  <1> PICK q : q = run'[s]
    OBVIOUS
  <1> PICK r : r = run[s]
    OBVIOUS
  <1>1. Follows(q, r) /\ Knows(r, s, DoneItems(s), Due(s), yaml, login)
        /\ Midway(r, held[TenantOf[s]], Tags, Stored)
    BY DEF Aware
  <1>2. Knows(q, s, DoneItems(s), Due(s), yaml, login')
    BY <1>1, FollowsEchoes, EchoesKnows
  <1>3. Midway(q, held[TenantOf[s]], Tags, Stored)
    BY <1>1, FollowsMidway
  <1> QED BY <1>2, <1>3, StillAware

-----------------------------------------------------------------------------
(* What the others do                                                      *)

LEMMA LeftAlone ==
  ASSUME WorldTyped, HomeInv, NEW t \in Terminals, NEW q, run' = [run EXCEPT ![t] = q],
         NEW s \in Terminals, s # t, Aware(s), Still, login' = login
  PROVE  Aware(s)'
  <1>1. run'[s] = run[s]
    BY DEF HomeInv
  <1>2. Follows(run'[s], run[s])
    BY <1>1 DEF Follows, Alike
  <1> QED BY <1>2, LeftAware

LEMMA MovedLost ==
  ASSUME HomeInv, NEW s \in Terminals, run'[s] = Disturbed(run[s])
  PROVE  Aware(s)'
  <1>1. DOMAIN run[s] = Fields
    BY DEF HomeInv, RunOK, Based
  <1>2. run'[s] = NoRun \/ run'[s].moved
    BY <1>1, DisturbedBeside
  <1> QED BY <1>2, LostAware

LEMMA PushStill ==
  ASSUME HomeInv, WorkInv, NEW t \in Terminals, Push(t)
  PROVE  /\ Still /\ login' = login
         /\ <<Now(t).name, run[t].tag>> \in Stored'
  <1>1. /\ held' = held /\ running' = running /\ yaml' = yaml /\ source' = source
        /\ login' = login
    BY DEF Push
  <1> PICK g : g = Now(t).name
    OBVIOUS
  <1> PICK n : n = run[t].tag
    OBVIOUS
  <1>2. /\ registry'[g][n] = tagged[g][n] /\ tagged[g][n] # None /\ g \in Functions /\ n \in Revisions
        /\ \A f \in Functions, m \in Revisions :
             <<f, m>> # <<g, n>> => registry'[f][m] = registry[f][m]
    BY PushIs
  <1>3. ASSUME NEW f \in Functions, NEW m \in Revisions, Cached(f, m) PROVE Cached(f, m)'
    <2>1. CASE f = g /\ m = n
      BY <1>2, <2>1 DEF Cached
    <2>2. CASE ~(f = g /\ m = n)
      BY <1>2, <1>3, <2>2 DEF Cached
    <2> QED BY <2>1, <2>2
  <1>4. registry'[g][n] # None
    BY <1>2
  <1>5. <<g, n>> \in Stored'
    BY <1>2, <1>4 DEF Stored, Cached
  <1> QED BY <1>1, <1>3, <1>5 DEF Still

LEMMA OthersWork ==
  ASSUME HomeInv, WorkInv, NEW t \in Terminals, NEW s \in Terminals, s # t, Aware(s), Work(t)
  PROVE  Aware(s)'
  <1>0. WorldTyped
    BY DEF WorkInv
  <1>1. CASE Configure(t)
    <2>1. CASE login # login'
      BY <1>1, <2>1, ConfigureIs, LostAware
    <2>2. CASE login = login'
      <3>1. Follows(run'[s], run[s])
        BY <1>1, <2>2, ConfigureIs
      <3>2. Still
        BY <1>1 DEF Configure, remote, Still, Cached
      <3> QED BY <1>0, <2>2, <3>1, <3>2, LeftAware
    <2> QED BY <2>1, <2>2
  <1>2. CASE Look(t)
    <2>1. Still /\ login' = login
      BY <1>2 DEF Look, remote, Still, Cached
    <2>2. run' = [run EXCEPT ![t] = run'[t]]
      BY <1>2, LookIs
    <2> QED BY <1>0, <2>1, <2>2, LeftAlone
  <1>3. CASE Check(t)
    <2>1. Still /\ login' = login
      BY <1>3 DEF Check, remote, Still, Cached
    <2>2. run' = [run EXCEPT ![t] = run'[t]]
      BY <1>3, CheckIs
    <2> QED BY <1>0, <2>1, <2>2, LeftAlone
  <1>4. CASE Build(t)
    <2>1. Still /\ login' = login
      BY <1>4 DEF Build, remote, Still, Cached
    <2>2. Follows(run'[s], run[s])
      BY <1>4, BuildIs
    <2> QED BY <1>0, <2>1, <2>2, LeftAware
  <1>5. CASE DockerTag(t)
    <2>1. Still /\ login' = login
      BY <1>5 DEF DockerTag, remote, Still, Cached
    <2>2. run' = [run EXCEPT ![t] = run'[t]]
      BY <1>5, TagIs
    <2> QED BY <1>0, <2>1, <2>2, LeftAlone
  <1>6. CASE Push(t)
    <2>1. Still /\ login' = login
      BY <1>6, PushStill
    <2>2. run' = [run EXCEPT ![t] = run'[t]]
      BY <1>6, PushIs
    <2> QED BY <1>0, <2>1, <2>2, LeftAlone
  <1>7. CASE Write(t)
    <2>1. CASE run' = Moved(t, Stepped(run[t]))
      <3>1. run'[s] = Disturbed(run[s])
        BY <2>1 DEF Moved
      <3> QED BY <3>1, MovedLost
    <2>2. CASE Fail(t) /\ UNCHANGED held
      <3>1. Still /\ login' = login
        BY <1>7, <2>2 DEF Write, Still, Cached
      <3> QED BY <1>0, <2>2, <3>1, LeftAlone DEF Fail
    <2> QED BY <1>7, <2>1, <2>2 DEF Write
  <1>8. CASE Deploy(t)
    <2>1. CASE run' = Moved(t, Stepped(run[t]))
      <3>1. run'[s] = Disturbed(run[s])
        BY <2>1 DEF Moved
      <3> QED BY <3>1, MovedLost
    <2>2. CASE Fail(t) /\ UNCHANGED running
      <3>1. Still /\ login' = login
        BY <1>8, <2>2 DEF Deploy, Still, Cached
      <3> QED BY <1>0, <2>2, <3>1, LeftAlone DEF Fail
    <2> QED BY <1>8, <2>1, <2>2 DEF Deploy
  <1>9. CASE Delete(t)
    <2>1. CASE run' = Moved(t, Stepped(run[t]))
      <3>1. run'[s] = Disturbed(run[s])
        BY <2>1 DEF Moved
      <3> QED BY <3>1, MovedLost
    <2>2. CASE (Fail(t) \/ Step(t)) /\ UNCHANGED <<held, running>>
      <3>1. Still /\ login' = login
        BY <1>9, <2>2 DEF Delete, Still, Cached
      <3>2. PICK q : run' = [run EXCEPT ![t] = q]
        BY <2>2 DEF Fail, Step
      <3> QED BY <1>0, <3>1, <3>2, LeftAlone
    <2> QED BY <1>9, <2>1, <2>2 DEF Delete
  <1>10. CASE DisableEngine(t)
    <2>1. Still /\ login' = login
      BY <1>10 DEF DisableEngine, Still, Cached
    <2>2. PICK q : run' = [run EXCEPT ![t] = q]
      BY <1>10 DEF DisableEngine, Step
    <2> QED BY <1>0, <2>1, <2>2, LeftAlone
  <1>11. CASE \E a \in {"yes", "no", "continue"} : Answer(t, a)
    <2>1. Still /\ login' = login
      BY <1>11 DEF Answer, remote, Still, Cached
    <2>2. run' = [run EXCEPT ![t] = run'[t]]
      BY <1>11, AnswerIs
    <2> QED BY <1>0, <2>1, <2>2, LeftAlone
  <1> QED BY <1>1, <1>2, <1>3, <1>4, <1>5, <1>6, <1>7, <1>8, <1>9, <1>10, <1>11 DEF Work

LEMMA OthersStartOrStop ==
  ASSUME HomeInv, WorkInv, NEW t \in Terminals, NEW s \in Terminals, s # t, Aware(s),
         (\E o \in Options[t] : Start(t, o)) \/ Stop(t)
  PROVE  Aware(s)'
  <1>1. Still /\ login' = login
    BY DEF Start, Stop, remote, Still, Cached
  <1>2. PICK q : run' = [run EXCEPT ![t] = q]
    BY DEF Start, Stop, Fail
  <1> QED BY <1>1, <1>2, LeftAlone DEF WorkInv

LEMMA WorldAware ==
  ASSUME HomeInv, NEW s \in Terminals,
         \/ EditYaml
         \/ \E f \in Functions : EditSource(f)
         \/ \E ten \in Tenants, o \in Objects : \E v \in {None, 0} : Outside(ten, o, v)
  PROVE  Aware(s)'
  <1>1. CASE EditYaml
    BY <1>1, MovedLost DEF EditYaml
  <1>2. ASSUME NEW f \in Functions, EditSource(f) PROVE Aware(s)'
    <2>1. CASE run[s].phase = "idle"
      <3>1. Alike(run'[s], NoRun)
        BY <1>2, <2>1, SourceEdited
      <3>2. run'[s].phase = "idle" /\ ~run'[s].ok
        BY <3>1 DEF Alike, NoRun
      <3> QED BY <3>2, LostAware
    <2>2. CASE run[s].phase # "idle"
      BY <1>2, <2>2, SourceEdited, LostAware
    <2> QED BY <2>1, <2>2
  <1>3. ASSUME NEW ten \in Tenants, NEW o \in Objects, NEW v \in {None, 0}, Outside(ten, o, v)
        PROVE  Aware(s)'
    BY <1>3, MovedLost DEF Outside
  <1> QED BY <1>1, <1>2, <1>3

-----------------------------------------------------------------------------
(* What a terminal does itself                                             *)

LEMMA TargetsListed ==
  ASSUME NEW o \in Commands
  PROVE  Elements(o.targets) \subseteq Elements(Targets(o))
  <1> DEFINE e == IF o.off THEN <<Disable>> ELSE <<>>
             S == Pipelines \union Functions \union {Disable}
  <1>1. o.targets \in Seq(S)
    <2>1. o.targets \in Seq(Pipelines) \/ o.targets \in Seq(Functions)
      BY DEF Commands
    <2> QED BY <2>1
  <1>2. e \in Seq(S)
    <2>1. <<Disable>> \in Seq(S) /\ <<>> \in Seq(S)
      OBVIOUS
    <2> QED BY <2>1
  <1> HIDE DEF e, S
  <1>3. Elements(o.targets \o e) = Elements(o.targets) \union Elements(e)
    BY <1>1, <1>2, ElementsJoined
  <1> QED BY <1>3 DEF Targets, e

LEMMA StartAware ==
  ASSUME HomeInv, WorkInv, NEW t \in Terminals, NEW o \in Options[t], Start(t, o)
  PROVE  Aware(t)'
  <1> DEFINE r == [NoRun EXCEPT !.opt = o, !.left = Targets(o), !.ask = o.ask,
                                !.want = yaml, !.done = InPlace(t)]
  <1>1. o \in Commands
    BY StageBConstants
  <1>2. /\ DOMAIN r = Fields /\ r.opt = o /\ r.left = Targets(o) /\ r.ask = o.ask
        /\ r.conf = FALSE /\ ~r.ok /\ r.refused = {} /\ r.trial = FALSE /\ r.want = yaml
    BY NoRunFields DEF NoRun, Fields
  <1>3. run' = [run EXCEPT ![t] = NextTarget(r)]
    BY DEF Start
  <1> HIDE DEF r
  <1>4. Based(r, t, login)
    BY <1>1, <1>2, TargetsTyped DEF Based
  <1>5. Core(r)
    <2>1. o.ask => o.cmd = "apply"
      BY <1>1 DEF Commands
    <2> QED BY <1>1, <1>2, <2>1, TargetsEnd DEF Core
  <1>6. \A p \in Elements(r.opt.targets) : Settled(r, p, DoneItems(t))
    BY <1>1, <1>2, TargetsListed DEF Settled
  <1>7. Knows(NextTarget(r), t, DoneItems(t), Due(t), yaml, login)
    BY <1>2, <1>4, <1>5, <1>6, NextTargetKnows
  <1>8. Midway(NextTarget(r), held[TenantOf[t]], Tags, Stored)
    BY <1>2, <1>4, <1>5, NextTargetShape, FreshMidway
  <1>9. run'[t] = NextTarget(r)
    BY <1>3 DEF HomeInv
  <1>10. Still /\ login' = login
    BY DEF Start, remote, Still, Cached
  <1> QED BY <1>7, <1>8, <1>9, <1>10, StillAware DEF WorkInv

LEMMA StopAware ==
  ASSUME HomeInv, NEW t \in Terminals, Stop(t)
  PROVE  Aware(t)'
  <1>1. run'[t] = NoRun
    BY DEF HomeInv, Stop, Fail
  <1> QED BY <1>1, LostAware

\* Only a destroy works without a login, and it looks nothing up.
LEMMA LookingIs ==
  ASSUME HomeInv, WorkInv, NEW t \in Terminals, run[t].phase \in {"look", "write"}
  PROVE  /\ run[t].opt.cmd # "destroy" /\ Now(t).op \in {"ensure", "show"}
         /\ Object(Now(t)) \in Objects
         /\ Now(t).kind = "function" => Now(t).name \in Functions
         /\ Now(t).op = "show" => run[t].opt.cmd = "status"
  <1>1. ~Idle(t)
    BY DEF Idle
  <1> PICK e : e = Now(t)
    OBVIOUS
  <1>2. /\ Placed(run[t]) /\ Core(run[t]) /\ e = run[t].todo[1] /\ e.op \in OpsOf(run[t])
        /\ e.op # "disable" => Object(e) \in Objects
        /\ e.kind = "function" /\ e.op # "disable" => e.name \in Functions
        /\ run[t].opt \in Commands
    BY <1>1, InHandIs DEF Based
  <1>3. e.op \in {"ensure", "show"}
    BY <1>2 DEF Placed
  <1>4. run[t].trial => run[t].opt.cmd = "apply"
    BY <1>2 DEF Core
  <1>5. run[t].opt.cmd # "destroy" /\ (e.op = "show" => run[t].opt.cmd = "status")
    BY <1>2, <1>3, <1>4 DEF OpsOf, CmdOps
  <1> QED BY <1>2, <1>3, <1>5

LEMMA ConfigureAware ==
  ASSUME HomeInv, WorkInv, NEW t \in Terminals, Aware(t), Configure(t)
  PROVE  Aware(t)'
  <1> PICK q : q = run'[t]
    OBVIOUS
  <1> PICK r : r = run[t]
    OBVIOUS
  <1>1. /\ r.phase = "look" /\ login' = TenantOf[t] /\ Alike(q, r)
        /\ q.moved = r.moved /\ q.shown = r.shown /\ q.blind = r.blind
    BY ConfigureIs
  <1>2. r.opt.cmd # "destroy"
    BY <1>1, LookingIs
  <1>3. Knows(r, t, DoneItems(t), Due(t), yaml, login) /\ Midway(r, held[TenantOf[t]], Tags, Stored)
    BY DEF Aware
  <1>4. Bound(r.opt, t, login') <=> Bound(r.opt, t, login)
    BY <1>2 DEF Bound
  <1>5. \A D : Owes(r, D) => Owes(q, D)
    BY <1>1 DEF Alike, Owes, Provided, Settled
  <1>6. \A C : Foresees(r, C) => Foresees(q, C)
    BY <1>1 DEF Alike, Foresees
  <1>7. Knows(q, t, DoneItems(t), Due(t), yaml, login')
    BY <1>1, <1>3, <1>4, <1>5, <1>6 DEF Knows, Alike
  <1>8. Midway(q, held[TenantOf[t]], Tags, Stored)
    BY <1>1, <1>3 DEF Midway, Alike, Dry
  <1>9. Still
    BY DEF Configure, remote, Still, Cached
  <1> QED BY <1>7, <1>8, <1>9, StillAware DEF WorkInv

\* What a look, or a write, compares with is what the YAML and the source say.
LEMMA WantedIsGoal ==
  ASSUME HomeInv, WorkInv, NEW t \in Terminals, Aware(t), run[t].phase \in {"look", "write"}, ~run[t].moved
  PROVE  /\ Wanted(run[t], Now(t)) = Goal(Object(Now(t))) /\ Goal(Object(Now(t))) # None
         /\ run[t].conf => login = TenantOf[t]
         /\ Now(t).kind = "function" /\ ~Dry(run[t]) => Cached(Now(t).name, Tag(Now(t).name))
  <1>1. ~Idle(t)
    BY DEF Idle
  <1> PICK e : e = Now(t)
    OBVIOUS
  <1> PICK r : r = run[t]
    OBVIOUS
  <1>2. e = r.todo[1] /\ (e.kind = "function" => e.name \in Functions)
    BY <1>1, InHandIs, LookingIs
  <1>3. r.want = yaml /\ (r.conf => login = TenantOf[t])
    BY <1>1 DEF Aware, Knows, Idle
  <1>4. e.kind = "function" => /\ r.tag = Tags[e.name]
                               /\ ~Dry(r) => <<e.name, r.tag>> \in Stored
    BY <1>2 DEF Aware, Midway
  <1>5. e.kind = "function" => /\ r.tag = Tag(e.name) /\ Tag(e.name) \in Nat
                               /\ ~Dry(r) => Cached(e.name, Tag(e.name))
    BY <1>2, <1>4, TagTyped DEF Tags, Stored, WorkInv
  <1>6. Object(e)[1] = e.kind /\ Object(e)[2] = e.name
    BY DEF Object
  <1>7. yaml \in Nat /\ \A n \in Nat : n # None
    BY StageBConstants DEF WorkInv, WorldTyped
  <1> QED BY <1>2, <1>3, <1>5, <1>6, <1>7 DEF Wanted, Goal

LEMMA LookAware ==
  ASSUME HomeInv, WorkInv, NEW t \in Terminals, Aware(t), Look(t)
  PROVE  Aware(t)'
  <1> PICK q : q = run'[t]
    OBVIOUS
  <1> PICK r : r = run[t]
    OBVIOUS
  <1> PICK e : e = Now(t)
    OBVIOUS
  <1>1. ~Idle(t) /\ r.phase = "look" /\ r.conf
    BY LookIs
  <1>2. PICK failed, note : failed \in BOOLEAN /\ LookedAt(t, failed, note)
    BY LookIs
  <1> DEFINE seen == Answers(Object(e), failed)
             op == Change(seen, Wanted(r, e))
  <1>3. /\ DOMAIN note = Fields /\ Alike(note, r) /\ note.conf = r.conf /\ note.robbed = r.robbed
        /\ note.moved = r.moved /\ (note.blind <=> (r.blind \/ failed))
        /\ r.trial => note.shown = r.shown \union {<<Object(e), op>>}
        /\ ~r.trial => note.shown = r.shown
    BY <1>2 DEF LookedAt
  <1>4. /\ Based(r, t, login) /\ Core(r) /\ Busy(r) /\ Shape(r) /\ e = r.todo[1]
        /\ e \in ItemSet
    BY <1>1, InHandIs DEF WorkInv, WorkOK
  <1>5. e.op \in {"ensure", "show"} /\ Object(e) \in Objects /\ r.opt.cmd # "destroy"
        /\ (e.op = "show" => r.opt.cmd = "status")
    BY <1>1, LookingIs
  <1>6. Based(note, t, login) /\ Core(note) /\ Busy(note) /\ note.phase = "look"
    <2>1. Shape(note) /\ note.phase # "idle" /\ note.phase = "look"
      BY <1>1, <1>3, <1>4, AlikeShape DEF Alike
    <2>2. Based(note, t, login)
      BY <1>3, <1>4 DEF Based, Alike
    <2> QED BY <2>1, <2>2 DEF Shape
  <1>7. Knows(r, t, DoneItems(t), Due(t), yaml, login) /\ Midway(r, held[TenantOf[t]], Tags, Stored)
    BY DEF Aware
  <1>8. ~r.moved => /\ Wanted(r, e) = Goal(Object(e)) /\ login = TenantOf[t]
                    /\ e.kind = "function" /\ ~Dry(r) => Cached(e.name, Tag(e.name))
    BY <1>1, WantedIsGoal
  <1>9. ~r.moved /\ ~failed => /\ seen = held[TenantOf[t]][Object(e)] /\ op = Due(t)[Object(e)]
    BY <1>5, <1>8 DEF Answers, Due
  <1> HIDE DEF seen
  <1>10. Knows(note, t, DoneItems(t), Due(t), yaml, login)
    <2>1. \A D : Owes(r, D) => Owes(note, D)
      BY <1>3 DEF Alike, Owes, Provided, Settled
    <2>2. \A C : Foresees(r, C) => Foresees(note, C)
      <3>1. r.shown \subseteq note.shown
        BY <1>3
      <3> QED BY <1>3, <3>1 DEF Alike, Foresees
    <2> QED BY <1>1, <1>3, <1>6, <1>7, <2>1, <2>2 DEF Knows, Alike
  <1>11. Still /\ login' = login
    BY DEF Look, remote, Still, Cached
  <1>12. CASE e.op = "show" \/ op = "none" \/ Dry(r)
    <2>1. q = Stepped(note)
      BY <1>2, <1>12 DEF LookedAt, seen
    <2>2. e = note.todo[1] /\ e.op # "ask"
      BY <1>3, <1>4, <1>5 DEF Alike
    <2>3. ASSUME ~note.moved, Bound(note.opt, t, login), ~note.trial
          PROVE  e \in DoneItems(t)
      <3>1. note.opt = r.opt /\ ~r.trial /\ ~r.moved /\ ~r.opt.dry /\ r.opt.cmd = "apply"
        BY <1>3, <1>5, <2>3 DEF Alike, Bound
      <3>2. ~Dry(r) /\ e.op = "ensure"
        BY <1>5, <3>1 DEF Dry
      <3>3. op = "none"
        BY <1>12, <3>2
      <3>4. seen # None /\ seen = Wanted(r, e)
        BY <3>3 DEF Change
      <3>5. ~failed
        BY <3>4 DEF Answers, seen
      <3>6. held[TenantOf[t]][Object(e)] = Goal(Object(e))
        BY <1>8, <1>9, <3>1, <3>4, <3>5
      <3>7. Right(t, Object(e))
        <4>1. Object(e)[1] = e.kind /\ Object(e)[2] = e.name
          BY DEF Object
        <4> QED BY <1>8, <3>1, <3>2, <3>6, <4>1 DEF Right
      <3> QED BY <1>4, <1>5, <3>2, <3>7 DEF DoneItems, ProperItems, DoneItem
    <2>4. ASSUME ~note.moved, ~note.blind, note.trial
          PROVE  <<Object(e), Due(t)[Object(e)]>> \in note.shown
      <3>1. ~r.moved /\ ~failed /\ r.trial
        BY <1>3, <2>4 DEF Alike
      <3>2. op = Due(t)[Object(e)]
        BY <1>9, <3>1
      <3> QED BY <1>3, <3>1, <3>2
    <2> HIDE DEF op
    <2>5. Knows(Stepped(note), t, DoneItems(t), Due(t), yaml, login)
      BY <1>6, <1>10, <2>2, <2>3, <2>4, SteppedKnows
    <2>6. Midway(Stepped(note), held[TenantOf[t]], Tags, Stored)
      BY <1>6, SteppedShape, FreshMidway
    <2> QED BY <1>11, <2>1, <2>5, <2>6, StillAware DEF WorkInv
  <1>13. CASE ~(e.op = "show" \/ op = "none" \/ Dry(r))
    <2>1. /\ q.phase = "write" /\ q.seen = seen /\ q.opt = note.opt /\ q.left = note.left
          /\ q.todo = note.todo /\ q.ask = note.ask /\ q.trial = note.trial /\ q.conf = note.conf
          /\ q.want = note.want /\ q.tag = note.tag /\ q.refused = note.refused
          /\ q.moved = note.moved /\ q.shown = note.shown /\ q.blind = note.blind
      BY <1>2, <1>13 DEF LookedAt, seen
    <2> HIDE DEF op
    <2>2. Echoes(q, note)
      BY <1>6, <2>1 DEF Echoes
    <2>3. Knows(q, t, DoneItems(t), Due(t), yaml, login)
      BY <1>10, <2>2, EchoesKnows
    <2>4. q.todo[1] = e /\ q.tag = r.tag /\ (Dry(q) <=> Dry(r))
      BY <1>3, <1>4, <2>1 DEF Alike, Dry
    <2>5. Midway(q, held[TenantOf[t]], Tags, Stored)
      BY <1>1, <1>3, <1>4, <1>7, <1>9, <2>1, <2>4 DEF Midway
    <2> QED BY <1>11, <2>3, <2>5, StillAware DEF WorkInv
  <1> QED BY <1>12, <1>13

\* The steps with an image.
LEMMA PhaseKnows ==
  ASSUME NEW q, NEW r, NEW ph, ph # "idle", NextPhase(q, r, ph), r.phase # "idle",
         NEW t, NEW D, NEW C, NEW y, NEW tenant, Knows(r, t, D, C, y, tenant)
  PROVE  Knows(q, t, D, C, y, tenant)
  <1>1. Echoes(q, r)
    BY DEF Echoes, NextPhase
  <1> QED BY <1>1, EchoesKnows

LEMMA CheckAware ==
  ASSUME HomeInv, WorkInv, NEW t \in Terminals, Aware(t), Check(t)
  PROVE  Aware(t)'
  <1> PICK q : q = run'[t]
    OBVIOUS
  <1> PICK r : r = run[t]
    OBVIOUS
  <1> PICK f : f = Now(t).name
    OBVIOUS
  <1>1. /\ ~Idle(t) /\ r.phase = "check" /\ q.tag = Tag(f)
    BY CheckIs
  <1>2. \/ NextPhase(q, r, "look") /\ (Cached(f, Tag(f)) \/ Dry(r))
        \/ NextPhase(q, r, "build")
    BY CheckIs
  <1>3. f \in Functions /\ Now(t) = r.todo[1]
    BY <1>1, ImageInHand
  <1>4. Tag(f) \in Revisions
    BY <1>3, TagTyped DEF WorkInv
  <1>5. Knows(q, t, DoneItems(t), Due(t), yaml, login)
    BY <1>1, <1>2, PhaseKnows DEF Aware
  <1>6. Midway(q, held[TenantOf[t]], Tags, Stored)
    <2>1. q.todo[1].name = f /\ (Dry(q) <=> Dry(r)) /\ q.phase \in {"look", "build"}
      BY <1>2, <1>3 DEF NextPhase, Dry
    <2>2. q.tag = Tags[f] /\ (Cached(f, Tag(f)) => <<f, q.tag>> \in Stored)
      BY <1>1, <1>3, <1>4 DEF Tags, Stored
    <2>3. q.phase = "look" => Cached(f, Tag(f)) \/ Dry(r)
      BY <1>2 DEF NextPhase
    <2> QED BY <2>1, <2>2, <2>3 DEF Midway
  <1>7. Still /\ login' = login
    BY DEF Check, remote, Still, Cached
  <1> QED BY <1>5, <1>6, <1>7, StillAware DEF WorkInv

LEMMA BuildTagAware ==
  ASSUME HomeInv, WorkInv, NEW t \in Terminals, Aware(t), Build(t) \/ DockerTag(t)
  PROVE  Aware(t)'
  <1> PICK q : q = run'[t]
    OBVIOUS
  <1> PICK r : r = run[t]
    OBVIOUS
  <1>1. PICK ph \in {"tag", "push"} :
          NextPhase(q, r, ph) /\ q.tag = r.tag /\ r.phase \in {"build", "tag"}
    BY BuildIs, TagIs
  <1>2. Knows(q, t, DoneItems(t), Due(t), yaml, login)
    BY <1>1, PhaseKnows DEF Aware
  <1>3. Midway(q, held[TenantOf[t]], Tags, Stored)
    <2>1. q.todo = r.todo /\ q.moved = r.moved /\ q.phase = ph
      BY <1>1 DEF NextPhase
    <2>2. Midway(r, held[TenantOf[t]], Tags, Stored)
      BY DEF Aware
    <2> QED BY <1>1, <2>1, <2>2 DEF Midway
  <1>4. Still /\ login' = login
    BY DEF Build, DockerTag, remote, Still, Cached
  <1> QED BY <1>2, <1>3, <1>4, StillAware DEF WorkInv

LEMMA PushAware ==
  ASSUME HomeInv, WorkInv, NEW t \in Terminals, Aware(t), Push(t)
  PROVE  Aware(t)'
  <1> PICK q : q = run'[t]
    OBVIOUS
  <1> PICK r : r = run[t]
    OBVIOUS
  <1> PICK f : f = Now(t).name
    OBVIOUS
  <1>1. NextPhase(q, r, "look") /\ q.tag = r.tag /\ r.phase = "push"
    BY PushIs
  <1>2. Still /\ login' = login /\ <<f, r.tag>> \in Stored'
    BY PushStill
  <1>3. Knows(q, t, DoneItems(t), Due(t), yaml, login)
    BY <1>1, PhaseKnows DEF Aware
  <1>4. Midway(q, held[TenantOf[t]], Tags, Stored')
    <2>1. q.todo = r.todo /\ q.moved = r.moved /\ q.phase = "look"
      BY <1>1 DEF NextPhase
    <2>2. Midway(r, held[TenantOf[t]], Tags, Stored) /\ r.todo[1].name = f
      BY <1>1, ImageInHand DEF Aware
    <2> QED BY <1>1, <1>2, <2>1, <2>2 DEF Midway
  <1> QED BY <1>2, <1>3, <1>4, StillAware DEF WorkInv

\* A change to what is on the tenants: the images, the YAML and the sources
\* stay.
LEMMA ChangedAware ==
  ASSUME WorldTyped, NEW t \in Terminals, yaml' = yaml, source' = source, registry' = registry, login' = login,
         NEW q, q = run'[t], NEW D, D = DoneItems(t)', NEW C, C = Due(t)',
         Knows(q, t, D, C, yaml, login),
         q.phase \in {"idle", "check", "look", "do"}, q.phase = "look" => q.todo[1].kind # "function"
  PROVE  Aware(t)'
  <1>1. Midway(q, held'[TenantOf[t]], Tags', Stored')
    BY FreshMidway
  <1>2. Knows(run'[t], t, DoneItems(t)', Due(t)', yaml', login')
    OBVIOUS
  <1> QED BY <1>1, <1>2 DEF Aware

\* What is known in the middle of an item stays known while it is done.
LEMMA KeptKnows ==
  ASSUME NEW r, NEW t, NEW D, NEW C, NEW y, NEW tenant, Knows(r, t, D, C, y, tenant), NEW D2, NEW C2,
         ~r.moved /\ Bound(r.opt, t, tenant) =>
           \A p \in Elements(r.opt.targets) : Task(r.opt, p) \intersect D \subseteq D2,
         ~r.moved /\ Foresees(r, C) => Foresees(r, C2)
  PROVE  Knows(r, t, D2, C2, y, tenant)
  <1>1. ASSUME ~r.moved, Bound(r.opt, t, tenant), Owes(r, D) PROVE Owes(r, D2)
    BY <1>1, OwesMore
  <1> QED BY <1>1 DEF Knows

LEMMA RightStays ==
  ASSUME yaml' = yaml, source' = source, registry' = registry, NEW t \in Terminals, NEW o,
         held'[TenantOf[t]][o] = held[TenantOf[t]][o] \/ held'[TenantOf[t]][o] = Goal(o),
         Right(t, o)
  PROVE  Right(t, o)' /\ held'[TenantOf[t]][o] = held[TenantOf[t]][o]
  <1>1. Goal(o)' = Goal(o) /\ Tag(o[2])' = Tag(o[2])
    BY DEF Goal, Tag
  <1>2. held[TenantOf[t]][o] = Goal(o) /\ (o[1] = "function" => Cached(o[2], Tag(o[2])))
    BY DEF Right
  <1>3. held'[TenantOf[t]][o] = Goal(o)' /\ (o[1] = "function" => Cached(o[2], Tag(o[2]))')
    BY <1>1, <1>2 DEF Cached
  <1> QED BY <1>1, <1>2, <1>3 DEF Right

\* An object of the tenant becomes, or is still, what it should be.
LEMMA RightingKeeps ==
  ASSUME yaml' = yaml, source' = source, registry' = registry, running' = running, NEW t \in Terminals,
         \A o \in Objects : \/ held'[TenantOf[t]][o] = held[TenantOf[t]][o]
                            \/ held'[TenantOf[t]][o] = Goal(o),
         NEW e \in DoneItems(t), e.op \in {"ensure", "deploy"}, e.op = "deploy" => e.name \in Pipelines
  PROVE  e \in DoneItems(t)'
  <1>1. e \in ProperItems /\ DoneItem(t, e)
    BY DEF DoneItems
  <1>2. CASE e.op = "ensure"
    <2> PICK o : o = Object(e)
      OBVIOUS
    <2>1. o \in Objects /\ Right(t, o)
      BY <1>1, <1>2 DEF ProperItems, DoneItem
    <2>2. Right(t, o)'
      BY <2>1, RightStays
    <2>3. Right(t, Object(e))'
      BY <2>2 DEF Object
    <2> QED BY <1>1, <1>2, <2>3 DEF DoneItems, DoneItem
  <1>3. CASE e.op = "deploy"
    <2>1. ASSUME NEW o \in ObjectsOf(e.name)
          PROVE  Right(t, o)' /\ held'[TenantOf[t]][o] = held[TenantOf[t]][o]
      <3>1. o \in Objects
        BY <1>3, EachObject
      <3>2. Right(t, o)
        BY <1>1, <1>3 DEF DoneItem
      <3> QED BY <3>1, <3>2, RightStays
    <2>2. [o \in ObjectsOf(e.name) |-> held'[TenantOf[t]][o]] = [o \in ObjectsOf(e.name) |-> held[TenantOf[t]][o]]
      BY <2>1
    <2>3. running'[TenantOf[t]][e.name] = [o \in ObjectsOf(e.name) |-> held[TenantOf[t]][o]]
      BY <1>1, <1>3 DEF DoneItem
    <2>4. running'[TenantOf[t]][e.name] = [o \in ObjectsOf(e.name) |-> held'[TenantOf[t]][o]]
      BY <2>2, <2>3
    <2>5. \A o \in ObjectsOf(e.name) : Right(t, o)'
      BY <2>1
    <2>6. DoneItem(t, e)'
      BY <1>3, <2>4, <2>5 DEF DoneItem
    <2> QED BY <1>1, <2>6 DEF DoneItems
  <1> QED BY <1>2, <1>3

LEMMA WriteAware ==
  ASSUME HomeInv, WorkInv, NEW t \in Terminals, Aware(t), Write(t)
  PROVE  Aware(t)'
  <1> PICK r : r = run[t]
    OBVIOUS
  <1> PICK e : e = Now(t)
    OBVIOUS
  <1> PICK o : o = Object(e)
    OBVIOUS
  <1> PICK h : h = TenantOf[t]
    OBVIOUS
  <1>1. /\ ~Idle(t) /\ r.phase = "write" /\ yaml' = yaml /\ source' = source /\ registry' = registry
        /\ login' = login /\ running' = running
    BY DEF Write, AtPhase
  <1>2. CASE Fail(t)
    <2>1. run'[t] = NoRun
      BY <1>2 DEF Fail, HomeInv
    <2> QED BY <2>1, LostAware
  <1>3. CASE /\ held' = [held EXCEPT ![login][o] = Wanted(r, e)] /\ login # None
             /\ run' = Moved(t, Stepped(run[t]))
    <2>1. run'[t] = Stepped(r)
      BY <1>3 DEF Moved
    <2>2. /\ Based(r, t, login) /\ Core(r) /\ Busy(r) /\ e = r.todo[1] /\ e \in ItemSet /\ r.opt \in Commands
          /\ Placed(r) /\ DOMAIN held = Tenants
      BY <1>1, InHandIs DEF HomeInv, Based
    <2>3. e.op = "ensure" /\ o \in Objects /\ r.opt.cmd # "destroy" /\ ~r.trial /\ r.conf /\ ~Dry(r)
      <3>1. RunOK(r, t, login)
        BY DEF HomeInv
      <3>2. ~Dry(r)
        BY <1>1, <2>2 DEF Busy
      <3> QED BY <1>1, <2>2, <3>1, <3>2, LookingIs DEF Placed, RunOK, InHand, Dry
    <2>4. ASSUME ~r.moved
          PROVE  /\ login = h /\ Wanted(r, e) = Goal(o) /\ Goal(o) # None
                 /\ e.kind = "function" => Cached(e.name, Tag(e.name))
      BY <1>1, <2>3, <2>4, WantedIsGoal
    <2>5. h \in Tenants /\ DOMAIN held[h] = Objects
      BY StageBConstants DEF WorkInv, WorldTyped
    <2>6. ASSUME ~r.moved
          PROVE  /\ held'[h][o] = Goal(o)
                 /\ \A x \in Objects : x # o => held'[h][x] = held[h][x]
      BY <1>3, <2>2, <2>3, <2>4, <2>5, <2>6
    <2>7. Knows(r, t, DoneItems(t), Due(t), yaml, login)
      BY DEF Aware
    <2> PICK D : D = DoneItems(t)'
      OBVIOUS
    <2> PICK C : C = Due(t)'
      OBVIOUS
    <2>8. ASSUME ~r.moved, Bound(r.opt, t, login), NEW p \in Elements(r.opt.targets), NEW d \in Task(r.opt, p),
                 d \in DoneItems(t)
          PROVE  d \in D
      <3>1. r.opt.cmd = "apply" /\ p \in Pipelines
        BY <2>2, <2>3, <2>8, TargetsPipelines DEF Bound
      <3>2. d \in Each("ensure", p) \/ d = Item("deploy", "pipeline", p)
        BY <2>2, <2>8, <3>1, TaskIs
      <3>3. d.op \in {"ensure", "deploy"} /\ (d.op = "deploy" => d.name \in Pipelines)
        <4>1. CASE d \in Each("ensure", p)
          <5>1. d.op = "ensure"
            BY <3>1, <4>1, EachObject
          <5> QED BY <5>1
        <4>2. CASE d = Item("deploy", "pipeline", p)
          BY <3>1, <4>2 DEF Item
        <4> QED BY <3>2, <4>1, <4>2
      <3>4. \A x \in Objects : held'[h][x] = held[h][x] \/ held'[h][x] = Goal(x)
        BY <2>6, <2>8
      <3> QED BY <1>1, <2>8, <3>3, <3>4, RightingKeeps
    <2>9. ASSUME ~r.moved, Foresees(r, Due(t)) PROVE Foresees(r, C)
      <3>1. \A x : Goal(x)' = Goal(x)
        BY <1>1 DEF Goal, Tag
      <3>2. ASSUME NEW x \in Objects PROVE C[x] = "none" \/ C[x] = Due(t)[x]
        <4>1. C[x] = Change(held'[h][x], Goal(x))
          BY <3>1 DEF Due
        <4>2. CASE x = o
          BY <2>4, <2>6, <2>9, <4>1, <4>2 DEF Change
        <4>3. CASE x # o
          BY <2>6, <2>9, <4>1, <4>3 DEF Due
        <4> QED BY <4>2, <4>3
      <3>3. ASSUME NEW d \in Elements(r.todo), d.op = "ensure" PROVE Object(d) \in Objects
        <4>1. Proper(r.todo, OpsOf(r))
          BY <2>2 DEF Busy
        <4> QED BY <3>3, <4>1 DEF Proper, Elements
      <3> QED BY <2>3, <2>9, <3>2, <3>3 DEF Foresees
    <2>10. Knows(r, t, D, C, yaml, login)
      BY <2>7, <2>8, <2>9, KeptKnows
    <2>11. ASSUME ~r.moved PROVE e \in D
      <3>1. Object(e)[1] = e.kind /\ Object(e)[2] = e.name
        BY DEF Object
      <3>2. Goal(o)' = Goal(o) /\ (e.kind = "function" => Cached(e.name, Tag(e.name))')
        BY <1>1, <2>4, <2>11 DEF Goal, Tag, Cached
      <3>3. held'[h][o] = Goal(o)'
        BY <2>6, <2>11, <3>2
      <3>4. Right(t, o)'
        BY <3>1, <3>2, <3>3 DEF Right
      <3>5. Right(t, Object(e))'
        BY <3>4 DEF Object
      <3>6. e \in ProperItems /\ DoneItem(t, e)'
        BY <2>2, <2>3, <3>5 DEF ProperItems, DoneItem
      <3> QED BY <3>6 DEF DoneItems
    <2>12. Knows(Stepped(r), t, D, C, yaml, login)
      BY <2>2, <2>3, <2>10, <2>11, SteppedKnows
    <2>13. /\ Stepped(r).phase \in {"idle", "check", "look", "do"}
           /\ Stepped(r).phase = "look" => Stepped(r).todo[1].kind # "function"
      BY <2>2, SteppedShape
    <2> QED BY <1>1, <2>1, <2>12, <2>13, ChangedAware DEF WorkInv
  <1> QED BY <1>2, <1>3 DEF Write, Accepts

\* What the provers need of an item in hand that is worked on outside a look.
LEMMA DoingIs ==
  ASSUME HomeInv, WorkInv, NEW t \in Terminals, run[t].phase = "do"
  PROVE  /\ ~Idle(t) /\ Based(run[t], t, login) /\ Core(run[t]) /\ Busy(run[t])
         /\ run[t].opt \in Commands
         /\ Now(t) = run[t].todo[1] /\ Now(t) \in ItemSet
         /\ Now(t).op # "disable" => Object(Now(t)) \in Objects
         /\ Now(t).op = "deploy" => /\ run[t].opt.cmd = "apply" /\ ~run[t].trial /\ run[t].conf
                                    /\ Now(t) = Item("deploy", "pipeline", Now(t).name)
                                    /\ Now(t).name \in Pipelines
                                    /\ Elements(run[t].todo) = {Now(t)}
         /\ Now(t).op \in {"delete", "disable"} =>
              run[t].opt.cmd = "destroy" /\ ~run[t].trial /\ ~run[t].ask
         /\ Now(t).op = "disable" => Elements(run[t].todo) = {Now(t)} /\ run[t].left = <<>>
  <1> PICK e : e = Now(t)
    OBVIOUS
  <1> PICK r : r = run[t]
    OBVIOUS
  <1>1. ~Idle(t)
    BY DEF Idle
  <1>2. /\ Based(r, t, login) /\ Core(r) /\ Busy(r) /\ e = r.todo[1] /\ e \in ItemSet
        /\ e.op \in OpsOf(r) /\ (e.op # "disable" => Object(e) \in Objects) /\ Proper(r.todo, OpsOf(r))
    BY <1>1, InHandIs
  <1>3. r.opt \in Commands /\ (r.trial \/ r.ask => r.opt.cmd = "apply")
    BY <1>2 DEF Based, Core
  <1>4. e.op = "deploy" => r.opt.cmd = "apply" /\ ~r.trial
    BY <1>2 DEF OpsOf, CmdOps
  <1>5. e.op \in {"delete", "disable"} => r.opt.cmd = "destroy" /\ ~r.trial /\ ~r.ask
    BY <1>2, <1>3 DEF OpsOf, CmdOps
  <1>6. /\ e.op = "deploy" => e.kind = "pipeline"
        /\ e.op \in {"deploy", "disable"} => Elements(r.todo) = {e}
    <2> PICK s : s = r.todo
      OBVIOUS
    <2> PICK ops : ops = OpsOf(r)
      OBVIOUS
    <2>1. Proper(s, ops) /\ e = s[1]
      BY <1>2
    <2>2. /\ s[1].op = "deploy" => s[1].kind = "pipeline"
          /\ s[1].op \in {"deploy", "disable"} => Len(s) = 1
      BY <2>1, ProperFirst
    <2>3. Len(s) = 1 => Elements(s) = {s[1]}
      BY DEF Elements
    <2> QED BY <2>1, <2>2, <2>3
  <1>7. e.op = "deploy" => e = Item("deploy", "pipeline", e.name)
    BY <1>2, <1>6 DEF ItemSet, Item
  <1>8. e.op = "deploy" => e.name \in Pipelines
    BY <1>2, <1>6 DEF Object, Objects
  <1>9. e.op = "deploy" => r.conf
    <2>1. RunOK(r, t, login)
      BY DEF HomeInv
    <2>2. Chained(r.todo, r.conf)
      BY <1>1, <2>1 DEF RunOK, InHand, Idle
    <2>3. 1 \in 1..Len(r.todo)
      BY <1>2, ProperFirst
    <2> QED BY <1>2, <2>2, <2>3 DEF Chained
  <1>10. e.op = "disable" => r.left = <<>>
    BY <1>2 DEF Busy
  <1> QED BY <1>1, <1>2, <1>3, <1>4, <1>5, <1>6, <1>7, <1>8, <1>9, <1>10

LEMMA DeployAware ==
  ASSUME HomeInv, WorkInv, NEW t \in Terminals, Aware(t), Deploy(t)
  PROVE  Aware(t)'
  <1> PICK r : r = run[t]
    OBVIOUS
  <1> PICK e : e = Now(t)
    OBVIOUS
  <1> PICK h : h = TenantOf[t]
    OBVIOUS
  <1> PICK p : p = e.name
    OBVIOUS
  <1>1. /\ r.phase = "do" /\ e.op = "deploy" /\ yaml' = yaml /\ source' = source /\ registry' = registry
        /\ login' = login /\ held' = held
    BY DEF Deploy, Doing, AtPhase
  <1>2. CASE Fail(t)
    <2>1. run'[t] = NoRun
      BY <1>2 DEF Fail, HomeInv
    <2> QED BY <2>1, LostAware
  <1>3. CASE /\ running' = [running EXCEPT ![login][p] = [o \in ObjectsOf(p) |-> held[login][o]]]
             /\ run' = Moved(t, Stepped(run[t]))
    <2>1. run'[t] = Stepped(r)
      BY <1>3 DEF Moved
    <2>2. /\ Based(r, t, login) /\ Core(r) /\ Busy(r) /\ e = r.todo[1] /\ e \in ItemSet
          /\ r.opt \in Commands /\ r.opt.cmd = "apply" /\ ~r.trial /\ r.conf
          /\ e = Item("deploy", "pipeline", p) /\ p \in Pipelines /\ Elements(r.todo) = {e}
          /\ Object(e) \in Objects
      BY <1>1, DoingIs
    <2>3. Knows(r, t, DoneItems(t), Due(t), yaml, login)
      BY DEF Aware
    <2>4. r.phase # "idle"
      BY <1>1
    <2>5. ~r.moved => login = h
      BY <2>2, <2>3, <2>4 DEF Knows
    <2>6. h \in Tenants /\ DOMAIN running[h] = Pipelines /\ DOMAIN running = Tenants
      BY StageBConstants DEF WorkInv, WorldTyped, HomeInv
    <2>7. ASSUME ~r.moved
          PROVE  /\ running'[h][p] = [o \in ObjectsOf(p) |-> held[h][o]]
                 /\ \A x \in Pipelines : x # p => running'[h][x] = running[h][x]
      BY <1>3, <2>2, <2>5, <2>6, <2>7
    <2>8. \A o : Right(t, o)' <=> Right(t, o)
      BY <1>1 DEF Right, Goal, Tag, Cached
    <2> PICK D : D = DoneItems(t)'
      OBVIOUS
    <2> PICK C : C = Due(t)'
      OBVIOUS
    <2>9. ASSUME ~r.moved, Bound(r.opt, t, login), NEW x \in Elements(r.opt.targets), NEW d \in Task(r.opt, x),
                 d \in DoneItems(t)
          PROVE  d \in D
      <3>1. x \in Pipelines
        BY <2>2, <2>9, TargetsPipelines
      <3>2. d \in Each("ensure", x) \/ d = Item("deploy", "pipeline", x)
        BY <2>2, <2>9, <3>1, TaskIs
      <3>3. d \in ProperItems /\ DoneItem(t, d)
        BY <2>9 DEF DoneItems
      <3>4. CASE d \in Each("ensure", x)
        <4>1. d.op = "ensure"
          BY <3>1, <3>4, EachObject
        <4>2. Right(t, Object(d))
          BY <3>3, <4>1 DEF DoneItem
        <4>3. Right(t, Object(d))'
          BY <2>8, <4>2 DEF Object
        <4>4. DoneItem(t, d)'
          BY <4>1, <4>3 DEF DoneItem
        <4> QED BY <3>3, <4>4 DEF DoneItems
      <3>5. CASE d = Item("deploy", "pipeline", x)
        <4>1. d.op = "deploy" /\ d.name = x
          BY <3>5 DEF Item
        <4>2. /\ \A o \in ObjectsOf(x) : Right(t, o)
              /\ running[h][x] = [o \in ObjectsOf(x) |-> held[h][o]]
          BY <3>3, <4>1 DEF DoneItem
        <4>3. running'[h][x] = [o \in ObjectsOf(x) |-> held[h][o]]
          BY <2>7, <2>9, <3>1, <4>2
        <4>4. DoneItem(t, d)'
          BY <1>1, <2>8, <4>1, <4>2, <4>3 DEF DoneItem
        <4> QED BY <3>3, <4>4 DEF DoneItems
      <3> QED BY <3>2, <3>4, <3>5
    <2>10. C = Due(t)
      BY <1>1 DEF Due, Goal, Tag
    <2>11. Knows(r, t, D, C, yaml, login)
      BY <2>3, <2>9, <2>10, KeptKnows
    <2>12. ASSUME ~r.moved, Bound(r.opt, t, login), NEW x \in Elements(r.opt.targets), e \in Task(r.opt, x)
           PROVE  e \in D \/ x \in Elements(r.left) \/ x \in r.refused
      <3>1. x \in Pipelines
        BY <2>2, <2>12, TargetsPipelines
      <3>2. x = p
        <4>1. e \in Each("ensure", x) \/ e = Item("deploy", "pipeline", x)
          BY <2>2, <2>12, <3>1, TaskIs
        <4>2. e \notin Each("ensure", x)
          BY <1>1, <3>1, EachObject
        <4>3. Item("deploy", "pipeline", x).name = x
          BY DEF Item
        <4> QED BY <4>1, <4>2, <4>3
      <3>3. Settled(r, x, DoneItems(t) \union {e})
        <4>1. Provided(r, x, DoneItems(t))
          BY <2>3, <2>4, <2>12 DEF Knows, Owes
        <4> QED BY <2>2, <4>1 DEF Provided
      <3>4. ASSUME Task(r.opt, x) \subseteq DoneItems(t) \union {e} PROVE e \in D
        <4>1. Each("ensure", x) \subseteq DoneItems(t)
          <5>1. Each("ensure", x) \subseteq Task(r.opt, x)
            BY <2>2, <3>1, TaskIs
          <5>2. e \notin Each("ensure", x)
            BY <1>1, <3>1, EachObject
          <5> QED BY <3>4, <5>1, <5>2
        <4>2. ASSUME NEW o \in ObjectsOf(p) PROVE Right(t, o)'
          <5>1. PICK d \in Each("ensure", x) : Object(d) = o
            BY <3>1, <3>2, EachObject
          <5>2. d.op = "ensure" /\ DoneItem(t, d)
            BY <3>1, <4>1, <5>1, EachObject DEF DoneItems
          <5>3. Right(t, o)
            BY <5>1, <5>2 DEF DoneItem
          <5> QED BY <2>8, <5>3
        <4>3. running'[h][p] = [o \in ObjectsOf(p) |-> held'[h][o]]
          BY <1>1, <2>7, <2>12
        <4>4. DoneItem(t, e)'
          BY <1>1, <4>2, <4>3 DEF DoneItem
        <4> QED BY <1>1, <2>2, <4>4 DEF DoneItems, ProperItems
      <3> QED BY <3>3, <3>4 DEF Settled
    <2>13. Knows(Stepped(r), t, D, C, yaml, login)
      BY <1>1, <2>2, <2>11, <2>12, SteppedKnows
    <2>14. /\ Stepped(r).phase \in {"idle", "check", "look", "do"}
           /\ Stepped(r).phase = "look" => Stepped(r).todo[1].kind # "function"
      BY <2>2, SteppedShape
    <2> QED BY <1>1, <2>1, <2>13, <2>14, ChangedAware DEF WorkInv
  <1> QED BY <1>2, <1>3 DEF Deploy

LEMMA DeleteAware ==
  ASSUME HomeInv, WorkInv, NEW t \in Terminals, Aware(t), Delete(t)
  PROVE  Aware(t)'
  <1> PICK r : r = run[t]
    OBVIOUS
  <1> PICK e : e = Now(t)
    OBVIOUS
  <1> PICK o : o = Object(e)
    OBVIOUS
  <1> PICK h : h = TenantOf[t]
    OBVIOUS
  <1>1. /\ r.phase = "do" /\ e.op = "delete" /\ yaml' = yaml /\ source' = source /\ registry' = registry
        /\ login' = login
    BY DEF Delete, Doing, AtPhase
  <1>2. /\ Based(r, t, login) /\ Core(r) /\ Busy(r) /\ e = r.todo[1] /\ e \in ItemSet
        /\ r.opt \in Commands /\ r.opt.cmd = "destroy" /\ ~r.trial /\ ~r.ask /\ o \in Objects
    BY <1>1, DoingIs
  <1>3. Knows(r, t, DoneItems(t), Due(t), yaml, login)
    BY DEF Aware
  <1>4. /\ Stepped(r).phase \in {"idle", "check", "look", "do"}
        /\ Stepped(r).phase = "look" => Stepped(r).todo[1].kind # "function"
    BY <1>2, SteppedShape
  <1>5. CASE Fail(t)
    <2>1. run'[t] = NoRun
      BY <1>5 DEF Fail, HomeInv
    <2> QED BY <2>1, LostAware
  <1>6. CASE r.opt.dry /\ Step(t) /\ UNCHANGED <<held, running>>
    <2>1. run'[t] = Stepped(r)
      BY <1>6 DEF Step, HomeInv
    <2>2. ~Bound(r.opt, t, login)
      BY <1>6 DEF Bound
    <2>3. Knows(Stepped(r), t, DoneItems(t), Due(t), yaml, login)
      BY <1>1, <1>2, <1>3, <2>2, SteppedKnows
    <2>4. Midway(Stepped(r), held[TenantOf[t]], Tags, Stored)
      BY <1>4, FreshMidway
    <2>5. Still
      BY <1>1, <1>6 DEF Still, Cached
    <2> QED BY <1>1, <2>1, <2>3, <2>4, <2>5, StillAware DEF WorkInv
  <1>7. CASE held' = [held EXCEPT ![login][o] = None] /\ run' = Moved(t, Stepped(run[t]))
    <2>1. run'[t] = Stepped(r)
      BY <1>7 DEF Moved
    <2>2. h \in Tenants /\ DOMAIN held[h] = Objects /\ DOMAIN held = Tenants
      BY StageBConstants DEF WorkInv, WorldTyped, HomeInv
    <2>3. ASSUME login = h
          PROVE  /\ held'[h][o] = None
                 /\ \A x \in Objects : held'[h][x] = None \/ held'[h][x] = held[h][x]
      BY <1>2, <1>7, <2>2, <2>3
    <2> PICK D : D = DoneItems(t)'
      OBVIOUS
    <2> PICK C : C = Due(t)'
      OBVIOUS
    <2>4. ASSUME Bound(r.opt, t, login), NEW p \in Elements(r.opt.targets), NEW d \in Task(r.opt, p),
                 d \in DoneItems(t)
          PROVE  d \in D
      <3>1. p \in Pipelines /\ login = h
        BY <1>2, <2>4, TargetsPipelines DEF Bound
      <3>2. d.op = "delete"
        BY <1>2, <2>4, <3>1, TaskIs
      <3>3. d \in ProperItems /\ held[h][Object(d)] = None
        BY <2>4, <3>2 DEF DoneItems, DoneItem
      <3>4. Object(d) \in Objects
        BY <3>2, <3>3 DEF ProperItems
      <3>5. held'[h][Object(d)] = None
        BY <2>3, <3>1, <3>3, <3>4
      <3>6. DoneItem(t, d)'
        BY <3>2, <3>5 DEF DoneItem, Object
      <3> QED BY <3>3, <3>6 DEF DoneItems
    <2>5. Foresees(r, C)
      BY <1>2 DEF Foresees
    <2>6. Knows(r, t, D, C, yaml, login)
      BY <1>3, <2>4, <2>5, KeptKnows
    <2>7. ASSUME Bound(r.opt, t, login) PROVE e \in D
      <3>1. login = h
        BY <1>2, <2>7 DEF Bound
      <3>2. held'[h][Object(e)] = None
        BY <2>3, <3>1
      <3>3. DoneItem(t, e)'
        BY <1>1, <3>2 DEF DoneItem, Object
      <3> QED BY <1>1, <1>2, <3>3 DEF DoneItems, ProperItems
    <2>8. Knows(Stepped(r), t, D, C, yaml, login)
      BY <1>1, <1>2, <2>6, <2>7, SteppedKnows
    <2> QED BY <1>1, <1>4, <2>1, <2>8, ChangedAware DEF WorkInv
  <1> QED BY <1>5, <1>6, <1>7 DEF Delete

LEMMA DisableAware ==
  ASSUME HomeInv, WorkInv, NEW t \in Terminals, Aware(t), DisableEngine(t)
  PROVE  Aware(t)'
  <1> PICK r : r = run[t]
    OBVIOUS
  <1> PICK e : e = Now(t)
    OBVIOUS
  <1>1. r.phase = "do" /\ e.op = "disable" /\ Still /\ login' = login
    BY DEF DisableEngine, Doing, AtPhase, Still, Cached
  <1>2. /\ Based(r, t, login) /\ Core(r) /\ Busy(r) /\ e = r.todo[1]
        /\ r.opt \in Commands /\ r.opt.cmd = "destroy" /\ ~r.trial
    BY <1>1, DoingIs
  <1>3. Knows(r, t, DoneItems(t), Due(t), yaml, login)
    BY DEF Aware
  <1>4. ASSUME NEW p \in Elements(r.opt.targets) PROVE e \notin Task(r.opt, p)
    <2>1. p \in Pipelines
      BY <1>2, TargetsPipelines
    <2>2. \A d \in Task(r.opt, p) : d.op = "delete"
      BY <1>2, <2>1, TaskIs
    <2> QED BY <1>1, <2>2
  <1>5. Knows(Stepped(r), t, DoneItems(t), Due(t), yaml, login)
    BY <1>1, <1>2, <1>3, <1>4, SteppedKnows
  <1>6. Midway(Stepped(r), held[TenantOf[t]], Tags, Stored)
    BY <1>2, SteppedShape, FreshMidway
  <1>7. run'[t] = Stepped(r)
    BY DEF DisableEngine, Step, HomeInv
  <1> QED BY <1>1, <1>5, <1>6, <1>7, StillAware DEF WorkInv

LEMMA AnswerAware ==
  ASSUME HomeInv, WorkInv, NEW t \in Terminals, Aware(t), NEW answer, Answer(t, answer)
  PROVE  Aware(t)'
  <1> PICK r : r = run[t]
    OBVIOUS
  <1> PICK p : p = Now(t).name
    OBVIOUS
  <1> PICK D : D = DoneItems(t)
    OBVIOUS
  <1> PICK C : C = Due(t)
    OBVIOUS
  <1>1. /\ ~Idle(t) /\ p \in Pipelines /\ r.trial /\ Elements(r.todo) = {Ask(p)} /\ r.phase = "do"
        /\ r.opt.cmd = "apply"
    BY AnswerIs
  <1>2. Based(r, t, login) /\ Core(r) /\ Busy(r) /\ r.opt \in Commands
    BY <1>1, InHandIs DEF Based
  <1>3. Knows(r, t, D, C, yaml, login)
    BY DEF Aware
  <1>4. ASSUME ~r.moved, Bound(r.opt, t, login), NEW x \in Elements(r.opt.targets), x # p
        PROVE  Settled(r, x, D)
    <2>1. Provided(r, x, D)
      BY <1>1, <1>3, <1>4 DEF Knows, Owes
    <2>2. Ask(x).name = x /\ Ask(p).name = p
      BY DEF Ask, Item
    <2>3. Settled(r, x, D \union {})
      BY <1>1, <1>4, <2>1, <2>2 DEF Provided
    <2> QED BY <2>3 DEF Settled
  <1>5. Still /\ login' = login
    BY DEF Answer, remote, Still, Cached
  <1>6. ASSUME NEW q, Refusing(q, r, p), run'[t] = NextTarget(q)
        PROVE  Aware(t)'
    <2>1. Based(q, t, login) /\ q.opt = r.opt /\ q.moved = r.moved
      BY <1>2, <1>6 DEF Refusing, Based
    <2>2. Core(q) /\ ~q.ok
      BY <1>1, <1>2, <1>6 DEF Refusing, Core, Busy
    <2>3. ~q.moved => /\ q.want = yaml
                      /\ q.conf /\ q.opt.cmd # "apply" => login = TenantOf[t]
                      /\ Bound(q.opt, t, login) =>
                           \A x \in Elements(q.opt.targets) : Settled(q, x, D)
      <3>1. ASSUME ~q.moved, Bound(q.opt, t, login), NEW x \in Elements(q.opt.targets)
            PROVE  Settled(q, x, D)
        <4>1. x = p \/ Settled(r, x, D)
          BY <1>4, <2>1, <3>1
        <4> QED BY <1>6, <4>1 DEF Settled, Refusing
      <3>2. ~q.moved => q.want = yaml
        BY <1>1, <1>3, <1>6, <2>1 DEF Knows, Refusing
      <3> QED BY <1>1, <2>1, <3>1, <3>2
    <2>4. Knows(NextTarget(q), t, D, C, yaml, login)
      BY <2>1, <2>2, <2>3, NextTargetKnows
    <2>5. Midway(NextTarget(q), held[TenantOf[t]], Tags, Stored)
      BY <2>1, <2>2, NextTargetShape, FreshMidway
    <2> QED BY <1>5, <1>6, <2>4, <2>5, StillAware DEF WorkInv
  <1>7. ASSUME NEW q, Going(q, r), run'[t] = Begin(q, Target(r.opt, p))
        PROVE  Aware(t)'
    <2> DEFINE s == Target(r.opt, p)
               b == Begin(q, s)
    <2>1. /\ DOMAIN q = Fields /\ q.opt = r.opt /\ q.left = r.left /\ ~q.trial /\ ~q.ok
          /\ q.moved = r.moved /\ q.blind = r.blind /\ ~q.conf /\ q.want = r.want
          /\ q.shown = r.shown /\ q.refused = r.refused /\ (q.ask => r.ask)
      BY <1>2, <1>7 DEF Going, Busy
    <2>2. Core(q)
      BY <1>1, <1>2, <2>1 DEF Core
    <2>3. p # Disable /\ p \in TargetSet(r.opt)
      BY <1>1, StageBConstants DEF TargetSet
    <2>4. Proper(s, CmdOps(r.opt)) /\ s[1].op # "disable"
      BY <1>2, <2>3, TargetProper
    <2>5. Elements(s) = Task(r.opt, p)
      BY DEF Task
    <2> HIDE DEF s
    <2>6. OpsOf(q) = CmdOps(r.opt)
      BY <2>1 DEF OpsOf
    <2>7. /\ b.phase \in {"check", "look", "do"} /\ (b.phase = "look" => s[1].kind # "function")
      BY <2>1, <2>2, <2>4, <2>6, BeginShape
    <2>8. Begun(b, q, s)
      BY <2>1, BeginFields
    <2> HIDE DEF b
    <2>9. /\ b.opt = r.opt /\ b.left = r.left /\ ~b.trial /\ b.todo = s /\ b.moved = r.moved
          /\ b.blind = r.blind /\ ~b.conf /\ b.want = r.want /\ b.shown = r.shown
          /\ b.refused = r.refused /\ (b.ask => r.ask)
      BY <2>1, <2>8 DEF Begun
    <2>10. ASSUME ~r.moved, Bound(r.opt, t, login) PROVE Owes(b, D)
      <3> SUFFICES ASSUME NEW x \in Elements(r.opt.targets) PROVE Provided(b, x, D)
        BY <2>9 DEF Owes
      <3>1. CASE x = p
        <4>1. Task(b.opt, x) \subseteq D \union Elements(b.todo)
          BY <2>5, <2>9, <3>1
        <4> QED BY <2>9, <4>1 DEF Provided, Settled
      <3>2. CASE x # p
        <4>1. Settled(r, x, D)
          BY <1>4, <2>10, <3>2
        <4> QED BY <2>9, <4>1 DEF Provided, Settled
      <3> QED BY <3>1, <3>2
    <2>11. ASSUME ~r.moved, ~r.blind PROVE Foresees(b, C)
      <3> SUFFICES ASSUME NEW d \in Elements(s), d.op = "ensure"
                   PROVE  <<Object(d), C[Object(d)]>> \in r.shown
        BY <2>9 DEF Foresees
      <3>1. d \in Each("ensure", p)
        <4>1. d \in Each("ensure", p) \/ d = Item("deploy", "pipeline", p)
          BY <1>1, <1>2, <2>5, TaskIs
        <4>2. Item("deploy", "pipeline", p).op = "deploy"
          BY DEF Item
        <4> QED BY <4>1, <4>2
      <3>2. Foresees(r, C)
        BY <1>1, <1>3, <2>11 DEF Knows
      <3>3. Ask(p) \in Elements(r.todo)
        BY <1>1
      <3>4. d \in Elements(r.todo) \/ <<Object(d), C[Object(d)]>> \in r.shown
        BY <1>1, <3>1, <3>2, <3>3 DEF Foresees
      <3>5. d # Ask(p)
        BY DEF Ask, Item
      <3> QED BY <1>1, <3>4, <3>5
    <2>12. Knows(b, t, D, C, yaml, login)
      BY <1>1, <1>3, <2>9, <2>10, <2>11 DEF Knows
    <2>13. Midway(b, held[TenantOf[t]], Tags, Stored)
      BY <2>7, <2>9, FreshMidway
    <2>14. b = run'[t]
      BY <1>7 DEF b, s
    <2> QED BY <1>5, <2>12, <2>13, <2>14, StillAware DEF WorkInv
  <1>8. \/ \E q : Refusing(q, r, p) /\ run'[t] = NextTarget(q)
        \/ \E q : Going(q, r) /\ run'[t] = Begin(q, Target(r.opt, p))
    BY AnswerIs
  <1> QED BY <1>6, <1>7, <1>8

LEMMA StepKeepsAware ==
  ASSUME HomeInv, WorkInv, AwareInv, [Next]_vars
  PROVE  AwareInv'
  <1> SUFFICES ASSUME NEW s \in Terminals PROVE Aware(s)'
    BY DEF AwareInv
  <1>1. Aware(s) /\ WorldTyped
    BY DEF AwareInv, WorkInv
  <1>2. CASE UNCHANGED vars
    <2>1. Still /\ login' = login /\ run' = run
      BY <1>2 DEF vars, remote, Still, Cached
    <2>2. Follows(run'[s], run[s])
      BY <2>1 DEF Follows, Alike
    <2> QED BY <1>1, <2>1, <2>2, LeftAware
  <1>3. ASSUME NEW t \in Terminals, (\E o \in Options[t] : Start(t, o)) \/ Stop(t)
        PROVE  Aware(s)'
    <2>1. CASE s = t
      BY <1>3, <2>1, StartAware, StopAware
    <2>2. CASE s # t
      BY <1>1, <1>3, <2>2, OthersStartOrStop
    <2> QED BY <2>1, <2>2
  <1>4. ASSUME NEW t \in Terminals, Work(t) PROVE Aware(s)'
    <2>1. CASE s # t
      BY <1>1, <1>4, <2>1, OthersWork
    <2>2. CASE s = t
      <3>1. CASE Configure(s)
        BY <1>1, <3>1, ConfigureAware
      <3>2. CASE Look(s)
        BY <1>1, <3>2, LookAware
      <3>3. CASE Check(s)
        BY <1>1, <3>3, CheckAware
      <3>4. CASE Build(s) \/ DockerTag(s)
        BY <1>1, <3>4, BuildTagAware
      <3>5. CASE Push(s)
        BY <1>1, <3>5, PushAware
      <3>6. CASE Write(s)
        BY <1>1, <3>6, WriteAware
      <3>7. CASE Deploy(s)
        BY <1>1, <3>7, DeployAware
      <3>8. CASE Delete(s)
        BY <1>1, <3>8, DeleteAware
      <3>9. CASE DisableEngine(s)
        BY <1>1, <3>9, DisableAware
      <3>10. CASE \E a \in {"yes", "no", "continue"} : Answer(s, a)
        BY <1>1, <3>10, AnswerAware
      <3> QED BY <1>4, <2>2, <3>1, <3>2, <3>3, <3>4, <3>5, <3>6, <3>7, <3>8, <3>9, <3>10
              DEF Work
    <2> QED BY <2>1, <2>2
  <1>5. CASE \/ EditYaml
             \/ \E f \in Functions : EditSource(f)
             \/ \E ten \in Tenants, o \in Objects : \E v \in {None, 0} : Outside(ten, o, v)
    BY <1>5, WorldAware
  <1> QED BY <1>2, <1>3, <1>4, <1>5 DEF Next

LEMMA AwareInvariant == Spec => [](HomeInv /\ WorkInv /\ AwareInv)
  <1>1. Init => AwareInv
    <2> SUFFICES ASSUME Init, NEW t \in Terminals PROVE Aware(t)
      BY DEF AwareInv
    <2>1. run[t] = NoRun
      BY DEF Init
    <2>2. Knows(run[t], t, DoneItems(t), Due(t), yaml, login)
      BY <2>1, NothingKnown
    <2>3. Midway(run[t], held[TenantOf[t]], Tags, Stored)
      BY <2>1, NothingKnown
    <2> QED BY <2>2, <2>3 DEF Aware
  <1>2. HomeInv /\ WorkInv /\ AwareInv /\ [Next]_vars => AwareInv'
    BY StepKeepsAware
  <1> QED BY <1>1, <1>2, WorkInvariant, PTL DEF Spec

-----------------------------------------------------------------------------
(* What an exit with 0 means                                               *)

\* A run that is over, with nothing refused, has done the work for each target.
LEMMA OverIsDone ==
  ASSUME HomeInv, WorkInv, AwareInv, NEW t \in Terminals, Idle(t), run[t].ok, ~run[t].moved,
         Bound(run[t].opt, t, login), run[t].refused = {}, NEW p \in Elements(run[t].opt.targets)
  PROVE  Task(run[t].opt, p) \subseteq DoneItems(t)
  <1> PICK r : r = run[t]
    OBVIOUS
  <1>1. Shape(r) /\ r.phase = "idle"
    BY DEF WorkInv, WorkOK, Idle
  <1>2. r.left = <<>> /\ r.todo = <<>> /\ ~r.trial
    BY <1>1 DEF Shape
  <1>3. Elements(r.left) = {} /\ Elements(r.todo) = {}
    BY <1>2, ElementsOfOne
  <1>4. Provided(r, p, DoneItems(t))
    BY DEF AwareInv, Aware, Knows, Owes
  <1> QED BY <1>2, <1>3, <1>4 DEF Provided, Settled

\* An apply that exits with 0 has brought every trigger, function, pipeline and
\* deployment of its YAML to what the YAML says, with the images in the
\* registry, in whatever order other terminals log in, build, push and change
\* other tenants, and although a listing that fails passes for an empty one,
\* unless somebody changed what this run reads since it began.
THEOREM AppliesDeliver == Spec => []ApplyDelivers
  <1>1. HomeInv /\ WorkInv /\ AwareInv => ApplyDelivers
    <2> SUFFICES ASSUME HomeInv, WorkInv, AwareInv, NEW t \in Terminals,
                        Exited(t, "apply"), run[t].opt.deploy, run[t].opt.targets = PipelinesOf[t],
                        run[t].refused = {}, ~run[t].moved
                 PROVE  InPlace(t) /\ \A p \in Among(Pipelines, PipelinesOf[t]) :
                          \A f \in Among(Functions, FunctionsOf[p]) : Cached(f, Tag(f))
      BY DEF ApplyDelivers
    <2> PICK o : o = run[t].opt
      OBVIOUS
    <2>1. Idle(t) /\ run[t].ok /\ o.cmd = "apply" /\ ~o.dry /\ Bound(o, t, login)
      BY DEF Exited, Bound
    <2>2. o \in Commands
      BY DEF HomeInv, RunOK, Based
    <2>3. ASSUME NEW p \in Among(Pipelines, PipelinesOf[t])
          PROVE  /\ \A x \in ObjectsOf(p) : Right(t, x)
                 /\ running[TenantOf[t]][p] = [x \in ObjectsOf(p) |-> held[TenantOf[t]][x]]
      <3>1. p \in Pipelines /\ p \in Elements(o.targets)
        BY DEF Among, Elements
      <3>2. Task(o, p) \subseteq DoneItems(t)
        BY <2>1, <3>1, OverIsDone
      <3> DEFINE d == Item("deploy", "pipeline", p)
      <3>3. d \in Task(o, p)
        BY <2>1, <2>2, <3>1, TaskIs
      <3>4. d.op = "deploy" /\ d.name = p
        BY DEF Item
      <3> HIDE DEF d
      <3>5. DoneItem(t, d)
        BY <3>2, <3>3 DEF DoneItems
      <3> QED BY <3>4, <3>5 DEF DoneItem
    <2>4. InPlace(t)
      BY <2>3 DEF InPlace, Right, Goal
    <2>5. ASSUME NEW p \in Among(Pipelines, PipelinesOf[t]), NEW f \in Among(Functions, FunctionsOf[p])
          PROVE  Cached(f, Tag(f))
      <3>1. <<"function", f>> \in ObjectsOf(p)
        BY DEF ObjectsOf
      <3>2. Right(t, <<"function", f>>)
        BY <2>3, <3>1
      <3> QED BY <3>2 DEF Right
    <2> QED BY <2>4, <2>5
  <1> QED BY <1>1, AwareInvariant, PTL

\* A destroy that exits with 0, or is about to switch DataEngine off, has deleted
\* all that its pipelines list, if the machine is logged in to the tenant of its
\* YAML and nobody changed what it reads meanwhile.
THEOREM DestroysDone == Spec => []DestroyDone
  <1>1. HomeInv /\ WorkInv /\ AwareInv => DestroyDone
    <2> SUFFICES ASSUME HomeInv, WorkInv, AwareInv, NEW t \in Terminals,
                        Exited(t, "destroy") \/ (Doing(t, "disable") /\ ~run[t].opt.dry),
                        ~run[t].moved, login = TenantOf[t],
                        NEW p \in Among(Pipelines, run[t].opt.targets), NEW x \in ObjectsOf(p)
                 PROVE  held[TenantOf[t]][x] = None
      BY DEF DestroyDone, Torn
    <2> PICK r : r = run[t]
      OBVIOUS
    <2>1. p \in Pipelines /\ p \in Elements(r.opt.targets)
      BY DEF Among, Elements
    <2>2. Core(r) /\ r.opt \in Commands
      BY DEF WorkInv, WorkOK, Shape, HomeInv, RunOK, Based
    <2>3. Each("delete", p) \subseteq DoneItems(t)
      <3>1. CASE Exited(t, "destroy")
        <4>1. Idle(t) /\ r.ok /\ r.opt.cmd = "destroy" /\ Bound(r.opt, t, login)
          BY <3>1 DEF Exited, Bound
        <4>2. r.refused = {}
          BY <2>2, <4>1 DEF Core
        <4> QED BY <2>1, <2>2, <4>1, <4>2, OverIsDone, TaskIs
      <3>2. CASE Doing(t, "disable") /\ ~r.opt.dry
        <4> PICK e : e = Now(t)
          OBVIOUS
        <4>1. r.phase = "do" /\ e.op = "disable"
          BY <3>2 DEF Doing, AtPhase
        <4>2. r.opt.cmd = "destroy" /\ ~r.trial /\ Elements(r.todo) = {e} /\ r.left = <<>>
          BY <4>1, DoingIs
        <4>3. r.refused = {} /\ Elements(r.left) = {} /\ Bound(r.opt, t, login)
          BY <2>2, <3>2, <4>2, ElementsOfOne DEF Core, Bound
        <4>4. Provided(r, p, DoneItems(t))
          BY <2>1, <4>1, <4>3 DEF AwareInv, Aware, Knows, Owes
        <4>5. Task(r.opt, p) \subseteq DoneItems(t) \union {e}
          BY <4>2, <4>3, <4>4 DEF Provided, Settled
        <4>6. Task(r.opt, p) = Each("delete", p) /\ e \notin Each("delete", p)
          BY <2>1, <2>2, <4>1, <4>2, TaskIs
        <4> QED BY <4>5, <4>6
      <3> QED BY <3>1, <3>2
    <2>4. PICK d \in Each("delete", p) : Object(d) = x
      BY <2>1, EachObject
    <2>5. d.op = "delete" /\ DoneItem(t, d)
      BY <2>1, <2>3, <2>4, EachObject DEF DoneItems
    <2> QED BY <2>4, <2>5 DEF DoneItem
  <1> QED BY <1>1, AwareInvariant, PTL

\* What an interactive apply writes after "yes" is what its preview showed for
\* that object, although the plan is made anew, unless somebody changed what the
\* run reads in between or a listing failed.
THEOREM ShownThenDone == Spec => []ShownIsDone
  <1>1. HomeInv /\ WorkInv /\ AwareInv => ShownIsDone
    <2> SUFFICES ASSUME HomeInv, WorkInv, AwareInv, NEW t \in Terminals,
                        AtPhase(t, "write"), run[t].ask, ~run[t].moved, ~run[t].blind
                 PROVE  <<Object(Now(t)), Change(run[t].seen, Wanted(run[t], Now(t)))>> \in run[t].shown
      BY DEF ShownIsDone
    <2> PICK r : r = run[t]
      OBVIOUS
    <2> PICK e : e = Now(t)
      OBVIOUS
    <2>1. r.phase = "write" /\ ~Idle(t)
      BY DEF AtPhase
    <2>2. /\ Busy(r) /\ Placed(r) /\ Proper(r.todo, OpsOf(r)) /\ e = r.todo[1]
      BY <2>1, InHandIs
    <2>3. e \in Elements(r.todo) /\ Object(e) \in Objects
      BY <2>1, <2>2, ProperFirst, LookingIs
    <2>4. ~r.trial /\ e.op = "ensure" /\ Change(r.seen, Wanted(r, e)) # "none"
      BY <2>1, <2>2 DEF Busy, Placed, Dry
    <2>5. Aware(t)
      BY DEF AwareInv
    <2>6. Foresees(r, Due(t)) /\ r.seen = held[TenantOf[t]][Object(e)]
      BY <2>1, <2>2, <2>5 DEF Aware, Knows, Midway
    <2>7. Wanted(r, e) = Goal(Object(e))
      BY <2>1, <2>5, WantedIsGoal
    <2>8. Due(t)[Object(e)] = Change(r.seen, Wanted(r, e))
      BY <2>3, <2>6, <2>7 DEF Due
    <2> QED BY <2>3, <2>4, <2>6, <2>8 DEF Foresees
  <1> QED BY <1>1, AwareInvariant, PTL
=============================================================================
