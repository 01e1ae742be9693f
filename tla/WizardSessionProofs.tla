------------------------ MODULE WizardSessionProofs ------------------------
(***************************************************************************)
(* What the wizard writes loads, what it refuses has a cause, and the      *)
(* models find the cycles: proofs about WizardSession, for any names,      *)
(* references, numbers and answers, and any bounds on the lists.           *)
(***************************************************************************)
EXTENDS WizardSessionProperties, FiniteSetTheorems, SequenceTheorems, WellFoundedInduction, TLAPS

Composes(c) ==
  c = [vms |-> c.vms, enablement |-> c.enablement, cluster |-> c.cluster, pipelines |-> c.pipelines]

\* The stages after the first section.
Later == {"kubernetes", "registry", "broker", "identity", "pipelines", "write", "written", "invalid"}

\* What is composed keeps its shape, its `vms` section names a token or a user
\* and a password, and what is to be written has been found valid.
WInv ==
  /\ Composes(config)
  /\ stage = "vms" => config = Empty
  /\ stage \in Later => config.vms \in ByToken \union ByPassword
  /\ stage \in {"write", "written"} => Valid(WithPlaceholders(config))
  /\ stage = "invalid" => ~Valid(WithPlaceholders(config))
  /\ stage = "written" => file = config

-----------------------------------------------------------------------------
(* The sections                                                            *)

LEMMA EmptyComposes == Composes(Empty)
  BY DEF Composes, Empty

LEMMA AskKeeps == ASSUME WInv, Ask PROVE WInv'
  <1>1. ASSUME NEW credentials \in ByToken \union ByPassword, NEW enablement,
               VmsSection(credentials, enablement)
        PROVE  WInv'
    <2>1. stage' = "kubernetes" /\ config = Empty
      BY <1>1 DEF VmsSection, WInv
    <2> DEFINE e == IF enablement THEN {[kubernetes |-> Absent]} ELSE {}
    <2>2. config' = [vms |-> credentials, enablement |-> e, cluster |-> Absent, pipelines |-> <<>>]
      BY <1>1, <2>1 DEF VmsSection, Empty
    <2> HIDE DEF e
    <2>3. Composes(config') /\ config'.vms = credentials
      BY <2>2 DEF Composes
    <2> QED BY <1>1, <2>1, <2>3 DEF WInv
  <1>2. ASSUME Composes(config'), config'.vms = config.vms, stage \in Later \ {"write", "written", "invalid"},
               stage' \in Later \ {"write", "written", "invalid"}
        PROVE  WInv'
    BY <1>2 DEF WInv, Later
  <1>3. ASSUME NEW field, NEW value, config' = With(field, value)
        PROVE  Composes(config') /\ config'.vms = config.vms
    BY <1>3 DEF With, WInv, Composes
  <1>4. ASSUME NEW name, KubernetesSection(name) PROVE WInv'
    <2>1. Composes(config') /\ config'.vms = config.vms
      BY <1>4 DEF KubernetesSection, WInv, Composes
    <2> QED BY <1>2, <1>4, <2>1 DEF KubernetesSection, Later
  <1>5. ASSUME NEW method, NEW text, RegistrySection(method, text) PROVE WInv'
    BY <1>2, <1>3, <1>5 DEF RegistrySection, Later
  <1>6. ASSUME NEW kind, NEW partitions, NEW retention, NEW ip_range, NEW port,
               BrokerSection(kind, partitions, retention, ip_range, port)
        PROVE  WInv'
    BY <1>2, <1>3, <1>6 DEF BrokerSection, Later
  <1>7. ASSUME NEW policy, NEW gid, IdentitySection(policy, gid) PROVE WInv'
    BY <1>2, <1>3, <1>7 DEF IdentitySection, Later
  <1>8. ASSUME NEW triggers, NEW functions, NEW flow, NEW schedule,
               PipelineSection(triggers, functions, flow, schedule)
        PROVE  WInv'
    <2>1. Composes(config') /\ config'.vms = config.vms
      BY <1>8 DEF PipelineSection, WInv, Composes
    <2> QED BY <1>2, <1>8, <2>1 DEF PipelineSection, Later
  <1> QED BY <1>1, <1>4, <1>5, <1>6, <1>7, <1>8 DEF Ask

LEMMA WizardStep == ASSUME WInv, [Next]_vars PROVE WInv'
  <1>1. CASE \E answers_file, tty, opt_out \in BOOLEAN : Start(answers_file, tty, opt_out)
    <2>1. config' = Empty /\ stage' \in {"vms", "refused"}
      BY <1>1 DEF Start
    <2> QED BY <2>1, EmptyComposes DEF WInv, Later
  <1>2. CASE Ask
    BY <1>2, AskKeeps
  <1>3. CASE Abort
    BY <1>3 DEF Abort, WInv, Later
  <1>4. CASE Composed
    <2>1. stage = "pipelines" /\ UNCHANGED <<config, file>>
          /\ \/ stage' = "write" /\ Valid(WithPlaceholders(config))
             \/ stage' = "invalid" /\ ~Valid(WithPlaceholders(config))
      BY <1>4 DEF Composed
    <2>2. (Valid(WithPlaceholders(config)))' <=> Valid(WithPlaceholders(config))
      BY <2>1
    <2> QED BY <2>1, <2>2 DEF WInv, Later
  <1>5. CASE Write
    <2>1. (Valid(WithPlaceholders(config)))' <=> Valid(WithPlaceholders(config))
      BY <1>5 DEF Write
    <2> QED BY <1>5, <2>1 DEF Write, WInv, Later
  <1>6. CASE UNCHANGED vars
    <2>1. (Valid(WithPlaceholders(config)))' <=> Valid(WithPlaceholders(config))
      BY <1>6 DEF vars
    <2> QED BY <1>6, <2>1 DEF vars, WInv
  <1> QED BY <1>1, <1>2, <1>3, <1>4, <1>5, <1>6 DEF Next

-----------------------------------------------------------------------------
(* Kahn's algorithm                                                        *)

\* Induction over numbers: what fails somewhere fails somewhere first.
LEMMA LeastNumber ==
  ASSUME NEW T, T \subseteq Nat, T # {}
  PROVE  \E x \in T : \A y \in T : x <= y
  <1> DEFINE R == StrictSubsetOrdering(Nat)
             U == {1..x : x \in T}
  <1>1. U \subseteq FiniteSubsetsOf(Nat)
    BY FS_Interval DEF FiniteSubsetsOf
  <1>2. PICK u \in U : \A v \in U : <<v, u>> \notin R
    <2>1. IsWellFoundedOn(R, FiniteSubsetsOf(Nat))
      BY FS_StrictSubsetOrderingWellFounded
    <2>2. U # {}
      OBVIOUS
    <2> HIDE DEF R, U
    <2> QED BY <1>1, <2>1, <2>2, WFMin
  <1>3. PICK x \in T : u = 1..x
    OBVIOUS
  <1>4. ASSUME NEW y \in T, y < x PROVE FALSE
    <2>1. 1..y \in U /\ 1..y \subseteq 1..x /\ x \in 1..x /\ x \notin 1..y
      BY <1>4
    <2>2. <<1..y, u>> \in R
      BY <1>3, <2>1 DEF StrictSubsetOrdering
    <2> QED BY <1>2, <2>1, <2>2
  <1> QED BY <1>4

\* One turn, if there is one, and what so many of them reach.
Turn(p, s) == IF s.queue = {} THEN s ELSE Popped(p, s)
Reached(p, g, m) == g = [n \in 0..m |-> IF n = 0 THEN KahnStart(p) ELSE Turn(p, g[n - 1])]

\* The recursion has a solution, whatever the pipeline.
LEMMA ReachedUpTo == ASSUME NEW p, NEW m \in Nat PROVE \E g : Reached(p, g, m)
  <1> DEFINE T == {k \in Nat : ~ \E g : Reached(p, g, k)}
  <1>1. SUFFICES ASSUME T # {} PROVE FALSE
    OBVIOUS
  <1>2. PICK x \in T : \A y \in T : x <= y
    BY <1>1, LeastNumber
  <1>3. CASE x = 0
    <2> DEFINE g == [n \in 0..0 |-> KahnStart(p)]
    <2>1. Reached(p, g, 0)
      BY DEF Reached
    <2> QED BY <1>2, <1>3, <2>1
  <1>4. CASE x # 0
    <2>1. x - 1 \in Nat /\ x - 1 \notin T
      BY <1>2, <1>4
    <2>2. PICK g : Reached(p, g, x - 1)
      BY <2>1
    <2> DEFINE h == [n \in 0..x |-> IF n = x THEN Turn(p, g[x - 1]) ELSE g[n]]
    <2>3. \A n \in 0..x : h[n] = IF n = x THEN Turn(p, g[x - 1]) ELSE g[n]
      OBVIOUS
    <2>4. \A n \in 0..(x - 1) : g[n] = IF n = 0 THEN KahnStart(p) ELSE Turn(p, g[n - 1])
      BY <2>2 DEF Reached
    <2>5. ASSUME NEW n \in 0..x
          PROVE  h[n] = IF n = 0 THEN KahnStart(p) ELSE Turn(p, h[n - 1])
      <3>1. CASE n = x
        <4>1. h[n - 1] = g[x - 1]
          BY <2>1, <2>3, <3>1, <1>4
        <4> QED BY <2>3, <3>1, <4>1, <1>4
      <3>2. CASE n # x
        <4>1. n \in 0..(x - 1)
          BY <1>2, <3>2
        <4>2. n # 0 => n - 1 \in 0..x /\ n - 1 # x /\ h[n - 1] = g[n - 1]
          BY <2>3, <4>1, <1>2
        <4> HIDE DEF h
        <4> QED BY <2>3, <2>4, <3>2, <4>1, <4>2
      <3> QED BY <3>1, <3>2
    <2>6. h = [n \in 0..x |-> h[n]]
      OBVIOUS
    <2> HIDE DEF h
    <2>7. Reached(p, h, x)
      BY <2>5, <2>6 DEF Reached
    <2> QED BY <1>2, <2>7
  <1> QED BY <1>3, <1>4

LEMMA KahnTurns ==
  ASSUME NEW p, Cardinality(ToSet(p.functions)) \in Nat
  PROVE  /\ KahnAfter(p)[0] = KahnStart(p)
         /\ \A n \in 1..Cardinality(ToSet(p.functions)) :
              KahnAfter(p)[n] = Turn(p, KahnAfter(p)[n - 1])
  <1> DEFINE N == Cardinality(ToSet(p.functions))
             t == KahnAfter(p)
  <1>1. PICK g : Reached(p, g, N)
    BY ReachedUpTo
  <1>2. t = CHOOSE turn : turn = [n \in 0..N |->
              IF n = 0 THEN KahnStart(p)
              ELSE IF turn[n - 1].queue = {} THEN turn[n - 1] ELSE Popped(p, turn[n - 1])]
    BY DEF KahnAfter
  <1>3. Reached(p, t, N)
    BY <1>1, <1>2 DEF Reached, Turn
  <1> HIDE DEF t
  <1>4. \A n \in 0..N : t[n] = IF n = 0 THEN KahnStart(p) ELSE Turn(p, t[n - 1])
    BY <1>3 DEF Reached
  <1> HIDE DEF N
  <1>5. N \in Nat
    BY DEF N
  <1>6. t[0] = KahnStart(p) /\ \A n \in 1..N : t[n] = Turn(p, t[n - 1])
    BY <1>4, <1>5
  <1> QED BY <1>6 DEF t, N

\* A pipeline whose edges refer to what there is.
Referring(p) ==
  /\ IsFiniteSet(ToSet(p.functions)) /\ Len(p.flow) \in Nat
  /\ \A i \in Inner(p) : p.flow[i].to \in ToSet(p.functions)

\* The edges to f that the loop has not yet taken away.
Left(p, done, f) == {i \in Inner(p) : p.flow[i].to = f /\ p.flow[i].from \notin done}

\* A rank that the edges among these functions follow.
Ranks(p, done, rank) ==
  \A i \in Inner(p) : p.flow[i].to \in done =>
    /\ p.flow[i].from \in done
    /\ rank[p.flow[i].from] < rank[p.flow[i].to]

\* After k turns that took the functions `done`.
KahnInv(p, s, k, done, rank) ==
  LET functions == ToSet(p.functions) IN
  /\ done \subseteq functions /\ Cardinality(done) = s.visited
  /\ s.queue = {} \/ s.visited = k
  /\ s.indeg = [f \in functions |-> Cardinality(Left(p, done, f))]
  /\ s.queue = {f \in functions \ done : Left(p, done, f) = {}}
  /\ rank \in [functions -> 1..Cardinality(functions)]
  /\ \A f \in done : rank[f] <= s.visited
  /\ Ranks(p, done, rank)

LEMMA InnerFinite ==
  ASSUME NEW p, Referring(p), NEW S \in SUBSET Inner(p)
  PROVE  IsFiniteSet(S) /\ Cardinality(S) \in Nat /\ (Cardinality(S) = 0 <=> S = {})
  <1>1. IsFiniteSet(1..Len(p.flow)) /\ S \in SUBSET (1..Len(p.flow))
    BY FS_Interval DEF Referring, Inner
  <1>2. IsFiniteSet(S)
    BY <1>1, FS_Subset
  <1> QED BY <1>2, FS_CardinalityType, FS_EmptySet

\* To take a function is to take away its edges.
LEMMA OneTaken ==
  ASSUME NEW p, Referring(p), NEW done, NEW n \in ToSet(p.functions) \ done, NEW f
  PROVE  Cardinality(Left(p, done \union {n}, f)) =
           Cardinality(Left(p, done, f)) - Between(p, n, f)
  <1> DEFINE S == Left(p, done, f)
             T == {i \in Inner(p) : p.flow[i].from = n /\ p.flow[i].to = f}
  <1>1. S \in SUBSET Inner(p) /\ T \in SUBSET Inner(p) /\ T \subseteq S
        /\ Left(p, done \union {n}, f) = S \ T /\ S \cap T = T
    BY DEF Left
  <1>2. IsFiniteSet(S) /\ Cardinality(S) \in Nat /\ Cardinality(T) \in Nat
    BY <1>1, InnerFinite
  <1>3. Between(p, n, f) = Cardinality(T)
    BY DEF Between
  <1> HIDE DEF S, T
  <1>4. Cardinality(S \ T) = Cardinality(S) - Cardinality(S \cap T)
    BY <1>2, FS_Difference
  <1> QED BY <1>1, <1>3, <1>4 DEF S

LEMMA KahnBegins ==
  ASSUME NEW p, Referring(p), ToSet(p.functions) # {}
  PROVE  \E rank : KahnInv(p, KahnStart(p), 0, {}, rank)
  <1> DEFINE F == ToSet(p.functions)
             rank == [f \in F |-> 1]
             s == KahnStart(p)
             indeg == [f \in F |-> Incoming(p, f)]
  <1>1. s = [queue |-> {f \in F : indeg[f] = 0}, indeg |-> indeg, visited |-> 0]
    BY DEF KahnStart
  <1>2. \A f \in F : Incoming(p, f) = Cardinality(Left(p, {}, f))
    BY DEF Incoming, Left
  <1>3. \A f \in F : Left(p, {}, f) \in SUBSET Inner(p)
    BY DEF Left
  <1>4. \A f \in F : indeg[f] = 0 <=> Left(p, {}, f) = {}
    BY <1>2, <1>3, InnerFinite
  <1>5. Cardinality(F) \in Nat \ {0} /\ Cardinality({}) = 0
    BY FS_EmptySet, FS_CardinalityType DEF Referring
  <1>6. rank \in [F -> 1..Cardinality(F)]
    BY <1>5
  <1>7. indeg = [f \in F |-> Cardinality(Left(p, {}, f))]
    BY <1>2
  <1>8. Ranks(p, {}, rank)
    BY DEF Ranks
  <1> HIDE DEF indeg, rank
  <1>9. s.queue = {f \in F : indeg[f] = 0} /\ s.indeg = indeg /\ s.visited = 0
    BY <1>1
  <1> HIDE DEF s
  <1>10. s.queue = {f \in F \ {} : Left(p, {}, f) = {}}
    BY <1>4, <1>9
  <1>11. KahnInv(p, s, 0, {}, rank)
    BY <1>5, <1>6, <1>7, <1>8, <1>9, <1>10 DEF KahnInv
  <1> QED BY <1>11 DEF s

LEMMA KahnTurn ==
  ASSUME NEW p, Referring(p), NEW s, NEW k \in Nat, k < Cardinality(ToSet(p.functions)),
         NEW done, NEW rank, KahnInv(p, s, k, done, rank)
  PROVE  \E d, r : KahnInv(p, Turn(p, s), k + 1, d, r)
  <1> DEFINE F == ToSet(p.functions)
  <1>1. CASE s.queue = {}
    BY <1>1 DEF Turn, KahnInv
  <1>2. CASE s.queue # {}
    <2> DEFINE n == CHOOSE f \in s.queue : TRUE
               d == done \union {n}
               r == [rank EXCEPT ![n] = k + 1]
               t == Popped(p, s)
               indeg == [f \in DOMAIN s.indeg |-> s.indeg[f] - Between(p, n, f)]
    <2>1. n \in s.queue
      BY <1>2
    <2>2. /\ t.queue = (s.queue \ {n}) \union {f \in DOMAIN indeg : indeg[f] = 0 /\ s.indeg[f] # 0}
          /\ t.indeg = indeg /\ t.visited = s.visited + 1
      BY DEF Popped
    <2>3. Turn(p, s) = t
      BY <1>2 DEF Turn
    <2> HIDE DEF t
    <2>4. n \in F \ done /\ Left(p, done, n) = {}
      BY <2>1 DEF KahnInv
    <2>5. /\ DOMAIN s.indeg = F
          /\ \A f \in F : s.indeg[f] = Cardinality(Left(p, done, f))
      BY DEF KahnInv
    <2> HIDE DEF n
    <2>6. indeg = [f \in F |-> Cardinality(Left(p, d, f))]
      BY <2>4, <2>5, OneTaken
    <2>7. \A f \in F : /\ indeg[f] = 0 <=> Left(p, d, f) = {}
                       /\ s.indeg[f] = 0 <=> Left(p, done, f) = {}
      <3>1. \A f \in F : Left(p, d, f) \in SUBSET Inner(p) /\ Left(p, done, f) \in SUBSET Inner(p)
        BY DEF Left
      <3> QED BY <2>5, <2>6, <3>1, InnerFinite
    <2>8. \A f \in F : Left(p, d, f) \subseteq Left(p, done, f)
      BY DEF Left
    <2>9. \A f \in done : Left(p, done, f) = {}
      BY DEF KahnInv, Ranks, Left
    <2>10. t.queue = {f \in F \ d : Left(p, d, f) = {}}
      <3>1. s.queue = {f \in F \ done : Left(p, done, f) = {}}
        BY DEF KahnInv
      <3>2. DOMAIN indeg = F
        BY <2>5
      <3>3. ASSUME NEW f PROVE f \in t.queue <=> f \in F \ d /\ Left(p, d, f) = {}
        <4>1. CASE f \in F
          <5>1. f \in t.queue <=> \/ f # n /\ f \notin done /\ Left(p, done, f) = {}
                                  \/ Left(p, d, f) = {} /\ Left(p, done, f) # {}
            BY <2>2, <2>7, <3>1, <3>2, <4>1
          <5> QED BY <5>1, <2>4, <2>8, <2>9, <4>1
        <4>2. CASE f \notin F
          BY <2>2, <3>1, <3>2, <4>2
        <4> QED BY <4>1, <4>2
      <3> QED BY <3>3
    <2> HIDE DEF indeg
    <2>11. s.visited = k
      BY <1>2 DEF KahnInv
    <2>12. Cardinality(d) = k + 1 /\ d \subseteq F
      <3>1. IsFiniteSet(done) /\ Cardinality(done) = k
        BY <2>11, FS_Subset DEF KahnInv, Referring
      <3> QED BY <2>4, <3>1, FS_AddElement DEF KahnInv
    <2>13. Cardinality(F) \in Nat
      BY FS_CardinalityType DEF Referring
    <2>14. r \in [F -> 1..Cardinality(F)] /\ \A f \in F : r[f] = IF f = n THEN k + 1 ELSE rank[f]
      BY <2>4, <2>13 DEF KahnInv
    <2> HIDE DEF r
    <2>15. \A f \in d : r[f] <= k + 1
      <3>1. \A f \in done : f \in F /\ rank[f] <= k /\ rank[f] \in 1..Cardinality(F)
        BY <2>11 DEF KahnInv
      <3>2. \A f \in d : f \in F /\ (f # n => rank[f] <= k /\ rank[f] \in Int)
        BY <2>4, <3>1
      <3> QED BY <2>14, <3>2
    <2>16. Ranks(p, d, r)
      <3> SUFFICES ASSUME NEW i \in Inner(p), p.flow[i].to \in d
                   PROVE  p.flow[i].from \in d /\ r[p.flow[i].from] < r[p.flow[i].to]
        BY DEF Ranks
      <3>1. CASE p.flow[i].to = n
        <4>1. p.flow[i].from \in done
          BY <2>4, <3>1 DEF Left
        <4>2. rank[p.flow[i].from] <= k /\ rank[p.flow[i].from] \in Nat
          BY <2>11, <2>13, <4>1 DEF KahnInv
        <4> QED BY <2>4, <2>14, <3>1, <4>1, <4>2 DEF KahnInv
      <3>2. CASE p.flow[i].to # n
        <4>1. p.flow[i].to \in done /\ p.flow[i].from \in done
              /\ rank[p.flow[i].from] < rank[p.flow[i].to]
          BY <3>2 DEF KahnInv, Ranks
        <4> QED BY <2>4, <2>14, <4>1 DEF KahnInv
      <3> QED BY <3>1, <3>2
    <2>17. t.visited = k + 1 /\ t.indeg = [f \in F |-> Cardinality(Left(p, d, f))]
      BY <2>2, <2>6, <2>11
    <2>18. KahnInv(p, t, k + 1, d, r)
      BY <2>10, <2>12, <2>14, <2>15, <2>16, <2>17 DEF KahnInv
    <2> QED BY <2>3, <2>18
  <1> QED BY <1>1, <1>2

\* By induction over the turns.
LEMMA KahnReaches ==
  ASSUME NEW p, Referring(p), ToSet(p.functions) # {}, NEW k \in 0..Cardinality(ToSet(p.functions))
  PROVE  \E d, r : KahnInv(p, KahnAfter(p)[k], k, d, r)
  <1> DEFINE N == Cardinality(ToSet(p.functions))
             T == {n \in 0..N : ~ \E d, r : KahnInv(p, KahnAfter(p)[n], n, d, r)}
  <1>0. N \in Nat
    BY FS_CardinalityType DEF Referring
  <1>1. SUFFICES ASSUME T # {} PROVE FALSE
    OBVIOUS
  <1>2. PICK x \in T : \A y \in T : x <= y
    <2> HIDE DEF T
    <2>1. T \subseteq Nat
      BY <1>0 DEF T
    <2> QED BY <1>1, <2>1, LeastNumber
  <1>3. x # 0
    BY KahnBegins, KahnTurns, <1>0
  <1>4. x \in 1..N /\ x - 1 \in 0..N /\ x - 1 \notin T /\ x - 1 \in Nat /\ x - 1 < N
    BY <1>0, <1>2, <1>3
  <1>5. PICK d, r : KahnInv(p, KahnAfter(p)[x - 1], x - 1, d, r)
    BY <1>4
  <1>6. KahnAfter(p)[x] = Turn(p, KahnAfter(p)[x - 1])
    BY <1>0, <1>4, KahnTurns
  <1>7. \E e, q : KahnInv(p, KahnAfter(p)[x], (x - 1) + 1, e, q)
    BY <1>4, <1>5, <1>6, KahnTurn
  <1> QED BY <1>2, <1>4, <1>7

\* No function is taken twice, so that as many turns as there are functions are
\* all that the loop has.
LEMMA KahnEnds ==
  ASSUME NEW p, Referring(p)
  PROVE  KahnAfter(p)[Cardinality(ToSet(p.functions))].queue = {}
  <1> DEFINE F == ToSet(p.functions)
             N == Cardinality(F)
             s == KahnAfter(p)[N]
  <1>1. N \in Nat /\ (N = 0 <=> F = {})
    BY FS_CardinalityType, FS_EmptySet DEF Referring
  <1>2. CASE F = {}
    <2>1. s = KahnStart(p)
      BY <1>1, <1>2, KahnTurns
    <2> QED BY <1>2, <2>1 DEF KahnStart
  <1>3. CASE F # {}
    <2> HIDE DEF s
    <2>1. PICK done, rank : KahnInv(p, s, N, done, rank)
      BY <1>1, <1>3, KahnReaches DEF s
    <2>2. done \subseteq F /\ Cardinality(done) = s.visited
      BY <2>1 DEF KahnInv
    <2>3. s.visited = N => done = F
      BY <2>2, FS_Subset DEF Referring
    <2>4. s.queue = {} \/ s.visited = N
      BY <2>1 DEF KahnInv
    <2>5. s.queue = {f \in F \ done : Left(p, done, f) = {}}
      BY <2>1 DEF KahnInv
    <2> QED BY <2>3, <2>4, <2>5 DEF s
  <1> QED BY <1>2, <1>3

\* The loop visits all functions exactly if they can be put in an order.
LEMMA KahnIsRight ==
  ASSUME NEW p, Referring(p)
  PROVE  Kahn(p) <=> Orderable(p)
  <1> DEFINE F == ToSet(p.functions)
             N == Cardinality(F)
             s == KahnAfter(p)[N]
  <1>1. N \in Nat /\ (N = 0 <=> F = {})
    BY FS_CardinalityType, FS_EmptySet DEF Referring
  <1>2. Kahn(p) <=> s.visited = N
    BY DEF Kahn
  <1>3. CASE F = {}
    <2>1. s = KahnStart(p)
      BY <1>1, <1>3, KahnTurns
    <2>2. s.visited = 0
      BY <2>1 DEF KahnStart
    <2>3. Inner(p) = {}
      BY <1>3 DEF Inner
    <2>4. Orderable(p)
      <3> DEFINE q == [f \in F |-> 1]
      <3>1. q \in [F -> 1..N]
        BY <1>3
      <3> QED BY <2>3, <3>1 DEF Orderable
    <2> QED BY <1>1, <1>2, <1>3, <2>2, <2>4
  <1>4. CASE F # {}
    <2> HIDE DEF s
    <2>1. PICK done, rank : KahnInv(p, s, N, done, rank)
      BY <1>1, <1>4, KahnReaches DEF s
    <2>2. done \subseteq F /\ Cardinality(done) = s.visited
      BY <2>1 DEF KahnInv
    <2>3. s.visited = N <=> done = F
      BY <2>2, FS_Subset DEF Referring
    <2>4. ASSUME done = F PROVE Orderable(p)
      <3>1. \A i \in Inner(p) : rank[p.flow[i].from] < rank[p.flow[i].to]
        BY <2>1, <2>4 DEF KahnInv, Ranks, Referring
      <3> QED BY <2>1, <3>1 DEF Orderable, KahnInv
    <2>5. ASSUME Orderable(p), done # F PROVE FALSE
      <3>1. PICK q \in [F -> 1..N] : \A i \in Inner(p) : q[p.flow[i].from] < q[p.flow[i].to]
        BY <2>5 DEF Orderable
      <3>2. s.queue = {}
        BY <2>1, <2>3, <2>5 DEF KahnInv
      <3> DEFINE T == {q[f] : f \in F \ done}
      <3>3. T \subseteq Nat /\ T # {}
        BY <2>2, <2>5, <1>1
      <3> HIDE DEF T
      <3>4. PICK m \in T : \A y \in T : m <= y
        BY <3>3, LeastNumber
      <3>5. PICK f \in F \ done : m = q[f]
        BY DEF T
      <3>6. PICK i \in Left(p, done, f) : TRUE
        BY <2>1, <3>2 DEF KahnInv
      <3>7. i \in Inner(p) /\ p.flow[i].from \in F \ done /\ p.flow[i].to = f
        BY DEF Left, Inner
      <3>8. q[p.flow[i].from] < m /\ q[p.flow[i].from] \in T /\ m \in T
        BY <3>1, <3>5, <3>7 DEF T
      <3>9. m \in Nat /\ q[p.flow[i].from] \in Nat
        BY <3>3, <3>8
      <3>10. m <= q[p.flow[i].from]
        BY <3>4, <3>8
      <3> QED BY <3>8, <3>9, <3>10
    <2> QED BY <1>2, <2>3, <2>4, <2>5
  <1> QED BY <1>3, <1>4

LEMMA ReferringIf ==
  ASSUME NEW S, NEW p, p.functions \in Seq(S), Len(p.flow) \in Nat,
         \A n \in 1..Len(p.flow) : RefersTo(p, p.flow[n])
  PROVE  Referring(p)
  <1> DEFINE f == p.functions
             F == ToSet(f)
  <1>1. Len(f) \in Nat /\ DOMAIN f = 1..Len(f)
    BY LenProperties
  <1>2. f \in [1..Len(f) -> F] /\ F = {f[k] : k \in 1..Len(f)}
    BY <1>1, LenProperties DEF ToSet
  <1>3. f \in Surjection(1..Len(f), F)
    BY <1>2 DEF Surjection
  <1>4. IsFiniteSet(1..Len(f))
    BY <1>1, FS_Interval
  <1>5. IsFiniteSet(F)
    BY <1>3, <1>4, FS_Surjection
  <1> QED BY <1>5 DEF Referring, RefersTo, Inner

-----------------------------------------------------------------------------
(* The answers so far                                                      *)

Registries == {Registry(method, text) :
                 method \in {"user_credentials", "kubernetes_secret", "none"}, text \in Texts}
Brokers == [kind : {"vast", "kafka"}, topic : [partitions : Int, retention_hours : Int],
            ip_range : Addresses, port : Int]
Identities == [policy : {"assign_predefined", "custom"}, gid : Int]

\* The pipelines that _build_pipeline may leave.
Edges == [from : Names, to : Names]
Drawn(cluster, by_script) ==
  {p \in [k8s_cluster : {cluster}, triggers : Seq(Names), functions : Seq(Names),
          flow : Seq(Edges), schedule : Texts \union {Absent}] :
     ~by_script => p.flow = ProposedFlow(p.triggers, p.functions)}

\* A Stage A of which so many sections are answered.
Sections == <<"kubernetes", "registry", "broker", "identity">>
Filled(e, n) ==
  /\ DOMAIN e = {Sections[k] : k \in 1..n}
  /\ n >= 1 => e.kubernetes = config.cluster
  /\ n >= 2 => e.registry \in Registries
  /\ n >= 3 => e.broker \in Brokers
  /\ n >= 4 => e.identity \in Identities /\ (~scripted => e.identity.gid >= 1)

\* What is composed so far is what the prompts let through.
AInv ==
  /\ stage \in {"vms", "kubernetes", "registry", "broker", "identity"} => config.pipelines = <<>>
  /\ config.pipelines \in Seq(Drawn(config.cluster, scripted))
  /\ stage = "registry" => \A e \in config.enablement : Filled(e, 1)
  /\ stage = "broker" => \A e \in config.enablement : Filled(e, 2)
  /\ stage = "identity" => \A e \in config.enablement : Filled(e, 3)
  /\ stage \in {"pipelines", "write", "written", "invalid"} =>
       \A e \in config.enablement : Filled(e, 4)

LEMMA SectionNames ==
  /\ {Sections[k] : k \in 1..1} = {"kubernetes"}
  /\ {Sections[k] : k \in 1..2} = {"kubernetes", "registry"}
  /\ {Sections[k] : k \in 1..3} = {"kubernetes", "registry", "broker"}
  /\ {Sections[k] : k \in 1..4} = {"kubernetes", "registry", "broker", "identity"}
  BY DEF Sections

LEMMA WithIs ==
  ASSUME NEW field, NEW value, Composes(config), \A e \in config.enablement : field \notin DOMAIN e
  PROVE  /\ With(field, value).cluster = config.cluster
         /\ With(field, value).pipelines = config.pipelines
         /\ \A w \in With(field, value).enablement : \E e \in config.enablement :
              /\ DOMAIN w = DOMAIN e \union {field}
              /\ w[field] = value
              /\ \A f \in DOMAIN e : w[f] = e[f]
  <1> DEFINE S == {Plus(e, field, value) : e \in config.enablement}
  <1>1. With(field, value) = [vms |-> config.vms, enablement |-> S, cluster |-> config.cluster,
                              pipelines |-> config.pipelines]
    <2>1. With(field, value) = [config EXCEPT !.enablement = S]
      BY DEF With
    <2> HIDE DEF S
    <2> QED BY <2>1 DEF Composes
  <1>2. \A e \in config.enablement :
          /\ DOMAIN Plus(e, field, value) = DOMAIN e \union {field}
          /\ Plus(e, field, value)[field] = value
          /\ \A f \in DOMAIN e : Plus(e, field, value)[f] = e[f]
    BY DEF Plus
  <1>3. \A w \in S : \E e \in config.enablement : w = Plus(e, field, value)
    OBVIOUS
  <1> HIDE DEF S
  <1>4. With(field, value).enablement = S /\ With(field, value).cluster = config.cluster
        /\ With(field, value).pipelines = config.pipelines
    BY <1>1
  <1> QED BY <1>2, <1>3, <1>4

LEMMA RegistryFilled ==
  ASSUME AInv, WInv, NEW method \in {"user_credentials", "kubernetes_secret", "none"},
         NEW text \in Texts, RegistrySection(method, text)
  PROVE  AInv'
  <1>1. /\ stage = "registry" /\ stage' = "broker" /\ scripted' = scripted
        /\ config' = With("registry", Registry(method, text))
    BY DEF RegistrySection
  <1>2. \A e \in config.enablement : DOMAIN e = {"kubernetes"} /\ e.kubernetes = config.cluster
    <2>1. \A e \in config.enablement : Filled(e, 1)
      BY <1>1 DEF AInv
    <2> QED BY <2>1, SectionNames DEF Filled
  <1>3. config'.cluster = config.cluster /\ config'.pipelines = config.pipelines
    BY <1>1, <1>2, WithIs DEF WInv
  <1>4. \A w \in config'.enablement :
          /\ DOMAIN w = {"kubernetes", "registry"}
          /\ w.kubernetes = config.cluster /\ w.registry = Registry(method, text)
    <2> SUFFICES ASSUME NEW w \in config'.enablement
                 PROVE  /\ DOMAIN w = {"kubernetes", "registry"}
                        /\ w.kubernetes = config.cluster /\ w.registry = Registry(method, text)
      OBVIOUS
    <2>1. \A e \in config.enablement : "registry" \notin DOMAIN e
      BY <1>2
    <2>2. PICK e \in config.enablement : /\ DOMAIN w = DOMAIN e \union {"registry"}
                                         /\ w["registry"] = Registry(method, text)
                                         /\ \A f \in DOMAIN e : w[f] = e[f]
      BY <1>1, <2>1, WithIs DEF WInv
    <2> QED BY <1>2, <2>2
  <1>5. (\A e \in config.enablement : Filled(e, 2))'
    BY <1>3, <1>4, SectionNames DEF Filled, Registries
  <1> QED BY <1>1, <1>3, <1>5 DEF AInv

LEMMA BrokerFilled ==
  ASSUME AInv, WInv, NEW kind \in {"vast", "kafka"}, NEW ip_range \in Addresses,
         NEW partitions \in Int, NEW retention \in Int, NEW port \in Int,
         BrokerSection(kind, partitions, retention, ip_range, port)
  PROVE  AInv'
  <1> DEFINE broker == [kind |-> kind,
                        topic |-> [partitions |-> partitions, retention_hours |-> retention],
                        ip_range |-> ip_range, port |-> port]
  <1>1. /\ stage = "broker" /\ stage' = "identity" /\ scripted' = scripted
        /\ config' = With("broker", broker)
    BY DEF BrokerSection
  <1>2. \A e \in config.enablement : /\ DOMAIN e = {"kubernetes", "registry"}
                                    /\ e.kubernetes = config.cluster /\ e.registry \in Registries
    <2>1. \A e \in config.enablement : Filled(e, 2)
      BY <1>1 DEF AInv
    <2> QED BY <2>1, SectionNames DEF Filled
  <1>3. broker \in Brokers
    BY DEF Brokers
  <1> HIDE DEF broker
  <1>4. config'.cluster = config.cluster /\ config'.pipelines = config.pipelines
    BY <1>1, <1>2, WithIs DEF WInv
  <1>5. \A w \in config'.enablement :
          /\ DOMAIN w = {"kubernetes", "registry", "broker"}
          /\ w.kubernetes = config.cluster /\ w.registry \in Registries /\ w.broker = broker
    <2> SUFFICES ASSUME NEW w \in config'.enablement
                 PROVE  /\ DOMAIN w = {"kubernetes", "registry", "broker"}
                        /\ w.kubernetes = config.cluster /\ w.registry \in Registries
                        /\ w.broker = broker
      OBVIOUS
    <2>1. PICK e \in config.enablement : /\ DOMAIN w = DOMAIN e \union {"broker"} /\ w["broker"] = broker
                                         /\ \A f \in DOMAIN e : w[f] = e[f]
      BY <1>1, <1>2, WithIs DEF WInv
    <2> QED BY <1>2, <2>1
  <1>6. (\A e \in config.enablement : Filled(e, 3))'
    BY <1>3, <1>4, <1>5, SectionNames DEF Filled, Registries
  <1> QED BY <1>1, <1>4, <1>6 DEF AInv

LEMMA IdentityFilled ==
  ASSUME AInv, WInv, NEW policy \in {"assign_predefined", "custom"}, NEW gid \in Int,
         IdentitySection(policy, gid)
  PROVE  AInv'
  <1> DEFINE identity == [policy |-> policy, gid |-> gid]
  <1>1. /\ stage = "identity" /\ stage' = "pipelines" /\ scripted' = scripted
        /\ config' = With("identity", identity) /\ (~scripted => gid >= 1)
    BY DEF IdentitySection, Accepted
  <1>2. \A e \in config.enablement :
          /\ DOMAIN e = {"kubernetes", "registry", "broker"} /\ e.kubernetes = config.cluster
          /\ e.registry \in Registries /\ e.broker \in Brokers
    <2>1. \A e \in config.enablement : Filled(e, 3)
      BY <1>1 DEF AInv
    <2> QED BY <2>1, SectionNames DEF Filled
  <1>3. identity \in Identities /\ (~scripted => identity.gid >= 1)
    BY <1>1 DEF Identities
  <1> HIDE DEF identity
  <1>4. config'.cluster = config.cluster /\ config'.pipelines = config.pipelines
    BY <1>1, <1>2, WithIs DEF WInv
  <1>5. \A w \in config'.enablement :
          /\ DOMAIN w = {"kubernetes", "registry", "broker", "identity"}
          /\ w.kubernetes = config.cluster /\ w.registry \in Registries /\ w.broker \in Brokers
          /\ w.identity = identity
    <2> SUFFICES ASSUME NEW w \in config'.enablement
                 PROVE  /\ DOMAIN w = {"kubernetes", "registry", "broker", "identity"}
                        /\ w.kubernetes = config.cluster /\ w.registry \in Registries
                        /\ w.broker \in Brokers /\ w.identity = identity
      OBVIOUS
    <2>1. \A e \in config.enablement : "identity" \notin DOMAIN e
      BY <1>2
    <2>2. PICK e \in config.enablement : /\ DOMAIN w = DOMAIN e \union {"identity"}
                                         /\ w["identity"] = identity
                                         /\ \A f \in DOMAIN e : w[f] = e[f]
      BY <1>1, <2>1, WithIs DEF WInv
    <2>3. DOMAIN w = {"kubernetes", "registry", "broker", "identity"}
      BY <1>2, <2>2
    <2>4. w.kubernetes = e.kubernetes /\ w.registry = e.registry /\ w.broker = e.broker
      BY <1>2, <2>2
    <2> QED BY <1>2, <2>2, <2>3, <2>4
  <1>6. (\A e \in config.enablement : Filled(e, 4))'
    <2>1. Registries' = Registries /\ Brokers' = Brokers /\ Identities' = Identities
      BY DEF Registries, Brokers, Identities
    <2> SUFFICES ASSUME NEW w \in config'.enablement PROVE (Filled(w, 4))'
      OBVIOUS
    <2> QED BY <1>1, <1>3, <1>4, <1>5, <2>1, SectionNames DEF Filled
  <1> QED BY <1>1, <1>4, <1>6 DEF AInv

LEMMA OneMember ==
  ASSUME NEW S, NEW k \in Nat, NEW s \in BoundedSeq(S, k)
  PROVE  s \in Seq(S)
  BY DEF BoundedSeq, SeqOf

LEMMA FlowProposed ==
  ASSUME NEW triggers \in Seq(Names), NEW functions \in Seq(Names)
  PROVE  ProposedFlow(triggers, functions) \in Seq(Edges)
  <1>1. CASE triggers = <<>> \/ functions = <<>>
    BY <1>1 DEF ProposedFlow
  <1>2. CASE ~(triggers = <<>> \/ functions = <<>>)
    <2>1. Len(functions) \in Nat \ {0} /\ Len(triggers) \in Nat
      BY <1>2, EmptySeq, LenProperties
    <2>2. \A a, b \in Names : Edge(a, b) \in Edges
      BY DEF Edge, Edges
    <2>3. ToFirst(triggers, functions) \in Seq(Edges) /\ Chain(functions) \in Seq(Edges)
      <3>1. /\ \A i \in 1..Len(triggers) : triggers[i] \in Names
            /\ \A i \in 1..Len(functions) : functions[i] \in Names
        BY ElementOfSeq
      <3> QED BY <2>1, <2>2, <3>1, IsASeq DEF ToFirst, Chain
    <2>4. ToFirst(triggers, functions) \o Chain(functions) \in Seq(Edges)
      BY <2>3, ConcatProperties
    <2> QED BY <1>2, <2>4 DEF ProposedFlow
  <1> QED BY <1>1, <1>2

LEMMA PipelineFilled ==
  ASSUME AInv, WInv, stage = "pipelines",
         NEW triggers \in BoundedSeq(Names, MaxTriggers),
         NEW functions \in BoundedSeq(Names, MaxFunctions),
         NEW flow \in Flows(triggers, functions), NEW schedule \in Schedules(triggers),
         PipelineSection(triggers, functions, flow, schedule)
  PROVE  AInv'
  <1> DEFINE drawn == Flow(triggers, functions, flow)
             p == [k8s_cluster |-> config.cluster, triggers |-> triggers, functions |-> functions,
                   flow |-> drawn, schedule |-> schedule]
  <1>1. triggers \in Seq(Names) /\ functions \in Seq(Names)
    BY OneMember, WizardAnswers
  <1>2. drawn \in Seq(Edges) /\ (~scripted => drawn = ProposedFlow(triggers, functions))
    <2>1. CASE scripted /\ odd < MaxOdd
      <3>1. flow \in Seq(Edges)
        BY <2>1, OneMember, WizardAnswers DEF Flows, Edges
      <3> QED BY <2>1, <3>1 DEF Flow
    <2>2. CASE ~(scripted /\ odd < MaxOdd)
      BY <1>1, <2>2, FlowProposed DEF Flow, Flows
    <2> QED BY <2>1, <2>2
  <1>3. schedule \in Texts \union {Absent}
    BY DEF Schedules
  <1>4. /\ config' = [vms |-> config.vms, enablement |-> config.enablement,
                      cluster |-> config.cluster, pipelines |-> Append(config.pipelines, p)]
        /\ stage' = stage /\ scripted' = scripted
    BY DEF PipelineSection, WInv, Composes
  <1> HIDE DEF drawn
  <1>5. p \in Drawn(config.cluster, scripted)
    BY <1>1, <1>2, <1>3 DEF Drawn
  <1> HIDE DEF p
  <1>6. /\ config'.enablement = config.enablement /\ config'.cluster = config.cluster
        /\ config'.pipelines = Append(config.pipelines, p)
    BY <1>4
  <1>7. Append(config.pipelines, p) \in Seq(Drawn(config.cluster, scripted))
    BY <1>5, AppendProperties DEF AInv
  <1>8. (config.pipelines \in Seq(Drawn(config.cluster, scripted)))'
    BY <1>4, <1>6, <1>7
  <1>9. (\A e \in config.enablement : Filled(e, 4))'
    BY <1>4, <1>6 DEF AInv, Filled
  <1> QED BY <1>4, <1>8, <1>9 DEF AInv

LEMMA NoPipelines == \A S : <<>> \in Seq(S)
  OBVIOUS

LEMMA AnswersFill == ASSUME AInv, WInv, Ask PROVE AInv'
  <1>1. ASSUME NEW credentials, NEW enablement, VmsSection(credentials, enablement) PROVE AInv'
    <2>1. config'.pipelines = config.pipelines /\ stage = "vms" /\ stage' = "kubernetes"
      BY <1>1 DEF VmsSection, WInv, Composes
    <2> QED BY <2>1, NoPipelines DEF AInv
  <1>2. ASSUME NEW name, KubernetesSection(name) PROVE AInv'
    <2> DEFINE S == {[kubernetes |-> name] : e \in config.enablement}
    <2>1. /\ config' = [vms |-> config.vms, enablement |-> S, cluster |-> name,
                        pipelines |-> config.pipelines]
          /\ stage = "kubernetes"
          /\ stage' = IF config.enablement = {} THEN "pipelines" ELSE "registry"
      BY <1>2 DEF KubernetesSection, WInv, Composes
    <2>2. \A e \in S : DOMAIN e = {"kubernetes"} /\ e.kubernetes = name
      OBVIOUS
    <2>3. config.enablement = {} => S = {}
      OBVIOUS
    <2> HIDE DEF S
    <2>4. config'.enablement = S /\ config'.cluster = name /\ config'.pipelines = <<>>
      BY <2>1 DEF AInv
    <2>5. (\A e \in config.enablement : Filled(e, 1))'
      <3> SUFFICES ASSUME NEW e \in S PROVE (Filled(e, 1))'
        BY <2>4
      <3> QED BY <2>2, <2>4, SectionNames DEF Filled
    <2>6. config.enablement = {} => (\A e \in config.enablement : Filled(e, 4))'
      BY <2>3, <2>4
    <2> QED BY <2>1, <2>4, <2>5, <2>6, NoPipelines DEF AInv
  <1>3. Numbers \union {50} \subseteq Int /\ Numbers \union {168} \subseteq Int
        /\ Numbers \union {9092} \subseteq Int /\ Numbers \union {5000} \subseteq Int
    BY WizardAnswers
  <1> QED BY <1>1, <1>2, <1>3, RegistryFilled, BrokerFilled, IdentityFilled, PipelineFilled DEF Ask

LEMMA AnswersStep == ASSUME AInv, WInv, [Next]_vars PROVE AInv'
  <1>1. CASE \E answers_file, tty, opt_out \in BOOLEAN : Start(answers_file, tty, opt_out)
    <2>1. config' = Empty /\ stage' \in {"vms", "refused"}
      BY <1>1 DEF Start
    <2>2. config'.pipelines = <<>>
      BY <2>1 DEF Empty
    <2> QED BY <2>1, <2>2, NoPipelines DEF AInv
  <1>2. CASE Ask
    BY <1>2, AnswersFill
  <1>3. CASE UNCHANGED <<config, scripted>> /\ stage' \notin Questions
             /\ (stage' \in {"write", "written", "invalid"} => stage \in {"pipelines", "write"})
    BY <1>3 DEF AInv, Filled, Questions
  <1>4. CASE Abort
    BY <1>3, <1>4 DEF Abort, Questions
  <1>5. CASE Composed
    BY <1>3, <1>5 DEF Composed, Questions
  <1>6. CASE Write
    BY <1>3, <1>6 DEF Write, Questions
  <1>7. CASE UNCHANGED vars
    <2>1. UNCHANGED <<stage, scripted, config>>
      BY <1>7 DEF vars
    <2> QED BY <2>1 DEF AInv, Filled
  <1> QED BY <1>1, <1>2, <1>4, <1>5, <1>6, <1>7 DEF Next

LEMMA AnswersHold == Spec => [](WInv /\ AInv)
  <1>1. Init => WInv /\ AInv
    <2>1. Init => config.pipelines = <<>>
      BY DEF Init, Empty
    <2> QED BY <2>1, EmptyComposes, NoPipelines DEF Init, WInv, Later, AInv
  <1>2. (WInv /\ AInv) /\ [Next]_vars => (WInv /\ AInv)'
    BY WizardStep, AnswersStep
  <1> QED BY <1>1, <1>2, PTL DEF Spec

-----------------------------------------------------------------------------
(* Values in the place of variables                                        *)

LEMMA Strings ==
  /\ Absent \notin References /\ Blank \notin References /\ "placeholder" \notin References
  /\ "addresses" \notin References
  /\ ~Given(Blank) /\ ~Given(Absent) /\ Given("placeholder") /\ "placeholder" # "addresses"
  /\ \A t \in References \union Malformed : Given(t)
  BY TextsDiffer DEF Blank, Given

LEMMA HeldIs == \A t : Value(t, AllPlaceholders) = Held(t)
  BY DEF Value, AllPlaceholders, Held

LEMMA InterpolatedFields ==
  ASSUME NEW c, NEW env
  PROVE  LET i == Interpolated(c, env) IN
         /\ i.vms = CredentialsValue(c.vms, env)
         /\ i.enablement = {EnablementValue(e, env) : e \in c.enablement}
         /\ i.pipelines = [k \in 1..Len(c.pipelines) |-> PipelineValue(c.pipelines[k], env)]
  BY DEF Interpolated


LEMMA EndsValue ==
  ASSUME NEW p, NEW env, NEW i \in 1..Len(p.flow)
  PROVE  /\ PipelineValue(p, env).flow[i].from = Value(p.flow[i].from, env)
         /\ PipelineValue(p, env).flow[i].to = Value(p.flow[i].to, env)
  BY DEF PipelineValue, Edge

LEMMA SetsValue ==
  ASSUME NEW p, NEW env, p.triggers \in Seq(Names), p.functions \in Seq(Names), p.flow \in Seq(Edges)
  PROVE  /\ ToSet(PipelineValue(p, env).triggers) = {Value(t, env) : t \in ToSet(p.triggers)}
         /\ ToSet(PipelineValue(p, env).functions) = {Value(f, env) : f \in ToSet(p.functions)}
         /\ Len(PipelineValue(p, env).flow) = Len(p.flow)
  <1> DEFINE t == [i \in 1..Len(p.triggers) |-> Value(p.triggers[i], env)]
             f == [i \in 1..Len(p.functions) |-> Value(p.functions[i], env)]
             w == [i \in 1..Len(p.flow) |->
                     Edge(Value(p.flow[i].from, env), Value(p.flow[i].to, env))]
  <1>1. /\ PipelineValue(p, env).triggers = t /\ PipelineValue(p, env).functions = f
        /\ PipelineValue(p, env).flow = w
    BY DEF PipelineValue
  <1>2. /\ Len(p.triggers) \in Nat /\ Len(p.functions) \in Nat /\ Len(p.flow) \in Nat
        /\ DOMAIN p.triggers = 1..Len(p.triggers) /\ DOMAIN p.functions = 1..Len(p.functions)
    BY LenProperties
  <1>3. Len(w) = Len(p.flow)
    BY <1>2
  <1>4. ToSet(t) = {Value(x, env) : x \in ToSet(p.triggers)}
    <2>1. ToSet(t) = {t[i] : i \in 1..Len(p.triggers)}
      BY DEF ToSet
    <2>2. ToSet(p.triggers) = {p.triggers[i] : i \in 1..Len(p.triggers)}
      BY <1>2 DEF ToSet
    <2> QED BY <2>1, <2>2
  <1>5. ToSet(f) = {Value(x, env) : x \in ToSet(p.functions)}
    <2>1. ToSet(f) = {f[i] : i \in 1..Len(p.functions)}
      BY DEF ToSet
    <2>2. ToSet(p.functions) = {p.functions[i] : i \in 1..Len(p.functions)}
      BY <1>2 DEF ToSet
    <2> QED BY <2>1, <2>2
  <1> HIDE DEF t, f, w
  <1> QED BY <1>1, <1>3, <1>4, <1>5

LEMMA ValuesRefer ==
  ASSUME NEW p, NEW env, p.triggers \in Seq(Names), p.functions \in Seq(Names), p.flow \in Seq(Edges),
         \A i \in 1..Len(p.flow) : RefersTo(PipelineValue(p, env), PipelineValue(p, env).flow[i])
  PROVE  Referring(PipelineValue(p, env))
  <1> DEFINE v == PipelineValue(p, env)
             S == {Value(x, env) : x \in Names}
  <1>1. /\ v.functions = [i \in 1..Len(p.functions) |-> Value(p.functions[i], env)]
        /\ Len(v.flow) = Len(p.flow)
    <2>1. v.functions = [i \in 1..Len(p.functions) |-> Value(p.functions[i], env)]
      BY DEF PipelineValue
    <2>2. Len(v.flow) = Len(p.flow)
      BY SetsValue
    <2> QED BY <2>1, <2>2
  <1>2. Len(p.functions) \in Nat /\ Len(p.flow) \in Nat
        /\ \A i \in 1..Len(p.functions) : p.functions[i] \in Names
    BY LenProperties, ElementOfSeq
  <1>3. v.functions \in Seq(S)
    BY <1>1, <1>2, IsASeq
  <1> HIDE DEF v, S
  <1>4. Referring(v)
    BY <1>1, <1>2, <1>3, ReferringIf DEF v
  <1> QED BY <1>4 DEF v

LEMMA NamesAre ==
  ASSUME NEW p, p.triggers \in Seq(Names), p.functions \in Seq(Names), p.flow \in Seq(Edges)
  PROVE  /\ ToSet(p.triggers) \subseteq NamesIn(p) /\ ToSet(p.functions) \subseteq NamesIn(p)
         /\ \A i \in 1..Len(p.flow) : p.flow[i].from \in NamesIn(p) /\ p.flow[i].to \in NamesIn(p)
  BY DEF NamesIn

\* Where the values fit, an edge that the placeholders let through has the names
\* of the pipeline at its ends.
LEMMA EdgesRefer ==
  ASSUME NEW p, NEW env, p.triggers \in Seq(Names), p.functions \in Seq(Names), p.flow \in Seq(Edges),
         NamesFit(p, env), NEW i \in 1..Len(p.flow),
         RefersTo(PipelineValue(p, AllPlaceholders), PipelineValue(p, AllPlaceholders).flow[i])
  PROVE  RefersTo(p, p.flow[i])
  <1> DEFINE q == PipelineValue(p, AllPlaceholders)
             from == p.flow[i].from
             to == p.flow[i].to
  <1>1. CASE "placeholder" \in {Held(from), Held(to)}
    BY <1>1 DEF NamesFit
  <1>2. CASE "placeholder" \notin {Held(from), Held(to)}
    <2>1. Held(from) = from /\ Held(to) = to /\ from # "placeholder" /\ to # "placeholder"
      BY <1>2 DEF Held
    <2>2. /\ q.flow[i].from = Held(from) /\ q.flow[i].to = Held(to)
          /\ ToSet(q.triggers) = {Held(t) : t \in ToSet(p.triggers)}
          /\ ToSet(q.functions) = {Held(f) : f \in ToSet(p.functions)}
      <3>1. q.flow[i].from = Value(from, AllPlaceholders) /\ q.flow[i].to = Value(to, AllPlaceholders)
        BY EndsValue
      <3>2. /\ ToSet(q.triggers) = {Value(t, AllPlaceholders) : t \in ToSet(p.triggers)}
            /\ ToSet(q.functions) = {Value(f, AllPlaceholders) : f \in ToSet(p.functions)}
        BY SetsValue
      <3> HIDE DEF q, from, to
      <3> QED BY <3>1, <3>2, HeldIs
    <2>3. from \in ToSet(q.triggers) \union ToSet(q.functions) /\ to \in ToSet(q.functions)
      BY <2>1, <2>2 DEF RefersTo
    <2> HIDE DEF q, from, to
    <2>4. \A n : Held(n) # "placeholder" => Held(n) = n
      BY DEF Held
    <2>5. from \in ToSet(p.triggers) \union ToSet(p.functions) /\ to \in ToSet(p.functions)
      BY <2>1, <2>2, <2>3, <2>4
    <2> QED BY <2>5 DEF RefersTo, from, to
  <1> QED BY <1>1, <1>2

\* The functions that the values name are at least as many as the placeholders
\* name, and the edges between them are as many: an order of the placeholders is
\* one of the values.
LEMMA ValuesInOrder ==
  ASSUME NEW p, NEW env, p.triggers \in Seq(Names), p.functions \in Seq(Names), p.flow \in Seq(Edges),
         NamesFit(p, env), \A i \in 1..Len(p.flow) : RefersTo(p, p.flow[i]),
         Orderable(PipelineValue(p, AllPlaceholders))
  PROVE  Orderable(PipelineValue(p, env))
  <1> DEFINE q == PipelineValue(p, AllPlaceholders)
             v == PipelineValue(p, env)
             F == ToSet(p.functions)
             FQ == ToSet(q.functions)
             FV == ToSet(v.functions)
  <1>1. /\ Len(q.flow) = Len(p.flow)
        /\ \A i \in 1..Len(p.flow) : /\ q.flow[i].from = Held(p.flow[i].from)
                                     /\ q.flow[i].to = Held(p.flow[i].to)
        /\ FQ = {Held(f) : f \in F}
    <2>1. \A i \in 1..Len(p.flow) : /\ q.flow[i].from = Value(p.flow[i].from, AllPlaceholders)
                                    /\ q.flow[i].to = Value(p.flow[i].to, AllPlaceholders)
      BY EndsValue
    <2>2. Len(q.flow) = Len(p.flow) /\ FQ = {Value(f, AllPlaceholders) : f \in F}
      BY SetsValue
    <2> HIDE DEF q, F, FQ
    <2> QED BY <2>1, <2>2, HeldIs
  <1>2. /\ Len(v.flow) = Len(p.flow)
        /\ \A i \in 1..Len(p.flow) : /\ v.flow[i].from = Value(p.flow[i].from, env)
                                     /\ v.flow[i].to = Value(p.flow[i].to, env)
        /\ FV = {Value(f, env) : f \in F}
    <2>1. \A i \in 1..Len(p.flow) : /\ v.flow[i].from = Value(p.flow[i].from, env)
                                    /\ v.flow[i].to = Value(p.flow[i].to, env)
      BY EndsValue
    <2>2. Len(v.flow) = Len(p.flow) /\ FV = {Value(f, env) : f \in F}
      BY SetsValue
    <2> HIDE DEF v, F, FV
    <2> QED BY <2>1, <2>2
  <1>3. \A a, b \in NamesIn(p) : Value(a, env) = Value(b, env) => Held(a) = Held(b)
    BY DEF NamesFit
  <1>4. F \subseteq NamesIn(p) /\ \A i \in 1..Len(p.flow) :
          p.flow[i].from \in NamesIn(p) /\ p.flow[i].to \in F
    BY NamesAre DEF RefersTo
  <1>5. PICK rank \in [FQ -> 1..Cardinality(FQ)] :
          \A i \in Inner(q) : rank[q.flow[i].from] < rank[q.flow[i].to]
    BY DEF Orderable
  <1>6. Inner(q) = {i \in 1..Len(q.flow) : q.flow[i].from \in FQ}
        /\ Inner(v) = {i \in 1..Len(v.flow) : v.flow[i].from \in FV}
    BY DEF Inner
  <1>7. IsFiniteSet(F)
    <2>1. Len(p.functions) \in Nat /\ DOMAIN p.functions = 1..Len(p.functions)
          /\ p.functions \in [1..Len(p.functions) -> Names]
      BY LenProperties
    <2>2. F = {p.functions[i] : i \in 1..Len(p.functions)}
      BY <2>1 DEF ToSet
    <2>3. p.functions \in [1..Len(p.functions) -> F]
      BY <2>1, <2>2
    <2> HIDE DEF F
    <2>4. p.functions \in Surjection(1..Len(p.functions), F)
      <3>1. \A y \in F : \E i \in 1..Len(p.functions) : p.functions[i] = y
        BY <2>2
      <3> QED BY <2>3, <3>1 DEF Surjection
    <2>5. IsFiniteSet(1..Len(p.functions))
      BY <2>1, FS_Interval
    <2> QED BY <2>4, <2>5, FS_Surjection
  <1>8. Orderable(v) <=> \E r \in [FV -> 1..Cardinality(FV)] :
                           \A i \in Inner(v) : r[v.flow[i].from] < r[v.flow[i].to]
    BY DEF Orderable
  <1> HIDE DEF q, v, F, FQ, FV
  <1> DEFINE h == [x \in FV |-> Held(CHOOSE f \in F : Value(f, env) = x)]
  <1>9. \A f \in F : Value(f, env) \in FV /\ h[Value(f, env)] = Held(f)
    <2> SUFFICES ASSUME NEW f \in F PROVE Value(f, env) \in FV /\ h[Value(f, env)] = Held(f)
      OBVIOUS
    <2>1. Value(f, env) \in FV
      BY <1>2
    <2> DEFINE g == CHOOSE x \in F : Value(x, env) = Value(f, env)
    <2>2. g \in F /\ Value(g, env) = Value(f, env)
      OBVIOUS
    <2>3. h[Value(f, env)] = Held(g)
      BY <2>1
    <2> HIDE DEF g
    <2> QED BY <1>3, <1>4, <2>1, <2>2, <2>3
  <1>10. h \in [FV -> FQ]
    <2>1. \A x \in FV : \E f \in F : x = Value(f, env)
      BY <1>2
    <2>2. \A x \in FV : h[x] \in FQ
      BY <1>1, <1>9, <2>1
    <2> QED BY <2>2
  <1> HIDE DEF h
  <1>11. Cardinality(FQ) <= Cardinality(FV) /\ Cardinality(FQ) \in Nat /\ Cardinality(FV) \in Nat
    <2>1. h \in Surjection(FV, FQ)
      <3>1. \A y \in FQ : \E x \in FV : h[x] = y
        BY <1>1, <1>9
      <3> QED BY <1>10, <3>1 DEF Surjection
    <2>2. IsFiniteSet(FV)
      <3> DEFINE w == [f \in F |-> Value(f, env)]
      <3>1. w \in Surjection(F, FV)
        BY <1>2 DEF Surjection
      <3> HIDE DEF w
      <3> QED BY <1>7, <3>1, FS_Surjection
    <2> QED BY <2>1, <2>2, FS_Surjection, FS_CardinalityType
  <1> DEFINE r == [x \in FV |-> rank[h[x]]]
  <1>12. r \in [FV -> 1..Cardinality(FV)]
    BY <1>5, <1>10, <1>11
  <1>13. ASSUME NEW i \in Inner(v) PROVE r[v.flow[i].from] < r[v.flow[i].to]
    <2>1. i \in 1..Len(p.flow) /\ v.flow[i].from \in FV
      BY <1>2, <1>6
    <2> DEFINE from == p.flow[i].from
               to == p.flow[i].to
    <2>2. from \in NamesIn(p) /\ to \in F
      BY <1>4, <2>1
    <2>3. v.flow[i].from = Value(from, env) /\ v.flow[i].to = Value(to, env)
          /\ q.flow[i].from = Held(from) /\ q.flow[i].to = Held(to)
      BY <1>1, <1>2, <2>1
    <2> HIDE DEF from, to
    <2>4. PICK f \in F : Value(f, env) = Value(from, env)
      BY <1>2, <2>1, <2>3
    <2>5. Held(f) = Held(from)
      BY <1>3, <1>4, <2>2, <2>4
    <2>6. h[v.flow[i].from] = Held(from) /\ h[v.flow[i].to] = Held(to) /\ v.flow[i].to \in FV
      BY <1>9, <2>2, <2>3, <2>4, <2>5
    <2>7. i \in Inner(q)
      BY <1>1, <1>6, <2>1, <2>3, <2>5
    <2>8. rank[Held(from)] < rank[Held(to)]
      BY <1>5, <2>3, <2>7
    <2> QED BY <2>1, <2>6, <2>8
  <1> HIDE DEF r
  <1>14. Orderable(v)
    BY <1>8, <1>12, <1>13
  <1> QED BY <1>14 DEF v

LEMMA PipelineFits ==
  ASSUME NEW p, NEW env, p.triggers \in Seq(Names), p.functions \in Seq(Names), p.flow \in Seq(Edges),
         NamesFit(p, env), ValidPipeline(PipelineValue(p, AllPlaceholders)),
         p.schedule \in References => Given(env[p.schedule])
  PROVE  ValidPipeline(PipelineValue(p, env))
  <1> DEFINE q == PipelineValue(p, AllPlaceholders)
             v == PipelineValue(p, env)
  <1>1. Len(q.flow) = Len(p.flow) /\ Len(v.flow) = Len(p.flow)
    BY SetsValue
  <1>2. Kahn(q) /\ q.schedule # Blank /\ \A i \in 1..Len(p.flow) : RefersTo(q, q.flow[i])
    BY <1>1 DEF ValidPipeline
  <1>3. \A i \in 1..Len(p.flow) : RefersTo(p, p.flow[i])
    BY <1>2, EdgesRefer
  <1>4. ASSUME NEW i \in 1..Len(p.flow) PROVE RefersTo(v, v.flow[i])
    <2>1. /\ v.flow[i].from = Value(p.flow[i].from, env) /\ v.flow[i].to = Value(p.flow[i].to, env)
          /\ ToSet(v.triggers) = {Value(t, env) : t \in ToSet(p.triggers)}
          /\ ToSet(v.functions) = {Value(f, env) : f \in ToSet(p.functions)}
      <3>1. v.flow[i].from = Value(p.flow[i].from, env) /\ v.flow[i].to = Value(p.flow[i].to, env)
        BY EndsValue
      <3>2. /\ ToSet(v.triggers) = {Value(t, env) : t \in ToSet(p.triggers)}
            /\ ToSet(v.functions) = {Value(f, env) : f \in ToSet(p.functions)}
        BY SetsValue
      <3> HIDE DEF v
      <3> QED BY <3>1, <3>2
    <2>2. p.flow[i].from \in ToSet(p.triggers) \union ToSet(p.functions)
          /\ p.flow[i].to \in ToSet(p.functions)
      BY <1>3 DEF RefersTo
    <2> HIDE DEF v
    <2> QED BY <2>1, <2>2 DEF RefersTo
  <1>5. Orderable(q)
    <2>1. Referring(q)
      BY <1>2, ValuesRefer, Zenon
    <2> HIDE DEF q
    <2> QED BY <1>2, <2>1, KahnIsRight
  <1>6. Orderable(v)
    BY <1>3, <1>5, ValuesInOrder
  <1>7. Referring(v)
    BY <1>4, ValuesRefer, Zenon
  <1>8. v.schedule = Value(p.schedule, env) /\ q.schedule = Value(p.schedule, AllPlaceholders)
    BY DEF PipelineValue
  <1> HIDE DEF q, v
  <1>9. v.schedule # Blank
    BY <1>2, <1>8, Strings DEF Value
  <1>10. Kahn(v)
    BY <1>6, <1>7, KahnIsRight
  <1>11. ValidPipeline(v)
    BY <1>1, <1>4, <1>9, <1>10 DEF ValidPipeline
  <1> QED BY <1>11 DEF v

LEMMA AbsentStays == \A env : Value(Absent, env) = Absent
  BY Strings DEF Value

LEMMA RegistryFits ==
  ASSUME NEW method \in {"user_credentials", "kubernetes_secret", "none"}, NEW text, NEW env
  PROVE  ValidRegistry(RegistryValue(Registry(method, text), env))
           <=> (method = "none" \/ Given(Value(text, env)))
  <1> DEFINE r == RegistryValue(Registry(method, text), env)
  <1>1. /\ r.method = method
        /\ r.username_env = IF method = "user_credentials" THEN Value(text, env) ELSE Absent
        /\ r.password_env = IF method = "user_credentials" THEN Value(text, env) ELSE Absent
        /\ r.kubernetes_secret_name = IF method = "kubernetes_secret" THEN Value(text, env) ELSE Absent
    BY AbsentStays DEF RegistryValue, Registry
  <1> HIDE DEF r
  <1>2. ValidRegistry(r) <=> (method = "none" \/ Given(Value(text, env)))
    BY <1>1 DEF ValidRegistry
  <1> QED BY <1>2 DEF r

LEMMA BrokerFits ==
  ASSUME NEW b \in Brokers, NEW env
  PROVE  ValidBroker([b EXCEPT !.ip_range = Value(@, env)])
           <=> /\ ValidTopic(b.topic)
               /\ b.kind = "vast" => Value(b.ip_range, env) = "addresses"
               /\ b.kind = "kafka" => b.port \in Ports
  <1> DEFINE x == Value(b.ip_range, env)
             d == [b EXCEPT !.ip_range = x]
  <1> HIDE DEF x
  <1>1. d.kind = b.kind /\ d.topic = b.topic /\ d.port = b.port /\ d.ip_range = x
    BY DEF Brokers
  <1> HIDE DEF d
  <1>2. ValidBroker(d) <=> /\ ValidTopic(b.topic)
                           /\ b.kind = "vast" => x = "addresses"
                           /\ b.kind = "kafka" => b.port \in Ports
    BY <1>1 DEF ValidBroker
  <1> QED BY <1>2 DEF d, x

LEMMA EnablementFields ==
  ASSUME NEW e, NEW env
  PROVE  ValidEnablement(EnablementValue(e, env))
           <=> /\ ValidRegistry(RegistryValue(e.registry, env))
               /\ ValidBroker([e.broker EXCEPT !.ip_range = Value(@, env)])
               /\ ValidIdentity(e.identity)
  <1> DEFINE r == RegistryValue(e.registry, env)
             b == [e.broker EXCEPT !.ip_range = Value(@, env)]
             v == EnablementValue(e, env)
  <1>1. v = [kubernetes |-> Value(e.kubernetes, env), registry |-> r, broker |-> b,
             identity |-> e.identity]
    BY DEF EnablementValue
  <1> HIDE DEF r, b, v
  <1>2. v.registry = r /\ v.broker = b /\ v.identity = e.identity
    BY <1>1
  <1>3. ValidEnablement(v) <=> ValidRegistry(r) /\ ValidBroker(b) /\ ValidIdentity(e.identity)
    BY <1>2 DEF ValidEnablement
  <1> QED BY <1>3 DEF r, b, v

\* The texts of the registry that are there.
Secrets(e) == {e.registry.username_env, e.registry.password_env, e.registry.kubernetes_secret_name}

LEMMA SecretsAre ==
  ASSUME NEW e, NEW method \in {"user_credentials", "kubernetes_secret", "none"}, NEW text,
         e.registry = Registry(method, text)
  PROVE  Secrets(e) = IF method = "none" THEN {Absent} ELSE {text, Absent}
  BY DEF Secrets, Registry

LEMMA EnablementFits ==
  ASSUME NEW e, NEW env, e.registry \in Registries, e.broker \in Brokers,
         ValidEnablement(EnablementValue(e, AllPlaceholders)),
         \A r \in Secrets(e) \intersect References : Given(env[r])
  PROVE  ValidEnablement(EnablementValue(e, env))
  <1>1. PICK method \in {"user_credentials", "kubernetes_secret", "none"}, text \in Texts :
          e.registry = Registry(method, text)
    BY DEF Registries
  <1>2. /\ ValidRegistry(RegistryValue(e.registry, AllPlaceholders))
        /\ ValidBroker([e.broker EXCEPT !.ip_range = Value(@, AllPlaceholders)])
        /\ ValidIdentity(e.identity)
    BY EnablementFields
  <1>3. method = "none" \/ Given(Value(text, AllPlaceholders))
    BY <1>1, <1>2, RegistryFits
  <1>4. method = "none" \/ Given(Value(text, env))
    BY <1>1, <1>3, SecretsAre DEF Value
  <1>5. ValidRegistry(RegistryValue(e.registry, env))
    BY <1>1, <1>4, RegistryFits
  <1>6. /\ ValidTopic(e.broker.topic)
        /\ e.broker.kind = "vast" => Value(e.broker.ip_range, AllPlaceholders) = "addresses"
        /\ e.broker.kind = "kafka" => e.broker.port \in Ports
    BY <1>2, BrokerFits
  <1>7. e.broker.kind = "vast" => Value(e.broker.ip_range, env) = "addresses"
    <2>1. \A t : Value(t, AllPlaceholders) = "addresses" => t \notin References
      BY Strings, HeldIs DEF Held
    <2>2. \A t : t \notin References => Value(t, env) = Value(t, AllPlaceholders)
      BY DEF Value
    <2> QED BY <1>6, <2>1, <2>2
  <1>8. ValidBroker([e.broker EXCEPT !.ip_range = Value(@, env)])
    BY <1>6, <1>7, BrokerFits
  <1> QED BY <1>2, <1>5, <1>8, EnablementFields

\* The credentials.
LEMMA CredentialsFit ==
  ASSUME NEW v \in ByToken \union ByPassword, NEW env
  PROVE  ValidVms(CredentialsValue(v, env))
           <=> \A r \in {v.token, v.user, v.password} \intersect References : Given(env[r])
  <1>1. \A t \in Braced : Given(Value(t, env)) <=> (t \in References => Given(env[t]))
    BY Strings DEF Value, Braced
  <1>2. CASE v \in ByToken
    <2>1. PICK t \in Braced : v = [token |-> t, user |-> Absent, password |-> Absent]
      BY <1>2 DEF ByToken
    <2>2. CredentialsValue(v, env) = [token |-> Value(t, env), user |-> Absent, password |-> Absent]
      BY <2>1, AbsentStays DEF CredentialsValue
    <2>3. ValidVms(CredentialsValue(v, env)) <=> Given(Value(t, env))
      BY <2>2, Strings DEF ValidVms
    <2>4. {v.token, v.user, v.password} \intersect References = {t} \intersect References
      BY <2>1, Strings
    <2> QED BY <1>1, <2>3, <2>4
  <1>3. CASE v \in ByPassword
    <2>1. PICK u \in Braced, p \in Braced : v = [token |-> Absent, user |-> u, password |-> p]
      BY <1>3 DEF ByPassword
    <2>2. CredentialsValue(v, env) = [token |-> Absent, user |-> Value(u, env), password |-> Value(p, env)]
      BY <2>1, AbsentStays DEF CredentialsValue
    <2>3. ValidVms(CredentialsValue(v, env)) <=> Given(Value(u, env)) /\ Given(Value(p, env))
      BY <2>2, Strings DEF ValidVms
    <2>4. {v.token, v.user, v.password} \intersect References = {u, p} \intersect References
      BY <2>1, Strings
    <2> QED BY <1>1, <2>3, <2>4
  <1> QED BY <1>2, <1>3

-----------------------------------------------------------------------------
(* What is written                                                         *)

\* All that is composed: a Stage A of which all sections are answered, and
\* pipelines as they may be drawn.
Complete(c, cluster, by_script) ==
  /\ c.vms \in ByToken \union ByPassword
  /\ \A e \in c.enablement : /\ e.kubernetes = cluster /\ e.registry \in Registries
                             /\ e.broker \in Brokers /\ e.identity \in Identities
                             /\ (~by_script => e.identity.gid >= 1)
  /\ c.pipelines \in Seq(Drawn(cluster, by_script))

LEMMA ComposedComplete ==
  ASSUME WInv, AInv, stage \in {"write", "written", "invalid"}
  PROVE  Complete(config, config.cluster, scripted)
  <1>1. config.vms \in ByToken \union ByPassword
    BY DEF WInv, Later
  <1>2. \A e \in config.enablement : Filled(e, 4)
    BY DEF AInv
  <1>3. \A e \in config.enablement : /\ e.kubernetes = config.cluster /\ e.registry \in Registries
                                    /\ e.broker \in Brokers /\ e.identity \in Identities
                                    /\ (~scripted => e.identity.gid >= 1)
    <2> SUFFICES ASSUME NEW e \in config.enablement
                 PROVE  /\ e.kubernetes = config.cluster /\ e.registry \in Registries
                        /\ e.broker \in Brokers /\ e.identity \in Identities
                        /\ (~scripted => e.identity.gid >= 1)
      OBVIOUS
    <2>1. Filled(e, 4)
      BY <1>2
    <2> QED BY <2>1 DEF Filled
  <1>4. config.pipelines \in Seq(Drawn(config.cluster, scripted))
    BY DEF AInv
  <1> QED BY <1>1, <1>3, <1>4 DEF Complete

LEMMA PipelinesAre ==
  ASSUME NEW c, NEW cluster, NEW by_script, Complete(c, cluster, by_script), NEW i \in 1..Len(c.pipelines)
  PROVE  /\ c.pipelines[i] \in Drawn(cluster, by_script)
         /\ c.pipelines[i].triggers \in Seq(Names) /\ c.pipelines[i].functions \in Seq(Names)
         /\ c.pipelines[i].flow \in Seq(Edges) /\ c.pipelines[i].k8s_cluster = cluster
  <1>1. c.pipelines[i] \in Drawn(cluster, by_script)
    BY ElementOfSeq DEF Complete
  <1> QED BY <1>1 DEF Drawn

\* What the models ask of a configuration with values in it.
LEMMA ValidWith ==
  ASSUME NEW c, NEW cluster, NEW by_script, Complete(c, cluster, by_script), NEW env
  PROVE  Valid(Interpolated(c, env)) <=>
           /\ ValidVms(CredentialsValue(c.vms, env))
           /\ \A e \in c.enablement : ValidEnablement(EnablementValue(e, env))
           /\ \A i \in 1..Len(c.pipelines) : ValidPipeline(PipelineValue(c.pipelines[i], env))
  <1> DEFINE d == Interpolated(c, env)
             S == {EnablementValue(e, env) : e \in c.enablement}
             P == [k \in 1..Len(c.pipelines) |-> PipelineValue(c.pipelines[k], env)]
  <1>1. d.vms = CredentialsValue(c.vms, env) /\ d.enablement = S /\ d.pipelines = P
    BY DEF Interpolated
  <1>2. Len(c.pipelines) \in Nat
    BY LenProperties DEF Complete
  <1>3. Len(P) = Len(c.pipelines)
        /\ \A i \in 1..Len(c.pipelines) : P[i] = PipelineValue(c.pipelines[i], env)
    BY <1>2
  <1>4. \A x \in S : x.kubernetes = Value(cluster, env)
    BY DEF EnablementValue, Complete
  <1>5. \A i \in 1..Len(c.pipelines) : P[i].k8s_cluster = Value(cluster, env)
    <2> SUFFICES ASSUME NEW i \in 1..Len(c.pipelines) PROVE P[i].k8s_cluster = Value(cluster, env)
      OBVIOUS
    <2>1. P[i].k8s_cluster = Value(c.pipelines[i].k8s_cluster, env)
      BY <1>3 DEF PipelineValue
    <2> HIDE DEF P
    <2> QED BY <2>1, PipelinesAre
  <1>6. (\A x \in S : ValidEnablement(x))
          <=> (\A e \in c.enablement : ValidEnablement(EnablementValue(e, env)))
    OBVIOUS
  <1> HIDE DEF d, S, P
  <1>7. Valid(d) <=> /\ ValidVms(d.vms) /\ \A x \in d.enablement : ValidEnablement(x)
                     /\ \A i \in 1..Len(d.pipelines) :
                          /\ ValidPipeline(d.pipelines[i])
                          /\ \A x \in d.enablement : d.pipelines[i].k8s_cluster = x.kubernetes
    BY DEF Valid
  <1>8. Valid(d) <=> /\ ValidVms(CredentialsValue(c.vms, env)) /\ \A x \in S : ValidEnablement(x)
                     /\ \A i \in 1..Len(c.pipelines) : ValidPipeline(P[i])
    BY <1>1, <1>3, <1>4, <1>5, <1>7
  <1> QED BY <1>3, <1>6, <1>8 DEF d

LEMMA RequiredAre ==
  ASSUME NEW c
  PROVE  /\ {c.vms.token, c.vms.user, c.vms.password} \subseteq Required(c)
         /\ \A e \in c.enablement : Secrets(e) \subseteq Required(c)
         /\ \A i \in 1..Len(c.pipelines) : c.pipelines[i].schedule \in Required(c)
         /\ \A r \in Required(c) : \/ r \in {c.vms.token, c.vms.user, c.vms.password}
                                   \/ \E e \in c.enablement : r \in Secrets(e)
                                   \/ \E i \in 1..Len(c.pipelines) : r = c.pipelines[i].schedule
         /\ Required(c) \subseteq TextsIn(c)
  <1>1. /\ {c.vms.token, c.vms.user, c.vms.password} \subseteq Required(c)
        /\ \A e \in c.enablement : Secrets(e) \subseteq Required(c)
        /\ \A i \in 1..Len(c.pipelines) : c.pipelines[i].schedule \in Required(c)
    BY DEF Required, Secrets
  <1>2. \A r \in Required(c) :
          \/ r \in {c.vms.token, c.vms.user, c.vms.password}
          \/ \E e \in c.enablement : r \in Secrets(e)
          \/ \E i \in 1..Len(c.pipelines) : r = c.pipelines[i].schedule
    BY DEF Required, Secrets
  <1>3. {c.vms.token, c.vms.user, c.vms.password} \subseteq TextsIn(c)
    BY DEF TextsIn
  <1>4. \A e \in c.enablement : Secrets(e) \subseteq TextsIn(c)
    BY DEF TextsIn, Secrets
  <1>5. \A i \in 1..Len(c.pipelines) : c.pipelines[i].schedule \in TextsIn(c)
    BY DEF TextsIn
  <1>6. Required(c) \subseteq TextsIn(c)
    BY <1>2, <1>3, <1>4, <1>5
  <1> QED BY <1>1, <1>2, <1>6

LEMMA LoadsIfFit ==
  ASSUME NEW c, NEW cluster, NEW by_script, Complete(c, cluster, by_script), NEW env,
         Valid(WithPlaceholders(c)), AllGiven(c, env),
         \A i \in 1..Len(c.pipelines) : NamesFit(c.pipelines[i], env)
  PROVE  Valid(Interpolated(c, env))
  <1>1. \A r \in Required(c) \intersect References : Given(env[r])
    BY DEF AllGiven
  <1>2. /\ \A e \in c.enablement : ValidEnablement(EnablementValue(e, AllPlaceholders))
        /\ \A i \in 1..Len(c.pipelines) : ValidPipeline(PipelineValue(c.pipelines[i], AllPlaceholders))
    BY ValidWith DEF WithPlaceholders
  <1>3. ValidVms(CredentialsValue(c.vms, env))
    BY <1>1, RequiredAre, CredentialsFit DEF Complete
  <1>4. ASSUME NEW e \in c.enablement PROVE ValidEnablement(EnablementValue(e, env))
    <2>1. \A r \in Secrets(e) \intersect References : Given(env[r])
      BY <1>1, RequiredAre
    <2>2. e.registry \in Registries /\ e.broker \in Brokers
      BY DEF Complete
    <2> QED BY <1>2, <2>1, <2>2, EnablementFits
  <1>5. ASSUME NEW i \in 1..Len(c.pipelines)
        PROVE  ValidPipeline(PipelineValue(c.pipelines[i], env))
    <2> DEFINE p == c.pipelines[i]
    <2>1. p.schedule \in References => Given(env[p.schedule])
      BY <1>1, RequiredAre
    <2>2. p.triggers \in Seq(Names) /\ p.functions \in Seq(Names) /\ p.flow \in Seq(Edges)
      BY PipelinesAre
    <2>3. NamesFit(p, env) /\ ValidPipeline(PipelineValue(p, AllPlaceholders))
      BY <1>2
    <2> HIDE DEF p
    <2>4. ValidPipeline(PipelineValue(p, env))
      BY <2>1, <2>2, <2>3, PipelineFits
    <2> QED BY <2>4 DEF p
  <1> QED BY <1>3, <1>4, <1>5, ValidWith

LEMMA BlankIsRefused ==
  ASSUME NEW c, NEW cluster, NEW by_script, Complete(c, cluster, by_script), NEW env,
         NEW r \in Required(c) \intersect References, env[r] = Blank
  PROVE  ~Valid(Interpolated(c, env))
  <1>1. ~Given(env[r]) /\ Value(r, env) = Blank
    BY Strings DEF Value
  <1>2. CASE r \in {c.vms.token, c.vms.user, c.vms.password}
    <2>1. ~ValidVms(CredentialsValue(c.vms, env))
      BY <1>1, <1>2, CredentialsFit DEF Complete
    <2> QED BY <2>1, ValidWith
  <1>3. ASSUME NEW e \in c.enablement, r \in Secrets(e) PROVE ~Valid(Interpolated(c, env))
    <2>1. PICK method \in {"user_credentials", "kubernetes_secret", "none"}, text \in Texts :
            e.registry = Registry(method, text)
      BY DEF Complete, Registries
    <2>2. method # "none" /\ r = text
      BY <1>3, <2>1, SecretsAre, Strings
    <2>3. ~ValidRegistry(RegistryValue(e.registry, env))
      BY <1>1, <2>1, <2>2, RegistryFits, Strings
    <2>4. ~ValidEnablement(EnablementValue(e, env))
      BY <2>3, EnablementFields
    <2> QED BY <2>4, ValidWith
  <1>4. ASSUME NEW i \in 1..Len(c.pipelines), r = c.pipelines[i].schedule
        PROVE  ~Valid(Interpolated(c, env))
    <2>1. PipelineValue(c.pipelines[i], env).schedule = Blank
      BY <1>1, <1>4 DEF PipelineValue
    <2>2. ~ValidPipeline(PipelineValue(c.pipelines[i], env))
      BY <2>1 DEF ValidPipeline
    <2> QED BY <2>2, ValidWith
  <1> QED BY <1>2, <1>3, <1>4, RequiredAre

\* The file a wizard wrote, from whatever answers and with references to variables
\* in whatever text: every command that reads it ends with 2 as long as a variable
\* lacks a value, or the one it needs, and otherwise goes on, with the code for what
\* is missing, although the wizard had only placeholders to look at.
THEOREM WrittenFilesLoad == Spec => []WrittenLoads
  <1>1. WInv /\ AInv => WrittenLoads
    <2> SUFFICES ASSUME WInv, AInv, stage = "written",
                        NEW env \in [Variables(file) -> {Absent, Blank, "secret"} \union Names],
                        NEW command \in Commands
                 PROVE  /\ ~AllGiven(file, env) => ExitCode(command, file, env) = 2
                        /\ (AllGiven(file, env) /\ \A i \in 1..Len(file.pipelines) :
                                                    NamesFit(file.pipelines[i], env))
                             => ExitCode(command, file, env) =
                                  IF command = "enable" /\ file.enablement = {} THEN 2
                                  ELSE IF command = "apply" /\ file.pipelines = <<>> THEN 1 ELSE 0
      BY DEF WrittenLoads
    <2>1. file = config /\ Valid(WithPlaceholders(file))
      BY DEF WInv
    <2>2. Complete(file, config.cluster, scripted)
      BY <2>1, ComposedComplete
    <2>3. ASSUME ~AllGiven(file, env) PROVE ExitCode(command, file, env) = 2
      <3>1. CASE \E v \in Variables(file) : env[v] = Absent
        BY <3>1 DEF ExitCode
      <3>2. CASE ~ \E v \in Variables(file) : env[v] = Absent
        <4>1. PICK r \in Required(file) \intersect References : ~Given(env[r])
          BY <2>3, <3>2 DEF AllGiven
        <4>2. r \in Variables(file)
          BY <4>1, RequiredAre DEF Variables
        <4>3. env[r] = Blank
          BY <3>2, <4>1, <4>2 DEF Given
        <4>4. ~Valid(Interpolated(file, env))
          BY <2>2, <4>1, <4>3, BlankIsRefused
        <4> QED BY <4>4 DEF ExitCode
      <3> QED BY <3>1, <3>2
    <2>4. ASSUME AllGiven(file, env), \A i \in 1..Len(file.pipelines) : NamesFit(file.pipelines[i], env)
          PROVE  ExitCode(command, file, env) =
                   IF command = "enable" /\ file.enablement = {} THEN 2
                   ELSE IF command = "apply" /\ file.pipelines = <<>> THEN 1 ELSE 0
      <3>1. Valid(Interpolated(file, env))
        BY <2>1, <2>2, <2>4, LoadsIfFit
      <3>2. ~ \E v \in Variables(file) : env[v] = Absent
        BY <2>4 DEF AllGiven
      <3> QED BY <3>1, <3>2 DEF ExitCode
    <2> QED BY <2>3, <2>4
  <1> QED BY <1>1, AnswersHold, PTL

-----------------------------------------------------------------------------
(* What is refused                                                         *)

LEMMA ProposedEdges ==
  ASSUME NEW triggers \in Seq(Names), NEW functions \in Seq(Names),
         triggers # <<>>, functions # <<>>
  PROVE  LET flow == ProposedFlow(triggers, functions) IN
         \A i \in 1..Len(flow) :
           \/ i \in 1..Len(triggers) /\ flow[i] = Edge(triggers[i], functions[1])
           \/ \E k \in 1..Len(functions) - 1 : flow[i] = Edge(functions[k], functions[k + 1])
  <1> DEFINE E == {Edge(a, b) : a \in Names, b \in Names}
             s == ToFirst(triggers, functions)
             t == Chain(functions)
  <1>1. Len(functions) \in Nat \ {0} /\ Len(triggers) \in Nat
    BY EmptySeq, LenProperties
  <1>2. /\ \A i \in 1..Len(triggers) : triggers[i] \in Names
        /\ \A i \in 1..Len(functions) : functions[i] \in Names
    BY ElementOfSeq
  <1>3. s \in Seq(E) /\ t \in Seq(E)
    BY <1>1, <1>2, IsASeq DEF ToFirst, Chain
  <1>4. /\ Len(s) = Len(triggers) /\ Len(t) = Len(functions) - 1
        /\ \A i \in 1..Len(triggers) : s[i] = Edge(triggers[i], functions[1])
        /\ \A k \in 1..Len(functions) - 1 : t[k] = Edge(functions[k], functions[k + 1])
    BY <1>1 DEF ToFirst, Chain
  <1>5. ProposedFlow(triggers, functions) = s \o t
    BY DEF ProposedFlow
  <1> HIDE DEF s, t, E
  <1>6. /\ Len(s \o t) = Len(s) + Len(t)
        /\ \A i \in 1..Len(s) + Len(t) : (s \o t)[i] = IF i <= Len(s) THEN s[i] ELSE t[i - Len(s)]
    BY <1>3, ConcatProperties
  <1>7. ASSUME NEW i \in 1..Len(s \o t)
        PROVE  \/ i \in 1..Len(triggers) /\ (s \o t)[i] = Edge(triggers[i], functions[1])
               \/ \E k \in 1..Len(functions) - 1 : (s \o t)[i] = Edge(functions[k], functions[k + 1])
    <2>1. CASE i <= Len(s)
      BY <1>1, <1>4, <1>6, <2>1
    <2>2. CASE ~(i <= Len(s))
      <3>1. i - Len(s) \in 1..Len(functions) - 1 /\ (s \o t)[i] = t[i - Len(s)]
        BY <1>1, <1>4, <1>6, <2>2
      <3> QED BY <1>4, <3>1
    <2> QED BY <2>1, <2>2
  <1> QED BY <1>5, <1>7

\* Names of which the placeholders are all different.
LEMMA AllDifferent ==
  ASSUME NEW t \in Seq(Names), NEW f \in Seq(Names),
         IsInjective([i \in 1..Len(t \o f) |-> Held((t \o f)[i])])
  PROVE  /\ \A i, k \in 1..Len(f) : Held(f[i]) = Held(f[k]) => i = k
         /\ \A i \in 1..Len(t), k \in 1..Len(f) : Held(t[i]) # Held(f[k])
  <1> DEFINE s == t \o f
             n == Len(t) + Len(f)
             h == [i \in 1..Len(s) |-> Held(s[i])]
  <1>1. Len(t) \in Nat /\ Len(f) \in Nat
    BY LenProperties
  <1>2. Len(s) = n /\ \A i \in 1..n : s[i] = IF i <= Len(t) THEN t[i] ELSE f[i - Len(t)]
    BY ConcatProperties
  <1> HIDE DEF s
  <1>3. DOMAIN h = 1..n /\ \A i \in 1..n : h[i] = Held(s[i])
    BY <1>2
  <1>4. IsInjective(h)
    BY DEF s
  <1> HIDE DEF h
  <1>5. \A i, k \in 1..n : Held(s[i]) = Held(s[k]) => i = k
    BY <1>3, <1>4 DEF IsInjective
  <1>6. \A k \in 1..Len(f) : Len(t) + k \in 1..n /\ s[Len(t) + k] = f[k]
    <2> SUFFICES ASSUME NEW k \in 1..Len(f) PROVE Len(t) + k \in 1..n /\ s[Len(t) + k] = f[k]
      OBVIOUS
    <2>1. Len(t) + k \in 1..n /\ ~(Len(t) + k <= Len(t)) /\ Len(t) + k - Len(t) = k
      BY <1>1
    <2> QED BY <1>2, <2>1
  <1>7. \A i \in 1..Len(t) : i \in 1..n /\ s[i] = t[i]
    BY <1>1, <1>2
  <1>8. ASSUME NEW i \in 1..Len(f), NEW k \in 1..Len(f), Held(f[i]) = Held(f[k]) PROVE i = k
    <2>1. Len(t) + i = Len(t) + k
      BY <1>5, <1>6, <1>8
    <2> QED BY <1>1, <2>1
  <1>9. ASSUME NEW i \in 1..Len(t), NEW k \in 1..Len(f), Held(t[i]) = Held(f[k]) PROVE FALSE
    <2>1. i = Len(t) + k
      BY <1>5, <1>6, <1>7, <1>9
    <2> QED BY <1>1, <2>1
  <1> QED BY <1>8, <1>9

\* What the wizard proposes for names that are all different is in order.
LEMMA ProposedValid ==
  ASSUME NEW p, NEW S, NEW t \in Seq(S), NEW f \in Seq(S), p.triggers = t, p.functions = f,
         Len(p.flow) \in Nat,
         \A i, k \in 1..Len(f) : f[i] = f[k] => i = k,
         \A i \in 1..Len(t), k \in 1..Len(f) : t[i] # f[k],
         \A i \in 1..Len(p.flow) :
           \/ \E k \in 1..Len(t) : Len(f) >= 1 /\ p.flow[i] = Edge(t[k], f[1])
           \/ \E k \in 1..Len(f) - 1 : p.flow[i] = Edge(f[k], f[k + 1])
  PROVE  Kahn(p) /\ \A i \in 1..Len(p.flow) : RefersTo(p, p.flow[i])
  <1>1. Len(t) \in Nat /\ Len(f) \in Nat /\ DOMAIN t = 1..Len(t) /\ DOMAIN f = 1..Len(f)
    BY LenProperties
  <1>2. /\ \A i, k \in 1..Len(f) : f[i] = f[k] => i = k
        /\ \A i \in 1..Len(t), k \in 1..Len(f) : t[i] # f[k]
    OBVIOUS
  <1> DEFINE F == {f[i] : i \in 1..Len(f)}
  <1>3. ToSet(f) = F /\ ToSet(t) = {t[i] : i \in 1..Len(t)}
    BY <1>1 DEF ToSet
  <1>4. \A i \in 1..Len(p.flow) :
          \/ \E k \in 1..Len(t) : Len(f) >= 1 /\ p.flow[i] = Edge(t[k], f[1])
          \/ \E k \in 1..Len(f) - 1 : p.flow[i] = Edge(f[k], f[k + 1])
    OBVIOUS
  <1>5. ASSUME NEW i \in 1..Len(p.flow) PROVE RefersTo(p, p.flow[i])
    <2>1. CASE \E k \in 1..Len(t) : Len(f) >= 1 /\ p.flow[i] = Edge(t[k], f[1])
      <3>1. PICK k \in 1..Len(t) : Len(f) >= 1 /\ p.flow[i] = Edge(t[k], f[1])
        BY <2>1
      <3>2. p.flow[i].from \in ToSet(t) /\ p.flow[i].to = f[1] /\ 1 \in 1..Len(f)
        BY <1>1, <1>3, <3>1 DEF Edge
      <3> QED BY <1>3, <3>2 DEF RefersTo
    <2>2. CASE \E k \in 1..Len(f) - 1 : p.flow[i] = Edge(f[k], f[k + 1])
      <3>1. PICK k \in 1..Len(f) - 1 : p.flow[i] = Edge(f[k], f[k + 1])
        BY <2>2
      <3>2. p.flow[i].from = f[k] /\ p.flow[i].to = f[k + 1] /\ k \in 1..Len(f)
            /\ k + 1 \in 1..Len(f)
        BY <1>1, <3>1 DEF Edge
      <3> QED BY <1>3, <3>2 DEF RefersTo
    <2> QED BY <1>4, <2>1, <2>2
  <1>6. IsFiniteSet(F) /\ Cardinality(F) = Len(f)
    <2>1. f \in [1..Len(f) -> F]
      BY LenProperties
    <2>2. f \in Bijection(1..Len(f), F)
      BY <1>2, <2>1 DEF Bijection, Injection, Surjection, IsInjective
    <2> HIDE DEF F
    <2>3. ExistsBijection(1..Len(f), F)
      BY <2>2 DEF ExistsBijection
    <2> QED BY <1>1, <2>3, FS_NatBijection, FS_CountingElements
  <1>7. Referring(p)
    BY <1>3, <1>5, <1>6 DEF Referring, Inner, RefersTo
  <1>8. Orderable(p)
    <2> DEFINE rank == [x \in F |-> CHOOSE i \in 1..Len(f) : f[i] = x]
    <2>1. \A i \in 1..Len(f) : f[i] \in F /\ rank[f[i]] = i
      <3> SUFFICES ASSUME NEW i \in 1..Len(f) PROVE f[i] \in F /\ rank[f[i]] = i
        OBVIOUS
      <3>1. f[i] \in F
        BY <1>1, <1>3
      <3>2. \A k \in 1..Len(f) : f[k] = f[i] => k = i
        BY <1>2
      <3>3. rank[f[i]] = CHOOSE k \in 1..Len(f) : f[k] = f[i]
        BY <3>1
      <3>4. \E k \in 1..Len(f) : f[k] = f[i]
        OBVIOUS
      <3> HIDE DEF rank
      <3>5. rank[f[i]] \in 1..Len(f) /\ f[rank[f[i]]] = f[i]
        BY <3>3, <3>4
      <3> QED BY <3>1, <3>2, <3>5
    <2>2. rank \in [F -> 1..Cardinality(F)]
      <3>1. \A x \in F : \E i \in 1..Len(f) : x = f[i] /\ rank[x] = i
        BY <2>1
      <3>2. DOMAIN rank = F /\ rank = [x \in F |-> rank[x]]
        OBVIOUS
      <3> HIDE DEF rank, F
      <3> QED BY <1>6, <3>1, <3>2
    <2> HIDE DEF rank
    <2>3. ASSUME NEW i \in Inner(p) PROVE rank[p.flow[i].from] < rank[p.flow[i].to]
      <3>1. i \in 1..Len(p.flow) /\ p.flow[i].from \in F
        BY <1>3 DEF Inner
      <3>2. ASSUME NEW k \in 1..Len(t), p.flow[i] = Edge(t[k], f[1]) PROVE FALSE
        BY <1>2, <3>1, <3>2 DEF Edge
      <3>3. PICK k \in 1..Len(f) - 1 : p.flow[i] = Edge(f[k], f[k + 1])
        BY <1>4, <3>1, <3>2
      <3>4. k \in 1..Len(f) /\ k + 1 \in 1..Len(f) /\ p.flow[i].from = f[k] /\ p.flow[i].to = f[k + 1]
        BY <1>1, <3>3 DEF Edge
      <3> QED BY <2>1, <3>4
    <2> HIDE DEF F
    <2> QED BY <1>3, <2>2, <2>3 DEF Orderable
  <1> QED BY <1>5, <1>7, <1>8, KahnIsRight

LEMMA DrawnValid ==
  ASSUME NEW cluster, NEW p \in Drawn(cluster, FALSE), ~UnfitPipeline(p)
  PROVE  ValidPipeline(PipelineValue(p, AllPlaceholders))
  <1> DEFINE q == PipelineValue(p, AllPlaceholders)
             t == p.triggers
             f == p.functions
             S == {Held(n) : n \in Names}
  <1>1. /\ t \in Seq(Names) /\ f \in Seq(Names) /\ p.flow \in Seq(Edges)
        /\ p.flow = ProposedFlow(t, f)
    BY DEF Drawn
  <1>2. Len(t) \in Nat /\ Len(f) \in Nat /\ Len(p.flow) \in Nat
        /\ (\A i \in 1..Len(t) : t[i] \in Names) /\ (\A i \in 1..Len(f) : f[i] \in Names)
    BY <1>1, LenProperties, ElementOfSeq
  <1>3. /\ q.triggers = [i \in 1..Len(t) |-> Held(t[i])]
        /\ q.functions = [i \in 1..Len(f) |-> Held(f[i])]
    <2>1. /\ q.triggers = [i \in 1..Len(t) |-> Value(t[i], AllPlaceholders)]
          /\ q.functions = [i \in 1..Len(f) |-> Value(f[i], AllPlaceholders)]
      BY DEF PipelineValue
    <2> HIDE DEF q
    <2> QED BY <2>1, HeldIs
  <1>4. q.triggers \in Seq(S) /\ q.functions \in Seq(S)
        /\ Len(q.triggers) = Len(t) /\ Len(q.functions) = Len(f)
    <2> HIDE DEF q
    <2>1. \A i \in 1..Len(t) : Held(t[i]) \in S
      BY <1>2
    <2>2. \A i \in 1..Len(f) : Held(f[i]) \in S
      BY <1>2
    <2> HIDE DEF S
    <2>3. q.triggers \in Seq(S) /\ q.functions \in Seq(S)
      BY <1>2, <1>3, <2>1, <2>2, IsASeq
    <2> QED BY <1>2, <1>3, <2>3
  <1>5. Len(q.flow) = Len(p.flow)
    BY <1>1, SetsValue
  <1>6. \A i \in 1..Len(p.flow) : q.flow[i] = Edge(Held(p.flow[i].from), Held(p.flow[i].to))
    <2>1. q.flow = [i \in 1..Len(p.flow) |-> Edge(Value(p.flow[i].from, AllPlaceholders),
                                                 Value(p.flow[i].to, AllPlaceholders))]
      BY DEF PipelineValue
    <2> HIDE DEF q
    <2> QED BY <2>1, HeldIs
  <1>7. /\ \A i, k \in 1..Len(f) : Held(f[i]) = Held(f[k]) => i = k
        /\ \A i \in 1..Len(t), k \in 1..Len(f) : Held(t[i]) # Held(f[k])
    BY <1>1, AllDifferent DEF UnfitPipeline
  <1>8. ASSUME NEW i \in 1..Len(p.flow)
        PROVE  \/ \E k \in 1..Len(t) : Len(f) >= 1 /\ p.flow[i] = Edge(t[k], f[1])
               \/ \E k \in 1..Len(f) - 1 : p.flow[i] = Edge(f[k], f[k + 1])
    <2>1. CASE t = <<>> \/ f = <<>>
      <3>1. p.flow = <<>> /\ Len(p.flow) = 0
        BY <1>1, <2>1 DEF ProposedFlow
      <3> QED BY <3>1
    <2>2. CASE t # <<>> /\ f # <<>>
      <3>1. Len(f) \in Nat \ {0}
        BY <1>1, <2>2, EmptySeq
      <3>2. \A k \in 1..Len(ProposedFlow(t, f)) :
              \/ k \in 1..Len(t) /\ ProposedFlow(t, f)[k] = Edge(t[k], f[1])
              \/ \E j \in 1..Len(f) - 1 : ProposedFlow(t, f)[k] = Edge(f[j], f[j + 1])
        BY <1>1, <2>2, ProposedEdges
      <3> QED BY <1>1, <3>1, <3>2
    <2> QED BY <2>1, <2>2
  <1>9. ASSUME NEW i \in 1..Len(q.flow)
        PROVE  \/ \E k \in 1..Len(q.triggers) : Len(q.functions) >= 1
                     /\ q.flow[i] = Edge(q.triggers[k], q.functions[1])
               \/ \E k \in 1..Len(q.functions) - 1 :
                     q.flow[i] = Edge(q.functions[k], q.functions[k + 1])
    <2>1. i \in 1..Len(p.flow)
      BY <1>5
    <2>2. CASE \E k \in 1..Len(t) : Len(f) >= 1 /\ p.flow[i] = Edge(t[k], f[1])
      <3>1. PICK k \in 1..Len(t) : Len(f) >= 1 /\ p.flow[i] = Edge(t[k], f[1])
        BY <2>2
      <3>2. q.flow[i] = Edge(Held(t[k]), Held(f[1]))
        BY <1>6, <2>1, <3>1 DEF Edge
      <3>3. q.triggers[k] = Held(t[k]) /\ q.functions[1] = Held(f[1])
        BY <1>2, <1>3, <3>1
      <3> HIDE DEF q
      <3> QED BY <1>4, <3>1, <3>2, <3>3
    <2>3. CASE \E k \in 1..Len(f) - 1 : p.flow[i] = Edge(f[k], f[k + 1])
      <3>1. PICK k \in 1..Len(f) - 1 : p.flow[i] = Edge(f[k], f[k + 1])
        BY <2>3
      <3>2. q.flow[i] = Edge(Held(f[k]), Held(f[k + 1]))
        BY <1>6, <2>1, <3>1 DEF Edge
      <3>3. q.functions[k] = Held(f[k]) /\ q.functions[k + 1] = Held(f[k + 1])
        BY <1>2, <1>3, <3>1
      <3> HIDE DEF q
      <3> QED BY <1>4, <3>1, <3>2, <3>3
    <2> QED BY <1>8, <2>1, <2>2, <2>3
  <1>10. /\ \A i, k \in 1..Len(q.functions) : q.functions[i] = q.functions[k] => i = k
         /\ \A i \in 1..Len(q.triggers), k \in 1..Len(q.functions) : q.triggers[i] # q.functions[k]
    <2> HIDE DEF q
    <2> QED BY <1>3, <1>4, <1>7
  <1>11. q.schedule # Blank
    <2>1. q.schedule = Held(p.schedule) /\ p.schedule # Blank
      BY HeldIs DEF PipelineValue, UnfitPipeline
    <2> HIDE DEF q
    <2> QED BY <2>1 DEF Held, Blank
  <1>12. Len(q.flow) \in Nat
    BY <1>2, <1>5
  <1> HIDE DEF q
  <1>13. Kahn(q) /\ \A i \in 1..Len(q.flow) : RefersTo(q, q.flow[i])
    BY <1>4, <1>9, <1>10, <1>12, ProposedValid
  <1>14. ValidPipeline(q)
    BY <1>11, <1>13 DEF ValidPipeline
  <1> QED BY <1>14 DEF q

\* A Stage A without one of the answers in UnfitEnablement is valid.
LEMMA FilledValid ==
  ASSUME NEW e, e.registry \in Registries, e.broker \in Brokers, e.identity \in Identities,
         e.identity.gid >= 1, ~UnfitEnablement(e)
  PROVE  ValidEnablement(EnablementValue(e, AllPlaceholders))
  <1>1. PICK method \in {"user_credentials", "kubernetes_secret", "none"}, text \in Texts :
          e.registry = Registry(method, text)
    BY DEF Registries
  <1>2. Given("text")
    BY TextsDiffer DEF Given, Blank
  <1>3. method # "none" => text # Blank
    BY <1>1 DEF UnfitEnablement, Registry
  <1>4. method # "none" => Given(Value(text, AllPlaceholders))
    BY <1>2, <1>3, HeldIs, Strings DEF Held, Texts
  <1>5. ValidRegistry(RegistryValue(e.registry, AllPlaceholders))
    BY <1>1, <1>4, RegistryFits
  <1>6. ValidBroker([e.broker EXCEPT !.ip_range = Value(@, AllPlaceholders)])
    <2>1. ValidTopic(e.broker.topic)
      <3>1. e.broker.topic.partitions \in Partitions /\ ~(e.broker.topic.retention_hours < 6)
        BY DEF UnfitEnablement
      <3>2. e.broker.topic.retention_hours \in Int
        BY WizardAnswers DEF Brokers
      <3> QED BY <3>1, <3>2 DEF ValidTopic
    <2>2. e.broker.kind = "vast" => Value(e.broker.ip_range, AllPlaceholders) = "addresses"
      BY Strings DEF UnfitEnablement, Value
    <2>3. e.broker.kind = "kafka" => e.broker.port \in Ports
      BY DEF UnfitEnablement
    <2> QED BY <2>1, <2>2, <2>3, BrokerFits
  <1>7. ValidIdentity(e.identity)
    BY DEF UnfitEnablement, ValidIdentity
  <1> QED BY <1>5, <1>6, <1>7, EnablementFields

\* Whatever an operator types at the prompts, the models refuse it only for one of
\* the listed reasons: in particular never for its flow, however many functions
\* there are, as long as their names are different to the validation.
THEOREM RefusalsHaveCause == Spec => []RefusedForCause
  <1>1. WInv /\ AInv => RefusedForCause
    <2> SUFFICES ASSUME WInv, AInv, stage = "invalid", ~scripted, ~Reasons PROVE FALSE
      BY DEF RefusedForCause
    <2>1. Complete(config, config.cluster, scripted)
      BY ComposedComplete
    <2>2. ~Valid(Interpolated(config, AllPlaceholders))
      BY DEF WInv, WithPlaceholders
    <2>3. ValidVms(CredentialsValue(config.vms, AllPlaceholders))
      <3>1. \A r \in References : Given(AllPlaceholders[r])
        BY Strings DEF AllPlaceholders
      <3> QED BY <2>1, <3>1, CredentialsFit DEF Complete
    <2>4. ASSUME NEW e \in config.enablement
          PROVE  ValidEnablement(EnablementValue(e, AllPlaceholders))
      <3>1. ~UnfitEnablement(e)
        BY DEF Reasons
      <3>2. /\ e.registry \in Registries /\ e.broker \in Brokers /\ e.identity \in Identities
            /\ e.identity.gid >= 1
        BY <2>1 DEF Complete
      <3> QED BY <3>1, <3>2, FilledValid
    <2>5. ASSUME NEW i \in 1..Len(config.pipelines)
          PROVE  ValidPipeline(PipelineValue(config.pipelines[i], AllPlaceholders))
      <3>1. config.pipelines[i] \in Drawn(config.cluster, scripted)
        BY <2>1, PipelinesAre
      <3>2. config.pipelines[i] \in Drawn(config.cluster, FALSE)
        BY <3>1 DEF Drawn
      <3>3. ~UnfitPipeline(config.pipelines[i])
        BY DEF Reasons
      <3> QED BY <3>2, <3>3, DrawnValid
    <2> QED BY <2>1, <2>2, <2>3, <2>4, <2>5, ValidWith
  <1> QED BY <1>1, AnswersHold, PTL

\* The cycle check of the models is right about every pipeline that they get to see,
\* of any size and with any edges, that its references let through: with the
\* placeholder for its variables, and with values that tell them apart.
THEOREM CyclesAreFound == Spec => []KahnFindsCycles
  <1>1. AInv => KahnFindsCycles
    <2> SUFFICES ASSUME AInv, NEW i \in 1..Len(config.pipelines), NEW q \in ReadAs(config.pipelines[i]),
                        \A n \in 1..Len(q.flow) : RefersTo(q, q.flow[n])
                 PROVE  Kahn(q) <=> Orderable(q)
      BY DEF KahnFindsCycles
    <2> DEFINE p == config.pipelines[i]
    <2>1. p \in Drawn(config.cluster, scripted)
      BY ElementOfSeq DEF AInv
    <2>2. p.triggers \in Seq(Names) /\ p.functions \in Seq(Names) /\ p.flow \in Seq(Edges)
      BY <2>1 DEF Drawn
    <2>3. q = p \/ q = PipelineValue(p, AllPlaceholders)
      BY DEF ReadAs
    <2> HIDE DEF p
    <2>4. CASE q = p
      <3>1. Len(q.flow) \in Nat
        BY <2>2, <2>4, LenProperties
      <3>2. Referring(q)
        BY <2>2, <2>4, <3>1, ReferringIf
      <3> QED BY <3>2, KahnIsRight
    <2>5. CASE q = PipelineValue(p, AllPlaceholders)
      <3>1. Len(q.flow) = Len(p.flow)
        BY <2>2, <2>5, SetsValue
      <3>2. Referring(q)
        BY <2>2, <2>5, <3>1, ValuesRefer
      <3> QED BY <3>2, KahnIsRight
    <2> QED BY <2>3, <2>4, <2>5
  <1> QED BY <1>1, AnswersHold, PTL
=============================================================================
