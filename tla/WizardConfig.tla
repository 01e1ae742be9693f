---------------------------- MODULE WizardConfig ----------------------------
(***************************************************************************)
(* The configuration: what the wizard composes of the answers              *)
(* (interactive/sections/), what the models accept (config/models.py), and *)
(* what the commands make of the file (config/loader.py, cli.py).          *)
(*                                                                         *)
(* A text is blank, a reference to a variable, or something else; a number *)
(* is itself, and only the fields that a validator looks at are there.     *)
(* Names of triggers, functions and clusters are compared, so they are     *)
(* distinct values.                                                        *)
(***************************************************************************)
EXTENDS Integers, Sequences, FiniteSets, SequencesExt

CONSTANTS
  Absent,      \* no section, no value, no file
  References,  \* the texts ${NAME} that name a variable
  Malformed    \* texts ${name}, but with a name that is none of a variable

Blank == "blank"
\* What the models look at is no reference, and Absent is no text.
ASSUME TextsDiffer ==
  /\ Absent \notin {Blank, "text", "placeholder", "addresses"} \union References \union Malformed
  /\ References \intersect {Blank, "text", "placeholder", "addresses"} = {}
  /\ Malformed \intersect (References \union {Blank}) = {}

Given(text) == text \notin {Blank, Absent}

-----------------------------------------------------------------------------
(* Flows                                                                   *)

Edge(from, to) == [from |-> from, to |-> to]

\* _build_flow, when it asks: each trigger to the first function, and a chain
\* of the functions.
ToFirst(triggers, functions) ==
  [i \in 1..Len(triggers) |-> Edge(triggers[i], functions[1])]
Chain(functions) ==
  [i \in 1..Len(functions) - 1 |-> Edge(functions[i], functions[i + 1])]
ProposedFlow(triggers, functions) ==
  IF triggers = <<>> \/ functions = <<>> THEN <<>>
  ELSE ToFirst(triggers, functions) \o Chain(functions)

\* _validate_flow_references: the ends of an edge.
RefersTo(p, edge) ==
  /\ edge.from \in ToSet(p.triggers) \union ToSet(p.functions)
  /\ edge.to \in ToSet(p.functions)

\* Its check for cycles.  An edge from a name that is a function counts, though a
\* trigger may have the same name; one that is there twice counts twice.
Inner(p) == {i \in 1..Len(p.flow) : p.flow[i].from \in ToSet(p.functions)}
Incoming(p, f) == Cardinality({i \in Inner(p) : p.flow[i].to = f})
Between(p, n, f) == Cardinality({i \in Inner(p) : p.flow[i].from = n /\ p.flow[i].to = f})

KahnStart(p) ==
  LET indeg == [f \in ToSet(p.functions) |-> Incoming(p, f)]
  IN  [queue |-> {f \in DOMAIN indeg : indeg[f] = 0}, indeg |-> indeg, visited |-> 0]

\* Mutant: an edge that is there twice is taken away once.
PoppedOnce(p, s) ==
  LET n == CHOOSE f \in s.queue : TRUE
      indeg == [f \in DOMAIN s.indeg |-> s.indeg[f] - IF Between(p, n, f) > 0 THEN 1 ELSE 0]
  IN  [queue |-> (s.queue \ {n}) \union {f \in DOMAIN indeg : indeg[f] = 0 /\ s.indeg[f] # 0},
       indeg |-> indeg, visited |-> s.visited + 1]
\* One turn of the loop.  The queue is a stack in the code; here it is a set, of
\* which the turn takes whichever.
Popped(p, s) ==
  LET n == CHOOSE f \in s.queue : TRUE
      indeg == [f \in DOMAIN s.indeg |-> s.indeg[f] - Between(p, n, f)]
  IN  [queue |-> (s.queue \ {n}) \union {f \in DOMAIN indeg : indeg[f] = 0 /\ s.indeg[f] # 0},
       indeg |-> indeg, visited |-> s.visited + 1]

\* What the loop has reached after so many turns: there are no more of them than
\* functions, and it stays where the queue is empty.
KahnAfter(p) ==
  LET turn[n \in 0..Cardinality(ToSet(p.functions))] ==
        IF n = 0 THEN KahnStart(p)
        ELSE IF turn[n - 1].queue = {} THEN turn[n - 1] ELSE Popped(p, turn[n - 1])
  IN  turn
Kahn(p) ==
  LET all == Cardinality(ToSet(p.functions)) IN KahnAfter(p)[all].visited = all

-----------------------------------------------------------------------------
(* The models                                                              *)

ValidVms(v) == Given(v.token) \/ (Given(v.user) /\ Given(v.password))
ValidRegistry(r) ==
  /\ r.method = "user_credentials" => Given(r.username_env) /\ Given(r.password_env)
  /\ r.method = "kubernetes_secret" => Given(r.kubernetes_secret_name)
Partitions == 1..10000
Ports == 1..65535
ValidTopic(t) == t.partitions \in Partitions /\ t.retention_hours >= 6
ValidBroker(b) ==
  /\ ValidTopic(b.topic)
  /\ b.kind = "vast" => b.ip_range = "addresses"
  /\ b.kind = "kafka" => b.port \in Ports
\* The wizard asks for no custom_statements.  The gid stands for the least of the
\* group's and of the users' uids, which have the same limit.
ValidIdentity(i) == i.policy # "custom" /\ i.gid >= 1
ValidEnablement(e) == ValidRegistry(e.registry) /\ ValidBroker(e.broker) /\ ValidIdentity(e.identity)
ValidPipeline(p) ==
  /\ p.schedule # Blank
  /\ \A i \in 1..Len(p.flow) : RefersTo(p, p.flow[i])
  /\ Kahn(p)

\* VastdeConfig, and its _cross_refs.  A section that may be left out, as the one
\* of Stage A, is the set of what is in it.
Valid(c) ==
  /\ ValidVms(c.vms)
  /\ \A e \in c.enablement : ValidEnablement(e)
  /\ \A i \in 1..Len(c.pipelines) :
       /\ ValidPipeline(c.pipelines[i])
       /\ \A e \in c.enablement : c.pipelines[i].k8s_cluster = e.kubernetes

-----------------------------------------------------------------------------
(* The file, and the commands that read it                                 *)

\* _interpolate: a reference to a variable is replaced by its value, env[text], in
\* whatever string of the document it is.  Another text is what it is, and so is
\* one in braces that names no variable.
Value(text, env) == IF text \in References THEN env[text] ELSE text

RegistryValue(r, env) ==
  [method |-> r.method, username_env |-> Value(r.username_env, env),
   password_env |-> Value(r.password_env, env),
   kubernetes_secret_name |-> Value(r.kubernetes_secret_name, env)]
EnablementValue(e, env) ==
  [kubernetes |-> Value(e.kubernetes, env), registry |-> RegistryValue(e.registry, env),
   broker |-> [e.broker EXCEPT !.ip_range = Value(@, env)], identity |-> e.identity]
PipelineValue(p, env) ==
  LET Values(s) == [i \in 1..Len(s) |-> Value(s[i], env)] IN
  [k8s_cluster |-> Value(p.k8s_cluster, env), schedule |-> Value(p.schedule, env),
   triggers |-> Values(p.triggers), functions |-> Values(p.functions),
   flow |-> [i \in 1..Len(p.flow) |->
               Edge(Value(p.flow[i].from, env), Value(p.flow[i].to, env))]]
CredentialsValue(v, env) ==
  [token |-> Value(v.token, env), user |-> Value(v.user, env), password |-> Value(v.password, env)]
Interpolated(c, env) ==
  [vms |-> CredentialsValue(c.vms, env),
   enablement |-> {EnablementValue(e, env) : e \in c.enablement},
   cluster |-> c.cluster,
   pipelines |-> [i \in 1..Len(c.pipelines) |-> PipelineValue(c.pipelines[i], env)]]

\* The variables that the document names.
NamesIn(p) ==
  ToSet(p.triggers) \union ToSet(p.functions)
    \union (UNION {{p.flow[i].from, p.flow[i].to} : i \in 1..Len(p.flow)})
TextsIn(c) ==
  {c.vms.token, c.vms.user, c.vms.password}
    \union (UNION {{e.kubernetes, e.broker.ip_range, e.registry.username_env,
                    e.registry.password_env, e.registry.kubernetes_secret_name} : e \in c.enablement})
    \union (UNION {NamesIn(c.pipelines[i]) \union {c.pipelines[i].k8s_cluster, c.pipelines[i].schedule} :
                     i \in 1..Len(c.pipelines)})
Variables(c) == TextsIn(c) \intersect References

\* _substitute_env_for_validation.  Mutant: it does not walk into the sections.
AllPlaceholders == [r \in References |-> "placeholder"]
WithPlaceholdersInVms(c) == [c EXCEPT !.vms = CredentialsValue(@, AllPlaceholders)]
WithPlaceholders(c) == Interpolated(c, AllPlaceholders)

Commands == {"validate", "enable", "apply"}
\* _load, with load_any_config, _require_full, and the first lines of enable
\* and apply: with which code the command ends there, or 0 where it goes on.
ExitCode(command, c, env) ==
  IF \/ \E v \in Variables(c) : env[v] = Absent
     \/ ~Valid(Interpolated(c, env)) THEN 2
  ELSE IF command = "enable" /\ c.enablement = {} THEN 2
  ELSE IF command = "apply" /\ c.pipelines = <<>> THEN 1 ELSE 0
=============================================================================
