---------------------- MODULE WizardSessionProperties ----------------------
(* What the wizard promises of the file that it writes.                    *)
EXTENDS WizardSession

Held(text) == IF text \in References THEN "placeholder" ELSE text

\* The texts of a file that must not be blank, and may be references.
Required(c) ==
  {c.vms.token, c.vms.user, c.vms.password}
    \union (UNION {{e.registry.username_env, e.registry.password_env,
                    e.registry.kubernetes_secret_name} : e \in c.enablement})
    \union {c.pipelines[i].schedule : i \in 1..Len(c.pipelines)}
AllGiven(c, env) ==
  /\ \A r \in Variables(c) : env[r] # Absent
  /\ \A r \in Required(c) \intersect References : Given(env[r])

\* The values tell the names of a pipeline apart where the placeholders did, and
\* an edge with a placeholder at an end has the names that the pipeline has.
NamesFit(p, env) ==
  /\ \A a, b \in NamesIn(p) : Value(a, env) = Value(b, env) => Held(a) = Held(b)
  /\ \A i \in 1..Len(p.flow) :
       "placeholder" \in {Held(p.flow[i].from), Held(p.flow[i].to)} => RefersTo(p, p.flow[i])

\* What the wizard wrote, the commands load, once the variables that it names are
\* set, to something where something is required, and to names that fit: the
\* wizard validates with the same placeholder for all of them, the loader with
\* their values, in every string of the file.  A name that can be none of a
\* variable stays as it is and needs no value.  `enable` asks for a Stage A and
\* `apply` for a pipeline.
WrittenLoads ==
  stage = "written" =>
    \A env \in [Variables(file) -> {Absent, Blank, "secret"} \union Names], command \in Commands :
      /\ ~AllGiven(file, env) => ExitCode(command, file, env) = 2
      /\ (AllGiven(file, env) /\ \A i \in 1..Len(file.pipelines) : NamesFit(file.pipelines[i], env))
           => ExitCode(command, file, env) =
                IF command = "enable" /\ file.enablement = {} THEN 2
                ELSE IF command = "apply" /\ file.pipelines = <<>> THEN 1 ELSE 0

\* Of what somebody typed at the prompts, that is after all questions, only
\* these answers are refused: a blank where the models want a text, numbers
\* beyond the limits, something else than addresses, be it a variable that holds
\* one, the policy "custom", and names of a pipeline that are alike, as two
\* variables are for the validation.
UnfitPipeline(p) ==
  LET names == p.triggers \o p.functions IN
  p.schedule = Blank \/ ~IsInjective([i \in 1..Len(names) |-> Held(names[i])])
UnfitEnablement(e) ==
  \/ /\ e.registry.method # "none"
     /\ Blank \in {e.registry.username_env, e.registry.kubernetes_secret_name}
  \/ e.broker.topic.partitions \notin Partitions \/ e.broker.topic.retention_hours < 6
  \/ e.broker.kind = "vast" /\ e.broker.ip_range # "addresses"
  \/ e.broker.kind = "kafka" /\ e.broker.port \notin Ports
  \/ e.identity.policy = "custom"
Reasons ==
  \/ \E i \in 1..Len(config.pipelines) : UnfitPipeline(config.pipelines[i])
  \/ \E e \in config.enablement : UnfitEnablement(e)
RefusedForCause == (stage = "invalid" /\ ~scripted) => Reasons

\* The algorithm of Kahn in the models finds a cycle exactly where the functions
\* cannot be put in an order that all edges between them follow: with edges that
\* are there twice, a function that follows itself, and names that a trigger
\* shares.  It does so for a pipeline as the wizard validates it, in which the
\* placeholder makes names alike, and as the commands read it when each variable
\* has a value of its own.
ReadAs(p) == {p, PipelineValue(p, AllPlaceholders)}
Orderable(p) ==
  LET functions == ToSet(p.functions) IN
  \E rank \in [functions -> 1..Cardinality(functions)] :
    \A i \in Inner(p) : rank[p.flow[i].from] < rank[p.flow[i].to]
KahnFindsCycles ==
  \A i \in 1..Len(config.pipelines) : \A p \in ReadAs(config.pipelines[i]) :
    (\A n \in 1..Len(p.flow) : RefersTo(p, p.flow[n])) => (Kahn(p) <=> Orderable(p))
=============================================================================
