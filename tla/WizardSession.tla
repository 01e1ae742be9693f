--------------------------- MODULE WizardSession ---------------------------
(***************************************************************************)
(* `vastde-orch wizard` (cli.py, interactive/wizard.py): it asks section   *)
(* by section, or takes all from an answers file, validates what it has    *)
(* composed, and then writes the file, which is one step here (WizardFiles *)
(* has its parts).  One action is one builder of interactive/sections/.    *)
(***************************************************************************)
EXTENDS WizardConfig

CONSTANTS
  Names,         \* of triggers and functions; they may be references
  Numbers,       \* that somebody may type or put into an answers file
  MaxOdd,        \* bound on the answers that are not the usual ones
  MaxPipelines,  \* bounds on the lists: of pipelines,
  MaxTriggers,   \* of the triggers, the functions and the edges of a pipeline
  MaxFunctions,
  MaxEdges

ASSUME WizardAnswers ==
  Numbers \subseteq Int /\ {MaxOdd, MaxPipelines, MaxTriggers, MaxFunctions, MaxEdges} \subseteq Nat

Texts == {Blank, "text"} \union References
Addresses == {"addresses", "text"} \union References

VARIABLES
  stage,     \* the section it asks for next, or how it ended
  scripted,  \* whether it has an answers file
  config,    \* what it has composed
  odd,       \* how many answers were not the usual ones
  file       \* vastde.yaml

vars == <<stage, scripted, config, odd, file>>

Empty == [vms |-> [token |-> Absent, user |-> Absent, password |-> Absent],
          enablement |-> {}, cluster |-> Absent, pipelines |-> <<>>]

\* Prompter.integer tests the minimum only where it prompts.
Accepted(n, minimum) == scripted \/ n >= minimum

\* An answer is the usual one, or one of a few others.
Unusual(answer, usual) == IF answer = usual THEN 0 ELSE 1
Answered(answer, usual) == odd' = odd + Unusual(answer, usual) /\ odd' <= MaxOdd

-----------------------------------------------------------------------------
(* wizard, up to the first question                                        *)

\* require_tty lets an operator pass who opted out of prompts.
Start(answers_file, tty, opt_out) ==
  /\ stage = "idle" /\ scripted' = answers_file
  /\ stage' = IF answers_file \/ tty \/ opt_out THEN "vms" ELSE "refused"
  /\ config' = Empty /\ UNCHANGED <<odd, file>>

\* Ctrl-C at a prompt; a key that the answers file lacks, or a value of a wrong
\* type or not among the choices.  Neither is caught.
Questions == {"vms", "kubernetes", "registry", "broker", "identity", "pipelines"}
Abort ==
  /\ stage \in Questions /\ stage' = "aborted"
  /\ UNCHANGED <<scripted, config, odd, file>>

-----------------------------------------------------------------------------
(* The sections                                                            *)

\* build_vms_section, and whether there is to be a Stage A.  Whatever is typed as
\* the name of a variable is written in braces, whether it can name one or not.
Braced == References \union Malformed
ByToken == {[token |-> t, user |-> Absent, password |-> Absent] : t \in Braced}
ByPassword == {[token |-> Absent, user |-> u, password |-> p] : u, p \in Braced}
UsualToken == [token |-> CHOOSE t \in References : TRUE, user |-> Absent, password |-> Absent]
VmsSection(credentials, enablement) ==
  /\ stage = "vms" /\ stage' = "kubernetes"
  /\ config' = [config EXCEPT !.vms = credentials,
       !.enablement = IF enablement THEN {[kubernetes |-> Absent]} ELSE {}]
  /\ Answered(<<credentials, enablement>>, <<UsualToken, TRUE>>)
  /\ UNCHANGED <<scripted, file>>

\* _build_kubernetes, or the question for a cluster that there is already.
KubernetesSection(name) ==
  /\ stage = "kubernetes"
  /\ stage' = IF config.enablement = {} THEN "pipelines" ELSE "registry"
  /\ config' = [config EXCEPT !.cluster = name,
       !.enablement = {[kubernetes |-> name] : e \in @}]
  /\ Answered(name, "prod-k8s") /\ UNCHANGED <<scripted, file>>

Plus(e, field, value) == [f \in DOMAIN e \union {field} |-> IF f = field THEN value ELSE e[f]]
With(field, value) == [config EXCEPT !.enablement = {Plus(e, field, value) : e \in @}]

\* Mutant: the password's variable is not asked for.
RegistryOf(method, text) ==
  [method |-> method, password_env |-> Absent,
   username_env |-> IF method = "user_credentials" THEN text ELSE Absent,
   kubernetes_secret_name |-> IF method = "kubernetes_secret" THEN text ELSE Absent]
\* _build_registry; one text stands for the answers that its method asks for.
Registry(method, text) ==
  [method |-> method,
   username_env |-> IF method = "user_credentials" THEN text ELSE Absent,
   password_env |-> IF method = "user_credentials" THEN text ELSE Absent,
   kubernetes_secret_name |-> IF method = "kubernetes_secret" THEN text ELSE Absent]
RegistrySection(method, text) ==
  /\ stage = "registry" /\ stage' = "broker"
  /\ config' = With("registry", Registry(method, text))
  /\ Answered(<<method, text>>, <<"user_credentials", "text">>)
  /\ UNCHANGED <<scripted, file>>

\* _build_vast_broker and _build_kafka_broker; its two topics are asked for alike,
\* and in the place of the addresses a kafka broker has its host.
BrokerSection(kind, partitions, retention, ip_range, port) ==
  /\ stage = "broker" /\ stage' = "identity"
  /\ kind = "vast" => Accepted(partitions, 1) /\ Accepted(retention, 6)
  /\ config' = With("broker",
       [kind |-> kind, topic |-> [partitions |-> partitions, retention_hours |-> retention],
        ip_range |-> ip_range, port |-> port])
  /\ Answered(<<kind, partitions, retention, ip_range, port>>, <<"vast", 50, 168, "addresses", 9092>>)
  /\ UNCHANGED <<scripted, file>>

\* _build_identity, and the source views.
IdentitySection(policy, gid) ==
  /\ stage = "identity" /\ stage' = "pipelines" /\ Accepted(gid, 1)
  /\ config' = With("identity", [policy |-> policy, gid |-> gid])
  /\ Answered(<<policy, gid>>, <<"assign_predefined", 5000>>)
  /\ UNCHANGED <<scripted, file>>

\* _build_pipeline; an answers file gives the flow verbatim.  The schedule is the
\* one of its schedule triggers, if it has any.
Flow(triggers, functions, flow) ==
  IF scripted THEN flow ELSE ProposedFlow(triggers, functions)
PipelineSection(triggers, functions, flow, schedule) ==
  /\ stage = "pipelines" /\ UNCHANGED stage
  /\ config' = [config EXCEPT !.pipelines = Append(@,
       [k8s_cluster |-> config.cluster, triggers |-> triggers, functions |-> functions,
        flow |-> Flow(triggers, functions, flow), schedule |-> schedule])]
  /\ odd' = odd + Unusual(Flow(triggers, functions, flow), ProposedFlow(triggers, functions))
                + Unusual(schedule, Absent)
  /\ odd' <= MaxOdd /\ UNCHANGED <<scripted, file>>

\* No more pipelines, or no Stage B.
Composed ==
  /\ stage = "pipelines"
  /\ stage' = IF Valid(WithPlaceholders(config)) THEN "write" ELSE "invalid"
  /\ UNCHANGED <<scripted, config, odd, file>>

\* write_yaml_with_backup
Write ==
  /\ stage = "write" /\ stage' = "written" /\ file' = config
  /\ UNCHANGED <<scripted, config, odd>>

-----------------------------------------------------------------------------
\* What an answers file may say of the flow.
Flows(triggers, functions) ==
  IF scripted /\ odd < MaxOdd THEN BoundedSeq([from : Names, to : Names], MaxEdges)
  ELSE {ProposedFlow(triggers, functions)}
Schedules(triggers) == {Absent} \union (IF triggers = <<>> THEN {} ELSE Texts)

\* The guards come first, for the sake of TLC.
Ask ==
  \/ \E credentials \in ByToken \union ByPassword, enablement \in BOOLEAN :
       VmsSection(credentials, enablement)
  \/ \E name \in {"prod-k8s", "other-k8s"} \union References : KubernetesSection(name)
  \/ \E method \in {"user_credentials", "kubernetes_secret", "none"}, text \in Texts :
       RegistrySection(method, text)
  \/ stage = "broker" /\ \E kind \in {"vast", "kafka"}, ip_range \in Addresses,
        partitions \in Numbers \union {50}, retention \in Numbers \union {168},
        port \in Numbers \union {9092} :
       BrokerSection(kind, partitions, retention, ip_range, port)
  \/ \E policy \in {"assign_predefined", "custom"}, gid \in Numbers \union {5000} :
       IdentitySection(policy, gid)
  \/ stage = "pipelines" /\ Len(config.pipelines) < MaxPipelines
     /\ \E triggers \in BoundedSeq(Names, MaxTriggers), functions \in BoundedSeq(Names, MaxFunctions) :
          \E flow \in Flows(triggers, functions), schedule \in Schedules(triggers) :
            PipelineSection(triggers, functions, flow, schedule)

Init ==
  /\ stage = "idle" /\ scripted = FALSE /\ config = Empty /\ odd = 0
  /\ file = Absent
Next ==
  \/ \E answers_file, tty, opt_out \in BOOLEAN : Start(answers_file, tty, opt_out)
  \/ Ask \/ Abort \/ Composed \/ Write
Spec == Init /\ [][Next]_vars
=============================================================================
