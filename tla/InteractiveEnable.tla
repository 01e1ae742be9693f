--------------------------- MODULE InteractiveEnable ---------------------------
(***************************************************************************)
(* `vastde-orch enable --interactive`: run_interactive                     *)
(* (interactive/orchestrator.py) around the runs of Enablement.            *)
(*                                                                         *)
(* A session is a dry run that collects a plan, a question for each type   *)
(* of resource that the plan changes, in alphabetical order, and a real    *)
(* run that plans everything anew.  While the questions are open the       *)
(* tenant is anybody's.  `details` shows the same plan again and asks      *)
(* again: a stutter.                                                       *)
(***************************************************************************)
EXTENDS Enablement

VARIABLE session

ivars == <<vars, session>>

\* The types of resources in a plan, as run_interactive sorts them.
Types ==
  <<"container-registries", "dataengine", "groups", "kubernetes-clusters",
    "managers", "managers/password", "mtls-authentication-credentials", "roles",
    "s3policies", "topics", "users", "views">>
TypeOf ==
  [group |-> "groups", user |-> "users", role |-> "roles", manager |-> "managers",
   view |-> "views", source |-> "views", default |-> "topics", dead |-> "topics",
   toggle |-> "dataengine", attach |-> "s3policies", registry |-> "container-registries",
   cluster |-> "kubernetes-clusters", mtls |-> "mtls-authentication-credentials"]

NoSession == [stage |-> "none", lacks |-> {}, shown |-> {}, yes |-> {}, touched |-> FALSE]

\* Mutant: a plan without what would be updated.
ChangesCreated(s) ==
  CASE s \in {"group", "user", "view", "source", "default", "dead"} /\ s \notin objs -> {TypeOf[s]}
    [] s \in {"role", "manager"} /\ s \notin objs /\ HasAdmin -> {TypeOf[s]}
    [] s \in Calls /\ HasAdmin /\ {"password", "certs"} \intersect run.lacks = {} -> {TypeOf[s]}
    [] s = "attach" /\ ~engine.on -> {TypeOf[s]}
    [] OTHER -> {}

\* What a dry run records as WOULD_CREATE or WOULD_UPDATE at step s.  It cannot
\* look at the DataEngine API: the toggle and the three calls are always on it.
Changes(s) ==
  CASE s \in {"group", "user", "view", "source", "default", "dead"} /\ s \notin objs -> {TypeOf[s]}
    [] s \in {"role", "manager"} /\ s \notin objs /\ HasAdmin -> {TypeOf[s]}
    [] s = "manager" /\ "manager" \in objs /\ HasAdmin -> {"managers/password"}
    [] s = "toggle" -> {TypeOf[s]}
    [] s \in Calls /\ HasAdmin /\ {"password", "certs"} \intersect run.lacks = {} -> {TypeOf[s]}
    [] s = "attach" /\ ~engine.bound -> {TypeOf[s]}
    [] OTHER -> {}

Stage(s) == session.stage = s
\* Mutant: the client of the dry run is used again.
BeginApplyDry(s) ==
  /\ session' = [s EXCEPT !.stage = "apply"]
  /\ run' = [NoRun EXCEPT !.lacks = s.lacks, !.dry = TRUE, !.at = 2]

BeginApply(s) ==
  /\ session' = [s EXCEPT !.stage = "apply"]
  /\ run' = [NoRun EXCEPT !.lacks = s.lacks, !.at = 2]

\* The command and its dry run.
Open(lacks) ==
  /\ Stage("none") /\ Idle
  /\ session' = [NoSession EXCEPT !.stage = "plan", !.lacks = lacks]
  /\ run' = [NoRun EXCEPT !.dry = TRUE, !.lacks = lacks, !.at = 2]
  /\ IF lacks # {} THEN Use("trouble") ELSE UNCHANGED count
  /\ UNCHANGED world

\* A step of the dry run.  After the last one come the questions; a plan
\* without changes ends the session, and so does an exception.
PlanStep ==
  /\ Stage("plan") /\ Work
  /\ LET shown == session.shown \union Changes(Steps[run.at]) IN
     session' =
       CASE run'.at > 0 -> [session EXCEPT !.shown = shown]
         [] run'.at = 0 /\ run'.exit = "ok" /\ shown # {} ->
              [session EXCEPT !.stage = "ask", !.shown = shown]
         [] OTHER -> NoSession

\* The type a prompt is about: the first that has no answer yet.
Asked(s) == Types[CHOOSE i \in 1..Len(Types) :
                    /\ Types[i] \in s.shown \ s.yes
                    /\ \A j \in 1..(i - 1) : Types[j] \notin s.shown \ s.yes]

\* `no`, and Ctrl-C at a prompt, abort the whole command.
Refuse ==
  /\ Stage("ask") /\ Use("trouble") /\ session' = NoSession
  /\ UNCHANGED <<world, run>>

\* `yes` is for one type, `continue` for all that are left.
Approve(types) ==
  /\ Stage("ask")
  /\ LET s == [session EXCEPT !.yes = @ \union types] IN
     IF s.yes = s.shown THEN BeginApply(s) ELSE session' = s /\ UNCHANGED run
  /\ UNCHANGED <<world, count>>

\* A step of the real run, which looks at the cluster with its own eyes.
ApplyStep ==
  /\ Stage("apply") /\ Work
  /\ session' = IF run'.at = 0 THEN NoSession ELSE session

\* The process dies during a run; at a prompt that is a `no`.
Killed == (Crash \/ ZarfCut) /\ session' = NoSession

\* Somebody deletes the view or a topic in the web UI.
RemoveObject(k) ==
  /\ k \in objs /\ Use("trouble") /\ objs' = objs \ {k}
  /\ run' = [run EXCEPT !.touched = TRUE]
  /\ UNCHANGED <<strays, perms, pw, k8s, de>>
Taken ==
  /\ RemoveCluster \/ RemoveEngine \/ \E k \in {"view", "default", "dead"} : RemoveObject(k)
  /\ session' = [session EXCEPT !.touched = @ \/ ~Stage("none")]
Passing ==
  /\ ResourceGone \/ RotatePassword \/ RepairZarf \/ TimePasses
  /\ UNCHANGED session

InteractiveInit == Init /\ session = NoSession
InteractiveNext ==
  \/ \E lacks \in Lacks : Open(lacks)
  \/ PlanStep \/ Refuse \/ Approve({Asked(session)}) \/ Approve(session.shown \ session.yes) \/ ApplyStep
  \/ Killed \/ Taken \/ Passing
InteractiveSpec == InteractiveInit /\ [][InteractiveNext]_ivars
=============================================================================
