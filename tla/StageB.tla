------------------------------- MODULE StageB -------------------------------
(***************************************************************************)
(* Stage B: `vastde-orch apply`, `destroy`, `status` and `function build`  *)
(* (cli.py) over ensure_pipeline, ensure_trigger and ensure_function       *)
(* (pipelines/), the `vastde` and `docker` command lines that they run     *)
(* (clients/), and the prompts of `apply --interactive`.                   *)
(*                                                                         *)
(* Several terminals of one machine share a checkout, its docker daemon,   *)
(* and the configuration that `vastde config init` writes: `vastde` works  *)
(* on the tenant it was last configured for.  The YAML files of the        *)
(* terminals differ in their tenant and may list the same pipelines.  One  *)
(* action is one subprocess, or one decision at a prompt.                  *)
(*                                                                         *)
(* A body, a source tree and a content hash are revisions, natural         *)
(* numbers: the hash of revision n is n.  0 is a tag the YAML gives, and a *)
(* body that somebody edited by hand.                                      *)
(***************************************************************************)
EXTENDS Integers, Sequences, FiniteSets

CONSTANTS
  Terminals, Tenants,
  TenantOf,      \* the tenant in each terminal's YAML (vms.tenant)
  PipelinesOf,   \* the pipelines it lists, in their order
  Triggers, Functions, Pipelines,
  TriggersOf, FunctionsOf,   \* of each pipeline, in their order
  Pinned,        \* the functions with a tag in the YAML
  Options,       \* the commands and options each terminal uses: see Commands
  Keen,          \* the terminals whose operator applies until it is done
  TakesFileInput,   \* whether `vastde` takes a body from `--file-input -`
  None,
  MaxTrouble     \* bound on all else, together: commands other than a keen
                 \* operator's apply, edits of the YAML, the sources or in the
                 \* web UI, listings that fail and runs cut short

\* The flags of a run: dry is --plan, ask is --interactive, off is
\* --include-enablement; targets are the pipelines of the YAML that --only
\* leaves, or the function to build.
Commands ==
  [cmd : {"apply"}, dry : BOOLEAN, ask : BOOLEAN, deploy : BOOLEAN, off : {FALSE},
   targets : Seq(Pipelines)]
  \union
  [cmd : {"destroy"}, dry : BOOLEAN, ask : {FALSE}, deploy : {TRUE}, off : BOOLEAN,
   targets : Seq(Pipelines)]
  \union
  [cmd : {"status"}, dry : {FALSE}, ask : {FALSE}, deploy : {TRUE}, off : {FALSE},
   targets : Seq(Pipelines)]
  \union
  [cmd : {"build"}, dry : {FALSE}, ask : {FALSE}, deploy : {FALSE}, off : {FALSE},
   targets : Seq(Functions)]
Nothing == [cmd |-> "apply", dry |-> FALSE, ask |-> FALSE, deploy |-> TRUE,
            off |-> FALSE, targets |-> <<>>]
Plain(t) == [Nothing EXCEPT !.targets = PipelinesOf[t]]

Objects == ({"trigger"} \X Triggers) \union ({"function"} \X Functions)
             \union ({"pipeline"} \X Pipelines)
Revisions == 0..(MaxTrouble + 1)
Disable == "enablement"   \* the last target of destroy --include-enablement

ASSUME StageBConstants ==
  /\ TenantOf \in [Terminals -> Tenants] /\ PipelinesOf \in [Terminals -> Seq(Pipelines)]
  /\ TriggersOf \in [Pipelines -> Seq(Triggers)]
  /\ FunctionsOf \in [Pipelines -> Seq(Functions)]
  /\ Pinned \subseteq Functions /\ Keen \subseteq Terminals
  /\ Options \in [Terminals -> SUBSET Commands] /\ TakesFileInput \in BOOLEAN
  /\ None \notin Int /\ None \notin Tenants /\ Disable \notin Pipelines \union Functions
  /\ MaxTrouble \in Nat

VARIABLES
  yaml,      \* the revision of the pipelines in the YAML files
  source,    \* the revision of each function's source directory
  login,     \* the tenant of the last `vastde config init` on the machine
  local,     \* the source in the local image <name>:latest of each function
  tagged,    \* the source in the local image <image>:<tag> of each function
  registry,  \* the same of the registry
  held,      \* the revision, or the tag, of each object on each tenant
  running,   \* what each deployed pipeline runs
  engine,    \* whether DataEngine is on
  run,       \* the command each terminal runs, or ran last
  trouble    \* how much of MaxTrouble is used up

remote == <<registry, held, running, engine>>
images == <<local, tagged>>
vars == <<yaml, source, login, images, remote, run, trouble>>

Trouble == trouble < MaxTrouble /\ trouble' = trouble + 1

-----------------------------------------------------------------------------
(* What a command does, item by item                                       *)

Item(op, kind, name) == [op |-> op, kind |-> kind, name |-> name]
Items(op, kind, names) == [i \in 1..Len(names) |-> Item(op, kind, names[i])]

\* Mutant: the triggers stay.
DestroyItemsNoTriggers(p) ==
  <<Item("delete", "pipeline", p)>> \o Items("delete", "function", FunctionsOf[p])

\* ensure_pipeline: triggers, functions, the pipeline and its deployment.
EnsureItems(p) ==
  Items("ensure", "trigger", TriggersOf[p]) \o Items("ensure", "function", FunctionsOf[p])
    \o <<Item("ensure", "pipeline", p)>>
ApplyItems(p, deploy) ==
  EnsureItems(p) \o IF deploy THEN <<Item("deploy", "pipeline", p)>> ELSE <<>>
\* The loop of `destroy` for one pipeline.
DestroyItems(p) ==
  <<Item("delete", "pipeline", p)>> \o Items("delete", "trigger", TriggersOf[p])
    \o Items("delete", "function", FunctionsOf[p])

\* What a command does for one of its targets; before an interactive apply
\* comes a dry run of it, and the question.
Target(o, x) ==
  IF x = Disable THEN <<Item("disable", "tenant", x)>>
  ELSE CASE o.cmd = "destroy" -> DestroyItems(x)
         [] o.cmd = "status"  -> <<Item("show", "pipeline", x)>>
         [] o.cmd = "build"   -> <<Item("ensure", "function", x)>>
         [] OTHER -> ApplyItems(x, o.deploy /\ ~o.dry)
\* Mutant: the preview leaves out the functions.
PreviewNoFunctions(p) ==
  Items("ensure", "trigger", TriggersOf[p])
    \o <<Item("ensure", "pipeline", p), Item("ask", "pipeline", p)>>
Preview(p) == EnsureItems(p) \o <<Item("ask", "pipeline", p)>>

Targets(o) == o.targets \o IF o.off THEN <<Disable>> ELSE <<>>

FirstPhase(item) ==
  IF item.op \notin {"ensure", "show"} THEN "do"
  ELSE IF item.kind = "function" THEN "check" ELSE "look"

-----------------------------------------------------------------------------
(* Runs                                                                    *)

NoRun == [opt |-> Nothing, left |-> <<>>, todo |-> <<>>, phase |-> "idle",
          ask |-> FALSE, trial |-> FALSE, conf |-> FALSE, want |-> 0, tag |-> 0,
          seen |-> None, ok |-> FALSE,
          \* Of the history: what the preview showed, pipelines that were
          \* rejected, whether all was in place at the start, and whether since
          \* then others changed what it reads (moved), logged in elsewhere
          \* (robbed), touched the source in hand (stale), or a listing failed.
          shown |-> {}, refused |-> {}, done |-> FALSE, moved |-> FALSE,
          robbed |-> FALSE, stale |-> FALSE, blind |-> FALSE]

Idle(t) == run[t].phase = "idle"
Now(t) == Head(run[t].todo)
AtPhase(t, ph) == ~Idle(t) /\ run[t].phase = ph
Doing(t, op) == AtPhase(t, "do") /\ Now(t).op = op

\* Exit with 0.  Of a run that failed, or that others meddled with, nothing is
\* remembered.
Ended(r) == IF r.moved THEN NoRun
            ELSE [NoRun EXCEPT !.opt = r.opt, !.refused = r.refused, !.ok = TRUE]
Begin(r, todo) == [r EXCEPT !.todo = todo, !.phase = FirstPhase(Head(todo)),
                            !.seen = None, !.stale = FALSE]

\* The next target of the loop, if any.  `apply` makes a VastdeCli for each
\* pipeline, the other commands use one for all.
NextTarget(r) ==
  IF r.left = <<>> THEN Ended(r)
  ELSE LET trial == r.ask /\ Head(r.left) # Disable IN
       Begin([r EXCEPT !.left = Tail(@), !.trial = trial, !.shown = {},
                       !.conf = @ /\ r.opt.cmd # "apply"],
             IF trial THEN Preview(Head(r.left)) ELSE Target(r.opt, Head(r.left)))

\* The item in hand is done.
Stepped(r) == IF Len(r.todo) > 1 THEN Begin(r, Tail(r.todo)) ELSE NextTarget(r)

Dry(r) == r.opt.dry \/ r.trial
Step(t) == run' = [run EXCEPT ![t] = Stepped(run[t])]
Fail(t) == run' = [run EXCEPT ![t] = NoRun]

\* History: others see their world move under them.
Disturbed(r) == IF r.phase = "idle" THEN NoRun
                ELSE [r EXCEPT !.moved = TRUE, !.done = FALSE, !.shown = {}]
Moved(t, r) == [s \in Terminals |-> IF s = t THEN r ELSE Disturbed(run[s])]

Object(item) == <<item.kind, item.name>>
Among(S, seq) == {x \in S : \E n \in 1..Len(seq) : seq[n] = x}
ObjectsOf(p) ==
  ({"trigger"} \X Among(Triggers, TriggersOf[p]))
    \union ({"function"} \X Among(Functions, FunctionsOf[p])) \union {<<"pipeline", p>>}
Tag(f) == IF f \in Pinned THEN 0 ELSE source[f]
\* What an object should be, by the YAML and the tag in hand.
Wanted(r, item) == IF item.kind = "function" THEN r.tag ELSE r.want

\* All that terminal t's YAML lists is there and deployed, as far as Stage B
\* compares it: of a function it compares the image alone, so an edit of its
\* description or alias is no edit here; images are right but for tags that are
\* not hashes.
InPlace(t) ==
  LET ten == TenantOf[t] IN
  \A p \in Among(Pipelines, PipelinesOf[t]) :
    /\ \A o \in ObjectsOf(p) :
         held[ten][o] = IF o[1] = "function" THEN Tag(o[2]) ELSE yaml
    /\ running[ten][p] = [o \in ObjectsOf(p) |-> held[ten][o]]

Start(t, o) ==
  /\ Idle(t) /\ Targets(o) # <<>>
  /\ run' = [run EXCEPT ![t] =
       NextTarget([NoRun EXCEPT !.opt = o, !.left = Targets(o), !.ask = o.ask,
                                !.want = yaml, !.done = InPlace(t)])]
  /\ IF t \in Keen /\ o = Plain(t) THEN UNCHANGED trouble ELSE Trouble
  /\ UNCHANGED <<yaml, source, login, images, remote>>

\* A subprocess fails, or the run is killed.
Stop(t) ==
  /\ ~Idle(t) /\ Trouble /\ Fail(t)
  /\ UNCHANGED <<yaml, source, login, images, remote>>

-----------------------------------------------------------------------------
(* Looking                                                                 *)

\* Mutant: any login will do.
NeedsAnyLogin(r) == login = None
\* VastdeCli.configure: the first listing of a VastdeCli logs in.
NeedsLogin(r) == ~r.conf
Configure(t) ==
  /\ AtPhase(t, "look") /\ NeedsLogin(run[t])
  /\ login' = TenantOf[t]
  /\ run' = [s \in Terminals |->
       IF s = t THEN [run[t] EXCEPT !.conf = TRUE, !.robbed = FALSE]
       ELSE LET r == IF login = TenantOf[t] THEN run[s] ELSE Disturbed(run[s]) IN
            [r EXCEPT !.robbed = @ \/ (~Idle(s) /\ TenantOf[s] # TenantOf[t])]]
  /\ UNCHANGED <<yaml, source, images, remote, trouble>>

\* triggers_list, functions_list and pipelines_list: whatever goes wrong, the
\* answer is an empty list.
Answers(o, failed) == IF failed THEN None ELSE held[login][o]

\* Mutant: what is there is right.
ChangeIfMissing(seen, wanted) == IF seen = None THEN "create" ELSE "none"
\* What ensure_trigger, ensure_function and ensure_pipeline make of it.
Change(seen, wanted) ==
  IF seen = None THEN "create" ELSE IF seen # wanted THEN "update" ELSE "none"

Looked(r, seen) ==
  LET item == Head(r.todo)
      op   == Change(seen, Wanted(r, item))
      note == [r EXCEPT !.shown = IF r.trial THEN @ \union {<<Object(item), op>>} ELSE @]
  IN  IF item.op = "show" \/ op = "none" \/ Dry(r) THEN Stepped(note)
      ELSE [note EXCEPT !.seen = seen, !.phase = "write"]

Look(t) ==
  /\ AtPhase(t, "look") /\ ~NeedsLogin(run[t])
  /\ \E failed \in BOOLEAN :
       /\ IF failed THEN Trouble ELSE UNCHANGED trouble
       /\ run' = [run EXCEPT ![t] =
            Looked([run[t] EXCEPT !.blind = @ \/ failed, !.done = @ /\ ~failed],
                   Answers(Object(Now(t)), failed))]
  /\ UNCHANGED <<yaml, source, login, images, remote>>

-----------------------------------------------------------------------------
(* Images                                                                  *)

\* compute_image_tag, and docker_manifest_exists for that tag.
Cached(f, tag) == registry[f][tag] # None
Check(t) ==
  /\ AtPhase(t, "check")
  /\ LET f == Now(t).name IN
     run' = [run EXCEPT ![t].tag = Tag(f), ![t].stale = FALSE,
               ![t].phase = IF Cached(f, Tag(f)) \/ Dry(run[t]) THEN "look" ELSE "build"]
  /\ UNCHANGED <<yaml, source, login, images, remote, trouble>>

\* Mutant: a local image is not built again.
BuildOnce(t) ==
  /\ AtPhase(t, "build")
  /\ local' = [local EXCEPT ![Now(t).name] = IF @ = None THEN source[Now(t).name] ELSE @]
  /\ run' = [s \in Terminals |->
       IF s = t THEN [run[t] EXCEPT !.phase = "tag"]
       ELSE [run[s] EXCEPT !.stale = @ \/ (/\ AtPhase(s, "tag") \/ AtPhase(s, "push")
                                         /\ Now(s).name = Now(t).name)]]
  /\ UNCHANGED <<yaml, source, login, tagged, remote, trouble>>

\* `vastde functions build`, of the source as it is now, to <name>:latest.
Build(t) ==
  /\ AtPhase(t, "build")
  /\ local' = [local EXCEPT ![Now(t).name] = source[Now(t).name]]
  /\ run' = [s \in Terminals |->
       IF s = t THEN [run[t] EXCEPT !.phase = "tag"]
       ELSE [run[s] EXCEPT !.stale = @ \/ (/\ AtPhase(s, "tag") \/ AtPhase(s, "push")
                                         /\ Now(s).name = Now(t).name)]]
  /\ UNCHANGED <<yaml, source, login, tagged, remote, trouble>>

\* docker_tag: what <name>:latest is by now gets the tag as well.
DockerTag(t) ==
  /\ AtPhase(t, "tag")
  /\ LET f == Now(t).name IN tagged' = [tagged EXCEPT ![f][run[t].tag] = local[f]]
  /\ run' = [run EXCEPT ![t].phase = "push"]
  /\ UNCHANGED <<yaml, source, login, local, remote, trouble>>

\* docker_push: what the tag is by now.
Push(t) ==
  /\ AtPhase(t, "push")
  /\ LET f == Now(t).name
         n == run[t].tag
     IN registry' = [registry EXCEPT ![f][n] = tagged[f][n]]
  /\ run' = [run EXCEPT ![t].phase = "look"]
  /\ UNCHANGED <<yaml, source, login, images, held, running, engine, trouble>>

-----------------------------------------------------------------------------
(* Writing                                                                 *)

\* The command line of VAST on the tenant it is configured for: it creates what
\* is not there and updates, deploys and deletes what is.
Accepts(o, there) == login # None /\ (held[login][o] # None) = there

\* *_create, *_update, functions_new_revision: the body goes in on stdin, with a
\* flag that KNOWN_ISSUES.md reports unknown to the two `vastde` it was tried on.
Write(t) ==
  /\ AtPhase(t, "write")
  /\ LET o == Object(Now(t)) IN
     IF TakesFileInput /\ Accepts(o, run[t].seen # None)
       THEN /\ held' = [held EXCEPT ![login][o] = Wanted(run[t], Now(t))]
            /\ run' = Moved(t, Stepped(run[t]))
       ELSE Fail(t) /\ UNCHANGED held
  /\ UNCHANGED <<yaml, source, login, images, registry, running, engine, trouble>>

Deploy(t) ==
  /\ Doing(t, "deploy")
  /\ LET p == Now(t).name IN
     IF Accepts(Object(Now(t)), TRUE)
       THEN /\ running' = [running EXCEPT ![login][p] = [o \in ObjectsOf(p) |-> held[login][o]]]
            /\ run' = Moved(t, Stepped(run[t]))
       ELSE Fail(t) /\ UNCHANGED running
  /\ UNCHANGED <<yaml, source, login, images, registry, held, engine, trouble>>

\* *_delete: no listing, and no `config init`, goes before it.
Delete(t) ==
  /\ Doing(t, "delete")
  /\ LET o == Object(Now(t)) IN
     IF run[t].opt.dry THEN Step(t) /\ UNCHANGED <<held, running>>
     ELSE IF Accepts(o, TRUE)
       THEN /\ held' = [held EXCEPT ![login][o] = None]
            /\ running' = IF Now(t).kind = "pipeline"
                            THEN [running EXCEPT ![login][Now(t).name] = None] ELSE running
            /\ run' = Moved(t, Stepped(run[t]))
       ELSE Fail(t) /\ UNCHANGED <<held, running>>
  /\ UNCHANGED <<yaml, source, login, images, registry, engine, trouble>>

\* disable_dataengine, over REST and so always on the YAML's tenant; a DELETE
\* that fails is reported as unchanged.
DisableEngine(t) ==
  /\ Doing(t, "disable") /\ Step(t)
  /\ \/ UNCHANGED engine
     \/ ~run[t].opt.dry /\ engine' = [engine EXCEPT ![TenantOf[t]] = FALSE]
  /\ UNCHANGED <<yaml, source, login, images, registry, held, running, trouble>>

-----------------------------------------------------------------------------
(* The prompt                                                              *)

\* InteractiveSession.confirm_type; "no", or Ctrl-C, skips this pipeline alone.
Answer(t, answer) ==
  /\ Doing(t, "ask")
  /\ run' = [run EXCEPT ![t] =
       IF answer = "no" THEN NextTarget([run[t] EXCEPT !.refused = @ \union {Now(t).name}])
       ELSE Begin([run[t] EXCEPT !.ask = @ /\ answer = "yes", !.trial = FALSE, !.conf = FALSE],
                  Target(run[t].opt, Now(t).name))]
  /\ UNCHANGED <<yaml, source, login, images, remote, trouble>>

-----------------------------------------------------------------------------
(* The world                                                               *)

\* Somebody edits the YAML, or the source of a function.
EditYaml ==
  /\ Trouble /\ yaml' = yaml + 1
  /\ run' = [s \in Terminals |-> Disturbed(run[s])]
  /\ UNCHANGED <<source, login, images, remote>>
EditSource(f) ==
  /\ Trouble /\ source' = [source EXCEPT ![f] = @ + 1]
  /\ run' = [s \in Terminals |-> [Disturbed(run[s]) EXCEPT
       !.stale = @ \/ (AtPhase(s, "build") /\ Now(s).name = f)]]
  /\ UNCHANGED <<yaml, login, images, remote>>

\* Somebody deletes or edits an object in the DataEngine web UI.
Outside(ten, o, v) ==
  /\ held[ten][o] # None /\ v # held[ten][o] /\ Trouble
  /\ held' = [held EXCEPT ![ten][o] = v]
  /\ running' = IF o[1] = "pipeline" /\ v = None
                  THEN [running EXCEPT ![ten][o[2]] = None] ELSE running
  /\ run' = [s \in Terminals |-> Disturbed(run[s])]
  /\ UNCHANGED <<yaml, source, login, images, registry, engine>>

Work(t) ==
  \/ Configure(t) \/ Look(t) \/ Check(t) \/ Build(t) \/ DockerTag(t) \/ Push(t) \/ Write(t)
  \/ Deploy(t) \/ Delete(t) \/ DisableEngine(t)
  \/ \E a \in {"yes", "no", "continue"} : Answer(t, a)

Init ==
  /\ yaml = 1 /\ source = [f \in Functions |-> 1]
  /\ login \in Tenants \union {None}
  /\ local = [f \in Functions |-> None]
  /\ tagged = [f \in Functions |-> [n \in Revisions |-> None]]
  /\ registry = [f \in Functions |-> [n \in Revisions |-> None]]
  /\ held = [ten \in Tenants |-> [o \in Objects |-> None]]
  /\ running = [ten \in Tenants |-> [p \in Pipelines |-> None]]
  /\ engine = [ten \in Tenants |-> TRUE]
  /\ run = [t \in Terminals |-> NoRun]
  /\ trouble = 0

Next ==
  \/ \E t \in Terminals : \/ \E o \in Options[t] : Start(t, o)
                          \/ Stop(t) \/ Work(t)
  \/ EditYaml \/ \E f \in Functions : EditSource(f)
  \/ \E ten \in Tenants, o \in Objects : \E v \in {None, 0} : Outside(ten, o, v)

Spec == Init /\ [][Next]_vars

\* A keen operator applies again unless the last run was an apply that exited
\* with 0 and nothing has changed since.  A command that runs takes its next
\* step, and prompts are answered.
Satisfied(t) == run[t].opt = Plain(t) /\ run[t].ok
Retry(t) == ~Satisfied(t) /\ Start(t, Plain(t))
Fairness ==
  /\ \A t \in Terminals : WF_vars(Work(t))
  /\ \A t \in Keen : SF_vars(Retry(t))
FairSpec == Spec /\ Fairness
=============================================================================
