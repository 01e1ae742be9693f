-------------------------- MODULE StageBProperties --------------------------
(* What the commands of Stage B promise.                                   *)
EXTENDS StageB

\* An apply of all pipelines that exits with 0 has brought triggers, the images
\* of the functions, pipelines and their deployments to what the YAML says, and
\* every image it names is in the registry, unless others meddled since it began: although a
\* listing that fails passes for an empty one (vastde_cli.py:79-84).
Exited(t, cmd) == Idle(t) /\ run[t].ok /\ run[t].opt.cmd = cmd /\ ~run[t].opt.dry
ApplyDelivers ==
  \A t \in Terminals :
    (/\ Exited(t, "apply") /\ run[t].opt.deploy /\ run[t].opt.targets = PipelinesOf[t]
     /\ run[t].refused = {} /\ ~run[t].moved)
      => InPlace(t) /\ \A p \in Among(Pipelines, PipelinesOf[t]) :
           \A f \in Among(Functions, FunctionsOf[p]) : Cached(f, Tag(f))

\* The tenant a step of terminal t changes, other than by a destroy, is the one
\* of its YAML, unless another terminal logged in elsewhere since t did: `vastde`
\* has one configuration per machine (vastde_cli.py:43-57).
Acts(t) == <<run'[t].phase, run'[t].todo>> # <<run[t].phase, run[t].todo>>
Touched(ten) == held'[ten] # held[ten] \/ running'[ten] # running[ten]
AppliesStayHome ==
  [][\A t \in Terminals : \A ten \in Tenants \ {TenantOf[t]} :
       ((AtPhase(t, "write") \/ Doing(t, "deploy")) /\ Acts(t) /\ ~run[t].robbed)
         => ~Touched(ten)]_vars

\* A destroy changes only the tenant of its YAML ("Auth + config used by every
\* `vastde` invocation", vastde_cli.py:22).
DestroyStaysHome ==
  [][\A t \in Terminals : \A ten \in Tenants \ {TenantOf[t]} :
       (Doing(t, "delete") /\ Acts(t)) => ~Touched(ten)]_vars

\* A destroy that exits with 0 has deleted all that its pipelines list, and it
\* switches DataEngine off only after that, if the machine is logged in to its
\* tenant and others stay away meanwhile (cli.py:320-337).
Torn(t) ==
  \A p \in Among(Pipelines, run[t].opt.targets) :
    \A o \in ObjectsOf(p) : held[TenantOf[t]][o] = None
DestroyDone ==
  \A t \in Terminals :
    (/\ Exited(t, "destroy") \/ (Doing(t, "disable") /\ ~run[t].opt.dry)
     /\ ~run[t].moved /\ login = TenantOf[t]) => Torn(t)

\* What an interactive apply does after "yes" to a pipeline is what its preview
\* showed, unless others meddled in between or a listing failed (cli.py:252-273:
\* the plan is made again to apply it).
ShownIsDone ==
  \A t \in Terminals :
    (/\ AtPhase(t, "write") /\ run[t].ask /\ ~run[t].moved /\ ~run[t].blind)
      => <<Object(Now(t)), Change(run[t].seen, Wanted(run[t], Now(t)))>> \in run[t].shown

\* What is pushed under a content hash has that content, unless the source was
\* edited between the hash and the build, or another terminal built a function
\* of the same name between the build and the push (functions.py:60-67).
PushesWhatItHashed ==
  [][\A t \in Terminals : (AtPhase(t, "push") /\ Acts(t) /\ ~run[t].stale /\ run[t].tag # 0)
       => registry'[Now(t).name][run[t].tag] \in {run[t].tag, registry[Now(t).name][run[t].tag]}]_vars

\* Where `vastde` takes the bodies, an operator who applies until it exits with 0
\* has all in place in the end, whatever was cut short, failed, removed or
\* changed by hand before.
ApplySettles == TakesFileInput => \A t \in Keen : <>[]InPlace(t)
=============================================================================
