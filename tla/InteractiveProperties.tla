------------------------- MODULE InteractiveProperties -------------------------
(***************************************************************************)
(* What `enable --interactive` promises.                                   *)
(***************************************************************************)
EXTENDS InteractiveEnable, EnablementProperties

\* The types of resources that a step writes on VMS.  The permissions of a role
\* and the Kubernetes cluster are on no plan and are written all the same.
Written ==
  {TypeOf[k] : k \in (objs' \ objs) \intersect DOMAIN TypeOf}
    \union {t \in {"managers/password"} : pw' # pw /\ objs' = objs}
    \union {t \in {TypeOf["toggle"]} : At("toggle") /\ engine' # engine}
    \union {t \in {TypeOf["attach"]} : engine'.bound /\ ~engine.bound}
    \union {t \in {TypeOf["mtls"]} : creds' # creds}
    \union {t \in {TypeOf["cluster"]} : cluster' # cluster}
    \union {t \in {TypeOf["registry"]} : registry' # registry}

\* The plan is computed again after the questions.  Still, what a session writes
\* is of a type that was shown and approved, unless somebody took something
\* away in between (cli.py: "Prompt before applying each resource type"), and
\* one refused type means that nothing is written.
WritesWereApproved ==
  [][((PlanStep \/ ApplyStep) /\ ~session.touched) => Written \subseteq session.yes]_ivars

\* An operator who only ever runs `enable --interactive`, and says yes but for a
\* few times, gets DataEngine: no session ends for want of changes while there
\* is something left to do, and what it applies is real.  As in EnableSettles, VMS
\* is one that does not insist on the pools, and a cut `zarf init` stops it.
KeepsOpening == ~Delivered /\ Open({})
InteractiveFair ==
  /\ InteractiveSpec
  /\ WF_ivars(PlanStep) /\ WF_ivars(ApplyStep) /\ WF_ivars(KeepsOpening)
  /\ WF_ivars(Approve(session.shown \ session.yes) \/ Approve({Asked(session)}))
  /\ WF_ivars(ResourceGone /\ UNCHANGED session)
ApprovalSettles ==
  ~PoolsRequired => ((~Delivered /\ HasOwnUsers) ~> (Delivered \/ ZarfStuck))
=============================================================================
