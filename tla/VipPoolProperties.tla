-------------------------- MODULE VipPoolProperties --------------------------
(***************************************************************************)
(* What step 6 of create_tenant and the planner promise.                   *)
(***************************************************************************)
EXTENDS VipPools

TypeOK ==
  /\ pools \subseteq PoolRecords
  /\ job \in [Operators -> [phase : {"idle", "look", "post", "patch"},
                            exit : {"none", "ok", "full", "conflict", "overlap", "stopped"},
                            chosen : Pairs \union {None}, auto : BOOLEAN,
                            own : SUBSET PoolRecords, seen : SUBSET PoolRecords]]
  /\ \A p \in Operators : ~Idle(p) => job[p].chosen # None
  /\ outside \in 0..MaxOutside /\ stops \in 0..MaxStops

\* The gaps that are really there: no claim is cut or left out.
TrueGaps(rest, net) == Gaps(net, RangesOf(rest))

\* What the step is about to write, unless it keeps the pool's own range, lies
\* in a gap of the pools it read; and an automatic pick is of the size asked
\* for, in the smallest gap that holds it ("least-wasteful").
ChoiceFits ==
  \A p \in Operators :
    (~Idle(p) /\ (job[p].own = {} \/ Requested[p] # None)) =>
      \E g \in TrueGaps(job[p].seen, Net[p]) :
        /\ Addresses(job[p].chosen) \subseteq Addresses(g)
        /\ job[p].auto =>
             /\ Size(job[p].chosen) = Wanted[p]
             /\ \A h \in TrueGaps(job[p].seen, Net[p]) :
                  Size(h) >= Wanted[p] => Size(h) >= Size(g)

\* VMS refuses the planned range only when the other pools have changed since
\* the step read them: the planner itself never hands out what is taken.
OverlapOnlyByRace ==
  [][\A p \in Operators :
       (~Idle(p) /\ Idle(p)' /\ job'[p].exit = "overlap") => OtherPools(p) # job[p].seen]_vars

\* A re-run of what succeeded writes nothing as long as the other pools are the
\* same ("Idempotent; safe to re-run").
RerunKeepsRange ==
  [][\A p \in Operators :
       (/\ job[p].exit = "ok" /\ OtherPools(p) = job[p].seen
        /\ \E q \in NamedPool(p) : q.ranges = <<job[p].chosen>>
        /\ job'[p].phase = "look") => job'[p].chosen = job[p].chosen]_vars

\* The ranges that list_vippools.py reports as free in a subnet can be had, if
\* every pool that reaches into the subnet declares its mask; the report goes by
\* the mask of each pool.
Declares(net) ==
  \A q \in pools : \A i \in 1..Len(q.ranges) :
    Meets(q.ranges[i], net) => Block(q.ranges[i].lo, q.size) = net
ReportedIsFree ==
  \A net \in Blocks(pools) :
    Declares(net) => \A g \in Gaps(net, ClaimsPer(pools, net)) : ~Taken(g, pools)

\* Operators who re-run until exit code 0 all get their pool, races for the
\* same gap and crashes notwithstanding, unless no gap is left that would do.
PoolsSettle ==
  <>[](\A p \in Operators :
         \/ NamedPool(p) # {}
         \/ \A g \in TrueGaps(OtherPools(p), Net[p]) : Size(g) < Wanted[p])
=============================================================================
