------------------------------- MODULE VipPools -------------------------------
(***************************************************************************)
(* Step 6 of create_tenant: operators who plan a range from the list of    *)
(* pools, and then write the pool in two more requests, while others make, *)
(* remove and extend pools.  VMS refuses a pool that meets another one.    *)
(***************************************************************************)
EXTENDS VipPlanner

CONSTANTS
  Operators,
  PoolName,    \* PoolName[p]: vip_pool.name
  Net,         \* Net[p]: vip_pool.cidr
  Requested,   \* Requested[p]: vip_pool.ip_range, or None
  Wanted,      \* Wanted[p]: vip_pool.default_size
  Others,      \* the pools that others make and remove
  Extras,      \* the ranges that somebody may add to a pool by hand
  MaxOutside,  \* bound on what others do
  MaxStops,    \* bound on crashes
  None

Pairs == [lo : Int, hi : Int]
PoolRecords ==
  {q \in [name : STRING, size : Nat \ {0}, ranges : Seq(Pairs)] :
     Len(q.ranges) > 0 /\ \A i \in 1..Len(q.ranges) : q.ranges[i].lo <= q.ranges[i].hi}

ASSUME ConstantsOK ==
  /\ \A p \in Operators :
       /\ PoolName[p] \in STRING
       /\ Net[p] \in Pairs /\ Net[p].lo <= Net[p].hi
       /\ Requested[p] \in Pairs \union {None}
       /\ Wanted[p] \in Nat \ {0}
  /\ Others \subseteq PoolRecords
  /\ Extras \subseteq {r \in Pairs : r.lo <= r.hi}
  /\ None \notin Pairs
  /\ MaxOutside \in Nat /\ MaxStops \in Nat

VARIABLES
  pools,    \* the pools on VMS
  job,      \* job[p]: the step of p, as far as it got
  outside, stops

vars == <<pools, job, outside, stops>>

NetSize(p) == Size(Net[p])
NamedPool(p) == {q \in pools : q.name = PoolName[p]}
OtherPools(p) == {q \in pools : q.name # PoolName[p]}
Taken(r, rest) == \E s \in RangesOf(rest) : Meets(r, s)

\* own, seen: the pool of that name and the other pools, as the step read them.
NoJob == [phase |-> "idle", exit |-> "none", chosen |-> None, auto |-> FALSE,
          own |-> {}, seen |-> {}]
Idle(p) == job[p].phase = "idle"
Exit(p, code) == job' = [job EXCEPT ![p].phase = "idle", ![p].exit = code]

Init ==
  /\ pools = {}
  /\ job = [p \in Operators |-> NoJob]
  /\ outside = 0 /\ stops = 0

-----------------------------------------------------------------------------

\* Mutant: the pool's own range counts as taken.
GapsForOwnToo(p) == Gaps(Net[p], ClaimsIn(pools, Net[p]))

\* The pool's own range is free to itself.
GapsFor(p) == Gaps(Net[p], ClaimsIn(OtherPools(p), Net[p]))

\* "existing pool (range preserved)"
Preserved(p) ==
  IF Requested[p] = None THEN {q.ranges[1] : q \in NamedPool(p)} ELSE {}

\* The range of the pool that is there, or the requested one if it is free, or
\* an automatic pick.
Candidates(p) ==
  IF Preserved(p) # {} THEN Preserved(p)
  ELSE IF Requested[p] # None /\ Available(Requested[p], GapsFor(p)) THEN {Requested[p]}
  ELSE Picks(GapsFor(p), Wanted[p])

\* Mutant: nobody asks whether there is a gap.
PlanUnchecked(p) ==
  /\ Idle(p)
  /\ \E r \in Candidates(p) \union (IF Candidates(p) = {} THEN {None} ELSE {}) :
       job' = [job EXCEPT ![p] =
                 [phase |-> "look", exit |-> "none", chosen |-> r, auto |-> FALSE,
                  own |-> NamedPool(p), seen |-> OtherPools(p)]]
  /\ UNCHANGED <<pools, outside, stops>>

\* vippools.get() of all pools, and everything computed from that list; no gap
\* is the end of the command.
Plan(p) ==
  /\ Idle(p)
  /\ IF Candidates(p) = {}
       THEN job' = [job EXCEPT ![p] = [NoJob EXCEPT !.exit = "full", !.own = NamedPool(p),
                                                    !.seen = OtherPools(p)]]
       ELSE \E r \in Candidates(p) :
              job' = [job EXCEPT ![p] =
                        [phase |-> "look", exit |-> "none", chosen |-> r,
                         auto |-> r # Requested[p] /\ Preserved(p) = {},
                         own |-> NamedPool(p), seen |-> OtherPools(p)]]
  /\ UNCHANGED <<pools, outside, stops>>

\* ensure_vippool: GET by name; POST, PATCH or nothing.
Look(p) ==
  /\ job[p].phase = "look"
  /\ IF \E q \in NamedPool(p) : q.ranges = <<job[p].chosen>>
       THEN Exit(p, "ok")
       ELSE job' = [job EXCEPT ![p].phase = IF NamedPool(p) = {} THEN "post" ELSE "patch"]
  /\ UNCHANGED <<pools, outside, stops>>

\* VMS answers 400 to a name or to addresses that are taken, 404 to a pool that
\* is gone.
Write(p) ==
  /\ job[p].phase \in {"post", "patch"}
  /\ LET new == [name |-> PoolName[p], size |-> NetSize(p), ranges |-> <<job[p].chosen>>] IN
     IF (job[p].phase = "post") # (NamedPool(p) = {})
       THEN Exit(p, "conflict") /\ UNCHANGED pools
     ELSE IF Taken(job[p].chosen, OtherPools(p))
       THEN Exit(p, "overlap") /\ UNCHANGED pools
     ELSE pools' = OtherPools(p) \union {new} /\ Exit(p, "ok")
  /\ UNCHANGED <<outside, stops>>

\* A crash, or a request that fails, between two requests.
Stop(p) ==
  /\ ~Idle(p)
  /\ stops < MaxStops
  /\ stops' = stops + 1
  /\ Exit(p, "stopped")
  /\ UNCHANGED <<pools, outside>>

\* Other pools of the cluster come and go.
Other ==
  /\ outside < MaxOutside
  /\ outside' = outside + 1
  /\ \E o \in Others :
       \/ /\ \A q \in pools : q.name # o.name
          /\ \A i \in 1..Len(o.ranges) : ~Taken(o.ranges[i], pools)
          /\ pools' = pools \union {o}
       \/ o \in pools /\ pools' = pools \ {o}
  /\ UNCHANGED <<job, stops>>

\* Somebody gives the pool of p a second range in the web UI.
Extend(p) ==
  /\ outside < MaxOutside
  /\ outside' = outside + 1
  /\ \E q \in NamedPool(p) : \E r \in Extras :
       /\ Len(q.ranges) = 1 /\ ~Taken(r, pools)
       /\ pools' = OtherPools(p) \union {[q EXCEPT !.ranges = Append(@, r)]}
  /\ UNCHANGED <<job, stops>>

Work(p) == Look(p) \/ Write(p)
Next == Other \/ \E p \in Operators : Plan(p) \/ Work(p) \/ Stop(p) \/ Extend(p)

Spec == Init /\ [][Next]_vars

\* A command that started goes on; an operator re-runs it until it exits with 0.
Retry(p) == job[p].exit # "ok" /\ Plan(p)
FairSpec == Spec /\ \A p \in Operators : WF_vars(Work(p)) /\ WF_vars(Retry(p))
=============================================================================
