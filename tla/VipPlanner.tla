------------------------------ MODULE VipPlanner ------------------------------
(***************************************************************************)
(* vippool_planner.py: which addresses of a subnet are claimed by VIP      *)
(* pools, and which gap to take.                                           *)
(*                                                                         *)
(* An address is a number.  A range has both its ends.  A subnet is the    *)
(* range from its network to its broadcast address.  A pool has a name,    *)
(* the size of the subnet it declares (subnet_cidr) and its ranges, in     *)
(* the order VMS lists them.                                               *)
(***************************************************************************)
EXTENDS Integers, Sequences

Rng(lo, hi) == [lo |-> lo, hi |-> hi]
Size(r) == r.hi - r.lo + 1
Addresses(r) == r.lo .. r.hi
Meets(r, s) == r.lo <= s.hi /\ s.lo <= r.hi
Larger(a, b) == IF a > b THEN a ELSE b
Smaller(a, b) == IF a < b THEN a ELSE b

\* The addresses that can be given out: not the network's nor the broadcast's.
Hosts(net) == Rng(net.lo + 1, net.hi - 1)

\* ip_network(f"{start}/{cidr}", strict=False)
Block(addr, size) == LET lo == addr - (addr % size) IN Rng(lo, lo + size - 1)

RangesOf(pools) == UNION {{p.ranges[i] : i \in 1..Len(p.ranges)} : p \in pools}

\* Mutant: the subnet that a pool declares decides.
ClaimsDeclared(pools, net) ==
  UNION {{p.ranges[i] : i \in {j \in 1..Len(p.ranges) : Block(p.ranges[j].lo, p.size) = net}} :
           p \in pools}

\* claims_overlapping_subnet: whatever a pool declares, every range that meets
\* the subnet, cut to it.
ClaimsIn(pools, net) ==
  {Rng(Larger(r.lo, net.lo), Smaller(r.hi, net.hi)) :
     r \in {s \in RangesOf(pools) : Meets(s, net)}}

\* Mutant: only the first range of each pool.
ClaimsPerFirst(pools, net) ==
  {p.ranges[1] : p \in {q \in pools : Block(q.ranges[1].lo, q.size) = net}}

\* claimed_per_subnet, as list_vippools.py reports it: by the subnet that the
\* start of the range and the pool's own mask give.
Blocks(pools) ==
  UNION {{Block(p.ranges[i].lo, p.size) : i \in 1..Len(p.ranges)} : p \in pools}
ClaimsPer(pools, net) ==
  UNION {{p.ranges[i] : i \in {j \in 1..Len(p.ranges) : Block(p.ranges[j].lo, p.size) = net}} :
           p \in pools}

\* What free_ranges_in_subnet returns, as a set: the longest ranges of host
\* addresses without a claim (VipSweep has its loops).
Gaps(net, claims) ==
  LET h == Hosts(net)
      Claimed(x) == \E c \in claims : c.lo <= x /\ x <= c.hi
      bounds == {x \in Addresses(h) : ~Claimed(x)} IN
  {r \in [lo : {x \in bounds : x = h.lo \/ Claimed(x - 1)},
          hi : {x \in bounds : x = h.hi \/ Claimed(x + 1)}] :
     r.lo <= r.hi /\ Addresses(r) \subseteq bounds}

\* Mutant: the range touches the gap.
AvailableTouching(r, gaps) == r.lo <= r.hi /\ \E g \in gaps : Meets(r, g)

\* is_range_available
Available(r, gaps) == r.lo <= r.hi /\ \E g \in gaps : g.lo <= r.lo /\ r.hi <= g.hi

\* Mutant: the first gap that is large enough.
PicksFirst(gaps, size) ==
  LET fit == {g \in gaps : Size(g) >= size} IN
  {Rng(g.lo, g.lo + size - 1) : g \in {f \in fit : \A h \in fit : f.lo <= h.lo}}

\* pick_gap: the first `size` addresses of the smallest gap that holds them,
\* the lower one of two; no element when there is none.
Picks(gaps, size) ==
  LET fit == {g \in gaps : Size(g) >= size} IN
  {Rng(g.lo, g.lo + size - 1) :
     g \in {f \in fit : \A h \in fit : Size(f) < Size(h) \/ (Size(f) = Size(h) /\ f.lo <= h.lo)}}
=============================================================================
