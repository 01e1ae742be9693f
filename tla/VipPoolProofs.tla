---------------------------- MODULE VipPoolProofs ----------------------------
(***************************************************************************)
(* For any operators, subnets, pools and bounds: what step 6 plans is      *)
(* free, VMS refuses it only when the other pools changed meanwhile, a     *)
(* re-run plans the same range, and what is reported as free can be had.   *)
(***************************************************************************)
EXTENDS VipPoolProperties, SequenceTheorems, TLAPS

\* VMS keeps pools of different names apart.
PoolsApart ==
  \A q1, q2 \in pools : q1.name # q2.name =>
    \A i \in 1..Len(q1.ranges), j \in 1..Len(q2.ranges) : ~Meets(q1.ranges[i], q2.ranges[j])

\* A planned range meets none of the pools that the step read.
PlannedFree ==
  \A p \in Operators : ~Idle(p) => /\ job[p].chosen \in Pairs
                                   /\ job[p].chosen.lo <= job[p].chosen.hi
                                   /\ ~Taken(job[p].chosen, job[p].seen)

IInv == TypeOK /\ PoolsApart /\ PlannedFree /\ ChoiceFits

Jobs == [phase : {"idle", "look", "post", "patch"},
         exit : {"none", "ok", "full", "conflict", "overlap", "stopped"},
         chosen : Pairs \union {None}, auto : BOOLEAN,
         own : SUBSET PoolRecords, seen : SUBSET PoolRecords]

-----------------------------------------------------------------------------

\* An address of a range that lies in a gap is a host that nobody claims.
LEMMA GapHosts ==
  ASSUME NEW net \in Pairs, NEW claims, NEW g \in Gaps(net, claims),
         NEW x \in Int, g.lo <= x, x <= g.hi
  PROVE  /\ g \in Pairs /\ g.lo <= g.hi
         /\ net.lo < x /\ x < net.hi
         /\ \A c \in claims : ~(c.lo <= x /\ x <= c.hi)
<1> DEFINE h == Hosts(net)
           Claimed(y) == \E c \in claims : c.lo <= y /\ y <= c.hi
           B == {y \in Addresses(h) : ~Claimed(y)}
           R == [lo : {y \in B : y = h.lo \/ Claimed(y - 1)},
                 hi : {y \in B : y = h.hi \/ Claimed(y + 1)}]
<1>1. Gaps(net, claims) = {r \in R : r.lo <= r.hi /\ Addresses(r) \subseteq B}
  BY Zenon DEF Gaps
<1>2. Addresses(h) = (net.lo + 1) .. (net.hi - 1) /\ net.lo \in Int /\ net.hi \in Int
  BY DEF Hosts, Addresses, Rng, Pairs
<1> HIDE DEF h, Claimed
<1>3. g \in R /\ g.lo <= g.hi /\ g.lo .. g.hi \subseteq B
  BY <1>1 DEF Addresses
<1>4. g.lo \in Int /\ g.hi \in Int /\ g = [lo |-> g.lo, hi |-> g.hi]
  BY <1>2, <1>3
<1>5. x \in B
  BY <1>3, <1>4
<1>6. net.lo < x /\ x < net.hi /\ ~Claimed(x)
  BY <1>2, <1>5
<1>7. g \in Pairs
  BY <1>4 DEF Pairs
<1> QED BY <1>3, <1>6, <1>7 DEF Claimed

LEMMA RangesTyped ==
  ASSUME NEW rest \in SUBSET PoolRecords, NEW s \in RangesOf(rest)
  PROVE  s \in Pairs /\ s.lo <= s.hi
<1>1. PICK q \in rest : s \in {q.ranges[i] : i \in 1..Len(q.ranges)}
  BY DEF RangesOf
<1>2. PICK i \in 1..Len(q.ranges) : s = q.ranges[i]
  BY <1>1
<1>3. q.ranges \in Seq(Pairs) /\ q.ranges[i].lo <= q.ranges[i].hi
  BY DEF PoolRecords
<1>4. q.ranges[i] \in Pairs
  BY <1>3
<1> QED BY <1>2, <1>3, <1>4

\* Whatever subnet a pool declares: a range inside a gap of the claims that
\* claims_overlapping_subnet returns meets no pool.
LEMMA GapIsFree ==
  ASSUME NEW net \in Pairs, NEW rest \in SUBSET PoolRecords,
         NEW g \in Gaps(net, ClaimsIn(rest, net)),
         NEW r \in Pairs, r.lo <= r.hi, g.lo <= r.lo, r.hi <= g.hi
  PROVE  ~Taken(r, rest)
<1> SUFFICES ASSUME NEW s \in RangesOf(rest), Meets(r, s) PROVE FALSE
  BY DEF Taken
<1> DEFINE x == IF r.lo > s.lo THEN r.lo ELSE s.lo
           c == Rng(Larger(s.lo, net.lo), Smaller(s.hi, net.hi))
<1>1. s.lo \in Int /\ s.hi \in Int /\ s.lo <= s.hi /\ r.lo \in Int /\ r.hi \in Int
      /\ net.lo \in Int /\ net.hi \in Int
  BY RangesTyped DEF Pairs
<1>2. r.lo <= s.hi /\ s.lo <= r.hi
  BY DEF Meets
<1>3. x \in Int /\ r.lo <= x /\ x <= r.hi /\ s.lo <= x /\ x <= s.hi
  BY <1>1, <1>2
<1> HIDE DEF x
<1>4. g.lo \in Int /\ g.hi \in Int
  <2> DEFINE y == r.lo
  <2>1. \A claims, z : z \in Gaps(net, claims) => z.lo \in Int /\ z.hi \in Int
    <3> SUFFICES ASSUME NEW claims, NEW z \in Gaps(net, claims) PROVE z.lo \in Int /\ z.hi \in Int
      OBVIOUS
    <3>1. Addresses(Hosts(net)) \subseteq Int
      BY <1>1 DEF Hosts, Addresses, Rng
    <3> QED BY <3>1 DEF Gaps
  <2> QED BY <2>1
<1>5. g.lo <= x /\ x <= g.hi
  BY <1>1, <1>3, <1>4
<1>6. /\ net.lo < x /\ x < net.hi
      /\ \A d \in ClaimsIn(rest, net) : ~(d.lo <= x /\ x <= d.hi)
  BY <1>3, <1>5, GapHosts
<1>7. Meets(s, net)
  BY <1>1, <1>3, <1>6 DEF Meets
<1>8. c \in ClaimsIn(rest, net)
  BY <1>7 DEF ClaimsIn
<1>9. c.lo <= x /\ x <= c.hi
  BY <1>1, <1>3, <1>6 DEF Rng, Larger, Smaller
<1> QED BY <1>6, <1>8, <1>9

\* pick_gap stays inside the gap it picks.
LEMMA PickInGap ==
  ASSUME NEW gaps, NEW size \in Nat \ {0}, NEW r \in Picks(gaps, size),
         \A g \in gaps : g.lo \in Int /\ g.hi \in Int
  PROVE  /\ r \in Pairs /\ r.lo <= r.hi /\ Size(r) = size
         /\ \E g \in gaps : /\ g.lo <= r.lo /\ r.hi <= g.hi
                            /\ \A h \in gaps : Size(h) >= size => Size(h) >= Size(g)
<1> DEFINE fit == {g \in gaps : Size(g) >= size}
<1>1. PICK g \in fit : /\ \A h \in fit : Size(g) < Size(h) \/ (Size(g) = Size(h) /\ g.lo <= h.lo)
                       /\ r = Rng(g.lo, g.lo + size - 1)
  BY DEF Picks
<1>2. g \in gaps /\ g.lo \in Int /\ g.hi \in Int /\ Size(g) >= size
  BY <1>1
<1>3. r \in Pairs /\ r.lo = g.lo /\ r.hi = g.lo + size - 1
  BY <1>1, <1>2 DEF Rng, Pairs
<1>4. r.lo <= r.hi /\ Size(r) = size /\ r.hi <= g.hi /\ g.lo <= r.lo
  BY <1>2, <1>3 DEF Size
<1>5. \A h \in gaps : Size(h) >= size => Size(h) >= Size(g)
  <2> SUFFICES ASSUME NEW h \in gaps, Size(h) >= size PROVE Size(h) >= Size(g)
    OBVIOUS
  <2>1. h \in fit /\ h.lo \in Int /\ h.hi \in Int
    OBVIOUS
  <2>2. Size(g) \in Int /\ Size(h) \in Int
    BY <1>2, <2>1 DEF Size
  <2>3. Size(g) < Size(h) \/ Size(g) = Size(h)
    BY <1>1, <2>1
  <2> QED BY <2>2, <2>3
<1> QED BY <1>2, <1>3, <1>4, <1>5

\* Cutting the claims to the subnet loses nothing, whichever pools they are of.
LEMMA ClipKeepsGaps ==
  ASSUME NEW net \in Pairs, NEW rest \in SUBSET PoolRecords
  PROVE  Gaps(net, ClaimsIn(rest, net)) = TrueGaps(rest, net)
<1> DEFINE h == Hosts(net)
           Cut(y) == \E c \in ClaimsIn(rest, net) : c.lo <= y /\ y <= c.hi
           Full(y) == \E c \in RangesOf(rest) : c.lo <= y /\ y <= c.hi
           B1 == {y \in Addresses(h) : ~Cut(y)}
           B2 == {y \in Addresses(h) : ~Full(y)}
           L1 == {y \in B1 : y = h.lo \/ Cut(y - 1)}
           L2 == {y \in B2 : y = h.lo \/ Full(y - 1)}
           H1 == {y \in B1 : y = h.hi \/ Cut(y + 1)}
           H2 == {y \in B2 : y = h.hi \/ Full(y + 1)}
<1>1. Gaps(net, ClaimsIn(rest, net)) = {r \in [lo : L1, hi : H1] : r.lo <= r.hi /\ Addresses(r) \subseteq B1}
  BY Zenon DEF Gaps
<1>2. TrueGaps(rest, net) = {r \in [lo : L2, hi : H2] : r.lo <= r.hi /\ Addresses(r) \subseteq B2}
  BY Zenon DEF Gaps, TrueGaps
<1>3. /\ net.lo \in Int /\ net.hi \in Int /\ h.lo = net.lo + 1 /\ h.hi = net.hi - 1
      /\ Addresses(h) = h.lo .. h.hi
  BY DEF Hosts, Addresses, Rng, Pairs
<1> HIDE DEF h
<1>4. ASSUME NEW y \in Int, net.lo < y, y < net.hi PROVE Cut(y) <=> Full(y)
  <2>1. ASSUME NEW s \in RangesOf(rest), s.lo <= y, y <= s.hi PROVE Cut(y)
    <3> DEFINE c == Rng(Larger(s.lo, net.lo), Smaller(s.hi, net.hi))
    <3>1. s.lo \in Int /\ s.hi \in Int
      BY RangesTyped DEF Pairs
    <3>2. Meets(s, net)
      BY <3>1, <2>1, <1>3, <1>4 DEF Meets
    <3>3. c \in ClaimsIn(rest, net)
      BY <3>2 DEF ClaimsIn
    <3>4. c.lo <= y /\ y <= c.hi
      BY <3>1, <2>1, <1>3, <1>4 DEF Rng, Larger, Smaller
    <3> QED BY <3>3, <3>4
  <2>2. ASSUME NEW c \in ClaimsIn(rest, net), c.lo <= y, y <= c.hi PROVE Full(y)
    <3>1. PICK s \in RangesOf(rest) : c = Rng(Larger(s.lo, net.lo), Smaller(s.hi, net.hi))
      BY DEF ClaimsIn
    <3>2. s.lo \in Int /\ s.hi \in Int
      BY RangesTyped DEF Pairs
    <3>3. s.lo <= y /\ y <= s.hi
      BY <3>1, <3>2, <2>2, <1>3, <1>4 DEF Rng, Larger, Smaller
    <3> QED BY <3>3
  <2> QED BY <2>1, <2>2
<1> HIDE DEF Cut, Full
<1>5. B1 = B2
  BY <1>3, <1>4
<1>6. L1 = L2
  <2> SUFFICES ASSUME NEW y \in B1, y # h.lo PROVE Cut(y - 1) <=> Full(y - 1)
    BY <1>5
  <2>1. y - 1 \in Int /\ net.lo < y - 1 /\ y - 1 < net.hi
    BY <1>3
  <2> QED BY <2>1, <1>4
<1>7. H1 = H2
  <2> SUFFICES ASSUME NEW y \in B1, y # h.hi PROVE Cut(y + 1) <=> Full(y + 1)
    BY <1>5
  <2>1. y + 1 \in Int /\ net.lo < y + 1 /\ y + 1 < net.hi
    BY <1>3
  <2> QED BY <2>1, <1>4
<1> HIDE DEF B1, B2, L1, L2, H1, H2
<1> QED BY <1>1, <1>2, <1>5, <1>6, <1>7

LEMMA GapsTyped ==
  ASSUME NEW net \in Pairs, NEW claims, NEW g \in Gaps(net, claims)
  PROVE  g.lo \in Int /\ g.hi \in Int
<1>1. Addresses(Hosts(net)) \subseteq Int
  BY DEF Hosts, Addresses, Rng, Pairs
<1> QED BY <1>1 DEF Gaps

\* The three sources of a range.
LEMMA CandidatesFree ==
  ASSUME TypeOK, PoolsApart, NEW p \in Operators, NEW r \in Candidates(p)
  PROVE  r \in Pairs /\ r.lo <= r.hi /\ ~Taken(r, OtherPools(p))
<1> DEFINE net == Net[p]
           rest == OtherPools(p)
<1>1. net \in Pairs /\ rest \in SUBSET PoolRecords /\ Wanted[p] \in Nat \ {0}
      /\ Requested[p] \in Pairs \union {None}
  BY ConstantsOK DEF TypeOK, OtherPools
<1>2. GapsFor(p) = Gaps(net, ClaimsIn(rest, net))
  BY DEF GapsFor
<1> HIDE DEF net, rest
<1>3. CASE Preserved(p) # {}
  <2>1. r \in Preserved(p)
    BY <1>3 DEF Candidates
  <2>2. PICK q \in NamedPool(p) : r = q.ranges[1]
    BY <2>1 DEF Preserved
  <2>3. q \in pools /\ q.name = PoolName[p] /\ q \in PoolRecords
    BY DEF NamedPool, TypeOK
  <2>4. q.ranges \in Seq(Pairs) /\ 1 \in 1..Len(q.ranges) /\ q.ranges[1].lo <= q.ranges[1].hi
    BY <2>3 DEF PoolRecords
  <2>5. r \in Pairs /\ r.lo <= r.hi
    BY <2>2, <2>4
  <2>6. ASSUME NEW s \in RangesOf(rest), Meets(r, s) PROVE FALSE
    <3>1. PICK o \in rest : s \in {o.ranges[i] : i \in 1..Len(o.ranges)}
      BY DEF RangesOf
    <3>2. PICK i \in 1..Len(o.ranges) : s = o.ranges[i]
      BY <3>1
    <3>3. o \in pools /\ o.name # q.name
      BY <2>3 DEF rest, OtherPools
    <3> QED BY <2>2, <2>3, <2>4, <2>6, <3>2, <3>3 DEF PoolsApart
  <2> QED BY <2>5, <2>6 DEF Taken, rest
<1>4. CASE /\ Preserved(p) = {} /\ Requested[p] # None
           /\ Available(Requested[p], GapsFor(p)) /\ r = Requested[p]
  <2>1. PICK g \in GapsFor(p) : g.lo <= r.lo /\ r.hi <= g.hi
    BY <1>4 DEF Available
  <2>2. r \in Pairs /\ r.lo <= r.hi
    BY <1>1, <1>4 DEF Available
  <2> QED BY <1>1, <1>2, <2>1, <2>2, GapIsFree DEF rest
<1>5. CASE r \in Picks(GapsFor(p), Wanted[p])
  <2>1. \A g \in GapsFor(p) : g.lo \in Int /\ g.hi \in Int
    BY <1>1, <1>2, GapsTyped
  <2>2. r \in Pairs /\ r.lo <= r.hi /\ \E g \in GapsFor(p) : g.lo <= r.lo /\ r.hi <= g.hi
    BY <1>1, <1>5, <2>1, PickInGap
  <2> QED BY <1>1, <1>2, <2>2, GapIsFree DEF rest
<1> QED BY <1>3, <1>4, <1>5 DEF Candidates

\* What a range says that is not the pool's own.
LEMMA CandidatesFit ==
  ASSUME TypeOK, NEW p \in Operators, NEW r \in Candidates(p), Preserved(p) = {}
  PROVE  \E g \in TrueGaps(OtherPools(p), Net[p]) :
           /\ Addresses(r) \subseteq Addresses(g)
           /\ r # Requested[p] =>
                /\ Size(r) = Wanted[p]
                /\ \A h \in TrueGaps(OtherPools(p), Net[p]) :
                     Size(h) >= Wanted[p] => Size(h) >= Size(g)
<1>1. /\ Net[p] \in Pairs /\ OtherPools(p) \in SUBSET PoolRecords /\ Wanted[p] \in Nat \ {0}
      /\ Requested[p] \in Pairs \union {None}
  BY ConstantsOK DEF TypeOK, OtherPools
<1>2. GapsFor(p) = TrueGaps(OtherPools(p), Net[p])
  BY <1>1, ClipKeepsGaps DEF GapsFor
<1>3. \A g \in GapsFor(p) : g.lo \in Int /\ g.hi \in Int
  BY <1>1, GapsTyped DEF GapsFor
\* A range between the ends of a gap is a subset of it.
<1>4. ASSUME NEW g \in GapsFor(p), r \in Pairs, g.lo <= r.lo, r.hi <= g.hi
      PROVE  Addresses(r) \subseteq Addresses(g)
  BY <1>3, <1>4 DEF Addresses, Pairs
<1>5. CASE Requested[p] # None /\ Available(Requested[p], GapsFor(p)) /\ r = Requested[p]
  <2>1. PICK g \in GapsFor(p) : g.lo <= r.lo /\ r.hi <= g.hi
    BY <1>5 DEF Available
  <2>2. Addresses(r) \subseteq Addresses(g)
    BY <2>1, <1>1, <1>4, <1>5
  <2> QED BY <2>2, <1>2, <1>5
<1>6. CASE r \in Picks(GapsFor(p), Wanted[p])
  <2>1. /\ r \in Pairs /\ Size(r) = Wanted[p]
        /\ \E g \in GapsFor(p) : /\ g.lo <= r.lo /\ r.hi <= g.hi
                                 /\ \A h \in GapsFor(p) : Size(h) >= Wanted[p] => Size(h) >= Size(g)
    BY <1>1, <1>3, <1>6, PickInGap
  <2>2. PICK g \in GapsFor(p) :
          /\ g.lo <= r.lo /\ r.hi <= g.hi
          /\ \A h \in GapsFor(p) : Size(h) >= Wanted[p] => Size(h) >= Size(g)
    BY <2>1
  <2>3. Addresses(r) \subseteq Addresses(g)
    BY <2>1, <2>2, <1>4
  <2> QED BY <2>1, <2>2, <2>3, <1>2
<1> QED BY <1>5, <1>6 DEF Candidates

-----------------------------------------------------------------------------

LEMMA VipInit == Init => IInv
<1> SUFFICES ASSUME Init PROVE IInv
  OBVIOUS
<1>1. NoJob \in Jobs /\ NoJob.phase = "idle"
  BY DEF NoJob, Jobs
<1>2. job = [p \in Operators |-> NoJob] /\ pools = {} /\ outside = 0 /\ stops = 0
  BY DEF Init
<1>3. \A p \in Operators : Idle(p)
  BY <1>1, <1>2 DEF Idle
<1>4. TypeOK
  BY <1>1, <1>2, <1>3, ConstantsOK DEF TypeOK, Jobs
<1>5. PoolsApart
  BY <1>2 DEF PoolsApart
<1> QED BY <1>3, <1>4, <1>5 DEF IInv, PlannedFree, ChoiceFits

\* The steps that leave all of job[p] but the phase and the exit code.
LEMMA QuietStep ==
  ASSUME IInv, NEW p \in Operators, pools' \subseteq PoolRecords, PoolsApart',
         NEW ph \in {"idle", "look", "post", "patch"},
         NEW ex \in {"none", "ok", "full", "conflict", "overlap", "stopped"},
         ~Idle(p), job' = [job EXCEPT ![p].phase = ph, ![p].exit = ex],
         outside' \in 0..MaxOutside, stops' \in 0..MaxStops
  PROVE  IInv'
<1>1. TypeOK /\ job \in [Operators -> Jobs]
  BY DEF IInv, TypeOK, Jobs
<1>2. job' \in [Operators -> Jobs]
  <2> DEFINE j == [job[p] EXCEPT !.phase = ph, !.exit = ex]
  <2>1. job[p] \in Jobs
    BY <1>1
  <2>2. j \in Jobs
    BY <2>1 DEF Jobs
  <2>3. job' = [job EXCEPT ![p] = j]
    BY <1>1
  <2> HIDE DEF j
  <2> QED BY <1>1, <2>2, <2>3
<1>3. \A q \in Operators : q # p => job'[q] = job[q]
  BY <1>1
<1>4. /\ job'[p].chosen = job[p].chosen /\ job'[p].seen = job[p].seen
      /\ job'[p].own = job[p].own /\ job'[p].auto = job[p].auto
  BY <1>1 DEF Jobs
<1>5. \A q \in Operators : ~Idle(q)' => ~Idle(q)
  BY <1>3 DEF Idle
<1>6. \A q \in Operators : /\ job'[q].chosen = job[q].chosen /\ job'[q].seen = job[q].seen
                           /\ job'[q].own = job[q].own /\ job'[q].auto = job[q].auto
  BY <1>3, <1>4
<1>7. TypeOK'
  <2>1. \A q \in Operators : ~Idle(q)' => job'[q].chosen # None
    BY <1>1, <1>5, <1>6 DEF TypeOK
  <2> QED BY <1>1, <1>2, <2>1 DEF TypeOK, Jobs
<1>8. PlannedFree'
  BY <1>5, <1>6 DEF IInv, PlannedFree
<1>9. ChoiceFits'
  <2> SUFFICES ASSUME NEW q \in Operators, ~Idle(q)', job'[q].own = {} \/ Requested[q] # None
               PROVE  \E g \in TrueGaps(job'[q].seen, Net[q]) :
                        /\ Addresses(job'[q].chosen) \subseteq Addresses(g)
                        /\ job'[q].auto =>
                             /\ Size(job'[q].chosen) = Wanted[q]
                             /\ \A h \in TrueGaps(job'[q].seen, Net[q]) :
                                  Size(h) >= Wanted[q] => Size(h) >= Size(g)
    BY DEF ChoiceFits
  <2>1. ~Idle(q) /\ (job[q].own = {} \/ Requested[q] # None)
    BY <1>5, <1>6
  <2> QED BY <2>1, <1>6 DEF IInv, ChoiceFits
<1> QED BY <1>7, <1>8, <1>9 DEF IInv

LEMMA SamePools == IInv /\ UNCHANGED pools => pools' \subseteq PoolRecords /\ PoolsApart'
  BY DEF IInv, TypeOK, PoolsApart

LEMMA PlanStep == \A p \in Operators : IInv /\ Plan(p) => IInv'
<1> SUFFICES ASSUME NEW p \in Operators, IInv, Plan(p) PROVE IInv'
  OBVIOUS
<1>1. TypeOK /\ PoolsApart /\ job \in [Operators -> Jobs] /\ Idle(p)
  BY DEF IInv, TypeOK, Jobs, Plan
<1>2. NamedPool(p) \in SUBSET PoolRecords /\ OtherPools(p) \in SUBSET PoolRecords
  BY <1>1 DEF TypeOK, NamedPool, OtherPools
<1>3. UNCHANGED <<pools, outside, stops>>
  BY DEF Plan
\* What is to show of the new job.
<1>4. SUFFICES ASSUME NEW j \in Jobs, job' = [job EXCEPT ![p] = j], j.seen = OtherPools(p),
                      j.own = NamedPool(p),
                      j.phase # "idle" =>
                        /\ j.chosen \in Candidates(p)
                        /\ j.auto => j.chosen # Requested[p]
               PROVE  IInv'
  <2>1. CASE Candidates(p) = {}
    <3> DEFINE j == [NoJob EXCEPT !.exit = "full", !.own = NamedPool(p), !.seen = OtherPools(p)]
    <3>1. j \in Jobs /\ j.seen = OtherPools(p) /\ j.own = NamedPool(p) /\ j.phase = "idle"
      BY <1>2 DEF NoJob, Jobs
    <3>2. job' = [job EXCEPT ![p] = j]
      BY <2>1 DEF Plan
    <3> QED BY <3>1, <3>2, <1>4
  <2>2. CASE Candidates(p) # {}
    <3>1. PICK r \in Candidates(p) :
            job' = [job EXCEPT ![p] =
                      [phase |-> "look", exit |-> "none", chosen |-> r,
                       auto |-> r # Requested[p] /\ Preserved(p) = {},
                       own |-> NamedPool(p), seen |-> OtherPools(p)]]
      BY <2>2 DEF Plan
    <3> DEFINE j == [phase |-> "look", exit |-> "none", chosen |-> r,
                     auto |-> r # Requested[p] /\ Preserved(p) = {},
                     own |-> NamedPool(p), seen |-> OtherPools(p)]
    <3>2. r \in Pairs
      BY <1>1, CandidatesFree
    <3>3. j \in Jobs /\ j.seen = OtherPools(p) /\ j.own = NamedPool(p)
      BY <1>2, <3>2 DEF Jobs
    <3>4. j.chosen \in Candidates(p) /\ (j.auto => j.chosen # Requested[p])
      OBVIOUS
    <3>5. job' = [job EXCEPT ![p] = j]
      BY <3>1
    <3> QED BY <3>3, <3>4, <3>5, <1>4
  <2> QED BY <2>1, <2>2
<1>5. job'[p] = j /\ (\A q \in Operators : q # p => job'[q] = job[q]) /\ job' \in [Operators -> Jobs]
  BY <1>1, <1>4
<1>6. j.phase # "idle" => /\ j.chosen \in Pairs /\ j.chosen.lo <= j.chosen.hi
                          /\ ~Taken(j.chosen, j.seen)
  BY <1>1, <1>4, CandidatesFree
<1>7. TypeOK'
  <2>1. \A q \in Operators : ~Idle(q)' => job'[q].chosen # None
    <3> SUFFICES ASSUME NEW q \in Operators, ~Idle(q)' PROVE job'[q].chosen # None
      OBVIOUS
    <3>1. CASE q = p
      BY <3>1, <1>5, <1>6, ConstantsOK DEF Idle
    <3>2. CASE q # p
      BY <3>2, <1>1, <1>5 DEF Idle, TypeOK
    <3> QED BY <3>1, <3>2
  <2> QED BY <1>1, <1>3, <1>5, <2>1 DEF TypeOK, Jobs
<1>8. PoolsApart'
  BY <1>1, <1>3 DEF PoolsApart
<1>9. PlannedFree'
  <2> SUFFICES ASSUME NEW q \in Operators, ~Idle(q)'
               PROVE  /\ job'[q].chosen \in Pairs /\ job'[q].chosen.lo <= job'[q].chosen.hi
                      /\ ~Taken(job'[q].chosen, job'[q].seen)
    BY DEF PlannedFree
  <2>1. CASE q = p
    BY <2>1, <1>5, <1>6 DEF Idle
  <2>2. CASE q # p
    BY <2>2, <1>5 DEF Idle, IInv, PlannedFree
  <2> QED BY <2>1, <2>2
<1>10. ChoiceFits'
  <2> SUFFICES ASSUME NEW q \in Operators, ~Idle(q)', job'[q].own = {} \/ Requested[q] # None
               PROVE  \E g \in TrueGaps(job'[q].seen, Net[q]) :
                        /\ Addresses(job'[q].chosen) \subseteq Addresses(g)
                        /\ job'[q].auto =>
                             /\ Size(job'[q].chosen) = Wanted[q]
                             /\ \A h \in TrueGaps(job'[q].seen, Net[q]) :
                                  Size(h) >= Wanted[q] => Size(h) >= Size(g)
    BY DEF ChoiceFits
  <2>1. CASE q = p
    <3>1. j.phase # "idle" /\ j.chosen \in Candidates(p)
      BY <2>1, <1>4, <1>5 DEF Idle
    <3>2. Preserved(p) = {}
      BY <2>1, <1>4, <1>5 DEF Preserved
    <3>3. \E g \in TrueGaps(OtherPools(p), Net[p]) :
            /\ Addresses(j.chosen) \subseteq Addresses(g)
            /\ j.chosen # Requested[p] =>
                 /\ Size(j.chosen) = Wanted[p]
                 /\ \A h \in TrueGaps(OtherPools(p), Net[p]) :
                      Size(h) >= Wanted[p] => Size(h) >= Size(g)
      BY <3>1, <3>2, <1>1, CandidatesFit
    <3> QED BY <3>1, <3>3, <2>1, <1>4, <1>5
  <2>2. CASE q # p
    <3>1. job'[q] = job[q] /\ ~Idle(q)
      BY <2>2, <1>5 DEF Idle
    <3> QED BY <3>1 DEF IInv, ChoiceFits
  <2> QED BY <2>1, <2>2
<1> QED BY <1>7, <1>8, <1>9, <1>10 DEF IInv

\* A step that leaves the jobs alone, and the pools typed and apart.
LEMMA PoolStep ==
  ASSUME IInv, UNCHANGED job, pools' \subseteq PoolRecords, PoolsApart',
         outside' \in 0..MaxOutside, stops' \in 0..MaxStops
  PROVE  IInv'
<1>1. TypeOK'
  BY DEF IInv, TypeOK, Idle
<1>2. PlannedFree' /\ ChoiceFits'
  BY DEF IInv, PlannedFree, ChoiceFits, Idle
<1> QED BY <1>1, <1>2 DEF IInv

\* A pool with ranges that nobody has, in the place of those of its name.
LEMMA PutPool ==
  ASSUME TypeOK, PoolsApart, NEW q \in PoolRecords,
         \A o \in pools : o.name # q.name =>
           \A i \in 1..Len(q.ranges), j \in 1..Len(o.ranges) : ~Meets(q.ranges[i], o.ranges[j]),
         pools' \subseteq {o \in pools : o.name # q.name} \union {q}
  PROVE  pools' \subseteq PoolRecords /\ PoolsApart'
<1>1. \A r \in PoolRecords : \A i \in 1..Len(r.ranges) : r.ranges[i].lo \in Int /\ r.ranges[i].hi \in Int
  <2> SUFFICES ASSUME NEW r \in PoolRecords, NEW i \in 1..Len(r.ranges)
               PROVE  r.ranges[i].lo \in Int /\ r.ranges[i].hi \in Int
    OBVIOUS
  <2>1. r.ranges \in Seq(Pairs)
    BY DEF PoolRecords
  <2>2. r.ranges[i] \in Pairs
    BY <2>1
  <2> QED BY <2>2 DEF Pairs
<1>2. pools' \subseteq PoolRecords
  BY DEF TypeOK
<1>3. \A r, s : Meets(r, s) <=> Meets(s, r)
  BY DEF Meets
<1>4. PoolsApart'
  <2> SUFFICES ASSUME NEW q1 \in pools', NEW q2 \in pools', q1.name # q2.name,
                      NEW i \in 1..Len(q1.ranges), NEW j \in 1..Len(q2.ranges)
               PROVE  ~Meets(q1.ranges[i], q2.ranges[j])
    BY DEF PoolsApart
  <2>1. CASE q1 \in pools /\ q2 \in pools
    BY <2>1 DEF PoolsApart
  <2>2. CASE q1 = q
    BY <2>2
  <2>3. CASE q2 = q
    BY <2>3, <1>3
  <2> QED BY <2>1, <2>2, <2>3
<1> QED BY <1>2, <1>4

LEMMA TakenRanges ==
  ASSUME NEW r, NEW rest, ~Taken(r, rest), NEW o \in rest, NEW j \in 1..Len(o.ranges)
  PROVE  ~Meets(r, o.ranges[j])
<1>1. o.ranges[j] \in RangesOf(rest)
  BY DEF RangesOf
<1> QED BY <1>1 DEF Taken

LEMMA WriteStep == \A p \in Operators : IInv /\ Write(p) => IInv'
<1> SUFFICES ASSUME NEW p \in Operators, IInv, Write(p) PROVE IInv'
  OBVIOUS
<1> DEFINE new == [name |-> PoolName[p], size |-> NetSize(p), ranges |-> <<job[p].chosen>>]
<1>1. ~Idle(p) /\ UNCHANGED <<outside, stops>> /\ outside \in 0..MaxOutside /\ stops \in 0..MaxStops
  BY DEF Write, Idle, IInv, TypeOK
<1>2. CASE UNCHANGED pools
  <2>1. PICK ex \in {"conflict", "overlap", "ok"} :
          job' = [job EXCEPT ![p].phase = "idle", ![p].exit = ex]
    BY DEF Write, Exit
  <2> QED BY <1>1, <1>2, <2>1, QuietStep, SamePools
<1>3. CASE /\ ~Taken(job[p].chosen, OtherPools(p))
           /\ pools' = OtherPools(p) \union {new} /\ Exit(p, "ok")
  <2>1. job[p].chosen \in Pairs /\ job[p].chosen.lo <= job[p].chosen.hi
    BY <1>1 DEF IInv, PlannedFree
  <2>2. NetSize(p) \in Nat \ {0} /\ PoolName[p] \in STRING
    BY ConstantsOK DEF NetSize, Size, Pairs
  <2> DEFINE c == job[p].chosen
  <2>3. new.name = PoolName[p] /\ new.ranges = <<c>> /\ new.size = NetSize(p)
    OBVIOUS
  <2> HIDE DEF c
  <2>4. <<c>> \in Seq(Pairs) /\ Len(<<c>>) = 1 /\ <<c>>[1] = c
    BY <2>1 DEF c
  <2>5. new \in PoolRecords
    <3>1. new \in [name : STRING, size : Nat \ {0}, ranges : Seq(Pairs)]
      BY <2>2, <2>4 DEF c
    <3>2. Len(new.ranges) > 0 /\ \A i \in 1..Len(new.ranges) : new.ranges[i].lo <= new.ranges[i].hi
      BY <2>1, <2>3, <2>4 DEF c
    <3> QED BY <3>1, <3>2 DEF PoolRecords
  <2>6. \A o \in pools : o.name # new.name =>
          \A i \in 1..Len(new.ranges), j \in 1..Len(o.ranges) : ~Meets(new.ranges[i], o.ranges[j])
    <3> SUFFICES ASSUME NEW o \in pools, o.name # PoolName[p], NEW j \in 1..Len(o.ranges)
                 PROVE  ~Meets(c, o.ranges[j])
      BY <2>3, <2>4
    <3>1. o \in OtherPools(p) /\ ~Taken(c, OtherPools(p))
      BY <1>3 DEF OtherPools, c
    <3> QED BY <3>1, TakenRanges
  <2>7. pools' \subseteq {o \in pools : o.name # new.name} \union {new}
    BY <1>3 DEF OtherPools
  <2> HIDE DEF new
  <2>8. pools' \subseteq PoolRecords /\ PoolsApart'
    BY <2>5, <2>6, <2>7, PutPool DEF IInv
  <2>9. job' = [job EXCEPT ![p].phase = "idle", ![p].exit = "ok"]
    BY <1>3 DEF Exit
  <2> QED BY <1>1, <2>8, <2>9, QuietStep
<1> QED BY <1>2, <1>3 DEF Write

LEMMA LookStep == \A p \in Operators : IInv /\ Look(p) => IInv'
<1> SUFFICES ASSUME NEW p \in Operators, IInv, Look(p) PROVE IInv'
  OBVIOUS
<1>1. /\ ~Idle(p) /\ UNCHANGED <<pools, outside, stops>>
      /\ outside \in 0..MaxOutside /\ stops \in 0..MaxStops
      /\ job \in [Operators -> Jobs]
  BY DEF Look, Idle, IInv, TypeOK, Jobs
<1>2. CASE Exit(p, "ok")
  BY <1>1, <1>2, QuietStep, SamePools DEF Exit
<1>3. ASSUME NEW ph \in {"post", "patch"}, job' = [job EXCEPT ![p].phase = ph] PROVE IInv'
  <2>1. job[p].exit \in {"none", "ok", "full", "conflict", "overlap", "stopped"} /\ job[p] \in Jobs
    BY <1>1 DEF Jobs
  <2>2. [job[p] EXCEPT !.phase = ph] = [job[p] EXCEPT !.phase = ph, !.exit = job[p].exit]
    BY <2>1 DEF Jobs
  <2>3. job' = [job EXCEPT ![p].phase = ph, ![p].exit = job[p].exit]
    BY <1>1, <1>3, <2>2
  <2> QED BY <1>1, <2>1, <2>3, QuietStep, SamePools
<1> QED BY <1>2, <1>3 DEF Look

LEMMA StopStep == \A p \in Operators : IInv /\ Stop(p) => IInv'
<1> SUFFICES ASSUME NEW p \in Operators, IInv, Stop(p) PROVE IInv'
  OBVIOUS
<1>1. /\ ~Idle(p) /\ UNCHANGED <<pools, outside>> /\ Exit(p, "stopped")
      /\ outside' \in 0..MaxOutside /\ stops' \in 0..MaxStops
  BY ConstantsOK DEF Stop, Idle, IInv, TypeOK
<1> QED BY <1>1, QuietStep, SamePools DEF Exit

LEMMA OtherStep == IInv /\ Other => IInv'
<1> SUFFICES ASSUME IInv, Other PROVE IInv'
  OBVIOUS
<1>1. /\ UNCHANGED job /\ outside' \in 0..MaxOutside /\ stops' \in 0..MaxStops
      /\ TypeOK /\ PoolsApart
  BY ConstantsOK DEF Other, IInv, TypeOK
<1>2. PICK o \in Others :
        \/ /\ \A q \in pools : q.name # o.name
           /\ \A i \in 1..Len(o.ranges) : ~Taken(o.ranges[i], pools)
           /\ pools' = pools \union {o}
        \/ o \in pools /\ pools' = pools \ {o}
  BY DEF Other
<1>3. CASE /\ \A q \in pools : q.name # o.name
           /\ \A i \in 1..Len(o.ranges) : ~Taken(o.ranges[i], pools)
           /\ pools' = pools \union {o}
  <2>1. o \in PoolRecords
    BY ConstantsOK
  <2>2. \A q \in pools : \A i \in 1..Len(o.ranges), j \in 1..Len(q.ranges) :
          ~Meets(o.ranges[i], q.ranges[j])
    BY <1>3, TakenRanges
  <2>3. pools' \subseteq {q \in pools : q.name # o.name} \union {o}
    BY <1>3
  <2> QED BY <1>1, <2>1, <2>2, <2>3, PutPool, PoolStep
<1>4. CASE pools' = pools \ {o}
  BY <1>1, <1>4, PoolStep DEF TypeOK, PoolsApart
<1> QED BY <1>2, <1>3, <1>4

LEMMA ExtendStep == \A p \in Operators : IInv /\ Extend(p) => IInv'
<1> SUFFICES ASSUME NEW p \in Operators, IInv, Extend(p) PROVE IInv'
  OBVIOUS
<1>1. /\ UNCHANGED job /\ outside' \in 0..MaxOutside /\ stops' \in 0..MaxStops
      /\ TypeOK /\ PoolsApart
  BY ConstantsOK DEF Extend, IInv, TypeOK
<1>2. PICK q \in NamedPool(p), r \in Extras :
        /\ Len(q.ranges) = 1 /\ ~Taken(r, pools)
        /\ pools' = OtherPools(p) \union {[q EXCEPT !.ranges = Append(@, r)]}
  BY DEF Extend
<1> DEFINE new == [q EXCEPT !.ranges = Append(@, r)]
<1>3. /\ q \in pools /\ q \in PoolRecords /\ q.name = PoolName[p]
      /\ q.ranges \in Seq(Pairs) /\ q.ranges[1].lo <= q.ranges[1].hi
      /\ r \in Pairs /\ r.lo <= r.hi
  BY <1>1, <1>2, ConstantsOK DEF NamedPool, TypeOK, PoolRecords
<1> DEFINE both == Append(q.ranges, r)
<1>4. both \in Seq(Pairs) /\ Len(both) = 2 /\ both[1] = q.ranges[1] /\ both[2] = r
  <2>1. Len(q.ranges) = 1
    BY <1>2
  <2>2. /\ both \in Seq(Pairs) /\ Len(both) = Len(q.ranges) + 1
        /\ \A i \in 1..Len(q.ranges) : both[i] = q.ranges[i]
        /\ both[Len(q.ranges) + 1] = r
    BY <1>3, AppendProperties
  <2> HIDE DEF both
  <2> QED BY <2>1, <2>2
<1> HIDE DEF both
<1>5. new = [q EXCEPT !.ranges = both]
  BY DEF both
<1>6. new.name = q.name /\ new.ranges = both /\ new.size = q.size
      /\ new \in [name : STRING, size : Nat \ {0}, ranges : Seq(Pairs)]
  BY <1>3, <1>4, <1>5 DEF PoolRecords
<1> HIDE DEF new
<1>7. new \in PoolRecords
  <2>1. Len(new.ranges) = 2 /\ \A i \in 1..2 : new.ranges[i].lo <= new.ranges[i].hi
    BY <1>3, <1>4, <1>6
  <2>2. Len(new.ranges) > 0 /\ \A i \in 1..Len(new.ranges) : new.ranges[i].lo <= new.ranges[i].hi
    BY <2>1
  <2> QED BY <1>6, <2>2 DEF PoolRecords
<1>8. \A o \in pools : o.name # new.name =>
        \A i \in 1..Len(new.ranges), j \in 1..Len(o.ranges) : ~Meets(new.ranges[i], o.ranges[j])
  <2> SUFFICES ASSUME NEW o \in pools, o.name # q.name, NEW i \in 1..2, NEW j \in 1..Len(o.ranges)
               PROVE  ~Meets(both[i], o.ranges[j])
    BY <1>4, <1>6
  <2>1. CASE i = 1
    <3>1. 1 \in 1..Len(q.ranges)
      BY <1>2
    <3> QED BY <2>1, <3>1, <1>1, <1>3, <1>4 DEF PoolsApart
  <2>2. CASE i = 2
    BY <2>2, <1>2, <1>4, TakenRanges
  <2> QED BY <2>1, <2>2
<1>9. pools' \subseteq {o \in pools : o.name # new.name} \union {new}
  BY <1>2, <1>3, <1>6 DEF OtherPools, new
<1> QED BY <1>1, <1>7, <1>8, <1>9, PutPool, PoolStep

LEMMA VipStep == IInv /\ [Next]_vars => IInv'
<1> SUFFICES ASSUME IInv, [Next]_vars PROVE IInv'
  OBVIOUS
<1>1. CASE Other
  BY <1>1, OtherStep
<1>2. CASE \E p \in Operators : Plan(p) \/ Work(p) \/ Stop(p) \/ Extend(p)
  BY <1>2, PlanStep, LookStep, WriteStep, StopStep, ExtendStep DEF Work
<1>3. CASE UNCHANGED vars
  <2>1. UNCHANGED pools /\ UNCHANGED job /\ outside' \in 0..MaxOutside /\ stops' \in 0..MaxStops
    BY <1>3 DEF vars, IInv, TypeOK
  <2> QED BY <2>1, SamePools, PoolStep
<1> QED BY <1>1, <1>2, <1>3 DEF Next

-----------------------------------------------------------------------------

\* The type invariant of step 6.
THEOREM VipTypeCorrect == Spec => []TypeOK
<1>1. IInv => TypeOK
  BY DEF IInv
<1> QED BY <1>1, VipInit, VipStep, PTL DEF Spec

\* What is about to be written lies in a gap of the pools that were read, and
\* an automatic pick in the smallest one that holds it.
THEOREM ChoicesFit == Spec => []ChoiceFits
<1>1. IInv => ChoiceFits
  BY DEF IInv
<1> QED BY <1>1, VipInit, VipStep, PTL DEF Spec

\* VMS answers "overlap" only to a step that lost a race.
THEOREM OverlapMeansRace == Spec => OverlapOnlyByRace
<1>1. IInv /\ [Next]_vars =>
        [\A p \in Operators :
           (~Idle(p) /\ Idle(p)' /\ job'[p].exit = "overlap") => OtherPools(p) # job[p].seen]_vars
  <2> SUFFICES ASSUME IInv, Next, NEW p \in Operators, ~Idle(p), Idle(p)',
                      job'[p].exit = "overlap", OtherPools(p) = job[p].seen
               PROVE  FALSE
    OBVIOUS
  <2>1. job \in [Operators -> Jobs] /\ ~Taken(job[p].chosen, OtherPools(p)) /\ job[p] \in Jobs
    BY DEF IInv, TypeOK, PlannedFree, Jobs
  <2>2. CASE \E q \in Operators : Plan(q)
    BY <2>1, <2>2 DEF Plan, Idle
  <2>3. CASE \E q \in Operators : Look(q)
    BY <2>1, <2>3 DEF Look, Exit, Idle, Jobs
  <2>4. CASE \E q \in Operators : Write(q)
    BY <2>1, <2>4 DEF Write, Exit, Idle, Jobs
  <2>5. CASE \E q \in Operators : Stop(q)
    BY <2>1, <2>5 DEF Stop, Exit, Idle, Jobs
  <2>6. CASE Other \/ \E q \in Operators : Extend(q)
    BY <2>6 DEF Other, Extend, Idle
  <2> QED BY <2>2, <2>3, <2>4, <2>5, <2>6 DEF Next, Work
<1> QED BY <1>1, VipInit, VipStep, PTL DEF Spec, OverlapOnlyByRace

-----------------------------------------------------------------------------
(* The subnets of a report                                                 *)

\* The subnet that a range and the mask of its pool give.
LEMMA BlockTyped ==
  ASSUME NEW rest \in SUBSET PoolRecords, NEW net \in Blocks(rest)
  PROVE  net \in Pairs
<1>1. PICK q \in rest : net \in {Block(q.ranges[i].lo, q.size) : i \in 1..Len(q.ranges)}
  BY DEF Blocks
<1>2. PICK i \in 1..Len(q.ranges) : net = Block(q.ranges[i].lo, q.size)
  BY <1>1
<1>3. q.size \in Nat \ {0} /\ q.ranges \in Seq(Pairs)
  BY DEF PoolRecords
<1>4. q.ranges[i] \in Pairs
  BY <1>3
<1>5. PICK r : r = q.ranges[i]
  OBVIOUS
<1>6. PICK lo \in Int, size \in Nat \ {0} : lo = r.lo /\ size = q.size
  BY <1>3, <1>4, <1>5 DEF Pairs
<1>7. lo - (lo % size) \in Int /\ lo - (lo % size) + size - 1 \in Int
  BY <1>6
<1>8. Block(lo, size) \in Pairs
  BY <1>7 DEF Block, Rng, Pairs
<1> QED BY <1>2, <1>5, <1>6, <1>8

\* What list_vippools.py reports as free in a subnet can be had, as long as every
\* pool that reaches into the subnet declares its mask.
THEOREM ReportsAreTrue == Spec => []ReportedIsFree
<1>1. IInv => ReportedIsFree
  <2> SUFFICES ASSUME IInv, NEW net \in Blocks(pools), Declares(net),
                      NEW g \in Gaps(net, ClaimsPer(pools, net)), Taken(g, pools)
               PROVE  FALSE
    BY DEF ReportedIsFree
  <2>1. pools \in SUBSET PoolRecords
    BY DEF IInv, TypeOK
  <2>2. PICK s \in RangesOf(pools) : Meets(g, s)
    BY DEF Taken
  <2>3. PICK q \in pools : s \in {q.ranges[i] : i \in 1..Len(q.ranges)}
    BY DEF RangesOf
  <2>4. PICK i \in 1..Len(q.ranges) : s = q.ranges[i]
    BY <2>3
  <2>5. net \in Pairs /\ net.lo \in Int /\ net.hi \in Int
    BY <2>1, BlockTyped DEF Pairs
  <2>6. s.lo \in Int /\ s.hi \in Int /\ s.lo <= s.hi
    BY <2>1, RangesTyped DEF Pairs
  <2>7. g.lo \in Int /\ g.hi \in Int
    BY <2>5, GapsTyped
  <2>8. g.lo <= g.hi
    BY DEF Gaps
  <2>9. PICK x \in Int : g.lo <= x /\ x <= g.hi /\ s.lo <= x /\ x <= s.hi
    <3>1. CASE g.lo >= s.lo
      BY <2>2, <2>6, <2>7, <2>8, <3>1 DEF Meets
    <3>2. CASE g.lo < s.lo
      BY <2>2, <2>6, <2>7, <3>2 DEF Meets
    <3> QED BY <2>6, <2>7, <3>1, <3>2
  <2>10. /\ net.lo < x /\ x < net.hi
         /\ \A c \in ClaimsPer(pools, net) : ~(c.lo <= x /\ x <= c.hi)
    BY <2>5, <2>9, GapHosts
  <2>11. Meets(s, net)
    BY <2>5, <2>6, <2>9, <2>10 DEF Meets
  <2>12. s \in ClaimsPer(pools, net)
    BY <2>4, <2>11 DEF Declares, ClaimsPer
  <2> QED BY <2>9, <2>10, <2>12
<1> QED BY <1>1, VipInit, VipStep, PTL DEF Spec

-----------------------------------------------------------------------------
(* Running step 6 again                                                    *)

\* What the step plans from a list of other pools when a range is requested.
Choices(p, seen) ==
  LET gaps == Gaps(Net[p], ClaimsIn(seen, Net[p])) IN
  IF Available(Requested[p], gaps) THEN {Requested[p]} ELSE Picks(gaps, Wanted[p])

\* There is one pool of a name, and a step that is under way or has ended well
\* has chosen from the list that it still remembers.
OneOfName == \A q1, q2 \in pools : q1.name = q2.name => q1 = q2
Remembers ==
  \A p \in Operators :
    (Requested[p] # None /\ (~Idle(p) \/ job[p].exit = "ok")) =>
      job[p].chosen \in Choices(p, job[p].seen)
RInv == OneOfName /\ Remembers

\* pick_gap has no choice.
LEMMA OnePick ==
  ASSUME NEW gaps, \A g \in gaps : g.lo \in Int /\ g.hi \in Int,
         NEW size, NEW r \in Picks(gaps, size), NEW s \in Picks(gaps, size)
  PROVE  r = s
<1> DEFINE fit == {g \in gaps : Size(g) >= size}
<1>1. PICK g \in fit : /\ \A h \in fit : Size(g) < Size(h) \/ (Size(g) = Size(h) /\ g.lo <= h.lo)
                       /\ r = Rng(g.lo, g.lo + size - 1)
  BY DEF Picks
<1>2. PICK f \in fit : /\ \A h \in fit : Size(f) < Size(h) \/ (Size(f) = Size(h) /\ f.lo <= h.lo)
                       /\ s = Rng(f.lo, f.lo + size - 1)
  BY DEF Picks
<1>3. Size(f) \in Int /\ Size(g) \in Int /\ f.lo \in Int /\ g.lo \in Int
  BY DEF Size
<1>4. /\ Size(g) < Size(f) \/ (Size(g) = Size(f) /\ g.lo <= f.lo)
      /\ Size(f) < Size(g) \/ (Size(f) = Size(g) /\ f.lo <= g.lo)
  BY <1>1, <1>2
<1>5. f.lo = g.lo
  BY <1>3, <1>4
<1> QED BY <1>1, <1>2, <1>5

LEMMA OneChoice ==
  ASSUME NEW p \in Operators, NEW seen,
         NEW r \in Choices(p, seen), NEW s \in Choices(p, seen)
  PROVE  r = s
<1> DEFINE gaps == Gaps(Net[p], ClaimsIn(seen, Net[p]))
<1>1. \A g \in gaps : g.lo \in Int /\ g.hi \in Int
  BY ConstantsOK, GapsTyped
<1> QED BY <1>1, OnePick DEF Choices

LEMMA CandidatesRequested ==
  ASSUME NEW p, Requested[p] # None
  PROVE  Candidates(p) = Choices(p, OtherPools(p))
BY DEF Candidates, Preserved, Choices, GapsFor

LEMMA RInit == Init => RInv
<1>1. NoJob.phase = "idle" /\ NoJob.exit = "none"
  BY DEF NoJob
<1> QED BY <1>1 DEF Init, RInv, OneOfName, Remembers, Idle

\* The steps after the planning leave what was chosen.
LEMMA KeepsChoice ==
  ASSUME IInv, Remembers, NEW p \in Operators, ~Idle(p), NEW ph, NEW ex,
         job' = [job EXCEPT ![p].phase = ph, ![p].exit = ex]
  PROVE  Remembers'
<1>1. job \in [Operators -> Jobs] /\ job[p] \in Jobs
  BY DEF IInv, TypeOK, Jobs
<1>2. job'[p].chosen = job[p].chosen /\ job'[p].seen = job[p].seen
  BY <1>1 DEF Jobs
<1>3. \A q \in Operators : q # p => job'[q] = job[q]
  BY <1>1
<1> QED BY <1>2, <1>3 DEF Remembers, Idle, Choices

LEMMA PlanRemembers ==
  ASSUME IInv, Remembers, NEW p \in Operators, Plan(p)
  PROVE  Remembers'
<1>1. job \in [Operators -> Jobs]
  BY DEF IInv, TypeOK, Jobs
<1>2. PICK j : /\ job' = [job EXCEPT ![p] = j]
               /\ j.seen = OtherPools(p)
               /\ (j.phase # "idle" \/ j.exit = "ok") => j.chosen \in Candidates(p)
  <2>1. CASE Candidates(p) = {}
    <3> DEFINE j == [NoJob EXCEPT !.exit = "full", !.own = NamedPool(p), !.seen = OtherPools(p)]
    <3>1. j.seen = OtherPools(p) /\ j.phase = "idle" /\ j.exit = "full"
      BY DEF NoJob
    <3>2. job' = [job EXCEPT ![p] = j]
      BY <2>1 DEF Plan
    <3> HIDE DEF j
    <3> QED BY <3>1, <3>2
  <2>2. CASE Candidates(p) # {}
    <3>1. PICK r \in Candidates(p) :
            job' = [job EXCEPT ![p] =
                      [phase |-> "look", exit |-> "none", chosen |-> r,
                       auto |-> r # Requested[p] /\ Preserved(p) = {},
                       own |-> NamedPool(p), seen |-> OtherPools(p)]]
      BY <2>2 DEF Plan
    <3> DEFINE j == [phase |-> "look", exit |-> "none", chosen |-> r,
                     auto |-> r # Requested[p] /\ Preserved(p) = {},
                     own |-> NamedPool(p), seen |-> OtherPools(p)]
    <3>2. j.seen = OtherPools(p) /\ j.chosen = r
      OBVIOUS
    <3>3. job' = [job EXCEPT ![p] = j]
      BY <3>1
    <3> HIDE DEF j
    <3> QED BY <3>2, <3>3
  <2> QED BY <2>1, <2>2
<1>3. job'[p] = j /\ \A q \in Operators : q # p => job'[q] = job[q]
  BY <1>1, <1>2
<1> QED BY <1>2, <1>3, CandidatesRequested DEF Remembers, Idle, Choices

LEMMA RStep == IInv /\ RInv /\ [Next]_vars => RInv'
<1> SUFFICES ASSUME IInv, RInv, [Next]_vars PROVE RInv'
  OBVIOUS
<1>1. OneOfName'
  <2>1. CASE Other
    BY <2>1 DEF Other, RInv, OneOfName
  <2>2. ASSUME NEW p \in Operators, NEW new, new.name = PoolName[p],
               pools' = OtherPools(p) \union {new}
        PROVE  OneOfName'
    BY <2>2 DEF RInv, OneOfName, OtherPools
  <2>3. CASE \E p \in Operators : Write(p)
    <3> PICK p \in Operators : Write(p)
      BY <2>3
    <3> DEFINE new == [name |-> PoolName[p], size |-> NetSize(p), ranges |-> <<job[p].chosen>>]
    <3>1. UNCHANGED pools \/ pools' = OtherPools(p) \union {new}
      BY DEF Write
    <3>2. new.name = PoolName[p]
      OBVIOUS
    <3> HIDE DEF new
    <3> QED BY <2>2, <3>1, <3>2 DEF RInv, OneOfName
  <2>4. CASE \E p \in Operators : Extend(p)
    <3> PICK p \in Operators : Extend(p)
      BY <2>4
    <3>1. PICK q \in NamedPool(p), r \in Extras :
            pools' = OtherPools(p) \union {[q EXCEPT !.ranges = Append(@, r)]}
      BY DEF Extend
    <3> DEFINE new == [q EXCEPT !.ranges = Append(@, r)]
    <3>2. q \in PoolRecords /\ q.name = PoolName[p]
      BY DEF NamedPool, IInv, TypeOK
    <3>3. new.name = PoolName[p]
      BY <3>2 DEF PoolRecords
    <3> HIDE DEF new
    <3>4. pools' = OtherPools(p) \union {new}
      BY <3>1 DEF new
    <3> QED BY <2>2, <3>3, <3>4
  <2>5. CASE UNCHANGED pools
    BY <2>5 DEF RInv, OneOfName
  <2> QED BY <2>1, <2>3, <2>4, <2>5 DEF Next, Work, Plan, Look, Stop, vars
<1>2. Remembers'
  <2>1. CASE UNCHANGED job
    BY <2>1 DEF RInv, Remembers, Idle, Choices
  <2>2. CASE \E p \in Operators : Plan(p)
    BY <2>2, PlanRemembers DEF RInv
  <2>3. ASSUME NEW p \in Operators, NEW code, ~Idle(p), Exit(p, code)
        PROVE  Remembers'
    BY <2>3, KeepsChoice DEF RInv, Exit
  <2>4. CASE \E p \in Operators : Write(p) \/ Stop(p)
    BY <2>3, <2>4 DEF Write, Stop, Idle
  <2>5. CASE \E p \in Operators : Look(p)
    <3> PICK p \in Operators : Look(p)
      BY <2>5
    <3>1. ~Idle(p)
      BY DEF Look, Idle
    <3>2. CASE Exit(p, "ok")
      BY <2>3, <3>1, <3>2
    <3>3. ASSUME NEW ph, job' = [job EXCEPT ![p].phase = ph] PROVE Remembers'
      <4>1. job \in [Operators -> Jobs] /\ job[p] \in Jobs
        BY DEF IInv, TypeOK, Jobs
      <4>2. [job[p] EXCEPT !.phase = ph] = [job[p] EXCEPT !.phase = ph, !.exit = job[p].exit]
        BY <4>1 DEF Jobs
      <4>3. job' = [job EXCEPT ![p].phase = ph, ![p].exit = job[p].exit]
        BY <3>3, <4>1, <4>2
      <4> QED BY <3>1, <4>3, KeepsChoice DEF RInv
    <3> QED BY <3>2, <3>3 DEF Look
  <2> QED BY <2>1, <2>2, <2>4, <2>5 DEF Next, Work, Other, Extend, vars
<1> QED BY <1>1, <1>2 DEF RInv

\* A re-run of what succeeded plans the same range, the pool's own or the same
\* answer to the same request, as long as the other pools are the same; and so
\* ensure_vippool finds nothing to write.
THEOREM RerunsKeepRange == Spec => RerunKeepsRange
<1>1. IInv /\ RInv /\ [Next]_vars =>
        [\A p \in Operators :
           (/\ job[p].exit = "ok" /\ OtherPools(p) = job[p].seen
            /\ \E q \in NamedPool(p) : q.ranges = <<job[p].chosen>>
            /\ job'[p].phase = "look") => job'[p].chosen = job[p].chosen]_vars
  <2> SUFFICES ASSUME IInv, RInv, Next, NEW p \in Operators,
                      job[p].exit = "ok", OtherPools(p) = job[p].seen,
                      NEW q \in NamedPool(p), q.ranges = <<job[p].chosen>>,
                      job'[p].phase = "look"
               PROVE  job'[p].chosen = job[p].chosen
    OBVIOUS
  <2>1. job \in [Operators -> Jobs] /\ job[p] \in Jobs
    BY DEF IInv, TypeOK, Jobs
  <2>2. CASE UNCHANGED job
    BY <2>2
  <2>3. ASSUME NEW o \in Operators, NEW ph, NEW ex,
               job' = [job EXCEPT ![o].phase = ph, ![o].exit = ex]
        PROVE  job'[p].chosen = job[p].chosen
    BY <2>1, <2>3 DEF Jobs
  <2>4. ASSUME NEW o \in Operators, NEW ph, job' = [job EXCEPT ![o].phase = ph]
        PROVE  job'[p].chosen = job[p].chosen
    BY <2>1, <2>4 DEF Jobs
  <2>5. CASE \E o \in Operators : Write(o) \/ Look(o) \/ Stop(o)
    BY <2>3, <2>4, <2>5 DEF Write, Look, Stop, Exit
  <2>6. CASE Plan(p)
    <3>1. PICK r \in Candidates(p) : job'[p].chosen = r
      <4>1. CASE Candidates(p) = {}
        BY <2>1, <2>6, <4>1 DEF Plan, NoJob
      <4>2. CASE Candidates(p) # {}
        BY <2>1, <2>6, <4>2 DEF Plan
      <4> QED BY <4>1, <4>2
    <3>2. CASE Requested[p] # None
      <4>1. r \in Choices(p, job[p].seen) /\ job[p].chosen \in Choices(p, job[p].seen)
        BY <3>1, <3>2, CandidatesRequested DEF RInv, Remembers
      <4> QED BY <3>1, <4>1, OneChoice
    <3>3. CASE Requested[p] = None
      <4>1. \A o \in NamedPool(p) : o = q
        BY DEF NamedPool, RInv, OneOfName
      <4>2. q.ranges[1] = job[p].chosen
        OBVIOUS
      <4> QED BY <3>1, <3>3, <4>1, <4>2 DEF Candidates, Preserved
    <3> QED BY <3>2, <3>3
  <2>7. CASE \E o \in Operators : o # p /\ Plan(o)
    BY <2>1, <2>7 DEF Plan
  <2> QED BY <2>2, <2>5, <2>6, <2>7 DEF Next, Work, Other, Extend
<1> QED BY <1>1, VipInit, VipStep, RInit, RStep, PTL DEF Spec, RerunKeepsRange
=============================================================================
