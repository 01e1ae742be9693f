------------------------------ MODULE VipSweep ------------------------------
(***************************************************************************)
(* The two loops of free_ranges_in_subnet: one merges the claims that      *)
(* touch, the other walks the merged claims with a cursor and collects     *)
(* what lies between them.                                                 *)
(***************************************************************************)
EXTENDS VipPlanner

CONSTANTS
  Net,        \* the subnet
  ClaimLists  \* what claims_overlapping_subnet and list_vippools.py may pass

First == Net.lo + 1
Final == Net.hi - 1

\* Both callers pass ranges sorted by start; the loop sorts once more.
ClaimList(s) ==
  /\ s \in Seq([lo : Int, hi : Int])
  /\ \A k \in 1..Len(s) : s[k].lo <= s[k].hi
  /\ \A j, k \in 1..Len(s) : j < k => s[j].lo <= s[k].lo

ASSUME SweepConstants ==
  /\ Net \in [lo : Int, hi : Int]
  /\ \A s \in ClaimLists : ClaimList(s)

VARIABLES
  claims,  \* the argument, sorted
  i,       \* the next element of the list a loop is at
  merged, free, cursor,
  pc       \* merge, sweep, close or done

vars == <<claims, i, merged, free, cursor, pc>>

\* A subnet without hosts has no loop to run.
Init ==
  /\ claims \in ClaimLists
  /\ i = 1 /\ merged = <<>> /\ free = <<>> /\ cursor = First
  /\ pc = IF First > Final THEN "done" ELSE "merge"

\* Mutant: the end of the last claim counts, not the largest.
MergedLastEnd(c) == [merged EXCEPT ![Len(merged)] = Rng(merged[Len(merged)].lo, c.hi)]

Merged(c) ==
  [merged EXCEPT ![Len(merged)] = Rng(merged[Len(merged)].lo, Larger(merged[Len(merged)].hi, c.hi))]

Merge ==
  /\ pc = "merge" /\ i <= Len(claims)
  /\ merged' = IF merged # <<>> /\ claims[i].lo <= merged[Len(merged)].hi + 1
                 THEN Merged(claims[i])
                 ELSE Append(merged, claims[i])
  /\ i' = i + 1
  /\ UNCHANGED <<claims, free, cursor, pc>>

Turn ==
  /\ pc = "merge" /\ i > Len(claims)
  /\ pc' = "sweep" /\ i' = 1 /\ cursor' = First
  /\ UNCHANGED <<claims, merged, free>>

GapBefore(s) == IF cursor < s THEN Append(free, Rng(cursor, Smaller(s - 1, Final))) ELSE free

Sweep ==
  /\ pc = "sweep" /\ i <= Len(merged)
  /\ free' = GapBefore(merged[i].lo)
  /\ cursor' = Larger(cursor, merged[i].hi + 1)
  /\ i' = i + 1
  /\ pc' = IF cursor' > Final THEN "close" ELSE "sweep"
  /\ UNCHANGED <<claims, merged>>

Close ==
  /\ pc = "close" \/ (pc = "sweep" /\ i > Len(merged))
  /\ free' = IF cursor <= Final THEN Append(free, Rng(cursor, Final)) ELSE free
  /\ pc' = "done"
  /\ UNCHANGED <<claims, i, merged, cursor>>

Next == Merge \/ Turn \/ Sweep \/ Close
Spec == Init /\ [][Next]_vars

-----------------------------------------------------------------------------

\* The function returns the gaps: an address of the subnet that can be given
\* out is in one of them exactly when nobody claims it, each is as long as it
\* can be, and none is returned twice.  claims may overlap, touch, hold one
\* another, repeat, or reach beyond the subnet.
GapsFound ==
  pc = "done" =>
    /\ {free[k] : k \in 1..Len(free)} = Gaps(Net, {claims[k] : k \in 1..Len(claims)})
    /\ \A j, k \in 1..Len(free) : j < k => free[j].hi + 1 < free[k].lo
=============================================================================
