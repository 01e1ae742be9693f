----------------------------- MODULE MCVipSweep -----------------------------
(***************************************************************************)
(* Every sorted list of at most MaxClaims ranges that start in a subnet of *)
(* eight addresses; list_vippools.py does not cut those that leave it.     *)
(***************************************************************************)
EXTENDS VipSweep

CONSTANT MaxClaims

MCNet == Rng(0, 7)
Ranges == {r \in [lo : 0..7, hi : 0..8] : r.lo <= r.hi}
MCLists == {s \in UNION {[1..n -> Ranges] : n \in 0..MaxClaims} : ClaimList(s)}
=============================================================================
