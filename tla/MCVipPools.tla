----------------------------- MODULE MCVipPools -----------------------------
(***************************************************************************)
(* Two operators and two subnets of eight addresses, next to each other;   *)
(* pools of others, two of which reach from one subnet into the other and  *)
(* declare the subnet of sixteen.                                          *)
(***************************************************************************)
EXTENDS VipPoolProperties

CONSTANTS a, b

MCNames == [p \in Operators |-> IF p = a THEN "pool-a" ELSE "pool-b"]
Low == Rng(0, 7)
MCNet == [p \in Operators |-> Low]
MCRequested == [p \in Operators |-> IF p = a THEN None ELSE Rng(2, 3)]
MCWanted == [p \in Operators |-> 2]

OtherPool(name, size, ranges) == [name |-> name, size |-> size, ranges |-> ranges]
MCOthers ==
  {OtherPool("main", 16, <<Rng(6, 9)>>), OtherPool("first", 8, <<Rng(0, 1), Rng(3, 3)>>),
   OtherPool("tail", 8, <<Rng(5, 7)>>), OtherPool("high", 8, <<Rng(12, 13), Rng(10, 10)>>),
   OtherPool("one", 16, <<Rng(4, 4)>>)}
MCExtras == {Rng(5, 5)}
=============================================================================
