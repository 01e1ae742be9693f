----------------------------- MODULE MCTenantTwo -----------------------------
(* Two operators with a YAML each; the tenant of p2 has the name of the    *)
(* cluster's default provider, and p2 has no vip_pool section.  VMS names  *)
(* the provider of p1's tenant like the tenant, that of p2's provider-...  *)
EXTENDS TenantProperties

CONSTANTS p1, p2

TwoOperators == {p1, p2}
OwnNames ==
  [p \in TwoOperators |->
     [k \in YamlKinds |-> IF p = p2 /\ k = "tenant" THEN <<"default">> ELSE <<p, k>>]]
SameYaml == [p \in TwoOperators |-> OwnNames[p1]]
PrefixNamed == [p \in TwoOperators |-> <<"provider", NameOf[p]["tenant"]>>]
EitherNamed == [PrefixNamed EXCEPT ![p1] = NameOf[p1]["tenant"]]
DefaultName == <<"default">>
FirstHasPool == {p1}
=============================================================================
