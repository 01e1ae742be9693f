----------------------------- MODULE MCTenantOne -----------------------------
(* One operator, one YAML; names are the kinds themselves, but for the      *)
(* provider VMS makes, which src/README.md reports as provider-<tenant>.   *)
EXTENDS TenantProperties

CONSTANT p1

OneOperator == {p1}
OwnNames == [p \in OneOperator |-> [k \in YamlKinds |-> k]]
Editable == {"tenant", "vippool", "nfs", "s3", "user", "manager", "group", "role"}
PrefixNamed == [p \in OneOperator |-> "provider-tenant"]
=============================================================================
