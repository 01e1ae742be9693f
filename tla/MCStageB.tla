------------------------------ MODULE MCStageB ------------------------------
(* One machine with two terminals and a tenant each; the YAML of the second *)
(* lists the first pipeline alone.                                          *)
EXTENDS StageBProperties, TLC

CONSTANTS a, b, A, B

TwoTerminals == {a, b}
TwoTenants == {A, B}
EachItsTenant == a :> A @@ b :> B
SharedPipelines == a :> <<"p", "q">> @@ b :> <<"p">>
OneTrigger == "p" :> <<"t">> @@ "q" :> <<>>
OneFunction == "p" :> <<"f">> @@ "q" :> <<>>
TwoPipelines == {"p", "q"}

Planned == [Plain(b) EXCEPT !.dry = TRUE]
Asking == [Plain(a) EXCEPT !.ask = TRUE]
DestroyAll == [Plain(a) EXCEPT !.cmd = "destroy", !.off = TRUE]
DestroyOne == [Plain(b) EXCEPT !.cmd = "destroy"]
Status == [Plain(b) EXCEPT !.cmd = "status"]
BuildOne == [Nothing EXCEPT !.cmd = "build", !.deploy = FALSE, !.targets = <<"f">>]
AllOptions ==
  a :> {Plain(a), Asking, DestroyAll, BuildOne} @@ b :> {Plain(b), Planned, DestroyOne, Status}
=============================================================================
