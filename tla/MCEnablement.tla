---------------------------- MODULE MCEnablement ----------------------------
(***************************************************************************)
(* Instances of Enablement.  A tick is 1/32 s: with it the backoffs of the *)
(* code (2 s, times 1.5, at most 15 s, in a budget of 300 s) are exact.    *)
(***************************************************************************)
EXTENDS EnablementProperties

\* After `tenant create`, with and without the tenant admin's password.
MCCreated == {CreatedKinds, CreatedKinds \ {"role", "manager"}}
\* On a tenant that `enable` makes itself.
MCFresh == {{}}
MCStarts == MCCreated \union MCFresh
MCLacks == {{}, {"password"}, {"admin"}, {"certs"}}
MCComplete == {{}}
=============================================================================
