---------------------------- MODULE MCInteractive ----------------------------
(* Sessions on a tenant that `tenant create` made, and on none.            *)
EXTENDS InteractiveProperties

MCStarts == {{}, CreatedKinds, CreatedKinds \ {"role", "manager"}}
MCLacks == {{}, {"password"}, {"admin"}, {"certs"}}
=============================================================================
