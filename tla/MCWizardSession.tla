-------------------------- MODULE MCWizardSession --------------------------
(* The wizard over all flows of up to three edges, and with references to  *)
(* variables in any text, the names of triggers and functions among them.  *)
EXTENDS WizardSessionProperties
=============================================================================
