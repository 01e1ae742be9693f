--------------------------- MODULE MCWizardFiles ---------------------------
(* Two wizards that may overlap, and an editor.                            *)
EXTENDS WizardFileProperties

CONSTANTS w1, w2
TwoWizards == {w1, w2}
=============================================================================
