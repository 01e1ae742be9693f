--------------------------- MODULE ConfigVersions ---------------------------
(***************************************************************************)
(* What the wizard's numbered backups promise: of the configuration file   *)
(* there is always the newest version in full, next to older ones, and a   *)
(* wizard that replaces the newest keeps it; only an editor drops it.      *)
(* Once two writers have been at work together nothing is promised.        *)
(***************************************************************************)
EXTENDS Naturals

CONSTANT None
VARIABLES
  newest,  \* the newest version, or None
  author,  \* "wizard" or "editor": who wrote it
  kept,    \* older versions
  alone    \* no two writers have been at work together

vars == <<newest, author, kept, alone>>

Versions == kept \union ({newest} \ {None})

Save ==
  /\ newest' \in Nat \ Versions /\ author' = "wizard"
  /\ kept' \subseteq Versions /\ {newest} \ {None} \subseteq kept'
Edit ==
  /\ newest' \in Nat \ Versions /\ author' = "editor"
  /\ kept' \subseteq Versions
\* The oldest backups go.
Forget == kept' \subseteq kept /\ UNCHANGED <<newest, author>>

Init ==
  /\ newest \in Nat \union {None} /\ kept \subseteq Nat \ {newest}
  /\ author = "editor" /\ alone = TRUE
Next == ~alone' \/ (alone' /\ alone /\ (Save \/ Edit \/ Forget))
Spec == Init /\ [][Next]_vars
=============================================================================
