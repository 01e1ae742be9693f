------------------------ MODULE WizardFileProperties ------------------------
(* What the files of the wizard keep.                                      *)
EXTENDS WizardFiles, FiniteSets

Places == {"idle", "exists", "oldest", "unlink", "shift", "rename", "park",
           "create", "fill", "replace"}
Written == 0..last \union {None}

\* Every version that is at vastde.yaml or among its backups is whole: none is
\* Torn, whatever is killed and whoever else writes.
TypeOK ==
  /\ last \in Nat /\ file \in Written /\ bak \in [Slots -> Written]
  /\ temp \in [Wizards -> Nat \union {None, Torn}] /\ pc \in [Wizards -> Places]
  /\ slot \in [Wizards -> 0..Keep - 1] /\ content \in [Wizards -> 0..last]
  /\ author \in {"wizard", "editor"} /\ {alone, failed} \subseteq BOOLEAN

\* What a run knows of its own variables.
OwnState(w) ==
  /\ pc[w] = "unlink" => slot[w] = Keep - 1
  /\ pc[w] = "rename" => slot[w] # 0
  /\ pc[w] = "replace" => temp[w] = content[w]

\* The file is newer than its backups, and they are in order, with gaps where a
\* run was killed in its rotation.
InOrder ==
  /\ \A i, j \in Slots : (i < j /\ bak[i] # None /\ bak[j] # None) => bak[i] > bak[j]
  /\ \A i \in Slots : (file # None /\ bak[i] # None) => file > bak[i]

\* What a lone run has found is as it found it, and it moves every file to a
\* place that is free, so nothing is overwritten.
AtWork(w) ==
  /\ content[w] = last /\ file # last /\ \A i \in Slots : bak[i] # last
  /\ pc[w] \in {"oldest", "unlink", "shift", "rename", "park"} => file # None
  /\ pc[w] \in {"create", "fill", "replace"} => file = None
  /\ pc[w] = "unlink" => bak[Keep] # None
  /\ pc[w] = "rename" => bak[slot[w]] # None
  /\ pc[w] \in {"shift", "rename"} => bak[slot[w] + 1] = None
  /\ pc[w] = "park" => bak[1] = None
Lone ==
  /\ \A v, w \in Wizards : Working(v) /\ Working(w) => v = w
  /\ InOrder /\ \A w \in Wizards : Working(w) => AtWork(w)

\* A file that a wizard has found is still there when it comes to move or to
\* delete it, unless somebody else writes at the same time.
FailsOnlyTogether == failed => ~alone

\* Nothing is torn; and as long as no two writers meet no call fails, nothing is
\* overwritten, and the versions are in order (_yaml_emit.py:33-97).
FilesSound ==
  TypeOK /\ (\A w \in Wizards : OwnState(w)) /\ (alone => Lone) /\ FailsOnlyTogether

\* Of the last Keep versions that wizards replaced at most one is gone for each
\* run that was killed, and one for the rotation under way: the oldest backup is
\* deleted before anything is known of the new file (_yaml_emit.py:70-84).
Rotating(w) == pc[w] \in {"shift", "rename", "park"}
Lost ==
  {k \in 1..Keep : k <= Len(replaced) /\ \A i \in Slots : bak[i] # replaced[k]}
OneLostPerStop ==
  alone => Cardinality(Lost) <= stops + Cardinality({w \in Wizards : Rotating(w)})

\* The files keep what ConfigVersions promises: the newest version is never
\* lost, and a wizard that replaces it keeps it.
KeepsVersions == Promise!Spec
=============================================================================
