---------------------------- MODULE WizardFiles ----------------------------
(***************************************************************************)
(* How the wizard writes vastde.yaml: write_yaml_with_backup               *)
(* (interactive/_yaml_emit.py), that is backup_existing and then           *)
(* write_atomic.  One action is one call on the file system: each test for *)
(* a file and the call that relies on it are apart, and the run may be     *)
(* killed, or the call fail, before any of them.                           *)
(*                                                                         *)
(* A version of the file is a number, larger than those before it.         *)
(***************************************************************************)
EXTENDS Integers, Sequences

CONSTANTS
  Wizards,      \* the runs of the wizard on one path
  Keep,         \* keep_backups
  None, Torn,   \* no file; a file that is not written to its end
  MaxVersions,  \* bound on the versions, with those that are there at first
  MaxStops      \* bound on the runs killed

ASSUME WizardConstants ==
  /\ Keep \in Nat \ {0} /\ {MaxVersions, MaxStops} \subseteq Nat
  /\ None \notin Nat /\ Torn \notin Nat \union {None}

VARIABLES
  file,    \* vastde.yaml
  bak,     \* vastde.yaml.bak.1 to vastde.yaml.bak.<Keep>
  temp,    \* each run's temporary file; what a killed run leaves is not shown
  pc,      \* what each run does next
  slot,    \* i of its loop
  content, \* the version it writes
  last,    \* the number of versions so far
  \* Of the history: who wrote the file, whether no two writers have been at
  \* work together, the last Keep versions that wizards replaced, newest first,
  \* the runs killed, and whether a call failed on a file that was not there.
  author, alone, replaced, stops, failed

vars == <<file, bak, temp, pc, slot, content, last, author, alone, replaced, stops, failed>>
history == <<author, alone, replaced, stops, failed>>

Slots == 1..Keep
Working(w) == pc[w] # "idle"
Go(w, at) == pc' = [pc EXCEPT ![w] = at]
Leave(w) ==
  /\ Go(w, "idle") /\ slot' = [slot EXCEPT ![w] = 0] /\ content' = [content EXCEPT ![w] = 0]

\* The wizard has composed and validated a configuration.
Begin(w) ==
  /\ ~Working(w) /\ last < MaxVersions
  /\ last' = last + 1 /\ content' = [content EXCEPT ![w] = last + 1]
  /\ Go(w, "exists") /\ alone' = (alone /\ \A v \in Wizards : ~Working(v))
  /\ UNCHANGED <<file, bak, temp, slot, author, replaced, stops, failed>>

-----------------------------------------------------------------------------
(* backup_existing                                                         *)

\* Mutant: the file that is there is not backed up.
ExistsNoMatter(w) ==
  /\ pc[w] = "exists" /\ Go(w, "create")
  /\ UNCHANGED <<file, bak, temp, slot, content, last, history>>
Exists(w) ==
  /\ pc[w] = "exists" /\ Go(w, IF file = None THEN "create" ELSE "oldest")
  /\ UNCHANGED <<file, bak, temp, slot, content, last, history>>

\* Mutant: the oldest is deleted untested.
OldestUntested(w) ==
  /\ pc[w] = "oldest"
  /\ slot' = [slot EXCEPT ![w] = Keep - 1] /\ Go(w, "unlink")
  /\ UNCHANGED <<file, bak, temp, content, last, history>>
Oldest(w) ==
  /\ pc[w] = "oldest"
  /\ slot' = [slot EXCEPT ![w] = Keep - 1]
  /\ Go(w, IF bak[Keep] = None THEN "shift" ELSE "unlink")
  /\ UNCHANGED <<file, bak, temp, content, last, history>>

\* A call on a file that is not there raises FileNotFoundError.
Missing(w) ==
  /\ failed' = TRUE /\ Leave(w)
  /\ UNCHANGED <<file, bak, author, alone, replaced, stops>>

Unlink(w) ==
  /\ pc[w] = "unlink"
  /\ \/ bak[Keep] = None /\ Missing(w)
     \/ /\ bak[Keep] # None /\ Go(w, "shift")
        /\ bak' = [bak EXCEPT ![Keep] = None]
        /\ UNCHANGED <<file, slot, content, history>>
  /\ UNCHANGED <<temp, last>>

\* Mutant: the loop ends before .bak.1.
ShiftToTwo(w) ==
  /\ pc[w] = "shift"
  /\ \/ slot[w] <= 1 /\ Go(w, "park") /\ UNCHANGED slot
     \/ slot[w] > 1 /\ bak[slot[w]] # None /\ Go(w, "rename") /\ UNCHANGED slot
     \/ slot[w] > 1 /\ bak[slot[w]] = None /\ UNCHANGED pc
          /\ slot' = [slot EXCEPT ![w] = @ - 1]
  /\ UNCHANGED <<file, bak, temp, content, last, history>>
Shift(w) ==
  /\ pc[w] = "shift"
  /\ \/ slot[w] = 0 /\ Go(w, "park") /\ UNCHANGED slot
     \/ slot[w] > 0 /\ bak[slot[w]] # None /\ Go(w, "rename") /\ UNCHANGED slot
     \/ slot[w] > 0 /\ bak[slot[w]] = None /\ UNCHANGED pc
          /\ slot' = [slot EXCEPT ![w] = @ - 1]
  /\ UNCHANGED <<file, bak, temp, content, last, history>>

\* A rename replaces what is there.
Moved(i) == [bak EXCEPT ![i + 1] = bak[i], ![i] = None]
Rename(w) ==
  /\ pc[w] = "rename"
  /\ \/ bak[slot[w]] = None /\ Missing(w)
     \/ /\ bak[slot[w]] # None /\ Go(w, "shift")
        /\ bak' = Moved(slot[w]) /\ slot' = [slot EXCEPT ![w] = @ - 1]
        /\ UNCHANGED <<file, content, history>>
  /\ UNCHANGED <<temp, last>>

Latest(seq) == SubSeq(seq, 1, IF Len(seq) < Keep THEN Len(seq) ELSE Keep)
Park(w) ==
  /\ pc[w] = "park"
  /\ \/ file = None /\ Missing(w)
     \/ /\ file # None /\ Go(w, "create")
        /\ bak' = [bak EXCEPT ![1] = file] /\ file' = None
        /\ replaced' = Latest(<<file>> \o replaced)
        /\ UNCHANGED <<slot, content, author, alone, stops, failed>>
  /\ UNCHANGED <<temp, last>>

-----------------------------------------------------------------------------
(* write_atomic                                                            *)

Create(w) ==
  /\ pc[w] = "create" /\ Go(w, "fill") /\ temp' = [temp EXCEPT ![w] = Torn]
  /\ UNCHANGED <<file, bak, slot, content, last, history>>

\* Written to its end, and fsync.
Fill(w) ==
  /\ pc[w] = "fill" /\ Go(w, "replace") /\ temp' = [temp EXCEPT ![w] = content[w]]
  /\ UNCHANGED <<file, bak, slot, content, last, history>>

\* os.replace.
Replace(w) ==
  /\ pc[w] = "replace" /\ Leave(w)
  /\ file' = temp[w] /\ temp' = [temp EXCEPT ![w] = None]
  /\ author' = "wizard"
  /\ UNCHANGED <<bak, last, alone, replaced, stops, failed>>

\* The run is killed, or a call fails.
Stop(w) ==
  /\ Working(w) /\ stops < MaxStops /\ stops' = stops + 1
  /\ Leave(w) /\ temp' = [temp EXCEPT ![w] = None]
  /\ UNCHANGED <<file, bak, last, author, alone, replaced, failed>>

-----------------------------------------------------------------------------
\* Somebody saves the file in an editor.
HandEdit ==
  /\ last < MaxVersions /\ last' = last + 1 /\ file' = last + 1
  /\ author' = "editor" /\ alone' = (alone /\ \A w \in Wizards : ~Working(w))
  /\ UNCHANGED <<bak, temp, pc, slot, content, replaced, stops, failed>>

Step(w) ==
  \/ Exists(w) \/ Oldest(w) \/ Unlink(w) \/ Shift(w) \/ Rename(w) \/ Park(w)
  \/ Create(w) \/ Fill(w) \/ Replace(w)

\* An empty directory, or one where the wizard has been at work before.
Before(n) ==
  /\ file = n /\ last = n /\ bak = [i \in Slots |-> IF i <= n THEN n - i ELSE None]
  /\ replaced = Latest([i \in 1..n |-> n - i])
Init ==
  /\ \/ file = None /\ last = 0 /\ bak = [i \in Slots |-> None] /\ replaced = <<>>
     \/ \E n \in 0..Keep : Before(n)
  /\ temp = [w \in Wizards |-> None] /\ pc = [w \in Wizards |-> "idle"]
  /\ slot = [w \in Wizards |-> 0] /\ content = [w \in Wizards |-> 0]
  /\ author = "editor" /\ alone = TRUE /\ stops = 0 /\ failed = FALSE

Next == HandEdit \/ \E w \in Wizards : Begin(w) \/ Step(w) \/ Stop(w)
Spec == Init /\ [][Next]_vars

-----------------------------------------------------------------------------
\* What the files amount to: until the new version is at its place the newest
\* one is vastde.yaml.bak.1.
Newest == IF file # None THEN file ELSE bak[1]
Kept == {bak[i] : i \in Slots} \ {None, Newest}
Promise == INSTANCE ConfigVersions WITH newest <- Newest, kept <- Kept
=============================================================================
