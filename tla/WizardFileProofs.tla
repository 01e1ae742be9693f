-------------------------- MODULE WizardFileProofs --------------------------
(***************************************************************************)
(* Proofs about the files of the wizard, for any number of wizards and of  *)
(* backups: FilesSound is inductive; with it every step is a step of       *)
(* ConfigVersions; and Counts, inductive on top of it, bounds what is lost.*)
(***************************************************************************)
EXTENDS WizardFileProperties, FiniteSetTheorems, SequenceTheorems, TLAPS

-----------------------------------------------------------------------------
(* Facts about places and versions                                         *)

Guarded == \A w \in Wizards : OwnState(w)

LEMMA Constants ==
  None \notin Nat /\ Torn \notin Nat /\ Torn # None /\ Keep \in Nat \ {0}
  BY WizardConstants

LEMMA SlotBounds == 1 \in Slots /\ Keep \in Slots /\ Slots \subseteq Nat \ {0}
  BY Constants DEF Slots

\* All runs keep their variables, but for the place of one.
LEMMA PlaceTyped ==
  ASSUME TypeOK, NEW w \in Wizards, NEW at \in Places, Go(w, at)
  PROVE  pc' \in [Wizards -> Places] /\ pc'[w] = at
         /\ \A v \in Wizards \ {w} : pc'[v] = pc[v]
  BY DEF TypeOK, Go

LEMMA LeaveTyped ==
  ASSUME TypeOK, NEW w \in Wizards, Leave(w)
  PROVE  /\ pc' \in [Wizards -> Places] /\ pc'[w] = "idle"
         /\ slot' \in [Wizards -> 0..Keep - 1] /\ slot'[w] = 0
         /\ content' \in [Wizards -> 0..last] /\ content'[w] = 0
         /\ \A v \in Wizards \ {w} : pc'[v] = pc[v] /\ slot'[v] = slot[v] /\ content'[v] = content[v]
  BY Constants DEF TypeOK, Go, Leave, Places

\* A lone run is the only one at work, and stays so.
LEMMA LoneKept ==
  ASSUME TypeOK, NEW w \in Wizards, alone => Lone, alone' = alone, Working(w),
         \A v \in Wizards \ {w} : pc'[v] = pc[v],
         alone => InOrder' /\ (Working(w)' => AtWork(w)')
  PROVE  alone' => Lone'
  <1> SUFFICES ASSUME alone PROVE Lone'
    OBVIOUS
  <1>1. \A v \in Wizards \ {w} : ~Working(v)
    BY DEF Lone
  <1>2. \A v \in Wizards \ {w} : ~Working(v)'
    BY <1>1 DEF Working
  <1>3. \A u, v \in Wizards : Working(u)' /\ Working(v)' => u = v
    BY <1>2
  <1>4. \A v \in Wizards : Working(v)' => AtWork(v)'
    BY <1>2
  <1> QED BY <1>3, <1>4 DEF Lone

-----------------------------------------------------------------------------
(* FilesSound is inductive                                                 *)

LEMMA InitSound == Init => FilesSound
  <1> SUFFICES ASSUME Init PROVE FilesSound
    OBVIOUS
  <1>1. last \in Nat /\ file \in Written /\ bak \in [Slots -> Written] /\ InOrder
    <2>1. CASE file = None /\ last = 0 /\ bak = [i \in Slots |-> None]
      BY <2>1, Constants DEF Written, InOrder
    <2>2. CASE \E n \in 0..Keep : Before(n)
      <3>1. PICK n \in 0..Keep : Before(n)
        BY <2>2
      <3>2. last = n /\ file = n /\ n \in Nat
        BY <3>1, Constants DEF Before
      <3>3. \A i \in Slots : bak[i] = (IF i <= n THEN n - i ELSE None)
        BY <3>1 DEF Before
      <3>4. \A i \in Slots : i <= n => n - i \in 0..n
        BY <3>2, SlotBounds
      <3>5. bak \in [Slots -> Written]
        BY <3>1, <3>2, <3>4 DEF Before, Written
      <3>6. InOrder
        BY <3>2, <3>3, SlotBounds, Constants DEF InOrder
      <3> QED BY <3>2, <3>5, <3>6 DEF Written
    <2> QED BY <2>1, <2>2 DEF Init
  <1>2. TypeOK
    <2>1. temp \in [Wizards -> Nat \union {None, Torn}] /\ pc \in [Wizards -> Places]
      BY DEF Init, Places
    <2>2. 0 \in 0..Keep - 1 /\ 0 \in 0..last
      BY <1>1, Constants
    <2>3. slot \in [Wizards -> 0..Keep - 1] /\ content \in [Wizards -> 0..last]
      BY <2>2 DEF Init
    <2>4. author \in {"wizard", "editor"} /\ {alone, failed} \subseteq BOOLEAN
      BY DEF Init
    <2> QED BY <1>1, <2>1, <2>3, <2>4 DEF TypeOK
  <1>3. \A w \in Wizards : ~Working(w) /\ OwnState(w)
    BY DEF Init, Working, OwnState
  <1>4. FailsOnlyTogether
    BY DEF Init, FailsOnlyTogether
  <1> QED BY <1>1, <1>2, <1>3, <1>4 DEF FilesSound, Lone

LEMMA BeginSound ==
  ASSUME FilesSound, NEW w \in Wizards, Begin(w)
  PROVE  FilesSound'
  <1> USE DEF FilesSound
  <1>1. /\ pc' \in [Wizards -> Places] /\ pc'[w] = "exists"
        /\ \A v \in Wizards \ {w} : pc'[v] = pc[v]
    BY PlaceTyped DEF Begin, Places
  <1>2. /\ content' \in [Wizards -> 0..last'] /\ content'[w] = last' /\ last' = last + 1
        /\ last \in Nat
    BY DEF Begin, TypeOK
  <1>3. file' \in Written' /\ bak' \in [Slots -> Written']
    <2>1. Written \subseteq Written'
      BY <1>2 DEF Written
    <2> QED BY <2>1 DEF Begin, TypeOK
  <1>4. TypeOK'
    BY <1>1, <1>2, <1>3 DEF Begin, TypeOK
  <1>5. \A v \in Wizards : OwnState(v)'
    <2> TAKE v \in Wizards
    <2>1. CASE v = w
      BY <1>1, <2>1 DEF OwnState
    <2>2. CASE v # w
      BY <1>1, <2>2 DEF OwnState, Begin, TypeOK
    <2> QED BY <2>1, <2>2
  <1>6. alone' => Lone'
    <2> SUFFICES ASSUME alone' PROVE Lone'
      OBVIOUS
    <2>1. alone /\ \A v \in Wizards : ~Working(v)
      BY DEF Begin
    <2>2. \A v \in Wizards \ {w} : ~Working(v)'
      BY <1>1, <2>1 DEF Working
    <2>3. InOrder'
      BY <2>1 DEF Lone, InOrder, Begin
    <2>4. file' # last' /\ \A i \in Slots : bak'[i] # last'
      BY <1>2, Constants DEF Begin, TypeOK, Written
    <2>5. AtWork(w)'
      BY <1>1, <1>2, <2>4 DEF AtWork
    <2> QED BY <2>2, <2>3, <2>5 DEF Lone
  <1>7. FailsOnlyTogether'
    BY DEF FailsOnlyTogether, Begin
  <1> QED BY <1>4, <1>5, <1>6, <1>7

LEMMA ExistsSound ==
  ASSUME FilesSound, NEW w \in Wizards, Exists(w)
  PROVE  FilesSound'
  <1> USE DEF FilesSound
  <1> DEFINE at == IF file = None THEN "create" ELSE "oldest"
  <1>1. /\ pc' \in [Wizards -> Places] /\ pc'[w] = at
        /\ \A v \in Wizards \ {w} : pc'[v] = pc[v]
    BY PlaceTyped DEF Exists, Places
  <1>2. TypeOK'
    BY <1>1 DEF Exists, TypeOK, history, Written
  <1>3. \A v \in Wizards : OwnState(v)'
    BY <1>1 DEF OwnState, Exists
  <1>4. alone => InOrder' /\ (Working(w)' => AtWork(w)')
    BY <1>1 DEF Exists, Lone, InOrder, AtWork, Working, history
  <1>5. alone' => Lone'
    BY <1>1, <1>4, LoneKept DEF Exists, Working, history
  <1> QED BY <1>2, <1>3, <1>5 DEF FailsOnlyTogether, Exists, history

LEMMA OldestSound ==
  ASSUME FilesSound, NEW w \in Wizards, Oldest(w)
  PROVE  FilesSound'
  <1> USE DEF FilesSound
  <1> DEFINE at == IF bak[Keep] = None THEN "shift" ELSE "unlink"
  <1>1. /\ pc' \in [Wizards -> Places] /\ pc'[w] = at
        /\ \A v \in Wizards \ {w} : pc'[v] = pc[v]
    BY PlaceTyped DEF Oldest, Places
  <1>2. slot' \in [Wizards -> 0..Keep - 1] /\ slot'[w] = Keep - 1
        /\ \A v \in Wizards \ {w} : slot'[v] = slot[v]
    BY Constants DEF Oldest, TypeOK
  <1>3. TypeOK'
    BY <1>1, <1>2 DEF Oldest, TypeOK, history, Written
  <1>4. \A v \in Wizards : OwnState(v)'
    <2> TAKE v \in Wizards
    <2>1. CASE v = w
      BY <1>1, <1>2, <2>1 DEF OwnState
    <2>2. CASE v # w
      BY <1>1, <1>2, <2>2 DEF OwnState, Oldest
    <2> QED BY <2>1, <2>2
  <1>5. slot'[w] + 1 = Keep
    BY <1>2, Constants
  <1>6. alone => InOrder' /\ (Working(w)' => AtWork(w)')
    BY <1>1, <1>5 DEF Oldest, Lone, InOrder, AtWork, Working, history
  <1>7. alone' => Lone'
    BY <1>1, <1>6, LoneKept DEF Oldest, Working, history
  <1> QED BY <1>3, <1>4, <1>7 DEF FailsOnlyTogether, Oldest, history

\* A call on a file that is not there: only where writers have met.
LEMMA MissingSound ==
  ASSUME FilesSound, NEW w \in Wizards, Working(w), Missing(w), UNCHANGED <<temp, last>>,
         ~alone
  PROVE  FilesSound'
  <1> USE DEF FilesSound
  <1>1. /\ pc' \in [Wizards -> Places] /\ pc'[w] = "idle"
        /\ slot' \in [Wizards -> 0..Keep - 1] /\ content' \in [Wizards -> 0..last]
        /\ \A v \in Wizards \ {w} : pc'[v] = pc[v] /\ slot'[v] = slot[v] /\ content'[v] = content[v]
    BY LeaveTyped DEF Missing
  <1>2. TypeOK'
    BY <1>1 DEF Missing, TypeOK, Written
  <1>3. \A v \in Wizards : OwnState(v)'
    BY <1>1 DEF OwnState
  <1> QED BY <1>2, <1>3 DEF FailsOnlyTogether, Missing

LEMMA UnlinkSound ==
  ASSUME FilesSound, NEW w \in Wizards, Unlink(w)
  PROVE  FilesSound'
  <1> USE DEF FilesSound
  <1>1. CASE bak[Keep] = None /\ Missing(w)
    BY <1>1, MissingSound DEF Unlink, Lone, AtWork, Working
  <1>2. CASE /\ bak[Keep] # None /\ Go(w, "shift")
             /\ bak' = [bak EXCEPT ![Keep] = None]
             /\ UNCHANGED <<file, slot, content, history>>
    <2>1. /\ pc' \in [Wizards -> Places] /\ pc'[w] = "shift"
          /\ \A v \in Wizards \ {w} : pc'[v] = pc[v]
      BY <1>2, PlaceTyped DEF Places
    <2>2. /\ bak' \in [Slots -> Written] /\ bak'[Keep] = None
          /\ \A i \in Slots \ {Keep} : bak'[i] = bak[i]
      BY <1>2, SlotBounds DEF TypeOK, Written
    <2>3. TypeOK'
      BY <1>2, <2>1, <2>2 DEF Unlink, TypeOK, history, Written
    <2>4. \A v \in Wizards : OwnState(v)'
      BY <1>2, <2>1 DEF OwnState, Unlink
    <2>5. slot'[w] + 1 = Keep
      BY <1>2, Constants DEF Unlink, OwnState, TypeOK
    <2>6. alone => InOrder'
      BY <1>2, <2>2, SlotBounds DEF Lone, InOrder
    <2>7. alone => AtWork(w)'
      <3> SUFFICES ASSUME alone PROVE AtWork(w)'
        OBVIOUS
      <3>1. AtWork(w) /\ pc[w] = "unlink"
        BY DEF Unlink, Lone, Working
      <3>2. last # None
        BY Constants DEF TypeOK
      <3> QED BY <1>2, <2>1, <2>2, <2>5, <3>1, <3>2 DEF AtWork, Unlink, history
    <2>8. alone' => Lone'
      BY <1>2, <2>1, <2>6, <2>7, LoneKept DEF Unlink, Working, history
    <2> QED BY <1>2, <2>3, <2>4, <2>8 DEF FailsOnlyTogether, history
  <1> QED BY <1>1, <1>2 DEF Unlink

LEMMA ShiftSound ==
  ASSUME FilesSound, NEW w \in Wizards, Shift(w)
  PROVE  FilesSound'
  <1> USE DEF FilesSound
  <1>1. slot[w] \in 0..Keep - 1 /\ pc[w] = "shift"
    BY DEF TypeOK, Shift
  <1>2. UNCHANGED <<file, bak, temp, content, last, history>>
    BY DEF Shift
  <1>3. alone => AtWork(w) /\ InOrder
    BY <1>1 DEF Lone, Working
  <1>4. CASE slot[w] = 0 /\ Go(w, "park") /\ UNCHANGED slot
    <2>1. /\ pc' \in [Wizards -> Places] /\ pc'[w] = "park"
          /\ \A v \in Wizards \ {w} : pc'[v] = pc[v]
      BY <1>4, PlaceTyped DEF Places
    <2>2. TypeOK' /\ \A v \in Wizards : OwnState(v)'
      BY <1>2, <1>4, <2>1 DEF TypeOK, history, Written, OwnState
    <2>3. alone => InOrder' /\ AtWork(w)'
      BY <1>1, <1>2, <1>3, <1>4, <2>1 DEF InOrder, AtWork
    <2>4. alone' => Lone'
      BY <1>1, <1>2, <2>1, <2>3, LoneKept DEF Working, history
    <2> QED BY <1>2, <2>2, <2>4 DEF FailsOnlyTogether, history
  <1>5. CASE slot[w] > 0 /\ bak[slot[w]] # None /\ Go(w, "rename") /\ UNCHANGED slot
    <2>1. /\ pc' \in [Wizards -> Places] /\ pc'[w] = "rename"
          /\ \A v \in Wizards \ {w} : pc'[v] = pc[v]
      BY <1>5, PlaceTyped DEF Places
    <2>2. TypeOK' /\ \A v \in Wizards : OwnState(v)'
      BY <1>1, <1>2, <1>5, <2>1 DEF TypeOK, history, Written, OwnState
    <2>3. alone => InOrder' /\ AtWork(w)'
      BY <1>1, <1>2, <1>3, <1>5, <2>1 DEF InOrder, AtWork
    <2>4. alone' => Lone'
      BY <1>1, <1>2, <2>1, <2>3, LoneKept DEF Working, history
    <2> QED BY <1>2, <2>2, <2>4 DEF FailsOnlyTogether, history
  <1>6. CASE /\ slot[w] > 0 /\ bak[slot[w]] = None /\ UNCHANGED pc
             /\ slot' = [slot EXCEPT ![w] = @ - 1]
    <2>1. slot' \in [Wizards -> 0..Keep - 1] /\ slot'[w] + 1 = slot[w]
          /\ \A v \in Wizards \ {w} : slot'[v] = slot[v]
      BY <1>1, <1>6, Constants DEF TypeOK
    <2>2. TypeOK' /\ \A v \in Wizards : OwnState(v)'
      BY <1>1, <1>2, <1>6, <2>1 DEF TypeOK, history, Written, OwnState
    <2>3. alone => InOrder' /\ AtWork(w)'
      BY <1>1, <1>2, <1>3, <1>6, <2>1 DEF InOrder, AtWork
    <2>4. alone' => Lone'
      BY <1>1, <1>2, <1>6, <2>3, LoneKept DEF Working, history
    <2> QED BY <1>2, <2>2, <2>4 DEF FailsOnlyTogether, history
  <1> QED BY <1>4, <1>5, <1>6 DEF Shift

LEMMA RenameSound ==
  ASSUME FilesSound, NEW w \in Wizards, Rename(w)
  PROVE  FilesSound'
  <1> USE DEF FilesSound
  <1> DEFINE i == slot[w]
  <1>1. pc[w] = "rename" /\ UNCHANGED <<temp, last>>
    BY DEF Rename
  <1>2. i \in 1..Keep - 1 /\ i \in Slots /\ i + 1 \in Slots
    BY <1>1, Constants DEF TypeOK, OwnState, Slots
  <1>3. alone => AtWork(w) /\ InOrder
    BY <1>1 DEF Lone, Working
  <1>4. CASE bak[i] = None /\ Missing(w)
    BY <1>1, <1>3, <1>4, MissingSound DEF AtWork, Working
  <1>5. CASE /\ bak[i] # None /\ Go(w, "shift")
             /\ bak' = Moved(i) /\ slot' = [slot EXCEPT ![w] = @ - 1]
             /\ UNCHANGED <<file, content, history>>
    <2>1. /\ pc' \in [Wizards -> Places] /\ pc'[w] = "shift"
          /\ \A v \in Wizards \ {w} : pc'[v] = pc[v]
      BY <1>5, PlaceTyped DEF Places
    <2>2. slot' \in [Wizards -> 0..Keep - 1] /\ slot'[w] + 1 = i
          /\ \A v \in Wizards \ {w} : slot'[v] = slot[v]
      BY <1>2, <1>5, Constants DEF TypeOK
    <2>3. /\ bak' \in [Slots -> Written] /\ bak'[i + 1] = bak[i] /\ bak'[i] = None
          /\ \A j \in Slots \ {i, i + 1} : bak'[j] = bak[j]
      <3>1. bak[i] \in Written /\ None \in Written /\ i # i + 1
        BY <1>2 DEF TypeOK, Written
      <3> QED BY <1>2, <1>5, <3>1 DEF TypeOK, Moved
    <2> HIDE DEF i
    <2>4. TypeOK'
      BY <1>1, <1>5, <2>1, <2>2, <2>3 DEF TypeOK, history, Written
    <2>5. \A v \in Wizards : OwnState(v)'
      BY <1>1, <1>5, <2>1, <2>2 DEF OwnState
    <2>6. alone => InOrder'
      <3> SUFFICES ASSUME alone PROVE InOrder'
        OBVIOUS
      <3>1. ASSUME NEW j \in Slots, NEW k \in Slots, j < k, bak'[j] # None, bak'[k] # None
            PROVE  bak'[j] > bak'[k]
        <4>1. j # i /\ k # i
          BY <2>3, <3>1
        <4>2. CASE j = i + 1
          <5>1. i < k /\ bak'[k] = bak[k]
            BY <1>2, <2>3, <3>1, <4>1, <4>2, SlotBounds
          <5> QED BY <1>2, <1>3, <1>5, <2>3, <3>1, <4>2, <5>1 DEF InOrder, i
        <4>3. CASE k = i + 1
          <5>1. j < i /\ bak'[j] = bak[j]
            BY <1>2, <2>3, <3>1, <4>1, <4>3, SlotBounds
          <5> QED BY <1>2, <1>3, <1>5, <2>3, <3>1, <4>3, <5>1 DEF InOrder, i
        <4>4. CASE j # i + 1 /\ k # i + 1
          BY <1>3, <2>3, <3>1, <4>1, <4>4 DEF InOrder
        <4> QED BY <4>2, <4>3, <4>4
      <3>2. ASSUME NEW j \in Slots, file' # None, bak'[j] # None
            PROVE  file' > bak'[j]
        <4>1. file' = file /\ j # i
          BY <1>5, <2>3, <3>2
        <4>2. CASE j = i + 1
          BY <1>2, <1>3, <1>5, <2>3, <3>2, <4>1, <4>2 DEF InOrder, i
        <4>3. CASE j # i + 1
          BY <1>3, <2>3, <3>2, <4>1, <4>3 DEF InOrder
        <4> QED BY <4>2, <4>3
      <3> QED BY <3>1, <3>2 DEF InOrder
    <2>7. alone => AtWork(w)'
      <3> SUFFICES ASSUME alone PROVE AtWork(w)'
        OBVIOUS
      <3>1. content'[w] = last' /\ file' # last' /\ file' # None
        BY <1>1, <1>3, <1>5 DEF AtWork
      <3>2. last # None
        BY Constants DEF TypeOK
      <3>3. \A j \in Slots : bak'[j] # last'
        BY <1>1, <1>2, <1>3, <2>3, <3>2 DEF AtWork
      <3>4. bak'[slot'[w] + 1] = None
        BY <2>2, <2>3
      <3> QED BY <2>1, <3>1, <3>3, <3>4 DEF AtWork
    <2>8. alone' => Lone'
      BY <1>1, <1>5, <2>1, <2>6, <2>7, LoneKept DEF Working, history
    <2> QED BY <1>5, <2>4, <2>5, <2>8 DEF FailsOnlyTogether, history
  <1> QED BY <1>4, <1>5 DEF Rename

LEMMA ParkSound ==
  ASSUME FilesSound, NEW w \in Wizards, Park(w)
  PROVE  FilesSound'
  <1> USE DEF FilesSound
  <1>1. pc[w] = "park" /\ UNCHANGED <<temp, last>>
    BY DEF Park
  <1>2. alone => AtWork(w) /\ InOrder
    BY <1>1 DEF Lone, Working
  <1>3. CASE file = None /\ Missing(w)
    BY <1>1, <1>2, <1>3, MissingSound DEF AtWork, Working
  <1>4. CASE /\ file # None /\ Go(w, "create")
             /\ bak' = [bak EXCEPT ![1] = file] /\ file' = None
             /\ UNCHANGED <<slot, content, author, alone, stops, failed>>
    <2>1. /\ pc' \in [Wizards -> Places] /\ pc'[w] = "create"
          /\ \A v \in Wizards \ {w} : pc'[v] = pc[v]
      BY <1>4, PlaceTyped DEF Places
    <2>2. /\ bak' \in [Slots -> Written] /\ bak'[1] = file
          /\ \A i \in Slots \ {1} : bak'[i] = bak[i]
      BY <1>4, SlotBounds DEF TypeOK, Written
    <2>3. TypeOK'
      BY <1>1, <1>4, <2>1, <2>2 DEF TypeOK, Written
    <2>4. \A v \in Wizards : OwnState(v)'
      BY <1>1, <1>4, <2>1 DEF OwnState
    <2>5. alone => InOrder'
      <3> SUFFICES ASSUME alone PROVE InOrder'
        OBVIOUS
      <3>1. ASSUME NEW j \in Slots, NEW k \in Slots, j < k, bak'[j] # None, bak'[k] # None
            PROVE  bak'[j] > bak'[k]
        <4>1. k # 1 /\ bak'[k] = bak[k]
          BY <2>2, <3>1, SlotBounds
        <4>2. CASE j = 1
          BY <1>2, <1>4, <2>2, <3>1, <4>1, <4>2 DEF InOrder
        <4>3. CASE j # 1
          BY <1>2, <2>2, <3>1, <4>1, <4>3 DEF InOrder
        <4> QED BY <4>2, <4>3
      <3> QED BY <1>4, <3>1 DEF InOrder
    <2>6. alone => AtWork(w)'
      BY <1>1, <1>2, <1>4, <2>1, <2>2, Constants DEF AtWork, TypeOK
    <2>7. alone' => Lone'
      BY <1>1, <1>4, <2>1, <2>5, <2>6, LoneKept DEF Working
    <2> QED BY <1>4, <2>3, <2>4, <2>7 DEF FailsOnlyTogether
  <1> QED BY <1>3, <1>4 DEF Park

LEMMA CreateSound ==
  ASSUME FilesSound, NEW w \in Wizards, Create(w)
  PROVE  FilesSound'
  <1> USE DEF FilesSound
  <1>1. /\ pc' \in [Wizards -> Places] /\ pc'[w] = "fill"
        /\ \A v \in Wizards \ {w} : pc'[v] = pc[v]
    BY PlaceTyped DEF Create, Places
  <1>2. /\ temp' \in [Wizards -> Nat \union {None, Torn}]
        /\ \A v \in Wizards \ {w} : temp'[v] = temp[v]
    BY DEF Create, TypeOK
  <1>3. TypeOK' /\ \A v \in Wizards : OwnState(v)'
    BY <1>1, <1>2 DEF Create, TypeOK, history, Written, OwnState
  <1>4. alone => InOrder' /\ AtWork(w)'
    BY <1>1 DEF Create, Lone, InOrder, AtWork, Working, history
  <1>5. alone' => Lone'
    BY <1>1, <1>4, LoneKept DEF Create, Working, history
  <1> QED BY <1>3, <1>5 DEF FailsOnlyTogether, Create, history

LEMMA FillSound ==
  ASSUME FilesSound, NEW w \in Wizards, Fill(w)
  PROVE  FilesSound'
  <1> USE DEF FilesSound
  <1>1. /\ pc' \in [Wizards -> Places] /\ pc'[w] = "replace"
        /\ \A v \in Wizards \ {w} : pc'[v] = pc[v]
    BY PlaceTyped DEF Fill, Places
  <1>2. content[w] \in Nat
    BY DEF TypeOK
  <1>3. /\ temp' \in [Wizards -> Nat \union {None, Torn}] /\ temp'[w] = content[w]
        /\ \A v \in Wizards \ {w} : temp'[v] = temp[v]
    BY <1>2 DEF Fill, TypeOK
  <1>4. TypeOK' /\ \A v \in Wizards : OwnState(v)'
    BY <1>1, <1>3 DEF Fill, TypeOK, history, Written, OwnState
  <1>5. alone => InOrder' /\ AtWork(w)'
    BY <1>1 DEF Fill, Lone, InOrder, AtWork, Working, history
  <1>6. alone' => Lone'
    BY <1>1, <1>5, LoneKept DEF Fill, Working, history
  <1> QED BY <1>4, <1>6 DEF FailsOnlyTogether, Fill, history

\* The new version comes to its place.
LEMMA ReplaceSound ==
  ASSUME FilesSound, NEW w \in Wizards, Replace(w)
  PROVE  FilesSound'
  <1> USE DEF FilesSound
  <1>1. /\ pc' \in [Wizards -> Places] /\ pc'[w] = "idle"
        /\ slot' \in [Wizards -> 0..Keep - 1] /\ content' \in [Wizards -> 0..last]
        /\ \A v \in Wizards \ {w} : pc'[v] = pc[v] /\ slot'[v] = slot[v] /\ content'[v] = content[v]
    BY LeaveTyped DEF Replace
  <1>2. file' = content[w] /\ content[w] \in 0..last
    BY DEF Replace, OwnState, TypeOK
  <1>3. /\ temp' \in [Wizards -> Nat \union {None, Torn}]
        /\ \A v \in Wizards \ {w} : temp'[v] = temp[v]
    BY DEF Replace, TypeOK
  <1>4. TypeOK' /\ \A v \in Wizards : OwnState(v)'
    BY <1>1, <1>2, <1>3 DEF Replace, TypeOK, Written, OwnState
  <1>5. alone => InOrder' /\ ~Working(w)'
    <2> SUFFICES ASSUME alone PROVE InOrder'
      BY <1>1 DEF Working
    <2>1. content[w] = last /\ (\A i \in Slots : bak[i] # last) /\ InOrder
      BY DEF Replace, Lone, Working, AtWork
    <2>2. \A i \in Slots : bak[i] # None => bak[i] \in 0..last
      BY DEF TypeOK, Written
    <2>3. \A i \in Slots : bak[i] # None => last > bak[i]
      BY <2>1, <2>2 DEF TypeOK
    <2> QED BY <1>2, <2>1, <2>3 DEF InOrder, Replace
  <1>6. alone' => Lone'
    BY <1>1, <1>5, LoneKept DEF Replace, Working
  <1> QED BY <1>4, <1>6 DEF FailsOnlyTogether, Replace

LEMMA StopSound ==
  ASSUME FilesSound, NEW w \in Wizards, Stop(w)
  PROVE  FilesSound'
  <1> USE DEF FilesSound
  <1>1. /\ pc' \in [Wizards -> Places] /\ pc'[w] = "idle"
        /\ slot' \in [Wizards -> 0..Keep - 1] /\ content' \in [Wizards -> 0..last]
        /\ \A v \in Wizards \ {w} : pc'[v] = pc[v] /\ slot'[v] = slot[v] /\ content'[v] = content[v]
    BY LeaveTyped DEF Stop
  <1>2. /\ temp' \in [Wizards -> Nat \union {None, Torn}]
        /\ \A v \in Wizards \ {w} : temp'[v] = temp[v]
    BY DEF Stop, TypeOK
  <1>3. TypeOK' /\ \A v \in Wizards : OwnState(v)'
    BY <1>1, <1>2 DEF Stop, TypeOK, Written, OwnState
  <1>4. alone => InOrder' /\ ~Working(w)'
    BY <1>1 DEF Stop, Lone, InOrder, Working
  <1>5. alone' => Lone'
    BY <1>1, <1>4, LoneKept DEF Stop
  <1> QED BY <1>3, <1>5 DEF FailsOnlyTogether, Stop

LEMMA HandEditSound ==
  ASSUME FilesSound, HandEdit
  PROVE  FilesSound'
  <1> USE DEF FilesSound
  <1>1. last' = last + 1 /\ last \in Nat /\ file' = last'
    BY DEF HandEdit, TypeOK
  <1>2. Written \subseteq Written' /\ file' \in Written'
    BY <1>1 DEF Written
  <1>3. content' \in [Wizards -> 0..last']
    BY <1>1 DEF HandEdit, TypeOK
  <1>4. TypeOK' /\ \A v \in Wizards : OwnState(v)'
    <2>1. alone' \in BOOLEAN /\ failed' = failed
      BY DEF HandEdit
    <2>2. bak' \in [Slots -> Written'] /\ last' \in Nat
      <3>1. last' \in Nat
        BY <1>1
      <3>2. bak' = bak /\ bak \in [Slots -> Written]
        BY DEF HandEdit, TypeOK
      <3> QED BY <1>2, <3>1, <3>2
    <2>3. {alone, failed}' \subseteq BOOLEAN
      BY <2>1 DEF TypeOK
    <2>4. TypeOK'
      BY <1>2, <1>3, <2>2, <2>3 DEF HandEdit, TypeOK
    <2> QED BY <2>4 DEF HandEdit, OwnState
  <1>5. alone' => Lone'
    <2> SUFFICES ASSUME alone' PROVE Lone'
      OBVIOUS
    <2>1. alone /\ \A v \in Wizards : ~Working(v)'
      BY DEF HandEdit, Working
    <2>2. \A i \in Slots : bak[i] # None => bak[i] \in 0..last
      BY DEF TypeOK, Written
    <2>3. \A i \in Slots : bak[i] # None => file' > bak[i]
      BY <1>1, <2>2
    <2>4. InOrder'
      BY <2>1, <2>3 DEF Lone, InOrder, HandEdit
    <2> QED BY <2>1, <2>4 DEF Lone
  <1> QED BY <1>4, <1>5 DEF FailsOnlyTogether, HandEdit

LEMMA StepSound ==
  ASSUME FilesSound, [Next]_vars
  PROVE  FilesSound'
  <1>1. CASE HandEdit
    BY <1>1, HandEditSound
  <1>2. CASE \E w \in Wizards : Begin(w) \/ Stop(w)
    BY <1>2, BeginSound, StopSound
  <1>3. CASE \E w \in Wizards : Step(w)
    BY <1>3, ExistsSound, OldestSound, UnlinkSound, ShiftSound, RenameSound, ParkSound,
       CreateSound, FillSound, ReplaceSound DEF Step
  <1>4. CASE UNCHANGED vars
    BY <1>4 DEF vars, FilesSound, TypeOK, OwnState, Lone, InOrder, AtWork, Working,
       FailsOnlyTogether, Written
  <1> QED BY <1>1, <1>2, <1>3, <1>4 DEF Next

\* Whatever is killed, however many wizards there are and however many backups
\* they keep: nothing torn, and for a lone writer no failed call, nothing
\* overwritten, and versions in order.
THEOREM FilesStaySound == Spec => []FilesSound
  <1>1. Init => FilesSound
    BY InitSound
  <1>2. FilesSound /\ [Next]_vars => FilesSound'
    BY StepSound
  <1> QED BY <1>1, <1>2, PTL DEF Spec

-----------------------------------------------------------------------------
(* FilesSound holds of ConfigVersions                                      *)

LEMMA InitPromised == Init => Promise!Init
  <1> SUFFICES ASSUME Init PROVE Promise!Init
    OBVIOUS
  <1>1. FilesSound
    BY InitSound
  <1>2. Newest \in Nat \union {None}
    BY <1>1, SlotBounds DEF FilesSound, TypeOK, Newest, Written
  <1>3. Kept \subseteq Nat \ {Newest}
    BY <1>1 DEF FilesSound, TypeOK, Kept, Written
  <1>4. author = "editor" /\ alone = TRUE
    BY DEF Init
  <1> QED BY <1>2, <1>3, <1>4 DEF Promise!Init

\* The versions that there are.
LEMMA VersionsAre ==
  Promise!Versions = ({file} \union {bak[i] : i \in Slots}) \ {None}
  BY SlotBounds DEF Promise!Versions, Kept, Newest

\* A step that moves no version to another place, and gets no other newest one.
LEMMA SameFiles ==
  ASSUME UNCHANGED <<file, bak, author, alone>>
  PROVE  UNCHANGED Promise!vars
  BY DEF Promise!vars, Newest, Kept

LEMMA StepPromised ==
  ASSUME FilesSound, [Next]_vars
  PROVE  [Promise!Next]_(Promise!vars)
  <1> USE DEF FilesSound
  <1>1. CASE UNCHANGED vars
    BY <1>1, SameFiles DEF vars
  <1>2. CASE ~alone'
    BY <1>2 DEF Promise!Next
  <1>3. CASE HandEdit /\ alone'
    <2>1. alone /\ file' = last + 1 /\ last \in Nat /\ bak' = bak /\ author' = "editor"
      BY <1>3 DEF HandEdit, TypeOK
    <2>2. Newest' = last + 1 /\ last + 1 # None
      BY <2>1, Constants DEF Newest
    <2>3. Newest' \in Nat \ Promise!Versions
      BY <2>1, <2>2, VersionsAre, Constants DEF TypeOK, Written
    <2>4. Kept' \subseteq Promise!Versions
      BY <2>1, VersionsAre DEF Kept
    <2> QED BY <1>3, <2>1, <2>3, <2>4 DEF Promise!Next, Promise!Edit
  <1>4. ASSUME NEW w \in Wizards, Begin(w) \/ Stop(w), alone'
        PROVE  UNCHANGED Promise!vars
    BY <1>4, SameFiles DEF Begin, Stop, TypeOK
  <1>5. ASSUME NEW w \in Wizards, Step(w), alone'
        PROVE  [Promise!Next]_(Promise!vars)
    <2>1. alone /\ alone' = alone
      BY <1>5 DEF Step, Exists, Oldest, Unlink, Shift, Rename, Park, Create, Fill, Replace,
         Missing, history, TypeOK
    <2>2. Working(w) /\ AtWork(w) /\ OwnState(w)
      BY <1>5, <2>1 DEF Step, Exists, Oldest, Unlink, Shift, Rename, Park, Create, Fill,
         Replace, Working, Lone
    <2>3. CASE Exists(w) \/ Oldest(w) \/ Shift(w) \/ Create(w) \/ Fill(w)
      BY <2>3, SameFiles DEF Exists, Oldest, Shift, Create, Fill, history
    <2>4. CASE Unlink(w)
      <3>1. /\ bak' = [bak EXCEPT ![Keep] = None] /\ file' = file /\ file # None
            /\ author' = author
        BY <2>2, <2>4 DEF Unlink, AtWork, history
      <3>2. Newest' = Newest /\ Kept' \subseteq Kept
        BY <3>1, SlotBounds DEF Newest, Kept, TypeOK
      <3> QED BY <2>1, <3>1, <3>2 DEF Promise!Next, Promise!Forget
    <2>5. CASE Rename(w)
      <3> DEFINE i == slot[w]
      <3>1. i \in Slots /\ i + 1 \in Slots /\ i # i + 1
        BY <2>2, <2>5, Constants DEF Rename, OwnState, TypeOK, Slots
      <3>2. /\ bak' = Moved(i) /\ bak[i + 1] = None /\ file' = file /\ file # None
            /\ author' = author
        BY <2>2, <2>5 DEF Rename, AtWork, history
      <3> HIDE DEF i
      <3>3. /\ bak'[i + 1] = bak[i] /\ bak'[i] = None
            /\ \A j \in Slots \ {i, i + 1} : bak'[j] = bak[j]
        BY <3>1, <3>2 DEF Moved, TypeOK
      <3>4. Newest' = Newest /\ Kept' = Kept
        BY <3>1, <3>2, <3>3 DEF Newest, Kept
      <3> QED BY <2>1, <3>2, <3>4 DEF Promise!vars
    <2>6. CASE Park(w)
      <3>1. /\ bak' = [bak EXCEPT ![1] = file] /\ bak[1] = None /\ file # None /\ file' = None
            /\ author' = author
        BY <2>2, <2>6 DEF Park, AtWork
      <3>2. bak'[1] = file /\ \A i \in Slots \ {1} : bak'[i] = bak[i]
        BY <3>1, SlotBounds DEF TypeOK
      <3>3. Newest' = Newest /\ Kept' = Kept
        BY <3>1, <3>2, SlotBounds DEF Newest, Kept
      <3> QED BY <2>1, <3>1, <3>3 DEF Promise!vars
    <2>7. CASE Replace(w)
      <3>1. /\ file = None /\ file' = last /\ last \in Nat /\ bak' = bak
            /\ author' = "wizard" /\ \A i \in Slots : bak[i] # last
        BY <2>2, <2>7 DEF Replace, AtWork, OwnState, TypeOK
      <3>2. Newest' = last /\ Newest = bak[1]
        BY <3>1, Constants DEF Newest
      <3>3. Newest' \in Nat \ Promise!Versions
        BY <3>1, <3>2, VersionsAre
      <3>4. Kept' = Promise!Versions
        BY <3>1, <3>2, VersionsAre DEF Kept
      <3>5. {Newest} \ {None} \subseteq Kept'
        BY <3>4 DEF Promise!Versions
      <3> QED BY <2>1, <3>1, <3>3, <3>4, <3>5 DEF Promise!Next, Promise!Save
    <2> QED BY <1>5, <2>3, <2>4, <2>5, <2>6, <2>7 DEF Step
  <1> QED BY <1>1, <1>2, <1>3, <1>4, <1>5 DEF Next

\* For any number of wizards and backups, write_yaml_with_backup implements the
\* abstract file: the newest version is never lost while no two writers meet,
\* whatever is killed, and a wizard that replaces it keeps it.
THEOREM VersionsAreKept == Spec => KeepsVersions
  <1>1. Init => Promise!Init
    BY InitPromised
  <1>2. FilesSound /\ [Next]_vars => [Promise!Next]_(Promise!vars)
    BY StepPromised
  <1>3. Spec => []FilesSound
    BY FilesStaySound
  <1> QED BY <1>1, <1>2, <1>3, PTL DEF Spec, KeepsVersions, Promise!Spec

-----------------------------------------------------------------------------
(* What a kill costs: how many backups there are                           *)

\* A backup in a place above the one a rotation has come to has been moved up.
Filled == {i \in Slots : bak[i] # None}
Up(i) == IF \E w \in Wizards : Rotating(w) /\ i > slot[w] THEN 1 ELSE 0

\* The backups are among the last Keep versions that were replaced, each at most
\* as far up as it was old; there is a place without a backup, below the highest,
\* only where a run was killed; and there are as many as were replaced, but for
\* those lost.
Accounted ==
  \A i \in Filled : \E k \in 1..Len(replaced) : replaced[k] = bak[i] /\ k + Up(i) <= i
FewGaps == \A i \in Filled : i <= Cardinality(Filled) + stops + Up(i)
FewLost ==
  Len(replaced) <= Cardinality(Filled) + stops
    + (IF Len(replaced) = Keep /\ \E w \in Wizards : Rotating(w) THEN 1 ELSE 0)
Counts ==
  /\ stops \in Nat /\ replaced \in Seq(Nat) /\ Len(replaced) <= Keep
  /\ \A w \in Wizards : pc[w] = "park" => slot[w] = 0
  /\ alone => Accounted /\ FewGaps /\ FewLost

LEMMA FilledFinite ==
  ASSUME NEW S \in SUBSET Slots
  PROVE  IsFiniteSet(S) /\ Cardinality(S) \in Nat
  <1>1. IsFiniteSet(Slots)
    BY Constants, FS_Interval DEF Slots
  <1>2. IsFiniteSet(S)
    BY <1>1, FS_Subset
  <1> QED BY <1>2, FS_CardinalityType

LEMMA UpIs == \A i \in Slots : Up(i) \in {0, 1}
  BY DEF Up

\* Only the run at work rotates.
LEMMA UpAlone ==
  ASSUME FilesSound, alone, NEW w \in Wizards, Working(w), NEW i \in Slots
  PROVE  Up(i) = (IF Rotating(w) /\ i > slot[w] THEN 1 ELSE 0)
  <1>1. \A v \in Wizards : Rotating(v) => v = w
    BY DEF FilesSound, Lone, Working, Rotating
  <1> QED BY <1>1 DEF Up

LEMMA LenIs ==
  ASSUME Counts
  PROVE  Len(replaced) \in 0..Keep /\ \A k \in 1..Len(replaced) : replaced[k] \in Nat
  <1>1. Len(replaced) \in Nat
    BY LenProperties DEF Counts
  <1> QED BY <1>1, Constants, ElementOfSeq DEF Counts

\* Steps that move no backup and forget nothing.
LEMMA CountsKept ==
  ASSUME Counts, UNCHANGED <<bak, replaced, stops>>, alone' => alone,
         \A v \in Wizards : pc'[v] = "park" => slot'[v] = 0,
         alone => \A i \in Filled : Up(i)' = Up(i),
         alone => ((\E v \in Wizards : Rotating(v)) => (\E v \in Wizards : Rotating(v)'))
  PROVE  Counts'
  <1>1. Filled' = Filled
    BY DEF Filled
  <1>2. SUFFICES ASSUME alone' PROVE (Accounted /\ FewGaps /\ FewLost)'
    BY DEF Counts
  <1>3. Accounted'
    BY <1>1, <1>2 DEF Accounted, Counts
  <1>4. FewGaps'
    BY <1>1, <1>2 DEF FewGaps, Counts
  <1>5. Cardinality(Filled) \in Nat /\ Len(replaced) \in Nat /\ stops \in Nat
    BY FilledFinite, LenIs DEF Filled, Counts
  <1>6. FewLost'
    BY <1>1, <1>2, <1>5 DEF FewLost, Counts
  <1> QED BY <1>3, <1>4, <1>6

LEMMA CountsInit == Init => Counts
  <1> SUFFICES ASSUME Init PROVE Counts
    OBVIOUS
  <1>1. stops = 0 /\ \A v \in Wizards : pc[v] = "idle" /\ slot[v] = 0 /\ ~Rotating(v)
    BY DEF Init, Rotating
  <1>2. \A i \in Slots : Up(i) = 0
    BY <1>1 DEF Up
  <1>3. CASE bak = [i \in Slots |-> None] /\ replaced = <<>>
    <2>1. Filled = {} /\ Cardinality(Filled) = 0
      BY <1>3, FS_EmptySet DEF Filled
    <2>2. replaced \in Seq(Nat) /\ Len(replaced) = 0
      BY <1>3
    <2> QED BY <1>1, <2>1, <2>2, Constants DEF Counts, Accounted, FewGaps, FewLost
  <1>4. CASE \E n \in 0..Keep : Before(n)
    <2>1. PICK n \in 0..Keep : Before(n)
      BY <1>4
    <2> DEFINE s == [i \in 1..n |-> n - i]
    <2>2. n \in Nat /\ s \in Seq(Nat) /\ Len(s) = n /\ \A i \in 1..n : s[i] = n - i
      <3>1. n \in Nat
        BY Constants
      <3>2. s \in [1..n -> Nat]
        BY <3>1
      <3> QED BY <3>1, <3>2
    <2>3. replaced = SubSeq(s, 1, n)
      BY <2>1, <2>2, Constants DEF Before, Latest
    <2> HIDE DEF s
    <2>4. replaced \in Seq(Nat) /\ Len(replaced) = n /\ \A i \in 1..n : replaced[i] = n - i
      BY <2>2, <2>3, SubSeqFull
    <2>5. Filled = 1..n /\ \A i \in 1..n : i \in Slots /\ bak[i] = n - i
      BY <2>1, <2>2, Constants DEF Before, Filled, Slots
    <2>6. Cardinality(Filled) = n
      BY <2>2, <2>5, FS_Interval
    <2>7. Accounted
      BY <1>2, <2>2, <2>4, <2>5 DEF Accounted
    <2>8. FewGaps
      BY <1>1, <1>2, <2>2, <2>5, <2>6 DEF FewGaps
    <2>9. FewLost
      BY <1>1, <2>2, <2>4, <2>6 DEF FewLost
    <2> QED BY <1>1, <2>1, <2>4, <2>7, <2>8, <2>9 DEF Counts
  <1> QED BY <1>3, <1>4 DEF Init

-----------------------------------------------------------------------------
(* ... and what each step does to them                                     *)

\* A run that is not in its rotation before a step, nor after it.
LEMMA CountsElsewhere ==
  ASSUME FilesSound, Counts, NEW w \in Wizards, ~Rotating(w), ~Rotating(w)',
         \A v \in Wizards \ {w} : pc'[v] = pc[v] /\ slot'[v] = slot[v],
         UNCHANGED <<bak, replaced, stops>>, alone' => alone
  PROVE  Counts'
  <1>1. \A v \in Wizards : Rotating(v)' = Rotating(v) /\ (Rotating(v) => slot'[v] = slot[v])
    BY DEF Rotating
  <1>2. \A i \in Slots : Up(i)' = Up(i)
    BY <1>1 DEF Up
  <1>3. \A v \in Wizards : pc'[v] = "park" => slot'[v] = 0
    BY DEF Rotating, Counts
  <1> QED BY <1>1, <1>2, <1>3, CountsKept DEF Filled

LEMMA OldestCounts ==
  ASSUME FilesSound, Counts, NEW w \in Wizards, Oldest(w)
  PROVE  Counts'
  <1> DEFINE at == IF bak[Keep] = None THEN "shift" ELSE "unlink"
  <1>1. /\ pc[w] = "oldest" /\ pc'[w] = at /\ \A v \in Wizards \ {w} : pc'[v] = pc[v]
    BY PlaceTyped DEF Oldest, Places, FilesSound
  <1>2. slot'[w] = Keep - 1 /\ \A v \in Wizards \ {w} : slot'[v] = slot[v]
    BY DEF Oldest, FilesSound, TypeOK
  <1>3. UNCHANGED <<bak, replaced, stops, alone>>
    BY DEF Oldest, history
  <1>4. CASE bak[Keep] # None
    <2>1. ~Rotating(w) /\ ~Rotating(w)'
      BY <1>1, <1>4 DEF Rotating
    <2> QED BY <1>1, <1>2, <1>3, <2>1, CountsElsewhere
  <1>5. CASE bak[Keep] = None
    <2>1. ~Rotating(w) /\ Rotating(w)' /\ \A v \in Wizards \ {w} : Rotating(v)' = Rotating(v)
      BY <1>1, <1>5 DEF Rotating
    <2>2. \A i \in Filled : i \in Nat /\ ~(i > slot'[w])
      BY <1>2, <1>5, Constants DEF Filled, Slots
    <2>3. \A i \in Filled : Up(i)' = Up(i)
      BY <1>2, <2>1, <2>2 DEF Up
    <2>4. \A v \in Wizards : pc'[v] = "park" => slot'[v] = 0
      BY <1>1, <1>2, <1>5 DEF Counts
    <2> QED BY <1>3, <2>1, <2>3, <2>4, CountsKept
  <1> QED BY <1>4, <1>5

\* A call on a file that is not there.
LEMMA MissingCounts ==
  ASSUME FilesSound, Counts, NEW w \in Wizards, Missing(w), ~alone
  PROVE  Counts'
  <1>1. \A v \in Wizards : pc'[v] = "park" => slot'[v] = 0
    BY LeaveTyped DEF Missing, FilesSound, Counts
  <1> QED BY <1>1 DEF Missing, Counts

LEMMA UnlinkCounts ==
  ASSUME FilesSound, Counts, NEW w \in Wizards, Unlink(w)
  PROVE  Counts'
  <1>1. CASE bak[Keep] = None /\ Missing(w)
    BY <1>1, MissingCounts DEF Unlink, FilesSound, Lone, AtWork, Working
  <1>2. CASE /\ bak[Keep] # None /\ Go(w, "shift")
             /\ bak' = [bak EXCEPT ![Keep] = None]
             /\ UNCHANGED <<file, slot, content, history>>
    <2>1. /\ pc[w] = "unlink" /\ pc'[w] = "shift" /\ \A v \in Wizards \ {w} : pc'[v] = pc[v]
      BY <1>2, PlaceTyped DEF Unlink, Places, FilesSound
    <2>2. UNCHANGED <<slot, replaced, stops, alone>>
      BY <1>2 DEF history
    <2>3. \A v \in Wizards : pc'[v] = "park" => slot'[v] = 0
      BY <2>1, <2>2 DEF Counts
    <2>4. SUFFICES ASSUME alone PROVE (Accounted /\ FewGaps /\ FewLost)'
      BY <2>2, <2>3 DEF Counts
    <2>5. Filled' = Filled \ {Keep} /\ Keep \in Filled
          /\ \A i \in Filled' : bak'[i] = bak[i] /\ i \in Slots
      BY <1>2, SlotBounds DEF Filled, FilesSound, TypeOK
    <2>6. Cardinality(Filled) \in Nat /\ Cardinality(Filled') = Cardinality(Filled) - 1
          /\ Cardinality(Filled') \in Nat
      BY <2>5, FilledFinite, FS_RemoveElement DEF Filled
    <2>7. \A v \in Wizards : Rotating(v)' <=> v = w
      BY <2>1, <2>4 DEF Rotating, FilesSound, Lone, Working
    <2>8. slot'[w] = Keep - 1
      BY <2>1, <2>2 DEF FilesSound, OwnState
    <2>9. \A i \in Slots : Up(i) = 0
      BY <2>1, <2>4, UpAlone DEF Working, Rotating
    <2>10. \A i \in Filled' : i < Keep /\ Up(i)' = 0
      <3>1. \A i \in Filled' : i \in 1..Keep - 1
        BY <2>5, Constants DEF Slots
      <3>2. \A i \in Filled' : ~(i > slot'[w])
        BY <2>8, <3>1, Constants
      <3>3. \A i \in Filled' : Up(i)' = 0
        BY <2>7, <3>2 DEF Up
      <3> QED BY <3>1, <3>3, Constants
    <2>11. Accounted'
      BY <2>2, <2>4, <2>5, <2>9, <2>10 DEF Accounted, Counts
    <2>12. stops \in Nat /\ Len(replaced) \in 0..Keep /\ Keep <= Cardinality(Filled) + stops
      <3>1. stops \in Nat /\ Len(replaced) \in 0..Keep
        BY LenIs DEF Counts
      <3>2. Keep <= Cardinality(Filled) + stops + Up(Keep) /\ Up(Keep) = 0
        BY <2>4, <2>5, <2>9, SlotBounds DEF Counts, FewGaps
      <3> QED BY <2>6, <3>1, <3>2
    <2>13. FewGaps'
      <3>1. \A i \in Filled' : i \in Nat /\ i <= Cardinality(Filled') + stops
        BY <2>5, <2>6, <2>10, <2>12, Constants DEF Slots
      <3> QED BY <2>2, <2>10, <3>1, <2>6, <2>12 DEF FewGaps
    <2>14. FewLost'
      <3>1. Len(replaced) <= Cardinality(Filled) + stops
        BY <2>1, <2>4, <2>6, <2>12, Constants
      <3> QED BY <2>1, <2>2, <2>6, <2>7, <2>12, <3>1, Constants DEF FewLost
    <2> QED BY <2>11, <2>13, <2>14
  <1> QED BY <1>1, <1>2 DEF Unlink

LEMMA ShiftCounts ==
  ASSUME FilesSound, Counts, NEW w \in Wizards, Shift(w)
  PROVE  Counts'
  <1>1. pc[w] = "shift" /\ slot[w] \in 0..Keep - 1 /\ UNCHANGED <<bak, replaced, stops, alone>>
    BY DEF Shift, history, FilesSound, TypeOK
  <1>2. /\ pc'[w] \in {"park", "rename", "shift"} /\ (pc'[w] = "park" => slot'[w] = 0)
        /\ \A v \in Wizards \ {w} : pc'[v] = pc[v] /\ slot'[v] = slot[v]
    BY <1>1, PlaceTyped, Constants DEF Shift, Places, Go, FilesSound, TypeOK
  <1>3. slot'[w] = slot[w] \/ (slot'[w] = slot[w] - 1 /\ bak[slot[w]] = None)
    BY <1>1 DEF Shift, FilesSound, TypeOK
  <1>4. \A v \in Wizards : Rotating(v)' = Rotating(v)
    BY <1>1, <1>2 DEF Rotating
  <1>5. \A i \in Filled : (i > slot'[w]) = (i > slot[w])
    BY <1>1, <1>3, Constants DEF Filled, Slots
  <1>6. \A i \in Filled : Up(i)' = Up(i)
    BY <1>2, <1>4, <1>5 DEF Up
  <1>7. \A v \in Wizards : pc'[v] = "park" => slot'[v] = 0
    BY <1>2 DEF Counts
  <1> QED BY <1>1, <1>4, <1>6, <1>7, CountsKept

LEMMA RenameCounts ==
  ASSUME FilesSound, Counts, NEW w \in Wizards, Rename(w)
  PROVE  Counts'
  <1> DEFINE s == slot[w]
  <1>1. pc[w] = "rename" /\ s \in 1..Keep - 1 /\ s \in Slots /\ s + 1 \in Slots
    BY Constants DEF Rename, FilesSound, TypeOK, OwnState, Slots
  <1>2. CASE bak[s] = None /\ Missing(w)
    BY <1>1, <1>2, MissingCounts DEF FilesSound, Lone, AtWork, Working
  <1>3. CASE /\ bak[s] # None /\ Go(w, "shift")
             /\ bak' = Moved(s) /\ slot' = [slot EXCEPT ![w] = @ - 1]
             /\ UNCHANGED <<file, content, history>>
    <2>1. /\ pc'[w] = "shift" /\ slot'[w] = s - 1
          /\ \A v \in Wizards \ {w} : pc'[v] = pc[v] /\ slot'[v] = slot[v]
      BY <1>3, PlaceTyped DEF Places, FilesSound, TypeOK
    <2>2. UNCHANGED <<replaced, stops, alone>>
      BY <1>3 DEF history
    <2>3. \A v \in Wizards : pc'[v] = "park" => slot'[v] = 0
      BY <2>1 DEF Counts
    <2>4. SUFFICES ASSUME alone PROVE (Accounted /\ FewGaps /\ FewLost)'
      BY <2>2, <2>3 DEF Counts
    <2> HIDE DEF s
    <2>5. bak[s + 1] = None
      BY <1>1, <2>4 DEF FilesSound, Lone, AtWork, Working, s
    <2>6. /\ bak'[s + 1] = bak[s] /\ bak'[s] = None
          /\ \A j \in Slots \ {s, s + 1} : bak'[j] = bak[j]
      BY <1>1, <1>3 DEF Moved, FilesSound, TypeOK
    <2>7. Filled' = (Filled \ {s}) \union {s + 1} /\ s \in Filled /\ s + 1 \notin Filled
      BY <1>1, <1>3, <2>5, <2>6 DEF Filled
    <2>8. Cardinality(Filled) \in Nat /\ Cardinality(Filled') = Cardinality(Filled)
      <3>1. IsFiniteSet(Filled) /\ Cardinality(Filled) \in Nat
        BY FilledFinite DEF Filled
      <3>2. IsFiniteSet(Filled \ {s}) /\ Cardinality(Filled \ {s}) = Cardinality(Filled) - 1
        BY <2>7, <3>1, FS_RemoveElement
      <3>3. Cardinality((Filled \ {s}) \union {s + 1}) = Cardinality(Filled \ {s}) + 1
        BY <2>7, <3>2, FS_AddElement
      <3> QED BY <2>7, <3>1, <3>2, <3>3
    <2>9. \A v \in Wizards : (Rotating(v) <=> v = w) /\ (Rotating(v)' <=> v = w)
      BY <1>1, <2>1, <2>4 DEF Rotating, FilesSound, Lone, Working
    <2>10. \A i \in Slots : Up(i) = (IF i > s THEN 1 ELSE 0) /\ Up(i)' = (IF i > s - 1 THEN 1 ELSE 0)
      BY <2>1, <2>9 DEF Up, s
    <2>11. \A i \in Slots : i \in Nat
      BY SlotBounds
    <2>12. Accounted'
      <3>1. ASSUME NEW i \in Filled'
            PROVE  \E k \in 1..Len(replaced) : replaced[k] = bak'[i] /\ k + Up(i)' <= i
        <4>1. CASE i = s + 1
          <5>1. PICK k \in 1..Len(replaced) : replaced[k] = bak[s] /\ k + Up(s) <= s
            BY <2>4, <2>7 DEF Accounted, Counts
          <5>2. Up(s) = 0 /\ Up(i)' = 1 /\ bak'[i] = bak[s]
            BY <1>1, <2>6, <2>10, <4>1
          <5>3. k + 1 <= i
            BY <1>1, <4>1, <5>1, <5>2
          <5> QED BY <5>1, <5>2, <5>3
        <4>2. CASE i # s + 1
          <5>1. i \in Filled /\ i # s /\ i \in Slots
            BY <2>7, <4>2 DEF Filled
          <5>2. PICK k \in 1..Len(replaced) : replaced[k] = bak[i] /\ k + Up(i) <= i
            BY <2>4, <5>1 DEF Accounted, Counts
          <5>3. Up(i)' = Up(i) /\ bak'[i] = bak[i]
            BY <1>1, <2>6, <2>10, <2>11, <4>2, <5>1
          <5> QED BY <5>2, <5>3
        <4> QED BY <4>1, <4>2
      <3> QED BY <2>2, <3>1 DEF Accounted
    <2>13. FewGaps'
      <3>1. stops \in Nat /\ \A i \in Filled : i <= Cardinality(Filled) + stops + Up(i)
        BY <2>4 DEF Counts, FewGaps
      <3>2. ASSUME NEW i \in Filled'
            PROVE  i <= Cardinality(Filled) + stops + Up(i)'
        <4>1. CASE i = s + 1
          BY <1>1, <2>7, <2>8, <2>10, <3>1, <4>1
        <4>2. CASE i # s + 1
          <5>1. i \in Filled /\ i # s /\ i \in Slots
            BY <2>7, <4>2 DEF Filled
          <5> QED BY <1>1, <2>8, <2>10, <2>11, <3>1, <4>2, <5>1
        <4> QED BY <4>1, <4>2
      <3> QED BY <2>2, <2>8, <3>2 DEF FewGaps
    <2>14. FewLost'
      BY <2>2, <2>4, <2>8, <2>9 DEF FewLost, Counts
    <2> QED BY <2>12, <2>13, <2>14
  <1> QED BY <1>2, <1>3 DEF Rename

LEMMA ParkCounts ==
  ASSUME FilesSound, Counts, NEW w \in Wizards, Park(w)
  PROVE  Counts'
  <1>1. CASE file = None /\ Missing(w)
    BY <1>1, MissingCounts DEF Park, FilesSound, Lone, AtWork, Working
  <1>2. CASE /\ file # None /\ Go(w, "create")
             /\ bak' = [bak EXCEPT ![1] = file] /\ file' = None
             /\ replaced' = Latest(<<file>> \o replaced)
             /\ UNCHANGED <<slot, content, author, alone, stops, failed>>
    <2>1. /\ pc[w] = "park" /\ pc'[w] = "create" /\ \A v \in Wizards \ {w} : pc'[v] = pc[v]
      BY <1>2, PlaceTyped DEF Park, Places, FilesSound
    <2> DEFINE n == Len(replaced)
               r == <<file>> \o replaced
               m == IF n + 1 < Keep THEN n + 1 ELSE Keep
    <2>2. file \in Nat /\ replaced \in Seq(Nat) /\ n \in 0..Keep /\ stops \in Nat
      BY <1>2, LenIs DEF FilesSound, TypeOK, Written, Counts
    <2>3. r \in Seq(Nat) /\ Len(r) = n + 1 /\ r[1] = file
          /\ \A k \in 1..n : r[k + 1] = replaced[k]
      <3>1. <<file>> \in Seq(Nat) /\ Len(<<file>>) = 1 /\ <<file>>[1] = file
        BY <2>2
      <3>2. /\ r \in Seq(Nat) /\ Len(r) = 1 + n
            /\ \A k \in 1..1 + n : r[k] = IF k <= 1 THEN <<file>>[k] ELSE replaced[k - 1]
        BY <2>2, <3>1, ConcatProperties
      <3> QED BY <2>2, <3>1, <3>2
    <2>4. replaced' = SubSeq(r, 1, m) /\ m \in 1..Keep /\ m <= n + 1
      BY <1>2, <2>2, <2>3, Constants DEF Latest
    <2> HIDE DEF r
    <2>5. \A k \in 1..m : r[k] \in Nat
      BY <2>2, <2>3, <2>4, ElementOfSeq
    <2>6. replaced' \in Seq(Nat) /\ Len(replaced') = m /\ \A k \in 1..m : replaced'[k] = r[k]
      BY <2>4, <2>5, SubSeqProperties
    <2>7. \A v \in Wizards : pc'[v] = "park" => slot'[v] = 0
      BY <1>2, <2>1 DEF Counts
    <2>8. SUFFICES ASSUME alone PROVE (Accounted /\ FewGaps /\ FewLost)'
      BY <1>2, <2>2, <2>4, <2>6, <2>7, Constants DEF Counts
    <2>9. bak[1] = None /\ slot[w] = 0
      BY <2>1, <2>8 DEF FilesSound, Lone, AtWork, Working, Counts
    <2>10. bak'[1] = file /\ \A i \in Slots \ {1} : bak'[i] = bak[i]
      BY <1>2, SlotBounds DEF FilesSound, TypeOK
    <2>11. Filled' = Filled \union {1} /\ 1 \notin Filled /\ Filled \subseteq Slots
      BY <1>2, <2>9, <2>10, SlotBounds DEF Filled
    <2>12. Cardinality(Filled) \in Nat /\ Cardinality(Filled') = Cardinality(Filled) + 1
      BY <2>11, FilledFinite, FS_AddElement
    <2>13. \A i \in Slots : Up(i) = 1 /\ Up(i)' = 0
      <3>1. \A v \in Wizards : (Rotating(v) <=> v = w) /\ ~Rotating(v)'
        BY <2>1, <2>8 DEF Rotating, FilesSound, Lone, Working
      <3>2. \A i \in Slots : i > slot[w]
        BY <2>9, SlotBounds
      <3>3. \A i \in Slots : Up(i) = 1
        BY <3>1, <3>2 DEF Up
      <3>4. \A i \in Slots : Up(i)' = 0
        BY <3>1 DEF Up
      <3> QED BY <3>3, <3>4
    <2>14. \E v \in Wizards : Rotating(v)
      BY <2>1 DEF Rotating
    <2>15. ASSUME NEW i \in Filled'
           PROVE  \E k \in 1..m : replaced'[k] = bak'[i] /\ k <= i
      <3>1. CASE i = 1
        <4>1. 1 \in 1..m /\ replaced'[1] = bak'[i] /\ 1 <= i
          BY <2>3, <2>4, <2>6, <2>10, <3>1, Constants
        <4> QED BY <4>1
      <3>2. CASE i # 1
        <4>1. i \in Filled /\ i \in Slots /\ i \in 1..Keep
          BY <2>11, <3>2 DEF Slots
        <4>2. PICK k \in 1..n : replaced[k] = bak[i] /\ k + Up(i) <= i
          BY <2>8, <4>1 DEF Accounted, Counts
        <4>3. k + 1 <= i /\ k + 1 \in 1..m
          BY <2>2, <2>4, <2>13, <4>1, <4>2, Constants
        <4>4. replaced'[k + 1] = bak'[i]
          BY <2>3, <2>6, <2>10, <3>2, <4>1, <4>2, <4>3
        <4> QED BY <4>3, <4>4
      <3> QED BY <3>1, <3>2
    <2>16. Accounted'
      <3>1. \A i \in Filled' : Up(i)' = 0 /\ i \in Nat
        BY <2>11, <2>13, SlotBounds
      <3>2. ASSUME NEW i \in Filled'
            PROVE  \E k \in 1..m : replaced'[k] = bak'[i] /\ k + Up(i)' <= i
        <4>1. PICK k \in 1..m : replaced'[k] = bak'[i] /\ k <= i
          BY <2>15
        <4>2. k + Up(i)' <= i
          BY <2>4, <3>1, <4>1
        <4> QED BY <4>1, <4>2
      <3> QED BY <2>6, <3>2 DEF Accounted
    <2>17. FewGaps'
      <3>1. \A i \in Filled : i <= Cardinality(Filled) + stops + 1
        BY <2>8, <2>11, <2>13 DEF Counts, FewGaps
      <3>2. \A i \in Filled' : i <= Cardinality(Filled') + stops /\ Up(i)' = 0
        BY <2>2, <2>11, <2>12, <2>13, <3>1, SlotBounds
      <3> QED BY <1>2, <2>2, <2>12, <3>2 DEF FewGaps
    <2>18. FewLost'
      <3>1. n <= Cardinality(Filled) + stops + (IF n = Keep THEN 1 ELSE 0)
        BY <2>8, <2>14 DEF Counts, FewLost
      <3>2. m <= Cardinality(Filled') + stops
        BY <2>2, <2>12, <3>1, Constants
      <3> QED BY <1>2, <2>2, <2>4, <2>6, <2>12, <3>2, Constants DEF FewLost
    <2> QED BY <2>16, <2>17, <2>18
  <1> QED BY <1>1, <1>2 DEF Park

\* A killed run leaves its rotation where it is.
LEMMA StopCounts ==
  ASSUME FilesSound, Counts, NEW w \in Wizards, Stop(w)
  PROVE  Counts'
  <1>1. /\ pc'[w] = "idle" /\ slot'[w] = 0
        /\ \A v \in Wizards \ {w} : pc'[v] = pc[v] /\ slot'[v] = slot[v]
    BY LeaveTyped DEF Stop, FilesSound
  <1>2. UNCHANGED <<bak, replaced, alone>> /\ stops \in Nat /\ stops' = stops + 1
    BY DEF Stop, Counts
  <1>3. \A v \in Wizards : pc'[v] = "park" => slot'[v] = 0
    BY <1>1 DEF Counts
  <1>4. SUFFICES ASSUME alone PROVE (Accounted /\ FewGaps /\ FewLost)'
    BY <1>2, <1>3 DEF Counts
  <1>5. Filled' = Filled /\ Cardinality(Filled) \in Nat
    BY <1>2, FilledFinite DEF Filled
  <1>6. \A v \in Wizards : ~Rotating(v)'
    BY <1>1, <1>4 DEF Stop, Rotating, FilesSound, Lone, Working
  <1>7. \A i \in Filled : i \in Nat /\ Up(i) \in {0, 1} /\ Up(i)' = 0
    BY <1>6, UpIs, SlotBounds DEF Up, Filled
  <1>8. Accounted'
    <2>1. ASSUME NEW i \in Filled
          PROVE  \E k \in 1..Len(replaced) : replaced[k] = bak[i] /\ k + Up(i)' <= i
      <3>1. PICK k \in 1..Len(replaced) : replaced[k] = bak[i] /\ k + Up(i) <= i
        BY <1>4 DEF Accounted, Counts
      <3>2. k + Up(i)' <= i
        BY <1>7, <3>1, LenIs, Constants
      <3> QED BY <3>1, <3>2
    <2> QED BY <1>2, <1>5, <2>1 DEF Accounted
  <1>9. FewGaps'
    BY <1>2, <1>4, <1>5, <1>7 DEF FewGaps, Counts
  <1>10. FewLost'
    BY <1>2, <1>4, <1>5, <1>6, LenIs, Constants DEF FewLost, Counts
  <1> QED BY <1>8, <1>9, <1>10

LEMMA StepCounts ==
  ASSUME FilesSound, Counts, [Next]_vars
  PROVE  Counts'
  <1>1. CASE HandEdit
    <2>1. UNCHANGED <<bak, pc, slot, replaced, stops>> /\ (alone' => alone)
      BY <1>1 DEF HandEdit
    <2>2. \A v \in Wizards : Rotating(v)' = Rotating(v) /\ (pc'[v] = "park" => slot'[v] = 0)
      BY <2>1 DEF Rotating, Counts
    <2>3. \A i \in Slots : Up(i)' = Up(i)
      BY <2>1, <2>2 DEF Up
    <2> QED BY <2>1, <2>2, <2>3, CountsKept DEF Filled
  <1>2. CASE UNCHANGED vars
    <2>1. UNCHANGED <<bak, pc, slot, replaced, stops, alone>>
      BY <1>2 DEF vars
    <2>2. \A v \in Wizards : Rotating(v)' = Rotating(v) /\ (pc'[v] = "park" => slot'[v] = 0)
      BY <2>1 DEF Rotating, Counts
    <2>3. \A i \in Slots : Up(i)' = Up(i)
      BY <2>1, <2>2 DEF Up
    <2> QED BY <2>1, <2>2, <2>3, CountsKept DEF Filled
  <1>3. ASSUME NEW w \in Wizards, Begin(w)
        PROVE  Counts'
    <2>1. /\ pc[w] = "idle" /\ pc'[w] = "exists" /\ \A v \in Wizards \ {w} : pc'[v] = pc[v]
      BY <1>3, PlaceTyped DEF Begin, Working, Places, FilesSound
    <2> QED BY <1>3, <2>1, CountsElsewhere DEF Begin, Rotating
  <1>4. ASSUME NEW w \in Wizards, Exists(w)
        PROVE  Counts'
    <2>1. /\ pc[w] = "exists" /\ pc'[w] \in {"create", "oldest"}
          /\ \A v \in Wizards \ {w} : pc'[v] = pc[v]
      BY <1>4 DEF Exists, Go, FilesSound, TypeOK
    <2> QED BY <1>4, <2>1, CountsElsewhere DEF Exists, Rotating, history
  <1>5. ASSUME NEW w \in Wizards, Create(w) \/ Fill(w)
        PROVE  Counts'
    <2>1. /\ pc[w] \in {"create", "fill"} /\ pc'[w] \in {"fill", "replace"}
          /\ \A v \in Wizards \ {w} : pc'[v] = pc[v]
      BY <1>5 DEF Create, Fill, Go, FilesSound, TypeOK
    <2> QED BY <1>5, <2>1, CountsElsewhere DEF Create, Fill, Rotating, history
  <1>6. ASSUME NEW w \in Wizards, Replace(w)
        PROVE  Counts'
    <2>1. /\ pc[w] = "replace" /\ pc'[w] = "idle"
          /\ \A v \in Wizards \ {w} : pc'[v] = pc[v] /\ slot'[v] = slot[v]
      BY <1>6, LeaveTyped DEF Replace, FilesSound
    <2> QED BY <1>6, <2>1, CountsElsewhere DEF Replace, Rotating
  <1>7. CASE \E w \in Wizards : Step(w)
    BY <1>4, <1>5, <1>6, <1>7, OldestCounts, UnlinkCounts, ShiftCounts, RenameCounts,
       ParkCounts DEF Step
  <1>8. CASE \E w \in Wizards : Begin(w) \/ Stop(w)
    BY <1>3, <1>8, StopCounts
  <1> QED BY <1>1, <1>2, <1>7, <1>8 DEF Next

\* The versions found among the backups are at least as many as the backups.
LEMMA FewLostIsOneLost ==
  ASSUME FilesSound, Counts
  PROVE  OneLostPerStop
  <1> SUFFICES ASSUME alone
               PROVE  Cardinality(Lost) <= stops + Cardinality({w \in Wizards : Rotating(w)})
    BY DEF OneLostPerStop
  <1> DEFINE n == Len(replaced)
             Found == {k \in 1..n : \E i \in Slots : bak[i] = replaced[k]}
             place == [i \in Filled |-> CHOOSE k \in 1..n : replaced[k] = bak[i]]
             busy == {w \in Wizards : Rotating(w)}
  <1>1. n \in 0..Keep /\ n \in Nat /\ stops \in Nat
    BY LenIs, Constants DEF Counts
  <1>2. \A i \in Filled : place[i] \in 1..n /\ replaced[place[i]] = bak[i]
    BY DEF Counts, Accounted
  <1>3. place \in Injection(Filled, Found)
    <2>1. place \in [Filled -> Found]
      BY <1>2 DEF Filled
    <2>2. ASSUME NEW i \in Filled, NEW j \in Filled, place[i] = place[j]
          PROVE  i = j
      <3>1. bak[i] = bak[j] /\ bak[i] \in Nat /\ i \in Nat /\ j \in Nat
        BY <1>2, <2>2, SlotBounds DEF Filled, FilesSound, TypeOK, Written
      <3>2. ~(i < j) /\ ~(j < i)
        BY <3>1 DEF FilesSound, Lone, InOrder, Filled
      <3> QED BY <3>1, <3>2
    <2> QED BY <2>1, <2>2 DEF Injection, IsInjective
  <1>4. IsFiniteSet(1..n) /\ Cardinality(1..n) = n
    <2>1. 1 \in Int /\ n \in Int
      BY <1>1
    <2>2. IsFiniteSet(1..n) /\ Cardinality(1..n) = IF 1 > n THEN 0 ELSE n - 1 + 1
      BY <2>1, FS_Interval
    <2> QED BY <1>1, <2>2
  <1> HIDE DEF n, place
  <1>5. IsFiniteSet(Found) /\ Cardinality(Found) \in Nat
    BY <1>4, FS_Subset, FS_CardinalityType
  <1>6. Cardinality(Filled) <= Cardinality(Found) /\ Cardinality(Filled) \in Nat
    BY <1>3, <1>5, FS_Injection, FilledFinite DEF Filled
  <1>7. Lost = (1..n) \ Found
    BY <1>1, Constants DEF Lost, n
  <1>8. Cardinality(Lost) = n - Cardinality(Found)
    <2>1. Cardinality((1..n) \ Found) = Cardinality(1..n) - Cardinality((1..n) \intersect Found)
      BY <1>4, FS_Difference
    <2>2. (1..n) \intersect Found = Found
      OBVIOUS
    <2> QED BY <1>4, <1>7, <2>1, <2>2
  <1>9. n <= Cardinality(Filled) + stops + (IF n = Keep /\ \E w \in Wizards : Rotating(w) THEN 1 ELSE 0)
    BY DEF Counts, FewLost, n
  <1>10. CASE \E w \in Wizards : Rotating(w)
    <2>1. \E w : busy = {w}
      BY <1>10 DEF FilesSound, Lone, Working, Rotating
    <2>2. Cardinality(busy) = 1
      BY <2>1, FS_Singleton
    <2> QED BY <1>1, <1>5, <1>6, <1>8, <1>9, <2>2
  <1>11. CASE ~ \E w \in Wizards : Rotating(w)
    <2>1. Cardinality(busy) = 0
      BY <1>11, FS_EmptySet
    <2> QED BY <1>1, <1>5, <1>6, <1>8, <1>9, <1>11, <2>1
  <1> QED BY <1>10, <1>11

\* Whatever the number of backups kept: of the last ones that wizards replaced
\* at most one is gone for each run that was killed, and one for the rotation
\* under way.
THEOREM OneLostPerKill == Spec => []OneLostPerStop
  <1>1. Init => FilesSound /\ Counts
    BY InitSound, CountsInit
  <1>2. FilesSound /\ Counts /\ [Next]_vars => (FilesSound /\ Counts)'
    BY StepSound, StepCounts
  <1>3. FilesSound /\ Counts => OneLostPerStop
    BY FewLostIsOneLost
  <1> QED BY <1>1, <1>2, <1>3, PTL DEF Spec
=============================================================================
