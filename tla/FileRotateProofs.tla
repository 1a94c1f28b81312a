-------------------------- MODULE FileRotateProofs --------------------------
(***************************************************************************)
(* Theorems on the rotating file handler, for any number of backups, any   *)
(* limit, any sizes of lines and any number of messages and crashes.       *)
(***************************************************************************)
EXTENDS FileRotate, FiniteSetTheorems, TLAPS

(* The messages of a file have been written. *)
IdsWritten == \A s \in Slots : disk[s].ids \subseteq 1 .. last

(* While the loop runs, the name it renames to is free, or the oldest. *)
TargetFree == pc = "rename" => disk[i + 1].ids = {} \/ i + 1 = LastSlot

(* The handler knows the length of its file. *)
OffsetIsSize ==
  /\ fp => offset = disk[0].size
  /\ pc = "run" /\ fp => offset < max_bytes
  /\ pc = "open" => disk[0] = NoFile

(* NoHole and OneLineOver without the condition on renames. *)
Contiguous == \A x \in Kept : \A y \in x .. last : y \in Kept
Within(f)  == \E n \in Sizes : f.size < max_bytes + n
AllWithin  == \A s \in Slots : Within(disk[s])

(* The numbers up to s that no backup has. *)
Holes(d, s) == {k \in 1 .. s : d[k] = NoFile}

(* Below a backup, and below the last number once messages were dropped,   *)
(* every number but one for each crash is taken; while the loop runs, the  *)
(* name it renames to is one more.                                         *)
Lossy     == Kept # 1 .. last
Filled(s) == disk[s] # NoFile \/ (s = backup_count /\ Lossy)
Allowed(s) == IF pc = "rename" /\ i < s THEN crashes + 1 ELSE crashes

FewHoles ==
  \A s \in 1 .. backup_count : Filled(s) => Cardinality(Holes(disk, s)) <= Allowed(s)

Rotating ==
  /\ pc \in {"remove", "rename"} => disk[0] # NoFile
  /\ pc = "rename" => disk[i + 1] = NoFile \/ i + 1 = LastSlot

(* The inductive invariants of order, retention, size and number of        *)
(* backups; all but the first hold until a rename fails.                   *)
OrderInv == TypeOK /\ IdsWritten /\ OldestLast
HoleInv  == TargetFree /\ Contiguous
SizeInv  == OffsetIsSize /\ AllWithin
CountInv == FewHoles /\ Rotating

-----------------------------------------------------------------------------
LEMMA SlotFacts ==
  /\ LastSlot \in Nat \ {0}
  /\ Slots = 0 .. LastSlot
  /\ 0 \in Slots /\ 1 \in Slots
  /\ backup_count \in Nat /\ (backup_count > 0 => LastSlot = backup_count)
  /\ (backup_count = 0 => LastSlot = 1)
BY RotateAssumption DEF LastSlot, Slots

LEMMA FileFacts ==
  /\ NoFile.ids = {} /\ NoFile.size = -1
  /\ EmptyFile \in File /\ EmptyFile.ids = {} /\ EmptyFile.size = 0
  /\ EmptyFile # NoFile
  /\ \A f \in File : f # NoFile /\ f.size \in Nat /\ f.ids \subseteq Nat
BY DEF NoFile, EmptyFile, File

(* What the two calls that change several names do to the slots. *)
LEMMA OpenedSlots ==
  ASSUME NEW d \in [Slots -> File \cup {NoFile}]
  PROVE  /\ Opened(d) \in [Slots -> File \cup {NoFile}]
         /\ Opened(d)[0] # NoFile
         /\ \A s \in Slots : Opened(d)[s].ids = d[s].ids
         /\ \A s \in Slots : Opened(d)[s] \in {d[s], EmptyFile}
         /\ d[0] = NoFile => Opened(d)[0] = EmptyFile
BY SlotFacts, FileFacts DEF Opened

LEMMA RenamedSlots ==
  ASSUME NEW d \in [Slots -> File \cup {NoFile}],
         NEW j \in Nat, j + 1 \in Slots
  PROVE  LET e == Renamed(d, j, j + 1)
         IN  /\ e \in [Slots -> File \cup {NoFile}]
             /\ e[j] = NoFile
             /\ e[j + 1] = IF d[j] = NoFile THEN d[j + 1] ELSE d[j]
             /\ \A s \in Slots \ {j, j + 1} : e[s] = d[s]
<1>1. j \in Slots /\ j # j + 1
  BY SlotFacts
<1>2. QED
  BY <1>1 DEF Renamed

-----------------------------------------------------------------------------
LEMMA TypeInit == Init => TypeOK
<1> SUFFICES ASSUME Init PROVE TypeOK
  OBVIOUS
<1>1. disk \in [Slots -> File \cup {NoFile}]
  BY DEF Init
<1>2. i \in Nat /\ i + 1 \in Slots
  BY SlotFacts DEF Init
<1>3. offset \in Nat /\ last \in Nat /\ crashes \in Nat /\ pc \in RotatePc
  BY DEF Init, RotatePc
<1>4. fp = FALSE /\ broken = FALSE
  BY DEF Init
<1>5. QED
  BY <1>1, <1>2, <1>3, <1>4 DEF TypeOK

LEMMA TypeStep == TypeOK /\ [Next]_vars => TypeOK'
<1> SUFFICES ASSUME TypeOK, [Next]_vars PROVE TypeOK'
  OBVIOUS
<1> USE DEF TypeOK, RotatePc
<1>1. CASE HandlerInit
  <2>1. disk' \in [Slots -> File \cup {NoFile}] /\ disk'[0] # NoFile
    BY <1>1, OpenedSlots DEF HandlerInit
  <2>2. disk'[0] \in File
    BY <2>1, SlotFacts
  <2>3. offset' \in Nat
    BY <1>1, <2>2, FileFacts DEF HandlerInit
  <2>4. QED
    BY <1>1, <2>1, <2>3 DEF HandlerInit
<1>2. ASSUME NEW n \in Sizes, Write(n) PROVE TypeOK'
  <2>1. n \in Nat /\ disk[0] \in File
    BY <1>2, RotateAssumption, SlotFacts DEF Write
  <2>2. [ids |-> disk[0].ids \cup {last + 1}, size |-> disk[0].size + n] \in File
    BY <2>1, FileFacts DEF File
  <2>3. disk' \in [Slots -> File \cup {NoFile}] /\ disk'[0] \in File
    BY <1>2, <2>2, SlotFacts DEF Write
  <2>4. QED
    BY <1>2, <2>1, <2>3, FileFacts DEF Write
<1>3. ASSUME NEW n \in Sizes, CrashInWrite(n) PROVE TypeOK'
  <2>1. n \in Nat /\ disk[0] \in File
    BY <1>3, RotateAssumption, SlotFacts DEF CrashInWrite
  <2>2. PICK k \in 0 .. n - 1 : disk' = [disk EXCEPT ![0].size = @ + k]
    BY <1>3 DEF CrashInWrite
  <2>3. [disk[0] EXCEPT !.size = @ + k] \in File
    BY <2>1, <2>2 DEF File
  <2>4. disk' \in [Slots -> File \cup {NoFile}]
    BY <2>2, <2>3, SlotFacts
  <2>5. crashes' \in Nat /\ pc' = "off" /\ fp' = FALSE /\ UNCHANGED << offset, i, last, broken >>
    BY <1>3 DEF CrashInWrite
  <2>6. QED
    BY <2>4, <2>5
<1>4. CASE RemoveOldest
  <2>1. disk' \in [Slots -> File \cup {NoFile}]
    BY <1>4 DEF RemoveOldest
  <2>2. i' \in Nat /\ i' + 1 \in Slots
    BY <1>4, SlotFacts DEF RemoveOldest
  <2>3. QED
    BY <1>4, <2>1, <2>2 DEF RemoveOldest
<1>5. CASE RenameNext
  <2>1. disk' \in [Slots -> File \cup {NoFile}]
    BY <1>5, RenamedSlots DEF RenameNext
  <2>2. i' \in Nat /\ i' + 1 \in Slots
    BY <1>5, SlotFacts DEF RenameNext
  <2>3. ~fp'
    BY <1>5, Zenon DEF RenameNext
  <2>4. QED
    BY <1>5, <2>1, <2>2 DEF RenameNext
<1>6. CASE RenameFails
  BY <1>6, SlotFacts DEF RenameFails
<1>7. CASE Reopen
  <2>1. disk' \in [Slots -> File \cup {NoFile}] /\ disk'[0] # NoFile
    BY <1>7, OpenedSlots DEF Reopen
  <2>2. QED
    BY <1>7, <2>1 DEF Reopen
<1>8. CASE ReopenFails
  BY <1>8 DEF ReopenFails
<1>9. CASE Crash
  <2>1. crashes' \in Nat /\ pc' = "off" /\ fp' = FALSE /\ UNCHANGED << disk, offset, i, last, broken >>
    BY <1>9 DEF Crash
  <2>2. QED
    BY <2>1
<1>10. CASE UNCHANGED vars
  BY <1>10 DEF vars
<1>11. QED
  BY <1>1, <1>2, <1>3, <1>4, <1>5, <1>6, <1>7, <1>8, <1>9, <1>10 DEF Next

(* The type invariant holds: in particular the handler writes only to a    *)
(* file that exists, and the loop only names backups there may be.         *)
THEOREM TypeCorrect == Spec => []TypeOK
BY TypeInit, TypeStep, PTL DEF Spec

-----------------------------------------------------------------------------
(* Order. *)

(* A step that only takes messages away keeps the order. *)
LEMMA FewerKeepOrder ==
  ASSUME OrderInv, last' = last,
         \A s \in Slots : disk'[s].ids \subseteq disk[s].ids
  PROVE  IdsWritten' /\ OldestLast'
BY DEF OrderInv, IdsWritten, OldestLast

LEMMA OrderStep == OrderInv /\ [Next]_vars => OrderInv'
<1> SUFFICES ASSUME OrderInv, [Next]_vars PROVE IdsWritten' /\ OldestLast'
  BY TypeStep DEF OrderInv
<1>0. TypeOK
  BY DEF OrderInv
<1>1. CASE HandlerInit \/ Reopen
  <2>1. disk' = Opened(disk) /\ last' = last
    BY <1>1 DEF HandlerInit, Reopen
  <2>2. QED
    BY <1>0, <2>1, OpenedSlots, FewerKeepOrder DEF TypeOK
<1>2. ASSUME NEW n \in Sizes, Write(n) PROVE IdsWritten' /\ OldestLast'
  <2>1. last' = last + 1 /\ last \in Nat
    BY <1>0, <1>2 DEF Write, TypeOK
  <2>2. disk'[0].ids = disk[0].ids \cup {last + 1}
    BY <1>0, <1>2, SlotFacts DEF Write, TypeOK
  <2>3. \A s \in Slots \ {0} : disk'[s] = disk[s]
    BY <1>0, <1>2 DEF Write, TypeOK
  <2>4. IdsWritten'
    BY <2>1, <2>2, <2>3 DEF IdsWritten, OrderInv
  <2>5. ASSUME NEW s \in Slots, NEW t \in Slots, s < t,
               NEW x \in disk'[s].ids, NEW y \in disk'[t].ids
        PROVE  y < x
    <3>1. t # 0 /\ y \in disk[t].ids /\ y \in 1 .. last
      BY <2>3, <2>5, SlotFacts DEF OrderInv, IdsWritten
    <3>2. CASE x = last + 1
      BY <2>1, <3>1, <3>2
    <3>3. CASE x # last + 1
      <4>1. x \in disk[s].ids
        BY <2>2, <2>3, <3>3
      <4>2. QED
        BY <2>5, <3>1, <4>1 DEF OrderInv, OldestLast
    <3>4. QED
      BY <3>2, <3>3
  <2>6. QED
    BY <2>4, <2>5 DEF OldestLast
<1>3. ASSUME NEW n \in Sizes, CrashInWrite(n) PROVE IdsWritten' /\ OldestLast'
  <2>1. PICK k \in 0 .. n - 1 : disk' = [disk EXCEPT ![0].size = @ + k]
    BY <1>3 DEF CrashInWrite
  <2>2. \A s \in Slots : disk'[s].ids = disk[s].ids
    BY <1>0, <2>1 DEF TypeOK, File, NoFile
  <2>3. last' = last
    BY <1>3 DEF CrashInWrite
  <2>4. QED
    BY <2>2, <2>3, FewerKeepOrder
<1>4. CASE RemoveOldest
  <2>1. last' = last
    BY <1>4 DEF RemoveOldest
  <2>2. \A s \in Slots : disk'[s].ids \subseteq disk[s].ids
    BY <1>0, <1>4, FileFacts DEF RemoveOldest, TypeOK
  <2>3. QED
    BY <2>1, <2>2, FewerKeepOrder
<1>5. CASE RenameNext
  <2>1. /\ last' = last
        /\ disk'[i] = NoFile
        /\ disk'[i + 1] = IF disk[i] = NoFile THEN disk[i + 1] ELSE disk[i]
        /\ \A s \in Slots \ {i, i + 1} : disk'[s] = disk[s]
        /\ i \in Nat /\ i \in Slots /\ i + 1 \in Slots
    BY <1>0, <1>5, RenamedSlots, SlotFacts DEF RenameNext, TypeOK
  <2>2. CASE disk[i] = NoFile
    <3>1. \A s \in Slots : disk'[s].ids \subseteq disk[s].ids
      BY <2>1, <2>2, FileFacts
    <3>2. QED
      BY <2>1, <3>1, FewerKeepOrder
  <2>3. CASE disk[i] # NoFile
    <3>1. IdsWritten'
      BY <2>1, <2>3, FileFacts DEF OrderInv, IdsWritten
    (* A message in slot s was in slot s, or one below. *)
    <3>2. ASSUME NEW s \in Slots, NEW x \in disk'[s].ids
          PROVE  s # i /\ x \in disk[IF s = i + 1 THEN i ELSE s].ids
      BY <2>1, <2>3, <3>2, FileFacts
    <3>3. ASSUME NEW s \in Slots, NEW t \in Slots, s < t,
                 NEW x \in disk'[s].ids, NEW y \in disk'[t].ids
          PROVE  y < x
      <4> DEFINE s0 == IF s = i + 1 THEN i ELSE s
                 t0 == IF t = i + 1 THEN i ELSE t
      <4>1. x \in disk[s0].ids /\ y \in disk[t0].ids /\ s # i /\ t # i
        BY <3>2
      <4>2. s0 \in Slots /\ t0 \in Slots /\ s0 < t0
        BY <2>1, <3>3, <4>1, SlotFacts
      <4>3. QED
        BY <4>1, <4>2 DEF OrderInv, OldestLast
    <3>4. QED
      BY <3>1, <3>3 DEF OldestLast
  <2>4. QED
    BY <2>2, <2>3
<1>6. CASE RenameFails \/ ReopenFails \/ Crash \/ UNCHANGED vars
  <2>1. disk' = disk /\ last' = last
    BY <1>6 DEF RenameFails, ReopenFails, Crash, vars
  <2>2. QED
    BY <2>1, FewerKeepOrder
<1>7. QED
  BY <1>1, <1>2, <1>3, <1>4, <1>5, <1>6 DEF Next

LEMMA OrderInvariance == Spec => []OrderInv
<1>1. Init => OrderInv
  <2> SUFFICES ASSUME Init PROVE OrderInv
    OBVIOUS
  <2>1. TypeOK
    BY TypeInit
  <2>2. \A s \in Slots : disk[s].ids = {}
    BY FileFacts DEF Init
  <2>3. QED
    BY <2>1, <2>2 DEF OrderInv, IdsWritten, OldestLast
<1>2. QED
  BY <1>1, OrderStep, PTL DEF Spec

(* The backups are in the order of their numbers and hold no message twice *)
(* whichever of remove, rename and fopen fail, and wherever the process    *)
(* ends inside haclog_file_rotate_handler_rotate.                          *)
THEOREM BackupsInOrder == Spec => []OldestLast
<1>1. OrderInv => OldestLast
  BY DEF OrderInv
<1>2. QED
  BY <1>1, OrderInvariance, PTL

-----------------------------------------------------------------------------
(* Retention. *)

(* Nothing but a failing rename breaks the condition. *)
LEMMA UnbrokenStep ==
  ASSUME TypeOK, [Next]_vars, ~broken'
  PROVE  ~broken /\ ~RenameFails
<1>1. broken \in BOOLEAN
  BY DEF TypeOK
<1>2. ~RenameFails
  BY DEF RenameFails
<1>3. broken' = broken
  BY <1>2 DEF Next, vars, HandlerInit, Write, CrashInWrite, RemoveOldest, RenameNext,
              Reopen, ReopenFails, Crash
<1>4. QED
  BY <1>2, <1>3

LEMMA KeptSlot == \A x : x \in Kept <=> \E s \in Slots : x \in disk[s].ids
BY DEF Kept

LEMMA KeptSlotNext == \A x : x \in Kept' <=> \E s \in Slots : x \in disk'[s].ids
BY DEF Kept

(* A step that writes nothing and loses at most the messages of the        *)
(* highest number makes no hole.                                           *)
LEMMA OldestLost ==
  ASSUME OrderInv, Contiguous, last' = last,
         \A s \in Slots : disk[s].ids \subseteq Kept' \/ s = LastSlot,
         \A s \in Slots : disk'[s].ids \subseteq Kept,
         Kept \subseteq Kept' \/ disk[LastSlot].ids \cap Kept' = {}
  PROVE  Contiguous'
<1> SUFFICES ASSUME NEW x \in Kept', NEW y \in x .. last, y \notin Kept' PROVE FALSE
  BY DEF Contiguous
<1>1. x \in Kept
  BY KeptSlotNext
<1>2. y \in Kept
  BY <1>1 DEF Contiguous
<1>3. PICK t \in Slots : y \in disk[t].ids
  BY <1>2, KeptSlot
<1>4. t = LastSlot /\ disk[LastSlot].ids \cap Kept' = {}
  BY <1>2, <1>3
<1>5. PICK s \in Slots : x \in disk[s].ids
  BY <1>1, KeptSlot
<1>6. s # LastSlot
  BY <1>4, <1>5
<1>7. s < t
  BY <1>4, <1>6, SlotFacts
<1>8. y < x
  BY <1>3, <1>5, <1>7 DEF OrderInv, OldestLast
<1>9. x \in Nat
  BY <1>5 DEF OrderInv, IdsWritten
<1>10. QED
  BY <1>8, <1>9

LEMMA HoleStep ==
  ASSUME OrderInv, HoleInv, [Next]_vars, ~RenameFails
  PROVE  HoleInv'
<1>0. TypeOK /\ Contiguous /\ TargetFree
  BY DEF OrderInv, HoleInv
(* Steps that leave the messages where they are. *)
<1>a. ASSUME last' = last, \A s \in Slots : disk'[s].ids = disk[s].ids PROVE Contiguous'
  <2>1. Kept' = Kept
    BY <1>a, KeptSlot, KeptSlotNext
  <2>2. QED
    BY <1>0, <1>a, <2>1 DEF Contiguous
<1>1. CASE HandlerInit \/ Reopen
  <2>1. disk' = Opened(disk) /\ last' = last /\ pc' # "rename"
    BY <1>1 DEF HandlerInit, Reopen
  <2>2. QED
    BY <1>0, <1>a, <2>1, OpenedSlots DEF TypeOK, HoleInv, TargetFree
<1>2. ASSUME NEW n \in Sizes, Write(n) PROVE HoleInv'
  <2>1. last' = last + 1 /\ last \in Nat /\ pc' # "rename"
    BY <1>0, <1>2 DEF Write, TypeOK
  <2>2. disk'[0].ids = disk[0].ids \cup {last + 1}
    BY <1>0, <1>2, SlotFacts DEF Write, TypeOK
  <2>3. \A s \in Slots \ {0} : disk'[s] = disk[s]
    BY <1>0, <1>2 DEF Write, TypeOK
  <2>4. \A z : z \in Kept' <=> z \in Kept \/ z = last + 1
    BY <2>2, <2>3, KeptSlot, KeptSlotNext, SlotFacts
  <2>5. \A z \in Kept : z \in 1 .. last
    BY KeptSlot DEF OrderInv, IdsWritten
  <2>6. ASSUME NEW x \in Kept', NEW y \in x .. last' PROVE y \in Kept'
    <3>1. x \in Nat /\ y \in Int /\ x <= y /\ y <= last + 1
      BY <2>1, <2>4, <2>5, <2>6
    <3>2. CASE y = last + 1
      BY <2>4, <3>2
    <3>3. CASE y # last + 1
      <4>1. y \in x .. last /\ x # last + 1
        BY <2>1, <3>1, <3>3
      <4>2. QED
        BY <1>0, <2>4, <4>1 DEF Contiguous
    <3>4. QED
      BY <3>2, <3>3
  <2>7. QED
    BY <2>1, <2>6 DEF HoleInv, TargetFree, Contiguous
<1>3. ASSUME NEW n \in Sizes, CrashInWrite(n) PROVE HoleInv'
  <2>1. PICK k \in 0 .. n - 1 : disk' = [disk EXCEPT ![0].size = @ + k]
    BY <1>3 DEF CrashInWrite
  <2>2. \A s \in Slots : disk'[s].ids = disk[s].ids
    BY <1>0, <2>1 DEF TypeOK, File, NoFile
  <2>3. last' = last /\ pc' # "rename"
    BY <1>3 DEF CrashInWrite
  <2>4. QED
    BY <1>a, <2>2, <2>3 DEF HoleInv, TargetFree
<1>4. CASE RemoveOldest
  <2>1. last' = last /\ i' + 1 = LastSlot
    BY <1>4, SlotFacts DEF RemoveOldest
  <2>2. CASE disk' = disk
    BY <1>a, <2>1, <2>2 DEF HoleInv, TargetFree
  <2>3. CASE disk' # disk
    <3>1. disk' = [disk EXCEPT ![LastSlot] = NoFile]
      BY <1>4, <2>3, SlotFacts DEF RemoveOldest
    <3>2. disk'[LastSlot].ids = {} /\ \A s \in Slots \ {LastSlot} : disk'[s] = disk[s]
      BY <1>0, <3>1, SlotFacts, FileFacts DEF TypeOK
    <3>3. \A s \in Slots : disk[s].ids \subseteq Kept' \/ s = LastSlot
      BY <3>2, KeptSlotNext
    <3>4. \A s \in Slots : disk'[s].ids \subseteq Kept
      BY <3>2, KeptSlot
    <3>5. ASSUME NEW x \in disk[LastSlot].ids, x \in Kept' PROVE FALSE
      <4>1. PICK s \in Slots : x \in disk'[s].ids
        BY <3>5, KeptSlotNext
      <4>2. s # LastSlot /\ x \in disk[s].ids
        BY <3>2, <4>1
      <4>3. x < x /\ x \in Nat
        BY <3>5, <4>2, SlotFacts DEF OrderInv, OldestLast, IdsWritten
      <4>4. QED
        BY <4>3
    <3>6. Contiguous'
      BY <1>0, <2>1, <3>3, <3>4, <3>5, OldestLost
    <3>7. QED
      BY <2>1, <3>6 DEF HoleInv, TargetFree
  <2>4. QED
    BY <2>2, <2>3
<1>5. CASE RenameNext
  <2>1. /\ last' = last
        /\ disk'[i] = NoFile
        /\ disk'[i + 1] = IF disk[i] = NoFile THEN disk[i + 1] ELSE disk[i]
        /\ \A s \in Slots \ {i, i + 1} : disk'[s] = disk[s]
        /\ i \in Nat /\ i \in Slots /\ i + 1 \in Slots
    BY <1>0, <1>5, RenamedSlots, SlotFacts DEF RenameNext, TypeOK
  <2>2. TargetFree'
    <3>1. pc' = "rename" => i' + 1 = i
      BY <1>0, <1>5 DEF RenameNext, TypeOK
    <3>2. QED
      BY <2>1, <3>1, FileFacts DEF TargetFree
  <2>3. CASE disk[i] = NoFile
    <3>1. \A s \in Slots : disk'[s].ids = disk[s].ids
      BY <2>1, <2>3, FileFacts
    <3>2. QED
      BY <1>a, <2>1, <2>2, <3>1 DEF HoleInv
  <2>4. CASE disk[i] # NoFile
    <3>1. \A s \in Slots : disk'[s].ids \subseteq Kept
      BY <2>1, <2>4, KeptSlot, FileFacts
    <3>2. \A s \in Slots \ {i + 1} : disk[s].ids \subseteq Kept'
      BY <2>1, <2>4, KeptSlotNext
    <3>3. disk[i + 1].ids = {} \/ i + 1 = LastSlot
      BY <1>0, <1>5 DEF TargetFree, RenameNext
    <3>4. ASSUME i + 1 = LastSlot, NEW x \in disk[LastSlot].ids, x \in Kept' PROVE FALSE
      <4>1. PICK s \in Slots : x \in disk'[s].ids
        BY <3>4, KeptSlotNext
      <4>2. PICK t \in Slots : t # LastSlot /\ x \in disk[t].ids
        BY <2>1, <2>4, <3>4, <4>1, FileFacts
      <4>3. x < x /\ x \in Nat
        BY <3>4, <4>2, SlotFacts DEF OrderInv, OldestLast, IdsWritten
      <4>4. QED
        BY <4>3
    <3>5. Kept \subseteq Kept' \/ disk[LastSlot].ids \cap Kept' = {}
      BY <3>2, <3>3, <3>4, KeptSlot
    <3>6. Contiguous'
      BY <1>0, <2>1, <3>1, <3>2, <3>3, <3>5, OldestLost
    <3>7. QED
      BY <2>2, <3>6 DEF HoleInv
  <2>5. QED
    BY <2>3, <2>4
<1>6. CASE ReopenFails \/ Crash
  <2>1. disk' = disk /\ last' = last /\ pc' # "rename"
    BY <1>6 DEF ReopenFails, Crash
  <2>2. QED
    BY <1>a, <2>1 DEF HoleInv, TargetFree
<1>7. CASE UNCHANGED vars
  BY <1>7, <1>a, <1>0 DEF vars, HoleInv, TargetFree
<1>8. QED
  BY <1>1, <1>2, <1>3, <1>4, <1>5, <1>6, <1>7 DEF Next

(* Until a rename fails, rotation drops nothing but the oldest messages,   *)
(* also when remove or fopen fail or the process ends between two renames  *)
(* and the next one starts the loop again.                                 *)
THEOREM KeptWithoutHole == Spec => []NoHole
<1>1. Init => HoleInv
  <2> SUFFICES ASSUME Init PROVE HoleInv
    OBVIOUS
  <2>1. \A s \in Slots : disk[s].ids = {}
    BY FileFacts DEF Init
  <2>2. QED
    BY <2>1, KeptSlot DEF Init, HoleInv, TargetFree, Contiguous
<1>2. OrderInv /\ (~broken => HoleInv) /\ [Next]_vars => (~broken => HoleInv)'
  BY HoleStep, UnbrokenStep DEF OrderInv
<1>3. (~broken => HoleInv) => NoHole
  BY DEF HoleInv, NoHole, Contiguous
<1>4. QED
  BY <1>1, <1>2, <1>3, OrderInvariance, PTL DEF Spec

-----------------------------------------------------------------------------
(* Size. *)

LEMMA SmallWithin == Within(NoFile) /\ Within(EmptyFile)
<1>1. PICK n \in Sizes : n \in Nat \ {0}
  BY RotateAssumption
<1>2. NoFile.size < max_bytes + n /\ EmptyFile.size < max_bytes + n
  BY <1>1, RotateAssumption, FileFacts
<1>3. QED
  BY <1>2 DEF Within

LEMMA SizeStep ==
  ASSUME TypeOK, SizeInv, [Next]_vars, ~RenameFails
  PROVE  SizeInv'
<1>0. /\ OffsetIsSize /\ \A s \in Slots : Within(disk[s])
      /\ max_bytes \in Nat /\ Sizes \subseteq Nat
  BY RotateAssumption DEF SizeInv, AllWithin
<1>a. (\A s \in Slots : Within(disk'[s])) => AllWithin'
  BY DEF AllWithin, Within
<1>1. CASE HandlerInit
  <2>1. \A s \in Slots : disk'[s] \in {disk[s], EmptyFile}
    BY <1>1, OpenedSlots DEF HandlerInit, TypeOK
  <2>2. AllWithin'
    BY <1>0, <1>a, <2>1, SmallWithin
  <2>3. disk'[0] \in File
    BY <1>1, OpenedSlots, SlotFacts DEF HandlerInit, TypeOK
  <2>4. OffsetIsSize'
    BY <1>0, <1>1, <2>3, FileFacts DEF HandlerInit, OffsetIsSize
  <2>5. QED
    BY <2>2, <2>4 DEF SizeInv
<1>2. ASSUME NEW n \in Sizes, Write(n) PROVE SizeInv'
  <2>1. disk[0] \in File /\ offset = disk[0].size /\ offset < max_bytes
    BY <1>0, <1>2, SlotFacts DEF Write, TypeOK, OffsetIsSize
  <2>2. /\ disk'[0].size = disk[0].size + n
        /\ \A s \in Slots \ {0} : disk'[s] = disk[s]
    BY <1>2, SlotFacts DEF Write, TypeOK
  <2>3. disk'[0].size < max_bytes + n
    BY <1>0, <2>1, <2>2, FileFacts
  <2>4. AllWithin'
    BY <1>0, <1>a, <2>2, <2>3 DEF Within
  <2>5. offset' = disk'[0].size /\ offset' \in Nat
    BY <1>0, <1>2, <2>1, <2>2, FileFacts DEF Write
  <2>6. OffsetIsSize'
    BY <1>0, <1>2, <2>5 DEF OffsetIsSize, Write
  <2>7. QED
    BY <2>4, <2>6 DEF SizeInv
<1>3. ASSUME NEW n \in Sizes, CrashInWrite(n) PROVE SizeInv'
  <2>1. disk[0] \in File /\ disk[0].size < max_bytes
    BY <1>0, <1>3, SlotFacts DEF CrashInWrite, TypeOK, OffsetIsSize
  <2>2. PICK k \in 0 .. n - 1 : disk' = [disk EXCEPT ![0].size = @ + k]
    BY <1>3 DEF CrashInWrite
  <2>3. disk'[0].size = disk[0].size + k
    BY <2>1, <2>2, SlotFacts DEF TypeOK, File
  <2>4. \A s \in Slots \ {0} : disk'[s] = disk[s]
    BY <2>2 DEF TypeOK
  <2>5. disk'[0].size < max_bytes + n
    BY <1>0, <2>1, <2>2, <2>3, FileFacts
  <2>6. AllWithin'
    BY <1>0, <1>a, <2>4, <2>5 DEF Within
  <2>7. pc' = "off" /\ fp' = FALSE
    BY <1>3 DEF CrashInWrite
  <2>8. QED
    BY <2>6, <2>7 DEF SizeInv, OffsetIsSize
<1>4. CASE RemoveOldest
  <2>1. \A s \in Slots : disk'[s] \in {disk[s], NoFile}
    BY <1>4 DEF RemoveOldest, TypeOK
  <2>2. AllWithin'
    BY <1>0, <1>a, <2>1, SmallWithin
  <2>3. pc' = "rename" /\ fp' = FALSE
    BY <1>4 DEF RemoveOldest
  <2>4. QED
    BY <2>2, <2>3 DEF SizeInv, OffsetIsSize
<1>5. CASE RenameNext
  <2>1. /\ disk'[i] = NoFile
        /\ disk'[i + 1] \in {disk[i], disk[i + 1]}
        /\ \A s \in Slots \ {i, i + 1} : disk'[s] = disk[s]
        /\ i \in Slots /\ i + 1 \in Slots
    BY <1>5, RenamedSlots, SlotFacts DEF RenameNext, TypeOK
  <2>2. AllWithin'
    BY <1>0, <1>a, <2>1, SmallWithin
  <2>3. pc' \in {"rename", "open"} /\ (pc' = "open" => i = 0)
    BY <1>5 DEF RenameNext
  <2>4. ~fp'
    BY <1>5 DEF RenameNext, TypeOK
  <2>5. QED
    BY <2>1, <2>2, <2>3, <2>4 DEF SizeInv, OffsetIsSize
<1>6. CASE Reopen
  <2>1. \A s \in Slots : disk'[s] \in {disk[s], EmptyFile}
    BY <1>6, OpenedSlots DEF Reopen, TypeOK
  <2>2. AllWithin'
    BY <1>0, <1>a, <2>1, SmallWithin
  <2>3. disk'[0] = EmptyFile
    BY <1>0, <1>6, OpenedSlots DEF Reopen, TypeOK, OffsetIsSize
  <2>4. offset' = disk'[0].size /\ offset' < max_bytes /\ pc' = "run"
    BY <1>6, <2>3, FileFacts, RotateAssumption DEF Reopen
  <2>5. QED
    BY <2>2, <2>4 DEF SizeInv, OffsetIsSize
<1>7. CASE ReopenFails \/ Crash
  <2>1. disk' = disk /\ pc' \in {"off", "run"}
    BY <1>7 DEF ReopenFails, Crash
  <2>2. ~fp'
    BY <1>7 DEF ReopenFails, Crash, TypeOK
  <2>3. QED
    BY <1>0, <1>a, <2>1, <2>2 DEF SizeInv, OffsetIsSize
<1>8. CASE UNCHANGED vars
  BY <1>0, <1>a, <1>8 DEF vars, SizeInv, OffsetIsSize
<1>9. QED
  BY <1>1, <1>2, <1>3, <1>4, <1>5, <1>6, <1>7, <1>8 DEF Next

(* Until a rename fails, the handler knows the length of its file, after   *)
(* restarts and torn lines too, and no file passes max_bytes by more than  *)
(* the line that reached it.                                               *)
THEOREM SizeBounded == Spec => []OneLineOver
<1>1. Init => SizeInv
  <2> SUFFICES ASSUME Init PROVE SizeInv
    OBVIOUS
  <2>1. \A s \in Slots : disk[s] = NoFile
    BY DEF Init
  <2>2. AllWithin
    BY <2>1, SmallWithin DEF AllWithin
  <2>3. pc = "off" /\ fp = FALSE
    BY DEF Init
  <2>4. QED
    BY <2>2, <2>3 DEF SizeInv, OffsetIsSize
<1>2. TypeOK /\ (~broken => SizeInv) /\ [Next]_vars => (~broken => SizeInv)'
  BY SizeStep, UnbrokenStep
<1>3. (~broken => SizeInv) => OneLineOver
  BY DEF SizeInv, OneLineOver, AllWithin, Within
<1>4. QED
  BY <1>1, <1>2, <1>3, TypeCorrect, PTL DEF Spec

-----------------------------------------------------------------------------
(* The number of backups. *)

LEMMA HolesFinite ==
  ASSUME NEW d, NEW s \in Nat
  PROVE  IsFiniteSet(Holes(d, s)) /\ Cardinality(Holes(d, s)) \in Nat
<1>1. IsFiniteSet(1 .. s) /\ Holes(d, s) \in SUBSET (1 .. s)
  BY FS_Interval DEF Holes
<1>2. QED
  BY <1>1, FS_Subset, FS_CardinalityType

(* One more number is free, a file moves by one, or nothing changes. *)
LEMMA HolesOneMore ==
  ASSUME NEW d, NEW e, NEW s \in Nat, NEW k,
         Holes(e, s) \subseteq Holes(d, s) \cup {k}
  PROVE  Cardinality(Holes(e, s)) <= Cardinality(Holes(d, s)) + 1
<1>1. IsFiniteSet(Holes(d, s)) /\ IsFiniteSet(Holes(e, s))
      /\ Cardinality(Holes(d, s)) \in Nat /\ Cardinality(Holes(e, s)) \in Nat
  BY HolesFinite
<1>2. /\ IsFiniteSet(Holes(d, s) \cup {k})
      /\ Cardinality(Holes(d, s) \cup {k}) \in Nat
      /\ Cardinality(Holes(d, s) \cup {k}) <= Cardinality(Holes(d, s)) + 1
  <2>1. /\ IsFiniteSet(Holes(d, s) \cup {k})
        /\ Cardinality(Holes(d, s) \cup {k}) =
             IF k \in Holes(d, s) THEN Cardinality(Holes(d, s)) ELSE Cardinality(Holes(d, s)) + 1
    BY <1>1, FS_AddElement
  <2>2. QED
    BY <1>1, <2>1
<1>3. Cardinality(Holes(e, s)) <= Cardinality(Holes(d, s) \cup {k})
  BY <1>2, FS_Subset
<1>4. QED
  BY <1>1, <1>2, <1>3

LEMMA HolesMoved ==
  ASSUME NEW d, NEW e, NEW s \in Nat, NEW k, NEW l,
         l \in Holes(d, s), l \notin Holes(e, s),
         Holes(e, s) \subseteq Holes(d, s) \cup {k}
  PROVE  Cardinality(Holes(e, s)) <= Cardinality(Holes(d, s))
<1>1. IsFiniteSet(Holes(d, s)) /\ IsFiniteSet(Holes(e, s))
      /\ Cardinality(Holes(d, s)) \in Nat /\ Cardinality(Holes(e, s)) \in Nat
  BY HolesFinite
<1>2. /\ IsFiniteSet(Holes(d, s) \ {l})
      /\ Cardinality(Holes(d, s) \ {l}) = Cardinality(Holes(d, s)) - 1
  BY <1>1, FS_RemoveElement
<1>3. /\ IsFiniteSet((Holes(d, s) \ {l}) \cup {k})
      /\ Cardinality((Holes(d, s) \ {l}) \cup {k}) \in Nat
      /\ Cardinality((Holes(d, s) \ {l}) \cup {k}) <= Cardinality(Holes(d, s))
  <2> DEFINE rest == Holes(d, s) \ {l}
  <2>1. Cardinality(rest) \in Nat
    BY <1>2, FS_CardinalityType
  <2>2. /\ IsFiniteSet(rest \cup {k})
        /\ Cardinality(rest \cup {k}) =
             IF k \in rest THEN Cardinality(rest) ELSE Cardinality(rest) + 1
    BY <1>2, FS_AddElement
  <2>3. QED
    BY <1>1, <1>2, <2>1, <2>2
<1>4. Holes(e, s) \subseteq (Holes(d, s) \ {l}) \cup {k}
  OBVIOUS
<1>5. Cardinality(Holes(e, s)) <= Cardinality((Holes(d, s) \ {l}) \cup {k})
  BY <1>3, <1>4, FS_Subset
<1>6. QED
  BY <1>1, <1>3, <1>5

LEMMA HolesFewer ==
  ASSUME NEW d, NEW e, NEW s \in Nat, NEW l,
         l \in Holes(d, s), l \notin Holes(e, s), Holes(e, s) \subseteq Holes(d, s)
  PROVE  Cardinality(Holes(e, s)) + 1 <= Cardinality(Holes(d, s))
<1>1. IsFiniteSet(Holes(d, s)) /\ IsFiniteSet(Holes(e, s))
      /\ Cardinality(Holes(d, s)) \in Nat /\ Cardinality(Holes(e, s)) \in Nat
  BY HolesFinite
<1>2. /\ IsFiniteSet(Holes(d, s) \ {l})
      /\ Cardinality(Holes(d, s) \ {l}) = Cardinality(Holes(d, s)) - 1
  BY <1>1, FS_RemoveElement
<1>3. Holes(e, s) \subseteq Holes(d, s) \ {l}
  OBVIOUS
<1>4. Cardinality(Holes(e, s)) <= Cardinality(Holes(d, s) \ {l})
  BY <1>2, <1>3, FS_Subset
<1>5. QED
  BY <1>1, <1>2, <1>4

LEMMA CountStep ==
  ASSUME TypeOK, CountInv, [Next]_vars, ~RenameFails
  PROVE  CountInv'
<1>0. /\ FewHoles /\ Rotating /\ crashes \in Nat /\ i \in Nat /\ i + 1 \in Slots
      /\ disk \in [Slots -> File \cup {NoFile}]
  BY DEF CountInv, TypeOK
<1>b. backup_count \in Nat /\ 1 .. backup_count \subseteq Slots /\ 1 .. backup_count \subseteq Nat
      /\ \A s \in 1 .. backup_count : 1 .. s \subseteq 1 .. backup_count
  BY SlotFacts
(* A step that leaves the numbers in use as they are. *)
<1>a. ASSUME \A k \in 1 .. backup_count : disk'[k] = NoFile <=> disk[k] = NoFile,
             Lossy' => Lossy,
             \A s \in 1 .. backup_count : Allowed(s) <= Allowed(s)'
      PROVE  FewHoles'
  <2> SUFFICES ASSUME NEW s \in 1 .. backup_count, Filled(s)'
               PROVE  Cardinality(Holes(disk', s)) <= Allowed(s)'
    BY DEF FewHoles, Holes
  <2>1. Filled(s) /\ Holes(disk', s) = Holes(disk, s)
    BY <1>a, <1>b DEF Filled, Holes
  <2>2. Cardinality(Holes(disk, s)) <= Allowed(s) /\ Cardinality(Holes(disk, s)) \in Nat
    BY <1>0, <1>b, <2>1, HolesFinite DEF FewHoles
  <2>3. Allowed(s) \in Nat /\ Allowed(s)' \in Nat
    BY <1>0, <1>b, TypeStep DEF Allowed, TypeOK
  <2>4. QED
    BY <1>a, <2>1, <2>2, <2>3
<1>c. ASSUME last' = last, \A s \in Slots : disk'[s].ids = disk[s].ids PROVE Lossy' <=> Lossy
  <2>1. Kept' = Kept
    BY <1>c, KeptSlot, KeptSlotNext
  <2>2. QED
    BY <1>c, <2>1 DEF Lossy
<1>1. CASE HandlerInit \/ Reopen
  <2>1. disk' = Opened(disk) /\ last' = last /\ crashes' = crashes /\ i' = i
        /\ pc # "rename" /\ pc' \in {"run", "remove"}
    BY <1>1 DEF HandlerInit, Reopen
  <2>2. \A k \in 1 .. backup_count : disk'[k] = disk[k]
    BY <1>b, <2>1, <1>0 DEF Opened
  <2>3. FewHoles'
    <3>1. Lossy' <=> Lossy
      BY <1>0, <1>c, <2>1, OpenedSlots
    <3>2. \A s \in 1 .. backup_count : Allowed(s) <= Allowed(s)'
      BY <1>0, <2>1 DEF Allowed
    <3>3. QED
      BY <1>a, <2>2, <3>1, <3>2
  <2>4. Rotating'
    BY <1>0, <2>1, OpenedSlots DEF Rotating
  <2>5. QED
    BY <2>3, <2>4 DEF CountInv
<1>2. ASSUME NEW n \in Sizes, Write(n) PROVE CountInv'
  <2>1. /\ disk' = [disk EXCEPT ![0] = [ids |-> disk[0].ids \cup {last + 1},
                                        size |-> disk[0].size + n]]
        /\ last' = last + 1 /\ crashes' = crashes /\ pc = "run" /\ pc' \in {"run", "remove"}
        /\ last \in Nat /\ fp /\ i' = i
    BY <1>2 DEF Write, TypeOK
  <2>2. \A k \in 1 .. backup_count : disk'[k] = disk[k]
    BY <1>0, <1>b, <2>1
  <2>3. disk'[0].ids = disk[0].ids \cup {last + 1} /\ \A s \in Slots \ {0} : disk'[s] = disk[s]
    BY <1>0, <2>1, SlotFacts
  <2>4. Kept' = Kept \cup {last + 1}
    BY <2>3, KeptSlot, KeptSlotNext, SlotFacts
  <2>5. Lossy' => Lossy
    <3>1. (1 .. last) \cup {last + 1} = 1 .. last + 1
      BY <2>1
    <3>2. QED
      BY <2>1, <2>4, <3>1 DEF Lossy
  <2>6. \A s \in 1 .. backup_count : Allowed(s) <= Allowed(s)'
    BY <1>0, <2>1 DEF Allowed
  <2>7. FewHoles'
    BY <1>a, <2>2, <2>5, <2>6
  <2>8. disk'[0] # NoFile
    <3>1. disk[0].size \in Nat /\ n \in Nat
      BY <2>1, FileFacts, SlotFacts, RotateAssumption DEF TypeOK
    <3>2. disk'[0].size \in Nat
      BY <1>0, <2>1, <3>1, SlotFacts
    <3>3. QED
      BY <3>2, FileFacts
  <2>9. Rotating'
    BY <2>1, <2>8 DEF Rotating
  <2>10. QED
    BY <2>7, <2>9 DEF CountInv
<1>3. ASSUME NEW n \in Sizes, CrashInWrite(n) PROVE CountInv'
  <2>1. /\ \E k \in 0 .. n - 1 : disk' = [disk EXCEPT ![0].size = @ + k]
        /\ last' = last /\ crashes' = crashes + 1 /\ pc = "run" /\ pc' = "off" /\ i' = i
    BY <1>3 DEF CrashInWrite
  <2>2. /\ disk'[0].ids = disk[0].ids
        /\ \A s \in Slots \ {0} : disk'[s] = disk[s]
    <3>1. fp /\ disk[0] \in File
      BY <1>0, <1>3, SlotFacts DEF CrashInWrite, TypeOK
    <3>2. QED
      BY <1>0, <2>1, <3>1, SlotFacts DEF File
  <2>3. \A k \in 1 .. backup_count : disk'[k] = disk[k]
    BY <1>b, <2>2
  <2>4. Lossy' <=> Lossy
    BY <1>c, <2>1, <2>2
  <2>5. \A s \in 1 .. backup_count : Allowed(s) <= Allowed(s)'
    BY <1>0, <2>1 DEF Allowed
  <2>6. QED
    BY <1>a, <2>1, <2>3, <2>4, <2>5 DEF CountInv, Rotating
<1>4. CASE RemoveOldest
  <2>1. /\ pc = "remove" /\ pc' = "rename" /\ last' = last /\ crashes' = crashes
        /\ i' = IF backup_count > 0 THEN backup_count - 1 ELSE 0
        /\ disk[0] # NoFile
    BY <1>0, <1>4 DEF RemoveOldest, Rotating
  <2>2. /\ \A s \in Slots : s # backup_count => disk'[s] = disk[s]
        /\ backup_count > 0 => disk'[backup_count] \in {disk[backup_count], NoFile}
        /\ disk'[0] = disk[0]
    BY <1>0, <1>4, SlotFacts DEF RemoveOldest
  <2>3. ASSUME NEW s \in 1 .. backup_count, Filled(s)'
        PROVE  Cardinality(Holes(disk', s)) <= Allowed(s)'
    <3>1. s \in Nat /\ Allowed(s) = crashes /\ backup_count > 0
          /\ Allowed(s)' = IF s = backup_count THEN crashes + 1 ELSE crashes
      BY <1>0, <1>b, <2>1 DEF Allowed
    <3>2. CASE s # backup_count
      <4>1. Filled(s) /\ Holes(disk', s) = Holes(disk, s)
        BY <1>b, <2>2, <2>3, <3>2 DEF Filled, Holes
      <4>2. QED
        BY <1>0, <3>1, <3>2, <4>1 DEF FewHoles
    <3>3. CASE s = backup_count
      <4>1. Filled(s)
        <5>1. CASE disk[s] # NoFile
          BY <5>1 DEF Filled
        <5>2. CASE disk[s] = NoFile
          <6>1. \A k \in Slots : disk'[k] = disk[k]
            BY <1>b, <2>2, <3>1, <3>3, <5>2
          <6>2. Lossy' <=> Lossy
            BY <1>c, <2>1, <6>1
          <6>3. QED
            BY <1>b, <2>3, <6>1, <6>2 DEF Filled
        <5>3. QED
          BY <5>1, <5>2
      <4>2. Holes(disk', s) \subseteq Holes(disk, s) \cup {s}
        BY <1>b, <2>2, <3>3 DEF Holes
      <4>3. Cardinality(Holes(disk', s)) <= Cardinality(Holes(disk, s)) + 1
        BY <3>1, <4>2, HolesOneMore
      <4>4. Cardinality(Holes(disk, s)) <= crashes
        BY <1>0, <3>1, <4>1 DEF FewHoles
      <4>5. QED
        BY <1>0, <3>1, <3>3, <4>3, <4>4, HolesFinite
    <3>4. QED
      BY <3>2, <3>3
  <2>4. FewHoles'
    BY <2>3 DEF FewHoles, Holes
  <2>5. i' + 1 = LastSlot
    BY <2>1, SlotFacts
  <2>6. Rotating'
    BY <2>1, <2>2, <2>5 DEF Rotating, LastSlot
  <2>7. QED
    BY <2>4, <2>6 DEF CountInv
<1>5. CASE RenameNext
  <2>1. /\ pc = "rename" /\ last' = last /\ crashes' = crashes /\ disk[0] # NoFile
        /\ disk[i + 1] = NoFile \/ i + 1 = LastSlot
        /\ i' = (IF i = 0 THEN 0 ELSE i - 1)
        /\ pc' = (IF i = 0 THEN "open" ELSE "rename")
    BY <1>0, <1>5 DEF RenameNext, Rotating
  <2>2. /\ disk'[i] = NoFile
        /\ disk'[i + 1] = IF disk[i] = NoFile THEN disk[i + 1] ELSE disk[i]
        /\ \A s \in Slots \ {i, i + 1} : disk'[s] = disk[s]
        /\ i \in Slots
    BY <1>0, <1>5, RenamedSlots, SlotFacts DEF RenameNext
  <2>3. ASSUME NEW s \in 1 .. backup_count, Filled(s)'
        PROVE  Cardinality(Holes(disk', s)) <= Allowed(s)'
    <3>1. /\ s \in Nat /\ LastSlot = backup_count /\ s <= backup_count /\ s >= 1
          /\ Cardinality(Holes(disk, s)) \in Nat /\ Cardinality(Holes(disk', s)) \in Nat
          /\ Allowed(s) = IF i < s THEN crashes + 1 ELSE crashes
          /\ Allowed(s)' = IF i # 0 /\ i <= s THEN crashes + 1 ELSE crashes
      BY <1>0, <1>b, <2>1, HolesFinite, SlotFacts DEF Allowed
    <3>2. CASE s < i
      <4>1. Filled(s) /\ Holes(disk', s) = Holes(disk, s)
        <5>1. \A k \in 1 .. s : k \in Slots \ {i, i + 1}
          BY <1>0, <1>b, <3>2
        <5>2. s # backup_count
          BY <1>0, <3>1, <3>2, SlotFacts
        <5>3. QED
          BY <2>2, <2>3, <3>1, <5>1, <5>2 DEF Filled, Holes
      <4>2. QED
        BY <1>0, <3>1, <3>2, <4>1 DEF FewHoles
    <3>3. CASE s = i
      BY <1>0, <2>2, <2>3, <3>1, <3>3, SlotFacts DEF Filled
    <3>4. CASE s > i /\ disk[i] = NoFile
      <4>1. i # 0
        BY <2>1, <3>4
      <4>2. \A k \in Slots : disk'[k] = disk[k]
        BY <1>0, <2>2, <3>4
      <4>3. Lossy' <=> Lossy
        BY <1>c, <2>1, <4>2
      <4>4. Filled(s) /\ Holes(disk', s) = Holes(disk, s)
        BY <1>b, <2>3, <4>2, <4>3 DEF Filled, Holes
      <4>5. QED
        BY <1>0, <3>1, <3>4, <4>1, <4>4 DEF FewHoles
    <3>5. CASE s = i + 1 /\ disk[i] # NoFile
      <4>1. CASE i = 0
        <5>1. Holes(disk', s) = {}
          BY <1>0, <2>2, <3>5, <4>1, FileFacts DEF Holes
        <5>2. QED
          BY <1>0, <3>1, <3>5, <4>1, <5>1, FS_EmptySet
      <4>2. CASE i # 0
        <5>1. i \in 1 .. backup_count /\ Filled(i) /\ Allowed(i) = crashes
          <6>1. i \in Nat /\ i \in 1 .. backup_count /\ ~(i < i)
            BY <1>0, <3>1, <3>5, <4>2, SlotFacts
          <6>2. Filled(i)
            BY <3>5 DEF Filled
          <6>3. Allowed(i) = crashes
            BY <6>1 DEF Allowed
          <6>4. QED
            BY <6>1, <6>2, <6>3
        <5>2. Cardinality(Holes(disk, i)) <= crashes /\ Cardinality(Holes(disk, i)) \in Nat
          BY <1>0, <5>1, HolesFinite DEF FewHoles
        <5>3. Holes(disk', s) = Holes(disk', i)
          <6>1. 1 .. s = (1 .. i) \cup {s} /\ disk'[s] # NoFile
            BY <1>0, <2>2, <3>5
          <6>2. QED
            BY <6>1 DEF Holes
        <5>4. Holes(disk', i) \subseteq Holes(disk, i) \cup {i}
          <6>1. \A k \in (1 .. i) \ {i} : k \in Slots \ {i, i + 1}
            BY <1>0, <1>b, <5>1
          <6>2. QED
            BY <2>2, <6>1 DEF Holes
        <5>5. Cardinality(Holes(disk', i)) <= Cardinality(Holes(disk, i)) + 1
          BY <1>0, <5>4, HolesOneMore
        <5>6. QED
          BY <1>0, <3>1, <3>5, <4>2, <5>2, <5>3, <5>5
      <4>3. QED
        BY <4>1, <4>2
    <3>6. CASE s > i + 1 /\ disk[i] # NoFile
      <4>1. disk[i + 1] = NoFile /\ disk'[i + 1] # NoFile /\ i + 1 \in 1 .. s
        BY <1>0, <2>1, <2>2, <3>1, <3>6
      <4>2. \A k \in Slots : disk'[k] # disk[k] => k \in {i, i + 1}
        BY <2>2
      <4>3. disk'[s] = disk[s]
        BY <1>0, <1>b, <3>6, <4>2
      <4>4. Lossy' <=> Lossy
        <5>1. Kept' = Kept
          <6>1. disk'[i + 1].ids = disk[i].ids /\ disk'[i].ids = {} /\ disk[i + 1].ids = {}
            BY <2>2, <3>6, <4>1, FileFacts
          <6>2. ASSUME NEW x PROVE x \in Kept' <=> x \in Kept
            BY <1>0, <2>2, <6>1, KeptSlot, KeptSlotNext
          <6>3. QED
            BY <6>2
        <5>2. QED
          BY <2>1, <5>1 DEF Lossy
      <4>5. Filled(s)
        BY <2>3, <4>3, <4>4 DEF Filled
      <4>6. Cardinality(Holes(disk, s)) <= crashes + 1
        BY <1>0, <3>1, <3>6, <4>5 DEF FewHoles
      <4>7. i + 1 \in Holes(disk, s) /\ i + 1 \notin Holes(disk', s)
        BY <4>1 DEF Holes
      <4>8. Holes(disk', s) \subseteq Holes(disk, s) \cup {i}
        BY <1>b, <4>1, <4>2 DEF Holes
      <4>9. CASE i # 0
        <5>1. Cardinality(Holes(disk', s)) <= Cardinality(Holes(disk, s))
          BY <3>1, <4>7, <4>8, HolesMoved
        <5>2. QED
          BY <1>0, <3>1, <3>6, <4>6, <4>9, <5>1
      <4>10. CASE i = 0
        <5>1. Holes(disk', s) \subseteq Holes(disk, s)
          BY <4>8, <4>10 DEF Holes
        <5>2. Cardinality(Holes(disk', s)) + 1 <= Cardinality(Holes(disk, s))
          BY <3>1, <4>7, <5>1, HolesFewer
        <5>3. QED
          BY <1>0, <3>1, <4>6, <4>10, <5>2
      <4>11. QED
        BY <4>9, <4>10
    <3>7. QED
      BY <1>0, <3>1, <3>2, <3>3, <3>4, <3>5, <3>6
  <2>4. FewHoles'
    BY <2>3 DEF FewHoles, Holes
  <2>5. Rotating'
    <3>1. CASE i = 0
      BY <2>1, <3>1 DEF Rotating
    <3>2. CASE i # 0
      <4>1. disk'[0] = disk[0] /\ i' + 1 = i
        BY <1>0, <2>1, <2>2, <3>2, SlotFacts
      <4>2. QED
        BY <2>1, <2>2, <4>1 DEF Rotating
    <3>3. QED
      BY <3>1, <3>2
  <2>6. QED
    BY <2>4, <2>5 DEF CountInv
<1>6. CASE ReopenFails \/ Crash
  <2>1. /\ disk' = disk /\ last' = last /\ i' = i /\ pc' \in {"run", "off"}
        /\ \/ pc = "open" /\ crashes' = crashes
           \/ crashes' = crashes + 1
    BY <1>6 DEF ReopenFails, Crash
  <2>2. \A s \in 1 .. backup_count : Allowed(s) <= Allowed(s)'
    BY <1>0, <2>1 DEF Allowed
  <2>3. Lossy' <=> Lossy
    BY <1>c, <2>1
  <2>4. QED
    BY <1>a, <2>1, <2>2, <2>3 DEF CountInv, Rotating
<1>7. CASE UNCHANGED vars
  <2>1. FewHoles' /\ Rotating'
    BY <1>0, <1>7 DEF vars, FewHoles, Filled, Lossy, Kept, Allowed, Holes, Rotating
  <2>2. QED
    BY <2>1 DEF CountInv
<1>8. QED
  BY <1>1, <1>2, <1>3, <1>4, <1>5, <1>6, <1>7 DEF Next

(* Messages are dropped only when every backup, but one for each crash, is *)
(* there, until a rename fails.                                            *)
THEOREM DroppedOnlyWhenFull == Spec => []BackupsKept
<1>1. Init => CountInv
  <2> SUFFICES ASSUME Init PROVE CountInv
    OBVIOUS
  <2>1. \A s \in Slots : disk[s] = NoFile /\ disk[s].ids = {}
    BY FileFacts DEF Init
  <2>2. ~Lossy
    BY <2>1, KeptSlot DEF Init, Lossy
  <2>3. \A s \in 1 .. backup_count : ~Filled(s)
    BY <2>1, <2>2, SlotFacts DEF Filled
  <2>4. QED
    BY <2>3 DEF Init, CountInv, FewHoles, Rotating
<1>2. TypeOK /\ (~broken => CountInv) /\ [Next]_vars => (~broken => CountInv)'
  BY CountStep, UnbrokenStep
<1>3. TypeOK /\ (~broken => CountInv) => BackupsKept
  <2> SUFFICES ASSUME TypeOK, CountInv, pc = "run", Kept # 1 .. last
               PROVE  Cardinality({s \in Slots \ {0} : disk[s] # NoFile}) + crashes >= backup_count
    BY DEF BackupsKept
  <2> DEFINE backups == {s \in Slots \ {0} : disk[s] # NoFile}
  <2>1. crashes \in Nat /\ backup_count \in Nat
    BY SlotFacts DEF TypeOK
  <2>2. IsFiniteSet(backups)
    <3>1. IsFiniteSet(Slots) /\ backups \in SUBSET Slots
      BY FS_Interval, SlotFacts
    <3>2. QED
      BY <3>1, FS_Subset
  <2>3. CASE backup_count = 0
    <3>1. Cardinality(backups) \in Nat
      BY <2>2, FS_CardinalityType
    <3>2. QED
      BY <2>1, <2>3, <3>1
  <2>4. CASE backup_count > 0
    <3>1. backup_count \in 1 .. backup_count /\ Slots \ {0} = 1 .. backup_count
      BY <2>1, <2>4, SlotFacts
    <3>2. Cardinality(Holes(disk, backup_count)) <= crashes
      BY <3>1 DEF CountInv, FewHoles, Filled, Lossy, Allowed
    <3>3. /\ backups = (1 .. backup_count) \ Holes(disk, backup_count)
          /\ (1 .. backup_count) \cap Holes(disk, backup_count) = Holes(disk, backup_count)
      BY <3>1 DEF Holes
    <3>4. IsFiniteSet(1 .. backup_count) /\ Cardinality(1 .. backup_count) = backup_count
      BY <2>1, <2>4, FS_Interval
    <3>5. Cardinality(backups) = backup_count - Cardinality(Holes(disk, backup_count))
      <4> HIDE DEF backups
      <4>1. Cardinality((1 .. backup_count) \ Holes(disk, backup_count))
              = Cardinality(1 .. backup_count)
                  - Cardinality((1 .. backup_count) \cap Holes(disk, backup_count))
        BY <3>4, FS_Difference
      <4>2. QED
        BY <3>3, <3>4, <4>1
    <3>6. Cardinality(Holes(disk, backup_count)) \in Nat
      BY <2>1, HolesFinite
    <3>7. QED
      BY <2>1, <3>2, <3>5, <3>6
  <2>5. QED
    BY <2>1, <2>3, <2>4
<1>4. QED
  BY <1>1, <1>2, <1>3, TypeCorrect, PTL DEF Spec
=============================================================================
