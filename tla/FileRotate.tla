----------------------------- MODULE FileRotate -----------------------------
(***************************************************************************)
(* haclog_file_rotate_handler_t: the log file and its numbered backups on  *)
(* disk, the handler that writes and rotates them, and a process that may  *)
(* die between any two system calls and start again.                       *)
(*                                                                         *)
(* A file is the set of the messages in it and its length in bytes.        *)
(* Messages are numbered in the order in which they were written.  Slot 0  *)
(* stands for filepath, slot k for filepath.k.  after_write flushes, so    *)
(* what a message wrote survives the process.                              *)
(***************************************************************************)
EXTENDS Integers, FiniteSets

CONSTANTS
  backup_count, max_bytes,   \* arguments of haclog_file_rotate_handler_init
  Sizes,                     \* bytes of a line, with its meta data and newline
  MaxMsgs,                   \* bound on the messages written
  MaxCrashes,                \* bound on the crashes
  Failing                    \* the system calls that may fail

ASSUME RotateAssumption ==
  /\ backup_count \in Nat
  /\ max_bytes \in Nat \ {0}
  /\ Sizes \subseteq Nat \ {0} /\ Sizes # {}
  /\ MaxMsgs \in Nat /\ MaxCrashes \in Nat
  /\ Failing \subseteq {"remove", "rename", "open"}

VARIABLES
  disk,          \* what each slot holds
  fp, offset,    \* haclog_file_rotate_handler_t: fp # NULL, and the offset
  pc, i,         \* where the handler is, and the index of the rename loop
  last,          \* history: the number of messages written
  broken,        \* history: a rename has failed
  crashes        \* number of crashes so far

vars == << disk, fp, offset, pc, i, last, broken, crashes >>

(* Even with no backup the file is renamed to filepath.1. *)
LastSlot == IF backup_count = 0 THEN 1 ELSE backup_count
Slots == 0 .. LastSlot

NoFile    == [ids |-> {}, size |-> -1]
EmptyFile == [ids |-> {}, size |-> 0]
File      == [ids : SUBSET Nat, size : Nat]

RotatePc == {"off", "run", "remove", "rename", "open"}

(* fopen with "ab+" creates the file if there is none. *)
Opened(d) == IF d[0] = NoFile THEN [d EXCEPT ![0] = EmptyFile] ELSE d

(* A variant of Renamed with a mistake: the source stays, as in a copy. *)
Renamed_Copies(d, src, dst) ==
  IF d[src] = NoFile THEN d ELSE [d EXCEPT ![dst] = d[src]]

(* rename(2) replaces the target, and does nothing when there is no source. *)
Renamed(d, src, dst) ==
  IF d[src] = NoFile THEN d ELSE [d EXCEPT ![dst] = d[src], ![src] = NoFile]

Init ==
  /\ disk = [s \in Slots |-> NoFile]
  /\ fp = FALSE /\ offset = 0
  /\ pc = "off" /\ i = 0
  /\ last = 0 /\ broken = FALSE /\ crashes = 0

(* A variant of HandlerInit with a mistake: without the fseek, ftell gives *)
(* 0 for a file opened for appending.                                      *)
HandlerInit_NoSeek ==
  /\ pc = "off"
  /\ disk' = Opened(disk)
  /\ fp' = TRUE
  /\ offset' = 0
  /\ pc' = "run"
  /\ UNCHANGED << i, last, crashes, broken >>

(* haclog_file_rotate_handler_init: a file that is full is rotated.  (If   *)
(* the file cannot be opened init returns an error and nothing changes.)   *)
HandlerInit ==
  /\ pc = "off"
  /\ disk' = Opened(disk)
  /\ fp' = TRUE
  /\ offset' = disk'[0].size
  /\ pc' = IF offset' >= max_bytes THEN "remove" ELSE "run"
  /\ UNCHANGED << i, last, crashes, broken >>

(* haclog_handler_write: meta data, text and newline are appended, then    *)
(* the file is rotated if it is full.  (With fp = NULL nothing is written  *)
(* and nothing changes.)                                                   *)
Write(n) ==
  /\ pc = "run" /\ fp
  /\ last < MaxMsgs
  /\ last' = last + 1
  /\ disk' = [disk EXCEPT ![0] = [ids |-> @.ids \cup {last'}, size |-> @.size + n]]
  /\ offset' = offset + n
  /\ pc' = IF offset' >= max_bytes THEN "remove" ELSE "run"
  /\ UNCHANGED << fp, i, crashes, broken >>

(* A variant of RemoveOldest with a mistake: the loop starts one too low. *)
RemoveOldest_StartsLow ==
  /\ pc = "remove"
  /\ fp' = FALSE
  /\ disk' = IF backup_count > 0 THEN [disk EXCEPT ![backup_count] = NoFile] ELSE disk
  /\ i' = IF backup_count > 1 THEN backup_count - 2 ELSE 0
  /\ pc' = "rename"
  /\ UNCHANGED << offset, last, crashes, broken >>

(* haclog_file_rotate_handler_rotate closes the file and removes the       *)
(* oldest backup; it does not look at the result.                          *)
RemoveOldest ==
  /\ pc = "remove"
  /\ fp' = FALSE
  /\ \/ disk' = IF backup_count > 0 THEN [disk EXCEPT ![backup_count] = NoFile] ELSE disk
     \/ "remove" \in Failing /\ disk' = disk
  /\ i' = IF backup_count > 0 THEN backup_count - 1 ELSE 0
  /\ pc' = "rename"
  /\ UNCHANGED << offset, last, crashes, broken >>

(* A variant of RenameNext with a mistake: the new backup goes first.  The *)
(* names are exchanged, from the file on upwards.                          *)
RenameNext_Upwards ==
  /\ pc = "rename"
  /\ LET k == IF backup_count > 0 THEN backup_count - 1 - i ELSE 0
     IN  disk' = Renamed(disk, k, k + 1)
  /\ i' = IF i = 0 THEN 0 ELSE i - 1
  /\ pc' = IF i = 0 THEN "open" ELSE "rename"
  /\ UNCHANGED << fp, offset, last, crashes, broken >>

(* Each backup gets the next number, from the oldest on, and in the end    *)
(* the file becomes the first backup.                                      *)
RenameNext ==
  /\ pc = "rename"
  /\ disk' = Renamed(disk, i, i + 1)
  /\ i' = IF i = 0 THEN 0 ELSE i - 1
  /\ pc' = IF i = 0 THEN "open" ELSE "rename"
  /\ UNCHANGED << fp, offset, last, crashes, broken >>

(* The result of haclog_os_rename is not looked at. *)
RenameFails ==
  /\ pc = "rename" /\ "rename" \in Failing
  /\ i' = IF i = 0 THEN 0 ELSE i - 1
  /\ broken' = TRUE
  /\ pc' = IF i = 0 THEN "open" ELSE "rename"
  /\ UNCHANGED << disk, fp, offset, last, crashes >>

Reopen ==
  /\ pc = "open"
  /\ disk' = Opened(disk)
  /\ fp' = TRUE /\ offset' = 0
  /\ pc' = "run"
  /\ UNCHANGED << i, last, crashes, broken >>

(* A variant of ReopenFails with a mistake: the result is not looked at. *)
ReopenFails_Unchecked ==
  /\ pc = "open" /\ "open" \in Failing
  /\ fp' = TRUE /\ offset' = 0
  /\ pc' = "run"
  /\ UNCHANGED << disk, i, last, crashes, broken >>

(* The handler stays without a file until the process starts again. *)
ReopenFails ==
  /\ pc = "open" /\ "open" \in Failing
  /\ pc' = "run"
  /\ UNCHANGED << disk, fp, offset, i, last, crashes, broken >>

(* The process ends at any point; a new one calls init. *)
Crash ==
  /\ pc # "off"
  /\ crashes < MaxCrashes
  /\ crashes' = crashes + 1
  /\ pc' = "off" /\ fp' = FALSE
  /\ UNCHANGED << disk, offset, i, last, broken >>

(* The process ends in the middle of a write: a part of the line may be in *)
(* the file, and it has no newline.                                        *)
CrashInWrite(n) ==
  /\ pc = "run" /\ fp
  /\ crashes < MaxCrashes
  /\ crashes' = crashes + 1
  /\ \E k \in 0 .. n - 1 : disk' = [disk EXCEPT ![0].size = @ + k]
  /\ pc' = "off" /\ fp' = FALSE
  /\ UNCHANGED << offset, i, last, broken >>

Next ==
  \/ HandlerInit
  \/ \E n \in Sizes : Write(n) \/ CrashInWrite(n)
  \/ RemoveOldest \/ RenameNext \/ RenameFails \/ Reopen \/ ReopenFails
  \/ Crash

Spec == Init /\ [][Next]_vars

-----------------------------------------------------------------------------
(* Properties. *)

TypeOK ==
  /\ disk \in [Slots -> File \cup {NoFile}]
  /\ fp \in BOOLEAN /\ offset \in Nat
  /\ pc \in RotatePc
  /\ i \in Nat /\ i + 1 \in Slots
  /\ fp => disk[0] # NoFile /\ pc \in {"run", "remove"}
  /\ last \in Nat /\ crashes \in Nat /\ broken \in BOOLEAN

Kept == UNION {disk[s].ids : s \in Slots}

(***************************************************************************)
(* Higher numbers are older: whatever fails and wherever the process dies, *)
(* reading the backups from the highest number down to the file gives the  *)
(* messages in the order in which they were written, each of them once.    *)
(***************************************************************************)
OldestLast ==
  \A s, t \in Slots : s < t =>
    \A x \in disk[s].ids, y \in disk[t].ids : y < x

(***************************************************************************)
(* Rotation only ever drops the oldest messages: what is kept has no hole, *)
(* even after a crash between two renames, until a rename fails.           *)
(***************************************************************************)
NoHole == ~broken => \A x \in Kept : \A y \in x .. last : y \in Kept

(***************************************************************************)
(* Messages are dropped only when the backups are there: each crash costs  *)
(* at most one backup file.                                                *)
(***************************************************************************)
BackupsKept ==
  ~broken /\ pc = "run" /\ Kept # 1 .. last =>
    Cardinality({s \in Slots \ {0} : disk[s] # NoFile}) + crashes >= backup_count

(***************************************************************************)
(* offset is the length of the file, also after a restart, so no file      *)
(* grows past the limit by more than the line that reached it, until a     *)
(* rename fails.                                                           *)
(***************************************************************************)
OneLineOver ==
  ~broken => \A s \in Slots : \E n \in Sizes : disk[s].size < max_bytes + n
=============================================================================
