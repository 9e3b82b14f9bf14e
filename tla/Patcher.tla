------------------------------- MODULE Patcher -------------------------------
(***************************************************************************)
(* The patcher of the game's executable (asmp-exe-patcher/src/main.c) and  *)
(* the two files it works on, AlienShooter.exe and AlienShooter.exe.bak.   *)
(* It copies the executable, then writes three places of it one after the  *)
(* other.  What it writes stays in the buffer of stdio until the next seek *)
(* or the close of the file, where it may be lost: the process is killed,  *)
(* or the disk fails.                                                      *)
(***************************************************************************)
EXTENDS Naturals

CONSTANT NoFile

ASSUME NoFileAssumption == NoFile \notin [whole : BOOLEAN, written : SUBSET {"name", "jump", "code"}]

VARIABLES
  exe,        \* the game's executable
  backup,     \* the .bak file, or NoFile
  stage,      \* where main is; "idle" when the patcher does not run
  pending,    \* the writes that are still in the buffer of stdio
  found,      \* the executable as the current run, or the last, found it
  diskFails   \* whether writes may get lost although the process lives

patcherVars == <<exe, backup, stage, pending, found, diskFails>>

(* A file is the part of the executable up to some point, or the whole of    *)
(* it, with some of the three places overwritten: the DLL's name at 0x7E670, *)
(* the jump at 0x4FCC and the code that loads the DLL at 0x79E40.            *)
Places == {"name", "jump", "code"}
Image == [whole : BOOLEAN, written : SUBSET Places]

Original == [whole |-> TRUE, written |-> {}]
Patched == [whole |-> TRUE, written |-> Places]
CutOff(image) == [image EXCEPT !.whole = FALSE]

Writing == {"name", "jump", "code", "close", "abort"}

PatcherTypeOK ==
  /\ exe \in Image /\ found \in Image
  /\ backup \in Image \cup {NoFile}
  /\ stage \in {"idle", "copy", "open"} \cup Writing
  /\ pending \in SUBSET Places
  /\ pending # {} => stage \in {"jump", "code", "close", "abort"}
  /\ diskFails \in BOOLEAN

PatcherInit ==
  /\ exe = Original
  /\ backup = NoFile
  /\ stage = "idle"
  /\ pending = {}
  /\ found = Original
  /\ diskFails \in BOOLEAN

-----------------------------------------------------------------------------
(* Operators named Mutant... are deliberately wrong variants of the operator *)
(* that follows them, as in the other modules.                               *)

(* The six bytes at the place of the jump are compared with the original's,  *)
(* and the run refuses to overwrite a backup.                                *)
MutantMayBegin == "jump" \notin exe.written
MayBegin == "jump" \notin exe.written /\ backup = NoFile

(* From the start of main to the creation of the backup file.                *)
BeginRun ==
  /\ stage = "idle"
  /\ MayBegin
  /\ stage' = "copy"
  /\ backup' = CutOff(exe)
  /\ found' = exe
  /\ UNCHANGED <<exe, pending, diskFails>>

(* The copy.  A short write shows in the position of the backup file, but    *)
(* the last block is written by fclose, whose result nobody looks at.        *)
Copy ==
  /\ stage = "copy"
  /\ \/ stage' = "open" /\ backup' = exe
     \/ diskFails /\ stage' \in {"open", "idle"} /\ UNCHANGED backup
  /\ UNCHANGED <<exe, pending, found, diskFails>>

(* The executable cannot be opened for writing while the game runs.          *)
OpenExe(gameRuns) ==
  /\ stage = "open"
  /\ stage' = IF gameRuns THEN "idle" ELSE "name"
  /\ UNCHANGED <<exe, backup, pending, found, diskFails>>

(* What a seek or a close does with the buffer.                              *)
MutantFlush == exe' = [exe EXCEPT !.written = @ \cup pending] /\ UNCHANGED pending
Flush == pending' = {} /\ exe' = [exe EXCEPT !.written = @ \cup pending]
Lose == diskFails /\ pending' = {} /\ UNCHANGED exe

(* patch_bytes_: the seek flushes the write before, this write goes into the *)
(* buffer.  Whether a seek reports that the flush failed is up to the C      *)
(* library; one that does keeps the buffer.                                  *)
MutantPatchBytes(place, next) ==
  /\ stage = place
  /\ stage' = next
  /\ pending' = {place}
  /\ UNCHANGED <<exe, backup, found, diskFails>>
PatchBytes(place, next) ==
  /\ stage = place
  /\ \/ /\ stage' = next
        /\ pending' = {place}
        /\ \/ exe' = [exe EXCEPT !.written = @ \cup pending]
           \/ diskFails /\ UNCHANGED exe
     \/ diskFails /\ stage' = "abort" /\ UNCHANGED <<exe, pending>>
  /\ UNCHANGED <<backup, found, diskFails>>

(* fclose at the end of main, after the message of success or of an error.   *)
CloseExe ==
  /\ stage \in {"close", "abort"}
  /\ stage' = "idle"
  /\ Flush \/ Lose
  /\ UNCHANGED <<backup, found, diskFails>>

(* The process of the patcher ends before main returns.                      *)
Kill ==
  /\ stage # "idle"
  /\ stage' = "idle"
  /\ pending' = {}
  /\ UNCHANGED <<exe, backup, found, diskFails>>

PatcherStep ==
  \/ BeginRun \/ Copy
  \/ PatchBytes("name", "jump") \/ PatchBytes("jump", "code") \/ PatchBytes("code", "close")
  \/ CloseExe \/ Kill

-----------------------------------------------------------------------------
(* Assumed of the user, who sees the sizes of the two files: a backup as big *)
(* as the executable is kept until it takes the executable's place again,    *)
(* and one that is shorter is thrown away.                                   *)
MoveBack ==
  /\ stage = "idle"
  /\ backup # NoFile /\ backup.whole
  /\ exe' = backup
  /\ backup' = NoFile
  /\ UNCHANGED <<stage, pending, found, diskFails>>

ThrowAway ==
  /\ stage = "idle"
  /\ backup # NoFile /\ ~backup.whole
  /\ backup' = NoFile
  /\ UNCHANGED <<exe, stage, pending, found, diskFails>>

-----------------------------------------------------------------------------
(* A disk that works never leaves the user without the original, wherever    *)
(* runs of the patcher are killed and however often it runs again: it is in  *)
(* its place or in the backup.                                               *)
OriginalSurvivesKills == ~diskFails => exe = Original \/ backup = Original

(* main.c:163-191: on a disk that works, a run that comes to its end has     *)
(* patched all three places or none.  A run that a failed write ends (-13,   *)
(* -14) may leave some of them patched, and so may one that is killed.       *)
Ends == CloseExe \/ OpenExe(TRUE)
PatchIsAllOrNothing ==
  [][Ends /\ ~diskFails => exe' \in {found, Patched}]_patcherVars
=============================================================================
