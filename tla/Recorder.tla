------------------------------ MODULE Recorder ------------------------------
(***************************************************************************)
(* What the acquisition pipeline promises: a recording is a sequence of    *)
(* lines, one for each conversion, in the order they were taken.  A buffer *)
(* of N conversions is written when all of them have been taken, line by   *)
(* line.  Lines are missing only after a write was cut short or failed;    *)
(* the recording then goes on with the first line of a later buffer, and   *)
(* behind the front of a buffer only in another file.                      *)
(***************************************************************************)
EXTENDS Integers, Sequences

CONSTANT N          \* conversions in one buffer

VARIABLES
  taken,            \* conversions taken so far
  rec,              \* the lines of the current recording
  file,             \* the file of the recording that takes the next line
  lost              \* lines were lost since the last one in rec

vars == <<taken, rec, file, lost>>

Init == taken = 0 /\ rec = <<>> /\ file = 0 /\ lost = FALSE

Take == taken' = taken + 1 /\ UNCHANGED <<rec, file, lost>>

(* A new recording begins.                                                 *)
Begin == rec' = <<>> /\ file' = 0 /\ lost' = FALSE /\ UNCHANGED taken

(* It goes on in another file.                                             *)
NextFile == file' = file + 1 /\ UNCHANGED <<taken, rec, lost>>

(* The buffer that holds the line is complete.                             *)
Complete(line) == line.conv - line.at + N <= taken

Continues(last, line) ==
  /\ line.conv = last.conv + 1
  /\ line.at = IF last.at = N - 1 THEN 0 ELSE last.at + 1
  /\ line.at > 0 => last.file = file

Resumes(last, line) ==
  /\ line.conv > last.conv + 1
  /\ line.at = 0
  /\ last.file = file => last.at = N - 1

Record(line) ==
  /\ Complete(line)
  /\ IF rec = <<>> THEN line.at = 0
     ELSE LET last == rec[Len(rec)]
          IN  IF lost THEN Resumes(last, line) ELSE Continues(last, line)
  /\ rec' = Append(rec, line)
  /\ lost' = FALSE
  /\ UNCHANGED <<taken, file>>

(* A write was cut short or failed.                                        *)
Lose == lost' = TRUE /\ UNCHANGED <<taken, rec, file>>

Next ==
  \/ Take \/ Begin \/ NextFile \/ Lose
  \/ \E r \in 0 .. N - 1, n \in (0 - N) .. taken :
       Record([file |-> file, at |-> r, conv |-> n])

Spec == Init /\ [][Next]_vars
=============================================================================
