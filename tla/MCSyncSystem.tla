---------------------------- MODULE MCSyncSystem ----------------------------
(* Instances of SyncSystem for TLC: one note, and the names its conflict   *)
(* copies can take.                                                        *)
EXTENDS SyncSystem, TLC

CONSTANTS d1, d2            \* devices

(* First takes of these the one that is named first here, which is the     *)
(* order of the code: "Note.md", "note (conflict ...).md", "note.md".      *)
CONSTANTS
  twin,         \* a file whose name differs from the note's in case only
  copy, copy2,  \* names of conflict copies of the note
  note

MCDevices == {d1, d2}

(* Nothing tells the devices apart but their names. *)
DeviceSymmetry == Permutations(MCDevices)

OneNote == {note, copy}
TwoCopies == {note, copy, copy2}

Twins == {note, twin, copy}

CopiesOfNote ==
  [p \in Paths |-> IF p = note THEN Paths \ {note, twin} ELSE {}]
NoClash == {}
TwinsClash == {{note, twin}}

(* Names of 320 bytes, for which a reserve of 544 just suffices.  Any two  *)
(* changes are too much for a packet of 796 bytes, where the largest file  *)
(* has 189 bytes and fills a packet; one of 252 bytes is too large, though *)
(* it would fit if Base64 took no more bytes than the file.                *)
LongNames == [p \in Paths |-> 320]
SmallFiles == [content \in 1 .. 8 |-> 3]
FullFiles == [content \in 1 .. 8 |-> 189]
OneLargeFile == [content \in 1 .. 8 |-> IF content = 6 THEN 252 ELSE 189]

StartEmpty == NoFiles
StartNote == [p \in Paths |-> IF p = note THEN 1 ELSE None]
StartNoteAndCopy ==
  [p \in Paths |-> CASE p = note -> 1 [] p = copy -> 2 [] OTHER -> None]
=============================================================================
