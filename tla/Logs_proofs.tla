----------------------------- MODULE Logs_proofs ----------------------------
(***************************************************************************)
(* Theorems about the rotating log: for any number of files, any size of   *)
(* them, and any crashes and failures, the files are in order, nothing but *)
(* the oldest lines is dropped, and an undisturbed export is exact.        *)
(***************************************************************************)
EXTENDS Logs, FiniteSetTheorems, TLAPS

(* Where rotateFiles() is in its files.  While nothing fails, the name     *)
(* that a file is to move to is free.                                      *)
RotationInv ==
  /\ step \in {"ready", "full", "shift"} => 0 \in DOMAIN disk
  /\ step \in {"full", "shift"} => disk[0] # {}
  /\ step = "shift" =>
       /\ slot <= MaxFiles - 2
       /\ MaxFiles > 1 => slot >= 0
       /\ failures = 0 /\ MaxFiles > 1 => slot + 1 \notin DOMAIN disk

(* How far exportBundle() is in its files. *)
ExportInv ==
  /\ export = "collect" => at < MaxFiles
  /\ export = "read" => at \in files

(* The lines on the disk. *)
LineInv ==
  /\ \A line \in Kept : line <= logged
  /\ OldestLast /\ NoHoles

DiskInv == TypeOK /\ RotationInv /\ ExportInv /\ LineInv

-----------------------------------------------------------------------------
(* Opening the log keeps every file and adds an empty log if there is none. *)

LEMMA Opened ==
  ASSUME NEW d
  PROVE  /\ DOMAIN OpenForAppend(d) = DOMAIN d \cup {0}
         /\ \A k \in DOMAIN d : OpenForAppend(d)[k] = d[k]
         /\ 0 \notin DOMAIN d => OpenForAppend(d)[0] = {}
<1>1. CASE 0 \in DOMAIN d
  BY <1>1 DEF OpenForAppend
<1>2. CASE 0 \notin DOMAIN d
  <2>1. OpenForAppend(d) = Write(d, 0, {})
    BY <1>2 DEF OpenForAppend
  <2> QED
    BY <1>2, <2>1 DEF Write
<1> QED
  BY <1>1, <1>2

-----------------------------------------------------------------------------
(* Types. *)

LEMMA TypeStep == DiskInv /\ [Next]_vars => TypeOK' /\ RotationInv' /\ ExportInv'
<1> SUFFICES ASSUME DiskInv, [Next]_vars PROVE TypeOK' /\ RotationInv' /\ ExportInv'
  OBVIOUS
<1> USE RotationAssumption, LogsBounds
<1> USE DEF Names, Lines, logVars, faultVars, exportVars
<1>0. TypeOK /\ RotationInv /\ ExportInv
  BY DEF DiskInv
<1>1. CASE Log
  <2>1. disk'[0] = disk[0] \cup {logged + 1} /\ DOMAIN disk' = DOMAIN disk
        /\ \A i \in DOMAIN disk \ {0} : disk'[i] = disk[i]
    BY <1>0, <1>1 DEF Log, RotationInv
  <2>2. TypeOK'
    BY <1>0, <1>1, <2>1 DEF TypeOK, Log
  <2>3. RotationInv'
    BY <1>0, <1>1, <2>1 DEF RotationInv, Log
  <2> QED
    BY <1>0, <1>1, <2>2, <2>3 DEF ExportInv, Log
<1>2. CASE RemoveOldest
  <2>1. /\ DOMAIN disk' = IF MaxFiles > 1 THEN DOMAIN disk \ {MaxFiles - 1} ELSE DOMAIN disk
        /\ \A i \in DOMAIN disk' : disk'[i] = disk[i]
    BY <1>2 DEF RemoveOldest, Remove, Restrict
  <2>2. TypeOK'
    BY <1>0, <1>2, <2>1 DEF TypeOK, RemoveOldest
  <2>3. RotationInv'
    BY <1>0, <1>2, <2>1 DEF RotationInv, RemoveOldest
  <2> QED
    BY <1>0, <1>2, <2>2, <2>3 DEF ExportInv, RemoveOldest
<1>16. CASE RemoveOldestFails
  <2>1. failures' # 0 /\ slot' \in 0 .. MaxFiles /\ slot' = MaxFiles - 2
    BY <1>0, <1>16 DEF TypeOK, RemoveOldestFails
  <2>2. TypeOK'
    BY <1>0, <1>16, <2>1 DEF TypeOK, RemoveOldestFails
  <2>3. RotationInv'
    BY <1>0, <1>16, <2>1 DEF RotationInv, RemoveOldestFails
  <2> QED
    BY <1>0, <1>16, <2>2, <2>3 DEF ExportInv, RemoveOldestFails
<1>3. CASE Shift
  <2>1. slot \in Nat /\ slot >= 1 /\ slot + 1 <= MaxFiles - 1 /\ 0 \in DOMAIN disk
    BY <1>0, <1>3 DEF TypeOK, RotationInv, Shift
  <2>2. /\ DOMAIN disk' \subseteq (DOMAIN disk \ {slot}) \cup {slot + 1}
        /\ 0 \in DOMAIN disk' /\ disk'[0] = disk[0]
        /\ \A i \in DOMAIN disk' : disk'[i] = IF i = slot + 1 /\ slot \in DOMAIN disk
                                                THEN disk[slot] ELSE disk[i]
    <3>1. CASE slot \in DOMAIN disk
      <4>1. disk' = Rename(disk, slot, slot + 1)
        BY <1>3, <3>1 DEF Shift
      <4>2. /\ DOMAIN disk' = (DOMAIN disk \ {slot}) \cup {slot + 1}
            /\ disk'[slot + 1] = disk[slot]
            /\ \A k \in DOMAIN disk : k # slot /\ k # slot + 1 => disk'[k] = disk[k]
        BY <4>1, <2>1, <3>1 DEF Rename
      <4> QED
        BY <2>1, <3>1, <4>2
    <3>2. CASE slot \notin DOMAIN disk
      BY <1>3, <2>1, <3>2 DEF Shift
    <3> QED
      BY <3>1, <3>2
  <2>3. TypeOK'
    BY <1>0, <1>3, <2>1, <2>2 DEF TypeOK, Shift
  <2>4. RotationInv'
    BY <1>0, <1>3, <2>1, <2>2 DEF RotationInv, Shift, TypeOK
  <2> QED
    BY <1>0, <1>3, <2>3, <2>4 DEF ExportInv, Shift
<1>4. CASE ShiftFails
  <2>1. slot \in Nat /\ slot >= 1 /\ slot + 1 <= MaxFiles - 1 /\ 0 \in DOMAIN disk
    BY <1>0, <1>4 DEF TypeOK, RotationInv, ShiftFails
  <2>2. /\ DOMAIN disk' \subseteq DOMAIN disk /\ 0 \in DOMAIN disk'
        /\ \A i \in DOMAIN disk' : disk'[i] = disk[i]
    BY <1>4, <2>1 DEF ShiftFails, Remove, Restrict
  <2>5. failures' # 0
    BY <1>0, <1>4 DEF ShiftFails, TypeOK
  <2>3. TypeOK'
    BY <1>0, <1>4, <2>1, <2>2 DEF TypeOK, ShiftFails
  <2>4. RotationInv'
    BY <1>0, <1>4, <2>1, <2>2, <2>5 DEF RotationInv, ShiftFails, TypeOK
  <2> QED
    BY <1>0, <1>4, <2>3, <2>4 DEF ExportInv, ShiftFails
<1>5. CASE Push
  <2>1. /\ DOMAIN disk' = (DOMAIN disk \ {0}) \cup {1} /\ disk'[1] = disk[0]
        /\ \A i \in DOMAIN disk' \ {1} : disk'[i] = disk[i]
    BY <1>5 DEF Push, Rename
  <2>2. TypeOK'
    BY <1>0, <1>5, <2>1 DEF TypeOK, Push, RotationInv
  <2>3. RotationInv'
    BY <1>0, <1>5, <2>1 DEF RotationInv, Push
  <2> QED
    BY <1>0, <1>5, <2>2, <2>3 DEF ExportInv, Push
<1>6. CASE PushFails
  <2>1. DOMAIN disk' \subseteq DOMAIN disk /\ \A i \in DOMAIN disk' : disk'[i] = disk[i]
    BY <1>6 DEF PushFails, Remove, Restrict
  <2>2. TypeOK'
    BY <1>0, <1>6, <2>1 DEF TypeOK, PushFails
  <2>3. RotationInv'
    BY <1>0, <1>6, <2>1 DEF RotationInv, PushFails
  <2> QED
    BY <1>0, <1>6, <2>2, <2>3 DEF ExportInv, PushFails
<1>7. CASE Reopen
  <2>1. /\ DOMAIN disk' = DOMAIN disk \cup {0}
        /\ \A i \in DOMAIN disk : disk'[i] = disk[i]
        /\ 0 \notin DOMAIN disk => disk'[0] = {}
    BY <1>7, Opened DEF Reopen
  <2>2. TypeOK'
    BY <1>0, <1>7, <2>1 DEF TypeOK, Reopen
  <2>3. RotationInv'
    BY <1>0, <1>7, <2>1 DEF RotationInv, Reopen
  <2> QED
    BY <1>0, <1>7, <2>2, <2>3 DEF ExportInv, Reopen
<1>8. CASE Crash
  <2>1. /\ DOMAIN disk' = DOMAIN disk \cup {0}
        /\ \A i \in DOMAIN disk : disk'[i] = disk[i]
        /\ 0 \notin DOMAIN disk => disk'[0] = {}
    BY <1>8, Opened DEF Crash
  <2>2. TypeOK'
    BY <1>0, <1>8, <2>1 DEF TypeOK, Crash
  <2>3. RotationInv'
    BY <1>0, <1>8, <2>1 DEF RotationInv, Crash
  <2> QED
    BY <1>0, <1>8, <2>2, <2>3 DEF ExportInv, Crash
<1>9. CASE StartExport
  BY <1>0, <1>9 DEF TypeOK, RotationInv, ExportInv, StartExport, Nothing
<1>15. CASE Report
  BY <1>0, <1>15 DEF TypeOK, RotationInv, ExportInv, Report
<1>10. CASE Collect
  <2>1. TypeOK'
    BY <1>0, <1>10 DEF TypeOK, ExportInv, Collect
  <2> QED
    BY <1>0, <1>10, <2>1 DEF TypeOK, RotationInv, ExportInv, Collect
<1>11. CASE Measure
  <2>1. ASSUME NEW i \in files, IsNext(i),
               sizes' = [j \in DOMAIN sizes \cup {i} |-> IF j = i THEN SizeOf(i) ELSE sizes[j]]
        PROVE  DOMAIN sizes' \subseteq files /\ \A j \in DOMAIN sizes' : sizes'[j] \in Nat
    <3>1. SizeOf(i) \in Nat
      <4>1. ASSUME i \in DOMAIN disk PROVE Cardinality(disk[i]) \in Nat
        <5>1. IsFiniteSet(1 .. MaxLogged) /\ disk[i] \subseteq 1 .. MaxLogged
          <6>1. IsFiniteSet(1 .. MaxLogged)
            BY FS_Interval
          <6> QED
            BY <1>0, <4>1, <6>1 DEF TypeOK
        <5> QED
          BY <5>1, FS_Subset, FS_CardinalityType
      <4> QED
        BY <4>1 DEF SizeOf
    <3> HIDE DEF SizeOf
    <3> QED
      BY <1>0, <2>1, <3>1 DEF TypeOK
  <2>2. DOMAIN sizes' \subseteq files /\ \A j \in DOMAIN sizes' : sizes'[j] \in Nat
    <3>1. CASE UNCHANGED sizes
      BY <1>0, <1>11, <3>1 DEF TypeOK, Measure
    <3>2. CASE ~UNCHANGED sizes
      <4>1. PICK i \in files :
              /\ IsNext(i)
              /\ sizes' = [j \in DOMAIN sizes \cup {i} |-> IF j = i THEN SizeOf(i) ELSE sizes[j]]
        BY <1>11, <3>2 DEF Measure
      <4> QED
        BY <4>1, <2>1
    <3> QED
      BY <3>1, <3>2
  <2>3. at' \in 0 .. MaxFiles /\ export' \in {"measure", "zip"}
    <3>1. CASE at' = 0 /\ export' = "zip"
      BY <3>1
    <3>2. CASE ~(at' = 0 /\ export' = "zip")
      <4>1. PICK i \in files : at' = i + 1 /\ UNCHANGED export
        BY <1>11, <3>2 DEF Measure
      <4> QED
        BY <1>0, <1>11, <4>1 DEF TypeOK, Measure
    <3> QED
      BY <3>1, <3>2
  <2>4. TypeOK'
    BY <1>0, <1>11, <2>2, <2>3 DEF TypeOK, Measure
  <2> QED
    BY <1>0, <1>11, <2>4 DEF RotationInv, ExportInv, Measure
<1>12. CASE Zip
  BY <1>0, <1>12 DEF TypeOK, RotationInv, ExportInv, Zip, IsNext, Ahead
<1>13. CASE Read
  <2>1. at \in files
    BY <1>0, <1>13 DEF ExportInv, Read
  <2>2. DOMAIN bundle' \subseteq files /\ \A i \in DOMAIN bundle' : bundle'[i] \subseteq Lines
    BY <1>0, <1>13, <2>1 DEF TypeOK, Read, Write
  <2>3. at' \in 0 .. MaxFiles /\ export' \in {"zip", "failed"}
    BY <1>0, <1>13, <2>1 DEF TypeOK, Read
  <2>4. TypeOK'
    BY <1>0, <1>13, <2>2, <2>3 DEF TypeOK, Read
  <2> QED
    BY <1>0, <1>13, <2>4 DEF RotationInv, ExportInv, Read
<1>14. CASE UNCHANGED vars
  BY <1>0, <1>14 DEF TypeOK, RotationInv, ExportInv, vars
<1> QED
  BY <1>1, <1>2, <1>3, <1>4, <1>5, <1>6, <1>7, <1>8, <1>9, <1>10, <1>11, <1>12,
     <1>13, <1>14, <1>15, <1>16 DEF Next

-----------------------------------------------------------------------------
(* The lines. *)

(* The steps that do not touch the files. *)
LEMMA LinesUnchanged ==
  ASSUME UNCHANGED <<disk, logged, failures>>
  PROVE  LineInv => LineInv'
BY DEF LineInv, Kept, OldestLast, NoHoles

(* A line is in the file that has it, and in no other. *)
LEMMA InOneFile ==
  ASSUME TypeOK, OldestLast, NEW i \in DOMAIN disk, NEW j \in DOMAIN disk,
         NEW line \in disk[i], line \in disk[j]
  PROVE  i = j
<1> USE DEF TypeOK, Names, Lines
<1>1. i \in Int /\ j \in Int /\ line \in Int
  BY RotationAssumption
<1>2. ~(i < j) /\ ~(j < i)
  BY <1>1 DEF OldestLast
<1> QED
  BY <1>1, <1>2

(* Files may be created empty, and empty the last files are dropped.  What *)
(* is dropped here is a file that has no other behind it while a newer one *)
(* has lines.                                                              *)
LEMMA DropOldest ==
  ASSUME TypeOK, LineInv, NEW oldest,
         DOMAIN disk' = DOMAIN disk \ {oldest},
         \A i \in DOMAIN disk' : disk'[i] = disk[i],
         \A i \in DOMAIN disk : i <= oldest,
         oldest \in DOMAIN disk => 0 \in DOMAIN disk /\ oldest # 0 /\ disk[0] # {},
         UNCHANGED <<logged, failures>>
  PROVE  LineInv'
<1> USE DEF TypeOK, Names, Lines
<1>1. Kept' \subseteq Kept
  BY DEF Kept
<1>2. OldestLast'
  BY DEF LineInv, OldestLast
<1>3. ASSUME failures = 0 PROVE /\ logged > 0 => logged \in Kept'
                                /\ \A line \in Kept' : line .. logged \subseteq Kept'
  <2>1. ASSUME NEW i \in DOMAIN disk', NEW line \in disk'[i], NEW later \in line .. logged
        PROVE  later \in Kept'
    <3>1. line \in disk[i] /\ later \in Kept /\ i \in DOMAIN disk /\ i # oldest
      BY <1>3, <2>1 DEF LineInv, NoHoles, Kept
    <3>2. PICK j \in DOMAIN disk : later \in disk[j]
      BY <3>1 DEF Kept
    <3>3. j # oldest
      <4>1. ASSUME j = oldest PROVE FALSE
        <5>1. i < j
          BY <3>1, <4>1, RotationAssumption
        <5>2. later < line
          BY <3>1, <3>2, <5>1 DEF LineInv, OldestLast
        <5> QED
          BY <2>1, <3>1, <5>2
      <4> QED
        BY <4>1
    <3> QED
      BY <3>2, <3>3 DEF Kept
  <2>2. ASSUME logged > 0 PROVE logged \in Kept'
    <3>1. PICK j \in DOMAIN disk : logged \in disk[j]
      BY <1>3, <2>2 DEF LineInv, NoHoles, Kept
    <3>2. CASE j # oldest
      BY <3>1, <3>2 DEF Kept
    <3>3. CASE j = oldest
      <4>1. PICK new \in disk[0] : TRUE
        BY <3>1, <3>3
      <4>2. 0 < j /\ 0 \in DOMAIN disk
        BY <3>1, <3>3, RotationAssumption
      <4>3. logged < new
        BY <3>1, <4>1, <4>2 DEF LineInv, OldestLast
      <4>4. new <= logged
        BY <4>1, <4>2 DEF LineInv, Kept
      <4>5. new \in Int /\ logged \in Int
        BY <4>1, <4>2
      <4> QED
        BY <4>3, <4>4, <4>5
    <3> QED
      BY <3>2, <3>3
  <2> QED
    BY <2>1, <2>2 DEF Kept
<1> QED
  BY <1>1, <1>2, <1>3 DEF LineInv, NoHoles

(* A file that moves to the free name just above it. *)
LEMMA MoveUp ==
  ASSUME TypeOK, LineInv, NEW i \in DOMAIN disk,
         disk' = Rename(disk, i, i + 1),
         i + 1 \notin DOMAIN disk \/ failures # 0,
         UNCHANGED <<logged, failures>>
  PROVE  LineInv'
<1> USE DEF TypeOK, Names, Lines
<1>1. i \in Int /\ \A k \in DOMAIN disk : k \in Int
  BY RotationAssumption
<1>2. /\ DOMAIN disk' = (DOMAIN disk \ {i}) \cup {i + 1}
      /\ disk'[i + 1] = disk[i]
      /\ \A k \in DOMAIN disk' : k # i + 1 => k \in DOMAIN disk /\ disk'[k] = disk[k]
  BY <1>1 DEF Rename
<1>3. Kept' \subseteq Kept
  BY <1>2 DEF Kept
<1>4. OldestLast'
  <2>1. SUFFICES ASSUME NEW k \in DOMAIN disk', NEW m \in DOMAIN disk', k < m,
                        NEW old \in disk'[m], NEW new \in disk'[k]
                 PROVE  old < new
    BY DEF OldestLast
  <2>2. CASE k = i + 1
    <3>1. m \in DOMAIN disk /\ i < m /\ old \in disk[m] /\ new \in disk[i]
      BY <1>1, <1>2, <2>1, <2>2
    <3> QED
      BY <3>1 DEF LineInv, OldestLast
  <2>3. CASE m = i + 1
    <3>1. k \in DOMAIN disk /\ k < i /\ old \in disk[i] /\ new \in disk[k]
      BY <1>1, <1>2, <2>1, <2>3
    <3> QED
      BY <3>1 DEF LineInv, OldestLast
  <2>4. CASE k # i + 1 /\ m # i + 1
    BY <1>2, <2>1, <2>4 DEF LineInv, OldestLast
  <2> QED
    BY <2>2, <2>3, <2>4
<1>5. ASSUME failures = 0 PROVE Kept \subseteq Kept'
  <2>1. SUFFICES ASSUME NEW k \in DOMAIN disk, NEW line \in disk[k] PROVE line \in Kept'
    BY DEF Kept
  <2>2. CASE k = i
    BY <1>2, <2>1, <2>2 DEF Kept
  <2>3. CASE k # i
    <3>1. k \in DOMAIN disk' /\ disk'[k] = disk[k]
      BY <1>2, <1>5, <2>1, <2>3
    <3> QED
      BY <2>1, <3>1 DEF Kept
  <2> QED
    BY <2>2, <2>3
<1>6. failures = 0 => Kept' = Kept
  BY <1>3, <1>5
<1> QED
  BY <1>3, <1>4, <1>6 DEF LineInv, NoHoles

(* Only files go, or an empty log comes: order survives, and while nothing *)
(* fails nothing goes.                                                     *)
LEMMA FilesGo ==
  ASSUME LineInv, TypeOK,
         \A i \in DOMAIN disk' : IF i \in DOMAIN disk THEN disk'[i] = disk[i] ELSE disk'[i] = {},
         (DOMAIN disk \subseteq DOMAIN disk' /\ failures' = failures) \/ failures' # 0,
         UNCHANGED logged
  PROVE  LineInv'
<1>1. Kept' \subseteq Kept
  BY DEF Kept
<1>2. OldestLast'
  BY DEF LineInv, OldestLast
<1>3. failures' = 0 => Kept \subseteq Kept' /\ failures = 0
  BY DEF Kept
<1> QED
  BY <1>1, <1>2, <1>3 DEF LineInv, NoHoles

LEMMA LineStep == DiskInv /\ [Next]_vars => LineInv'
<1> SUFFICES ASSUME DiskInv, [Next]_vars PROVE LineInv'
  OBVIOUS
<1> USE RotationAssumption, LogsBounds
<1> USE DEF logVars, faultVars, exportVars
<1>0. TypeOK /\ RotationInv /\ LineInv
  BY DEF DiskInv
<1>1. CASE Log
  <2>1. disk'[0] = disk[0] \cup {logged + 1} /\ DOMAIN disk' = DOMAIN disk
        /\ \A i \in DOMAIN disk : i # 0 => disk'[i] = disk[i]
    BY <1>0, <1>1 DEF Log, RotationInv, TypeOK
  <2>2. 0 \in DOMAIN disk /\ logged' = logged + 1 /\ failures' = failures /\ logged \in Nat
        /\ \A i \in DOMAIN disk : i \in Nat /\ \A line \in disk[i] : line \in Nat
    BY <1>0, <1>1 DEF Log, RotationInv, TypeOK, Names, Lines
  <2>3. Kept' = Kept \cup {logged + 1}
    BY <2>1, <2>2 DEF Kept
  <2>4. OldestLast'
    <3>1. \A i \in DOMAIN disk : \A line \in disk[i] : line <= logged
      BY <1>0 DEF LineInv, Kept
    <3>2. SUFFICES ASSUME NEW i \in DOMAIN disk, NEW j \in DOMAIN disk, i < j,
                          NEW old \in disk'[j], NEW new \in disk'[i]
                   PROVE  old < new
      BY <2>1 DEF OldestLast
    <3>3. old \in disk[j] /\ old \in Nat /\ old <= logged
      BY <2>1, <2>2, <3>1, <3>2
    <3>4. CASE new \in disk[i]
      BY <1>0, <3>2, <3>3, <3>4 DEF LineInv, OldestLast
    <3>5. CASE new \notin disk[i]
      BY <2>1, <2>2, <3>2, <3>3, <3>5
    <3> QED
      BY <3>4, <3>5
  <2>5. NoHoles' /\ \A line \in Kept' : line <= logged'
    <3>1. \A line \in Kept : line \in Nat /\ line <= logged
      BY <1>0, <2>2 DEF LineInv, Kept
    <3>2. \A line \in Kept' : line .. logged' \subseteq {logged + 1} \cup (line .. logged)
      BY <2>2, <2>3, <3>1
    <3> QED
      BY <1>0, <2>2, <2>3, <3>1, <3>2 DEF LineInv, NoHoles
  <2> QED
    BY <2>4, <2>5 DEF LineInv
<1>2. CASE RemoveOldest
  <2>1. CASE MaxFiles > 1
    <3>1. /\ DOMAIN disk' = DOMAIN disk \ {MaxFiles - 1}
          /\ \A i \in DOMAIN disk' : disk'[i] = disk[i]
      BY <1>2, <2>1 DEF RemoveOldest, Remove, Restrict
    <3>2. \A i \in DOMAIN disk : i <= MaxFiles - 1
      BY <1>0, <2>1 DEF TypeOK, Names
    <3>3. 0 \in DOMAIN disk /\ disk[0] # {} /\ MaxFiles - 1 # 0
      BY <1>0, <1>2, <2>1 DEF RotationInv, RemoveOldest
    <3> QED
      BY <1>0, <1>2, <3>1, <3>2, <3>3, DropOldest DEF RemoveOldest
  <2>2. CASE ~(MaxFiles > 1)
    BY <1>0, <1>2, <2>2, LinesUnchanged DEF RemoveOldest
  <2> QED
    BY <2>1, <2>2
<1>3. CASE Shift
  <2>1. slot \in Int /\ MaxFiles > 1
    BY <1>0, <1>3 DEF RotationInv, TypeOK, Shift
  <2>2. slot + 1 \notin DOMAIN disk \/ failures # 0
    BY <1>0, <1>3, <2>1 DEF RotationInv, Shift
  <2>3. CASE slot \in DOMAIN disk
    BY <1>0, <1>3, <2>2, <2>3, MoveUp DEF Shift
  <2>4. CASE slot \notin DOMAIN disk
    BY <1>0, <1>3, <2>4, LinesUnchanged DEF Shift
  <2> QED
    BY <2>3, <2>4
<1>9. CASE RemoveOldestFails
  <2>1. \A i \in DOMAIN disk' : IF i \in DOMAIN disk THEN disk'[i] = disk[i] ELSE disk'[i] = {}
    BY <1>9 DEF RemoveOldestFails
  <2>2. failures' # 0 /\ logged' = logged
    BY <1>0, <1>9 DEF RemoveOldestFails, TypeOK
  <2> QED
    BY <1>0, <2>1, <2>2, FilesGo
<1>4. CASE ShiftFails
  <2>1. \A i \in DOMAIN disk' : IF i \in DOMAIN disk THEN disk'[i] = disk[i] ELSE disk'[i] = {}
    BY <1>4 DEF ShiftFails, Remove, Restrict
  <2>2. failures' # 0 /\ logged' = logged
    BY <1>0, <1>4 DEF ShiftFails, TypeOK
  <2> QED
    BY <1>0, <2>1, <2>2, FilesGo
<1>5. CASE Push
  <2>1. 0 \in DOMAIN disk /\ disk[0] # {} /\ 0 + 1 = 1
    BY <1>0, <1>5 DEF RotationInv, Push
  <2>2. CASE 1 \notin DOMAIN disk \/ failures # 0
    BY <1>0, <1>5, <2>1, <2>2, MoveUp DEF Push
  <2>3. CASE 1 \in DOMAIN disk /\ failures = 0
    <3>1. MaxFiles = 1
      BY <1>0, <1>5, <2>3 DEF RotationInv, Push, TypeOK
    <3>2. DOMAIN disk = {0, 1} /\ logged \in Nat
      BY <1>0, <2>1, <2>3, <3>1 DEF TypeOK, Names
    <3>3. DOMAIN disk' = {1} /\ disk'[1] = disk[0]
      BY <1>5, <3>2 DEF Push, Rename
    <3>4. \A line \in disk[0] \cup disk[1] : line \in Nat /\ line <= logged
      BY <1>0, <3>2 DEF TypeOK, Lines, LineInv, Kept
    <3>5. \A old \in disk[1], new \in disk[0] : old < new
      BY <1>0, <3>2 DEF LineInv, OldestLast
    <3>6. Kept = disk[0] \cup disk[1] /\ Kept' = disk[0]
      BY <3>2, <3>3 DEF Kept
    <3>7. OldestLast'
      BY <3>3 DEF OldestLast
    <3>8. NoHoles'
      <4>1. logged > 0 => logged \in disk[0] \cup disk[1]
        BY <1>0, <2>3, <3>6 DEF LineInv, NoHoles
      <4>2. logged > 0 => logged \in disk[0]
        BY <2>1, <3>2, <3>4, <3>5, <4>1
      <4>3. ASSUME NEW line \in disk[0] PROVE line .. logged \subseteq disk[0]
        <5>1. line .. logged \subseteq disk[0] \cup disk[1]
          BY <1>0, <2>3, <3>6, <4>3 DEF LineInv, NoHoles
        <5>2. \A later \in line .. logged : later \notin disk[1]
          BY <3>4, <3>5, <4>3
        <5> QED
          BY <5>1, <5>2
      <4> QED
        BY <1>5, <3>6, <4>2, <4>3 DEF NoHoles, Push
    <3> QED
      BY <1>5, <3>4, <3>6, <3>7, <3>8 DEF LineInv, Push
  <2> QED
    BY <2>2, <2>3
<1>6. CASE PushFails
  <2>1. \A i \in DOMAIN disk' : IF i \in DOMAIN disk THEN disk'[i] = disk[i] ELSE disk'[i] = {}
    BY <1>6 DEF PushFails, Remove, Restrict
  <2>2. failures' # 0 /\ logged' = logged
    BY <1>0, <1>6 DEF PushFails, TypeOK
  <2> QED
    BY <1>0, <2>1, <2>2, FilesGo
<1>7. CASE Reopen \/ Crash
  <2>1. disk' = OpenForAppend(disk) /\ UNCHANGED <<logged, failures>>
    BY <1>7 DEF Reopen, Crash
  <2>2. /\ DOMAIN disk \subseteq DOMAIN disk'
        /\ \A i \in DOMAIN disk' : IF i \in DOMAIN disk THEN disk'[i] = disk[i]
                                     ELSE disk'[i] = {}
    BY <2>1, Opened
  <2> QED
    BY <1>0, <2>1, <2>2, FilesGo
<1>8. CASE StartExport \/ Collect \/ Measure \/ Zip \/ Read \/ Report \/ UNCHANGED vars
  <2>1. UNCHANGED <<disk, logged, failures>>
    BY <1>8 DEF StartExport, Collect, Measure, Zip, Read, Report, vars
  <2> QED
    BY <1>0, <2>1, LinesUnchanged
<1> QED
  BY <1>1, <1>2, <1>3, <1>4, <1>5, <1>6, <1>7, <1>8, <1>9 DEF Next

-----------------------------------------------------------------------------
(* The export. *)

(* What an export that nothing disturbed has done so far. *)
Collected == {i \in DOMAIN disk : i < MaxFiles}
Measured(i) ==
  IF i = 0 THEN sizes[i] <= Cardinality(disk[i]) ELSE sizes[i] = Cardinality(disk[i])
Zipped(i) ==
  IF i = 0 THEN bundle[i] \subseteq disk[i] /\ sizes[i] <= Cardinality(bundle[i])
    ELSE bundle[i] = disk[i] /\ sizes[i] = Cardinality(disk[i])

QuietInv ==
  ~disturbed =>
    /\ export \notin {"idle", "failed"} => step \in {"ready", "full"}
    /\ export # "failed"
    /\ export = "collect" => files = {i \in DOMAIN disk : i < at}
                             /\ DOMAIN sizes = {} /\ DOMAIN bundle = {}
    /\ export \in {"measure", "zip", "read", "done"} => files = Collected
    /\ export = "measure" => DOMAIN sizes = {i \in files : i < at} /\ DOMAIN bundle = {}
    /\ export \in {"zip", "read", "done"} => DOMAIN sizes = files
    /\ export \in {"zip", "read"} => DOMAIN bundle = {i \in files : i < at}
    /\ export = "done" => DOMAIN bundle = files
    /\ \A i \in DOMAIN sizes : export # "idle" => Measured(i)
    /\ \A i \in DOMAIN bundle : export # "idle" => Zipped(i)

LEMMA FilesFinite ==
  ASSUME TypeOK, NEW i \in DOMAIN disk
  PROVE  IsFiniteSet(disk[i]) /\ Cardinality(disk[i]) \in Nat
<1>1. IsFiniteSet(1 .. MaxLogged)
  BY LogsBounds, FS_Interval
<1>2. disk[i] \subseteq 1 .. MaxLogged
  BY DEF TypeOK, Lines
<1>3. IsFiniteSet(disk[i])
  BY <1>1, <1>2, FS_Subset
<1> QED
  BY <1>3, FS_CardinalityType

LEMMA QuietLog == DiskInv /\ QuietInv /\ Log => QuietInv'
<1> SUFFICES ASSUME DiskInv, QuietInv, Log, ~disturbed PROVE QuietInv'
  BY DEF QuietInv, Log
<1> USE DEF logVars, faultVars, exportVars
<1>1. /\ 0 \in DOMAIN disk /\ DOMAIN disk' = DOMAIN disk
      /\ disk'[0] = disk[0] \cup {logged + 1}
      /\ \A i \in DOMAIN disk : i # 0 => disk'[i] = disk[i]
  BY DEF DiskInv, Log, RotationInv, TypeOK
<1>2. UNCHANGED <<exportVars, disturbed>> /\ step' \in {"ready", "full"}
  BY DEF Log
<1>3. Cardinality(disk[0]) \in Nat /\ Cardinality(disk'[0]) \in Nat
      /\ Cardinality(disk[0]) <= Cardinality(disk'[0])
  <2>1. IsFiniteSet(disk[0]) /\ Cardinality(disk[0]) \in Nat
    BY <1>1, FilesFinite DEF DiskInv
  <2>2. IsFiniteSet(disk'[0])
    BY <1>1, <2>1, FS_AddElement
  <2>3. disk[0] \subseteq disk'[0]
    BY <1>1
  <2> QED
    BY <2>1, <2>2, <2>3, FS_Subset, FS_CardinalityType
<1>7. export # "idle" => files \subseteq DOMAIN disk
  BY DEF QuietInv, Collected, DiskInv, TypeOK
<1>4. ASSUME NEW i \in DOMAIN sizes, export # "idle" PROVE Measured(i)'
  <2>1. Measured(i) /\ i \in files /\ sizes[i] \in Nat
    BY <1>4 DEF QuietInv, DiskInv, TypeOK
  <2>2. i \in DOMAIN disk
    BY <1>4, <1>7, <2>1
  <2>3. sizes' = sizes
    BY <1>2
  <2>4. CASE i = 0
    <3>1. sizes[0] <= Cardinality(disk[0])
      BY <2>1, <2>4 DEF Measured
    <3>2. sizes'[0] <= Cardinality(disk'[0])
      BY <1>3, <2>1, <2>3, <2>4, <3>1
    <3> QED
      BY <2>4, <3>2 DEF Measured
  <2>5. CASE i # 0
    BY <1>1, <2>1, <2>2, <2>3, <2>5 DEF Measured
  <2> QED
    BY <2>4, <2>5
<1>5. ASSUME NEW i \in DOMAIN bundle, export # "idle" PROVE Zipped(i)'
  <2>1. Zipped(i) /\ i \in files
    BY <1>5 DEF QuietInv, DiskInv, TypeOK
  <2>2. i \in DOMAIN disk
    BY <1>5, <1>7, <2>1
  <2> QED
    BY <1>1, <1>2, <2>1, <2>2 DEF Zipped
<1>6. Collected' = Collected
  BY <1>1 DEF Collected
<1> QED
  BY <1>1, <1>2, <1>4, <1>5, <1>6 DEF QuietInv

LEMMA QuietMeasure == DiskInv /\ QuietInv /\ Measure => QuietInv'
<1> SUFFICES ASSUME DiskInv, QuietInv, Measure, ~disturbed PROVE QuietInv'
  BY DEF QuietInv, Measure
<1> USE DEF logVars, faultVars, exportVars
<1>1. /\ UNCHANGED <<disk, step, files, bundle, disturbed>> /\ export = "measure"
      /\ step \in {"ready", "full"}
      /\ files = Collected /\ Collected' = Collected
      /\ DOMAIN sizes = {i \in files : i < at} /\ DOMAIN bundle = {}
      /\ \A i \in DOMAIN sizes : Measured(i)
  BY DEF Measure, QuietInv, Collected
<1>2. \A i \in files : i \in Int /\ at \in Int
  BY RotationAssumption DEF DiskInv, TypeOK
<1>3. CASE Ahead = {} /\ at' = 0 /\ export' = "zip" /\ UNCHANGED sizes
  <2>1. DOMAIN sizes' = files'
    BY <1>1, <1>2, <1>3 DEF Ahead
  <2>2. DOMAIN bundle' = {i \in files' : i < at'}
    <3>1. \A i \in files : i >= 0
      BY RotationAssumption DEF DiskInv, TypeOK
    <3> QED
      BY <1>1, <1>2, <1>3, <3>1
  <2>3. \A i \in DOMAIN sizes' : Measured(i)'
    BY <1>1, <1>3 DEF Measured
  <2> QED
    BY <1>1, <1>3, <2>1, <2>2, <2>3 DEF QuietInv
<1>4. CASE \E i \in files :
             /\ IsNext(i)
             /\ sizes' = [j \in DOMAIN sizes \cup {i} |-> IF j = i THEN SizeOf(i) ELSE sizes[j]]
             /\ at' = i + 1 /\ UNCHANGED export
  <2>1. PICK i \in files :
             /\ IsNext(i)
             /\ sizes' = [j \in DOMAIN sizes \cup {i} |-> IF j = i THEN SizeOf(i) ELSE sizes[j]]
             /\ at' = i + 1 /\ UNCHANGED export
    BY <1>4
  <2>2. i >= at /\ \A j \in files : j >= at => i <= j
    BY <2>1 DEF IsNext, Ahead
  <2>3. DOMAIN sizes' = {j \in files' : j < at'}
    <3>1. DOMAIN sizes' = {j \in files : j < at} \cup {i}
      BY <1>1, <2>1
    <3>2. \A j \in files : j < i + 1 <=> j < at \/ j = i
      BY <1>2, <2>2
    <3> QED
      BY <1>1, <2>1, <3>1, <3>2
  <2>4. SizeOf(i) = Cardinality(disk[i]) /\ Cardinality(disk[i]) \in Nat
    BY <1>1, FilesFinite DEF SizeOf, Collected, DiskInv
  <2>5. \A j \in DOMAIN sizes' : Measured(j)'
    <3>1. Measured(i)'
      BY <1>1, <2>1, <2>4 DEF Measured
    <3>2. ASSUME NEW j \in DOMAIN sizes, j # i PROVE Measured(j)'
      BY <1>1, <2>1, <3>2 DEF Measured
    <3> QED
      BY <2>1, <3>1, <3>2
  <2> QED
    BY <1>1, <2>1, <2>3, <2>5 DEF QuietInv
<1> QED
  BY <1>3, <1>4 DEF Measure

LEMMA QuietZip == DiskInv /\ QuietInv /\ Zip => QuietInv'
<1> SUFFICES ASSUME DiskInv, QuietInv, Zip, ~disturbed PROVE QuietInv'
  BY DEF QuietInv, Zip
<1> USE DEF logVars, faultVars, exportVars
<1>1. /\ UNCHANGED <<disk, step, files, sizes, bundle, disturbed>> /\ export = "zip"
      /\ step \in {"ready", "full"}
      /\ files = Collected /\ Collected' = Collected
      /\ DOMAIN sizes = files /\ DOMAIN bundle = {i \in files : i < at}
      /\ \A i \in DOMAIN sizes : Measured(i)
      /\ \A i \in DOMAIN bundle : Zipped(i)
  BY DEF Zip, QuietInv, Collected
<1>2. \A i \in files : i \in Int /\ at \in Int
  BY RotationAssumption DEF DiskInv, TypeOK
<1>3. /\ \A i \in DOMAIN sizes' : Measured(i)'
      /\ \A i \in DOMAIN bundle' : Zipped(i)'
  BY <1>1 DEF Measured, Zipped
<1>4. CASE Ahead = {} /\ export' = "done" /\ UNCHANGED at
  <2>1. DOMAIN bundle' = files'
    BY <1>1, <1>2, <1>4 DEF Ahead
  <2> QED
    BY <1>1, <1>3, <1>4, <2>1 DEF QuietInv
<1>5. ASSUME NEW i \in files, IsNext(i),
             IF i \in DOMAIN disk THEN export' = "read" /\ at' = i
               ELSE at' = i + 1 /\ UNCHANGED export
      PROVE  QuietInv'
  <2>1. export' = "read" /\ at' = i
    BY <1>1, <1>5 DEF Collected
  <2>2. i >= at /\ \A j \in files : j >= at => i <= j
    BY <1>5 DEF IsNext, Ahead
  <2>3. \A j \in files : j < i <=> j < at
    BY <1>2, <2>2
  <2>4. DOMAIN bundle' = {j \in files' : j < at'}
    BY <1>1, <2>1, <2>3
  <2> QED
    BY <1>1, <1>3, <2>1, <2>4 DEF QuietInv
<1> QED
  BY <1>4, <1>5 DEF Zip

LEMMA QuietRead == DiskInv /\ QuietInv /\ Read => QuietInv'
<1> SUFFICES ASSUME DiskInv, QuietInv, Read, ~disturbed PROVE QuietInv'
  BY DEF QuietInv, Read
<1> USE DEF logVars, faultVars, exportVars
<1>1. /\ UNCHANGED <<disk, step, files, sizes, disturbed>> /\ export = "read"
      /\ step \in {"ready", "full"}
      /\ files = Collected /\ Collected' = Collected
      /\ DOMAIN sizes = files /\ DOMAIN bundle = {i \in files : i < at}
      /\ \A i \in DOMAIN sizes : Measured(i)
      /\ \A i \in DOMAIN bundle : Zipped(i)
  BY DEF Read, QuietInv, Collected
<1>2. at \in files /\ at \in DOMAIN disk /\ \A i \in files : i \in Int
  BY <1>1, RotationAssumption DEF DiskInv, ExportInv, TypeOK, Collected
<1>3. /\ export' = "zip" /\ at' = at + 1
      /\ DOMAIN bundle' = DOMAIN bundle \cup {at} /\ bundle'[at] = disk[at]
      /\ \A i \in DOMAIN bundle : i # at => bundle'[i] = bundle[i]
  BY <1>2 DEF Read, Write
<1>4. DOMAIN bundle' = {i \in files' : i < at'}
  <2>1. \A i \in files : i < at + 1 <=> i < at \/ i = at
    BY <1>2
  <2> QED
    BY <1>1, <1>2, <1>3, <2>1
<1>5. ASSUME NEW i, i = at PROVE Zipped(i)'
  <2>1. Measured(i) /\ bundle'[i] = disk[i] /\ disk' = disk /\ sizes' = sizes
    BY <1>1, <1>2, <1>3, <1>5
  <2> QED
    BY <2>1 DEF Measured, Zipped
<1>6. ASSUME NEW i \in DOMAIN bundle, i # at PROVE Zipped(i)'
  BY <1>1, <1>3, <1>6 DEF Zipped
<1>7. \A i \in DOMAIN sizes' : Measured(i)'
  BY <1>1 DEF Measured
<1>8. \A i \in DOMAIN bundle' : Zipped(i)'
  BY <1>3, <1>5, <1>6
<1> QED
  BY <1>1, <1>3, <1>4, <1>7, <1>8 DEF QuietInv

LEMMA QuietCollect == DiskInv /\ QuietInv /\ Collect => QuietInv'
<1> SUFFICES ASSUME DiskInv, QuietInv, Collect, ~disturbed PROVE QuietInv'
  BY DEF QuietInv, Collect
<1> USE DEF logVars, faultVars, exportVars
<1>1. /\ UNCHANGED <<disk, step, sizes, bundle, disturbed>> /\ export = "collect"
      /\ step \in {"ready", "full"}
      /\ files = {i \in DOMAIN disk : i < at}
      /\ DOMAIN sizes = {} /\ DOMAIN bundle = {}
  BY DEF Collect, QuietInv
<1>2. /\ at \in Nat /\ at < MaxFiles /\ MaxFiles \in Nat
      /\ \A i \in DOMAIN disk : i \in Int /\ i >= 0
  BY <1>1, RotationAssumption DEF DiskInv, ExportInv, TypeOK, Names
<1>3. files' = {i \in DOMAIN disk : i < at + 1}
  <2>1. \A i \in DOMAIN disk : i < at + 1 <=> i < at \/ i = at
    BY <1>2
  <2> QED
    BY <1>1, <2>1 DEF Collect
<1>4. CASE at < MaxFiles - 1
  BY <1>1, <1>3, <1>4 DEF QuietInv, Collect
<1>5. CASE ~(at < MaxFiles - 1)
  <2>1. at + 1 = MaxFiles /\ at' = 0 /\ export' = "measure"
    BY <1>2, <1>5 DEF Collect
  <2>2. files' = Collected'
    BY <1>1, <1>3, <2>1 DEF Collected
  <2>3. DOMAIN sizes' = {i \in files' : i < at'}
    BY <1>1, <1>2, <1>3, <2>1
  <2> QED
    BY <1>1, <2>1, <2>2, <2>3 DEF QuietInv
<1> QED
  BY <1>4, <1>5

LEMMA QuietStep == DiskInv /\ QuietInv /\ [Next]_vars => QuietInv'
<1> SUFFICES ASSUME DiskInv, QuietInv, [Next]_vars PROVE QuietInv'
  OBVIOUS
<1> USE DEF logVars, faultVars, exportVars
<1>1. CASE Log \/ Collect \/ Measure \/ Zip \/ Read
  BY <1>1, QuietLog, QuietCollect, QuietMeasure, QuietZip, QuietRead
<1>2. CASE RemoveOldest \/ RemoveOldestFails
  BY <1>2 DEF RemoveOldest, RemoveOldestFails, QuietInv
<1>3. CASE Shift \/ ShiftFails \/ Push \/ PushFails \/ Reopen
  BY <1>3 DEF Shift, ShiftFails, Push, PushFails, Reopen, QuietInv
<1>4. CASE Report \/ Crash
  BY <1>4 DEF Report, Crash, QuietInv
<1>5. CASE StartExport
  <2>1. DOMAIN sizes' = {} /\ DOMAIN bundle' = {} /\ files' = {} /\ at' = 0
    BY <1>5 DEF StartExport, Nothing
  <2>2. \A i \in DOMAIN disk' : i \in Int /\ ~(i < at')
    BY <1>5, <2>1, RotationAssumption DEF StartExport, DiskInv, TypeOK, Names
  <2> QED
    BY <1>5, <2>1, <2>2 DEF StartExport, QuietInv
<1>6. CASE UNCHANGED vars
  BY <1>6 DEF vars, QuietInv, Collected, Measured, Zipped
<1> QED
  BY <1>1, <1>2, <1>3, <1>4, <1>5, <1>6 DEF Next

-----------------------------------------------------------------------------
(* The lines that are kept. *)

(* How many lines are newer than those of a file.  Every backup was full   *)
(* when it was pushed; each crash in the middle of a rotation leaves one   *)
(* name free, as does, until its end, the rotation that is going on.       *)
Full(n) == n * MaxLines
InLog == IF 0 \in DOMAIN disk THEN Cardinality(disk[0]) ELSE 0
Below(i) == IF step = "shift" /\ i > slot + 1 THEN i - 2 - crashes ELSE i - 1 - crashes

DepthInv ==
  /\ step \in {"full", "shift"} => InLog >= MaxLines
  /\ failures = 0 =>
       \A i \in DOMAIN disk \ {0} : \A line \in disk[i] :
         line + InLog + Full(Below(i)) <= logged

(* What RecentKept promises, as an interval of lines: it moves with the    *)
(* last line, where a cardinality would have to be counted again.          *)
Promised == Full(MaxFiles - 1 - crashes)

RecentInv ==
  failures = 0 =>
    \/ 1 .. logged \subseteq Kept
    \/ Promised <= logged /\ logged - Promised + 1 .. logged \subseteq Kept

LEMMA Fulls ==
  /\ \A n \in Int : Full(n) \in Int /\ Full(n + 1) = Full(n) + MaxLines
  /\ \A n \in Int : n <= 0 => Full(n) <= 0
BY RotationAssumption DEF Full

LEMMA InLogType == TypeOK => InLog \in Nat
BY FilesFinite DEF InLog

LEMMA DepthLog == DiskInv /\ DepthInv /\ Log => DepthInv'
<1> SUFFICES ASSUME DiskInv, DepthInv, Log PROVE DepthInv'
  OBVIOUS
<1> USE DEF logVars, faultVars, exportVars
<1>0. TypeOK /\ RotationInv /\ LineInv
  BY DEF DiskInv
<1>1. /\ step = "ready" /\ step' \in {"ready", "full"} /\ logged' = logged + 1
      /\ UNCHANGED <<slot, failures, crashes>>
      /\ step' = "full" => ~(Cardinality(disk'[0]) < MaxLines)
  BY DEF Log
<1>2. /\ 0 \in DOMAIN disk /\ DOMAIN disk' = DOMAIN disk
      /\ disk'[0] = disk[0] \cup {logged + 1}
      /\ \A i \in DOMAIN disk \ {0} : disk'[i] = disk[i]
  BY <1>0 DEF Log, RotationInv
<1>3. InLog' = InLog + 1 /\ InLog \in Nat
  <2>1. logged \in Nat /\ \A line \in disk[0] : line <= logged
    BY <1>0, <1>2, LogsBounds DEF TypeOK, LineInv, Kept
  <2>2. logged + 1 \notin disk[0]
    BY <2>1
  <2>3. IsFiniteSet(disk[0]) /\ Cardinality(disk[0]) \in Nat
    BY <1>0, <1>2, FilesFinite
  <2>4. Cardinality(disk'[0]) = Cardinality(disk[0]) + 1
    BY <1>2, <2>2, <2>3, FS_AddElement
  <2> QED
    BY <1>2, <2>3, <2>4 DEF InLog
<1>4. step' = "full" => InLog' >= MaxLines
  BY <1>1, <1>2, <1>3, RotationAssumption DEF InLog
<1>5. ASSUME failures = 0, NEW i \in DOMAIN disk \ {0}, NEW line \in disk[i]
      PROVE  line + InLog' + Full(Below(i))' <= logged'
  <2>1. line \in Int /\ i \in Int /\ crashes \in Int /\ logged \in Int
    BY <1>0, <1>5, RotationAssumption, LogsBounds DEF TypeOK, Names, Lines
  <2>2. Below(i)' = Below(i) /\ Below(i) \in Int
    BY <1>1, <2>1 DEF Below
  <2>3. Full(Below(i)) \in Int /\ Full(Below(i))' = Full(Below(i))
    BY <2>2, Fulls DEF Full
  <2>4. line + InLog + Full(Below(i)) <= logged
    BY <1>5 DEF DepthInv
  <2> QED
    BY <1>1, <1>3, <2>1, <2>3, <2>4
<1> QED
  BY <1>1, <1>2, <1>4, <1>5 DEF DepthInv

(* A step that moves no line but lets a crash or the rotation count.       *)
LEMMA DepthKept ==
  ASSUME TypeOK, DepthInv,
         \A i \in DOMAIN disk' : IF i \in DOMAIN disk THEN disk'[i] = disk[i] ELSE disk'[i] = {},
         0 \in DOMAIN disk => 0 \in DOMAIN disk',
         UNCHANGED logged,
         failures' = 0 => failures = 0,
         failures' = 0 => \A i \in DOMAIN disk' \ {0} :
                            Below(i)' \in {Below(i), Below(i) - 1},
         step' \in {"full", "shift"} => step \in {"full", "shift"}
  PROVE  DepthInv'
<1>1. InLog' = InLog /\ InLog \in Nat
  BY InLogType, FS_EmptySet DEF InLog
<1>2. ASSUME failures' = 0, NEW i \in DOMAIN disk' \ {0}, NEW line \in disk'[i]
      PROVE  line + InLog + Full(Below(i))' <= logged
  <2>1. i \in DOMAIN disk \ {0} /\ line \in disk[i]
    BY <1>2
  <2>2. line + InLog + Full(Below(i)) <= logged
    BY <1>2, <2>1 DEF DepthInv
  <2>3. line \in Int /\ i \in Int /\ crashes \in Int /\ logged \in Int /\ slot \in Int
    BY <2>1, RotationAssumption, LogsBounds DEF TypeOK, Names, Lines
  <2>4. Below(i) \in Int
    BY <2>3 DEF Below
  <2>5. Full(Below(i))' = Full(Below(i)')
    BY DEF Full
  <2>6. Full(Below(i)) \in Int /\ Full(Below(i) - 1) \in Int
        /\ Full(Below(i) - 1) <= Full(Below(i))
    <3>1. Below(i) - 1 \in Int /\ (Below(i) - 1) + 1 = Below(i)
      BY <2>4
    <3> QED
      BY <2>4, <3>1, Fulls, RotationAssumption
  <2>7. Below(i)' \in {Below(i), Below(i) - 1}
    BY <1>2
  <2> QED
    BY <1>1, <2>2, <2>3, <2>5, <2>6, <2>7
<1> QED
  BY <1>1, <1>2 DEF DepthInv

LEMMA DepthShift ==
  ASSUME DiskInv, DepthInv, Shift, slot \in DOMAIN disk
  PROVE  DepthInv'
<1> USE RotationAssumption, LogsBounds
<1> USE DEF logVars, faultVars, exportVars
<1>0. TypeOK /\ RotationInv
  BY DEF DiskInv
<1>1. /\ step = "shift" /\ slot' = slot - 1 /\ slot >= 1 /\ slot \in Int
      /\ UNCHANGED <<step, logged, crashes, failures>>
      /\ disk' = Rename(disk, slot, slot + 1)
      /\ failures = 0 => slot + 1 \notin DOMAIN disk
  BY <1>0 DEF Shift, RotationInv, TypeOK
<1>2. /\ DOMAIN disk' = (DOMAIN disk \ {slot}) \cup {slot + 1}
      /\ disk'[slot + 1] = disk[slot]
      /\ \A k \in DOMAIN disk : k # slot /\ k # slot + 1 => disk'[k] = disk[k]
  BY <1>1 DEF Rename
<1>3. InLog' = InLog /\ InLog >= MaxLines
  BY <1>0, <1>1, <1>2 DEF DepthInv, InLog, RotationInv
<1>4. ASSUME failures = 0, NEW i \in DOMAIN disk' \ {0}, NEW line \in disk'[i]
      PROVE  line + InLog + Full(Below(i))' <= logged
  <2>1. PICK j \in DOMAIN disk \ {0} :
          line \in disk[j] /\ j = IF i = slot + 1 THEN slot ELSE i
    BY <1>1, <1>2, <1>4
  <2>2. j \in Int /\ i \in Int /\ crashes \in Int
    BY <1>0, <1>1, <2>1 DEF TypeOK, Names
  <2>3. Below(i)' = Below(j)
    <3>1. CASE i = slot + 1
      BY <1>1, <2>1, <2>2, <3>1 DEF Below
    <3>2. CASE i # slot + 1
      <4>1. i = j /\ i # slot
        BY <1>1, <1>2, <1>4, <2>1, <3>2
      <4> QED
        BY <1>1, <2>2, <3>2, <4>1 DEF Below
    <3> QED
      BY <3>1, <3>2
  <2>4. Full(Below(i))' = Full(Below(j))
    BY <2>3 DEF Full
  <2>5. line + InLog + Full(Below(j)) <= logged
    BY <1>4, <2>1 DEF DepthInv
  <2> QED
    BY <2>4, <2>5
<1> QED
  BY <1>1, <1>3, <1>4 DEF DepthInv

LEMMA DepthPush == DiskInv /\ DepthInv /\ Push => DepthInv'
<1> SUFFICES ASSUME DiskInv, DepthInv, Push PROVE DepthInv'
  OBVIOUS
<1> USE RotationAssumption, LogsBounds
<1> USE DEF logVars, faultVars, exportVars
<1>0. TypeOK /\ RotationInv /\ LineInv
  BY DEF DiskInv
<1>1. /\ step = "shift" /\ step' = "reopen" /\ slot \in Int /\ slot <= 0
      /\ UNCHANGED <<slot, logged, crashes, failures>>
  BY <1>0 DEF Push, TypeOK
<1>2. /\ DOMAIN disk' = (DOMAIN disk \ {0}) \cup {1} /\ disk'[1] = disk[0]
      /\ \A i \in DOMAIN disk' \ {1} : disk'[i] = disk[i]
      /\ 0 \in DOMAIN disk
  BY <1>0 DEF Push, Rename, RotationInv
<1>3. InLog' = 0 /\ InLog >= MaxLines /\ InLog \in Nat
  BY <1>0, <1>1, <1>2, InLogType DEF InLog, DepthInv
<1>4. ASSUME failures = 0, NEW i \in DOMAIN disk' \ {0}, NEW line \in disk'[i]
      PROVE  line + InLog' + Full(Below(i))' <= logged
  <2>1. i \in Int /\ crashes \in Nat /\ logged \in Nat /\ i >= 1
    BY <1>0, <1>2 DEF TypeOK, Names
  <2>2. Below(i)' = i - 1 - crashes
    BY <1>1 DEF Below
  <2>3. Full(Below(i))' = Full(i - 1 - crashes)
    BY <2>2 DEF Full
  <2>4. CASE i = 1
    <3>1. line \in disk[0] /\ line \in Int /\ line <= logged
      BY <1>0, <1>2, <1>4, <2>4 DEF LineInv, Kept, TypeOK, Lines
    <3>2. i - 1 - crashes \in Int /\ i - 1 - crashes <= 0
      BY <2>1, <2>4
    <3>3. Full(i - 1 - crashes) \in Int /\ Full(i - 1 - crashes) <= 0
      BY <3>2, Fulls
    <3> QED
      BY <1>3, <2>1, <2>3, <3>1, <3>3
  <2>5. CASE i # 1
    <3>1. i \in DOMAIN disk \ {0} /\ line \in disk[i] /\ line \in Int
      BY <1>0, <1>2, <1>4, <2>5 DEF TypeOK, Lines
    <3>2. Below(i) = i - 2 - crashes
      BY <1>1, <2>1, <2>5 DEF Below
    <3>3. line + InLog + Full(i - 2 - crashes) <= logged
      BY <1>4, <3>1, <3>2 DEF DepthInv
    <3>4. /\ i - 2 - crashes \in Int
          /\ (i - 2 - crashes) + 1 = i - 1 - crashes
      BY <2>1
    <3>5. Full(i - 1 - crashes) = Full(i - 2 - crashes) + MaxLines
          /\ Full(i - 2 - crashes) \in Int
      BY <3>4, Fulls
    <3> QED
      BY <1>3, <2>1, <2>3, <3>1, <3>3, <3>5
  <2> QED
    BY <2>4, <2>5
<1> QED
  BY <1>1, <1>4 DEF DepthInv

LEMMA DepthStep == DiskInv /\ DepthInv /\ [Next]_vars => DepthInv'
<1> SUFFICES ASSUME DiskInv, DepthInv, [Next]_vars PROVE DepthInv'
  OBVIOUS
<1> USE RotationAssumption, LogsBounds
<1> USE DEF logVars, faultVars, exportVars
<1>0. TypeOK /\ RotationInv
  BY DEF DiskInv
<1>1. \A i \in DOMAIN disk : i \in Int
  BY <1>0 DEF TypeOK, Names
<1>2. slot \in Int /\ crashes \in Nat /\ failures \in Nat /\ MaxFiles \in Nat
  BY <1>0 DEF TypeOK
<1>3. CASE RemoveOldest
  <2>1. /\ DOMAIN disk' = IF MaxFiles > 1 THEN DOMAIN disk \ {MaxFiles - 1} ELSE DOMAIN disk
        /\ \A i \in DOMAIN disk' : disk'[i] = disk[i]
    BY <1>3 DEF RemoveOldest, Remove, Restrict
  <2>2. ASSUME NEW i \in DOMAIN disk' \ {0} PROVE Below(i)' \in {Below(i), Below(i) - 1}
    <3>1. CASE MaxFiles > 1
      <4>1. i <= slot' + 1 /\ crashes' = crashes
        BY <1>0, <1>1, <1>2, <1>3, <2>1, <3>1 DEF RemoveOldest, TypeOK, Names
      <4> QED
        BY <1>1, <1>2, <1>3, <4>1, <2>1 DEF RemoveOldest, Below
    <3>2. CASE ~(MaxFiles > 1)
      BY <1>0, <1>1, <1>2, <1>3, <2>1, <3>2 DEF RemoveOldest, Below
    <3> QED
      BY <3>1, <3>2
  <2>3. 0 \in DOMAIN disk => 0 \in DOMAIN disk'
    BY <1>2, <2>1
  <2>4. UNCHANGED <<logged, failures>> /\ step = "full"
    BY <1>3 DEF RemoveOldest
  <2> QED
    BY <1>0, <2>1, <2>2, <2>3, <2>4, DepthKept
<1>4. CASE Shift /\ slot \notin DOMAIN disk
  <2>1. UNCHANGED <<disk, step, logged, crashes, failures>> /\ slot' = slot - 1 /\ step = "shift"
    BY <1>4 DEF Shift
  <2>2. failures = 0 => slot + 1 \notin DOMAIN disk
    BY <1>0, <1>2, <1>4 DEF Shift, RotationInv
  <2>3. ASSUME failures = 0, NEW i \in DOMAIN disk \ {0} PROVE Below(i)' = Below(i)
    <3>1. i # slot /\ i # slot + 1 /\ i \in Int
      BY <1>1, <1>4, <2>2, <2>3
    <3>2. i > slot' + 1 <=> i > slot + 1
      BY <1>2, <2>1, <3>1
    <3> QED
      BY <2>1, <3>2 DEF Below
  <2> QED
    BY <1>0, <2>1, <2>3, DepthKept
<1>5. CASE RemoveOldestFails \/ ShiftFails \/ PushFails
  <2>1. /\ \A i \in DOMAIN disk' : i \in DOMAIN disk /\ disk'[i] = disk[i]
        /\ 0 \in DOMAIN disk => 0 \in DOMAIN disk'
    BY <1>2, <1>5 DEF RemoveOldestFails, ShiftFails, PushFails, Remove, Restrict
  <2>2. failures' # 0 /\ logged' = logged
        /\ (step' \in {"full", "shift"} => step \in {"full", "shift"})
    BY <1>2, <1>5 DEF RemoveOldestFails, ShiftFails, PushFails
  <2> QED
    BY <1>0, <2>1, <2>2, DepthKept
<1>6. CASE Reopen \/ Crash
  <2>1. disk' = OpenForAppend(disk) /\ UNCHANGED <<logged, failures, slot>> /\ step' = "ready"
    BY <1>6 DEF Reopen, Crash
  <2>2. /\ DOMAIN disk' = DOMAIN disk \cup {0}
        /\ \A i \in DOMAIN disk' : IF i \in DOMAIN disk THEN disk'[i] = disk[i]
                                     ELSE disk'[i] = {}
    BY <2>1, Opened
  <2>3. ASSUME NEW i \in DOMAIN disk' \ {0} PROVE Below(i)' \in {Below(i), Below(i) - 1}
    <3>1. i \in Int
      BY <1>1, <2>2
    <3>2. CASE Reopen
      BY <1>2, <2>1, <3>1, <3>2 DEF Reopen, Below
    <3>3. CASE Crash
      BY <1>2, <2>1, <3>1, <3>3 DEF Crash, Below
    <3> QED
      BY <1>6, <3>2, <3>3
  <2> QED
    BY <1>0, <2>1, <2>2, <2>3, DepthKept
<1>7. CASE StartExport \/ Collect \/ Measure \/ Zip \/ Read \/ Report \/ UNCHANGED vars
  <2>1. UNCHANGED <<disk, step, slot, logged, crashes, failures>>
    BY <1>7 DEF StartExport, Collect, Measure, Zip, Read, Report, vars
  <2> QED
    BY <2>1 DEF DepthInv, InLog, Below, Full
<1> QED
  BY <1>3, <1>4, <1>5, <1>6, <1>7, DepthLog, DepthShift, DepthPush DEF Next

(* A step that keeps every line keeps the promise, and so does one that    *)
(* drops none but lines older than those promised.                         *)
LEMMA PromiseKept ==
  ASSUME TypeOK, RecentInv, Kept \subseteq Kept' \/ failures' # 0,
         failures' = 0 => failures = 0,
         UNCHANGED logged, crashes' \in {crashes, crashes + 1}
  PROVE  RecentInv'
<1> SUFFICES ASSUME failures' = 0 PROVE RecentInv'
  BY DEF RecentInv
<1>1. logged \in Int /\ MaxFiles - 1 - crashes \in Int
  BY RotationAssumption, LogsBounds DEF TypeOK
<1>2. Promised' \in {Full(MaxFiles - 1 - crashes), Full(MaxFiles - 1 - (crashes + 1))}
  BY DEF Promised, Full
<1>3. /\ MaxFiles - 1 - (crashes + 1) \in Int
      /\ (MaxFiles - 1 - (crashes + 1)) + 1 = MaxFiles - 1 - crashes
  BY <1>1, RotationAssumption, LogsBounds DEF TypeOK
<1>4. Promised \in Int /\ Promised' \in Int /\ Promised' <= Promised
  <2>1. Full(MaxFiles - 1 - crashes) = Full(MaxFiles - 1 - (crashes + 1)) + MaxLines
    BY <1>3, Fulls
  <2>2. Full(MaxFiles - 1 - (crashes + 1)) \in Int /\ Full(MaxFiles - 1 - crashes) \in Int
    BY <1>1, <1>3, Fulls
  <2> QED
    BY <1>2, <2>1, <2>2, RotationAssumption DEF Promised
<1>5. CASE 1 .. logged \subseteq Kept
  BY <1>5 DEF RecentInv
<1>6. CASE Promised <= logged /\ logged - Promised + 1 .. logged \subseteq Kept
  <2>1. Promised' <= logged
    BY <1>1, <1>4, <1>6
  <2>2. logged - Promised' + 1 .. logged \subseteq logged - Promised + 1 .. logged
    <3>1. ASSUME NEW last \in Int, NEW fewer \in Int, NEW more \in Int, fewer <= more
          PROVE  last - fewer + 1 .. last \subseteq last - more + 1 .. last
      BY <3>1
    <3> QED
      BY <1>1, <1>4, <3>1
  <2> QED
    BY <1>6, <2>1, <2>2 DEF RecentInv
<1> QED
  BY <1>5, <1>6 DEF RecentInv

LEMMA PromiseLog == DiskInv /\ RecentInv /\ Log => RecentInv'
<1> SUFFICES ASSUME DiskInv, RecentInv, Log, failures = 0 PROVE RecentInv'
  BY DEF RecentInv, Log, faultVars
<1> USE DEF logVars, faultVars, exportVars
<1>0. TypeOK /\ RotationInv
  BY DEF DiskInv
<1>1. /\ 0 \in DOMAIN disk /\ DOMAIN disk' = DOMAIN disk
      /\ disk'[0] = disk[0] \cup {logged + 1}
      /\ \A i \in DOMAIN disk \ {0} : disk'[i] = disk[i]
  BY <1>0 DEF Log, RotationInv
<1>2. Kept' = Kept \cup {logged + 1}
  BY <1>1 DEF Kept
<1>3. logged' = logged + 1 /\ logged \in Int /\ MaxFiles - 1 - crashes \in Int
  BY <1>0, RotationAssumption, LogsBounds DEF TypeOK, Log
<1>4. Promised' = Promised /\ Promised \in Int
  BY <1>3, Fulls DEF Promised, Full, Log
<1>5. CASE 1 .. logged \subseteq Kept
  <2>1. 1 .. logged' \subseteq Kept'
    BY <1>2, <1>3, <1>5
  <2> QED
    BY <2>1 DEF RecentInv
<1>6. CASE Promised <= logged /\ logged - Promised + 1 .. logged \subseteq Kept
  <2>1. Promised <= logged'
    BY <1>3, <1>4, <1>6
  <2>2. logged' - Promised + 1 .. logged' \subseteq (logged - Promised + 1 .. logged) \cup {logged + 1}
    BY <1>3, <1>4
  <2>3. logged' - Promised' + 1 .. logged' \subseteq Kept'
    BY <1>2, <1>4, <1>6, <2>2
  <2> QED
    BY <1>4, <2>1, <2>3 DEF RecentInv
<1> QED
  BY <1>5, <1>6 DEF RecentInv

LEMMA PromiseRemoveOldest ==
  ASSUME DiskInv, DepthInv, RecentInv, RemoveOldest, MaxFiles > 1
  PROVE  RecentInv'
<1> USE RotationAssumption, LogsBounds
<1> USE DEF logVars, faultVars, exportVars
<1> DEFINE oldest == MaxFiles - 1
<1>0. TypeOK /\ RotationInv /\ LineInv
  BY DEF DiskInv
<1>1. /\ DOMAIN disk' = DOMAIN disk \ {oldest}
      /\ \A i \in DOMAIN disk' : disk'[i] = disk[i]
      /\ step = "full" /\ UNCHANGED <<logged, failures, crashes>>
  BY DEF RemoveOldest, Remove, Restrict
<1>2. /\ oldest \in Int /\ oldest # 0 /\ logged \in Nat /\ crashes \in Nat
      /\ MaxFiles - 1 - crashes \in Int /\ MaxLines \in Nat
  BY <1>0 DEF TypeOK
<1>3. Promised' = Promised /\ Promised \in Int
  BY <1>1, <1>2, Fulls DEF Promised, Full
<1>4. CASE oldest \notin DOMAIN disk \/ disk[oldest] = {} \/ failures # 0
  <2>1. Kept \subseteq Kept' \/ failures' # 0
    BY <1>1, <1>4 DEF Kept
  <2> QED
    BY <1>0, <1>1, <2>1, PromiseKept
<1>5. CASE oldest \in DOMAIN disk /\ disk[oldest] # {} /\ failures = 0
  <2>1. ASSUME NEW line \in disk[oldest] PROVE line + Promised <= logged /\ line \in Nat \ {0}
    <3>1. line \in Nat \ {0}
      BY <1>0, <1>5, <2>1 DEF TypeOK, Lines
    <3>2. Below(oldest) = MaxFiles - 1 - crashes - 1
      BY <1>1, <1>2 DEF Below
    <3>3. line + InLog + Full(MaxFiles - 1 - crashes - 1) <= logged
      BY <1>2, <1>5, <2>1, <3>2 DEF DepthInv
    <3>4. /\ MaxFiles - 1 - crashes - 1 \in Int
          /\ (MaxFiles - 1 - crashes - 1) + 1 = MaxFiles - 1 - crashes
      BY <1>2
    <3>5. Promised = Full(MaxFiles - 1 - crashes - 1) + MaxLines
          /\ Full(MaxFiles - 1 - crashes - 1) \in Int
      BY <3>4, Fulls DEF Promised
    <3>6. InLog \in Nat /\ InLog >= MaxLines
      BY <1>0, <1>1, InLogType DEF DepthInv
    <3> HIDE DEF oldest
    <3> QED
      BY <1>2, <3>1, <3>3, <3>5, <3>6
  <2>2. PICK dropped \in disk[oldest] : TRUE
    BY <1>5
  <2>3. dropped + Promised <= logged /\ dropped \in Nat \ {0}
    BY <2>1
  <2>4. ASSUME NEW line \in logged - Promised + 1 .. logged PROVE line \in Kept'
    <3>1. line \in dropped .. logged /\ line + Promised > logged
      BY <1>2, <1>3, <2>3, <2>4
    <3>2. dropped \in Kept
      BY <1>5, <2>2 DEF Kept
    <3>3. line \in Kept
      BY <1>0, <1>5, <3>1, <3>2 DEF LineInv, NoHoles
    <3>4. PICK i \in DOMAIN disk : line \in disk[i]
      BY <3>3 DEF Kept
    <3>5. i # oldest
      <4>1. ASSUME i = oldest PROVE FALSE
        <5>1. line + Promised <= logged
          BY <2>1, <3>4, <4>1
        <5> QED
          BY <1>2, <1>3, <3>1, <5>1, <2>4
      <4> QED
        BY <4>1
    <3> QED
      BY <1>1, <3>4, <3>5 DEF Kept
  <2>5. Promised <= logged
    BY <1>2, <1>3, <2>3
  <2> QED
    BY <1>1, <1>3, <2>4, <2>5 DEF RecentInv
<1> QED
  BY <1>4, <1>5

(* With a single file nothing is promised.                                 *)
LEMMA NothingPromised == TypeOK /\ MaxFiles = 1 => RecentInv
<1> SUFFICES ASSUME TypeOK, MaxFiles = 1 PROVE RecentInv
  OBVIOUS
<1>1. logged \in Nat /\ MaxFiles - 1 - crashes \in Int /\ MaxFiles - 1 - crashes <= 0
  BY LogsBounds DEF TypeOK
<1>2. Promised \in Int /\ Promised <= 0
  BY <1>1, Fulls DEF Promised
<1>3. Promised <= logged /\ logged - Promised + 1 > logged
  BY <1>1, <1>2
<1>4. logged - Promised + 1 .. logged = {}
  BY <1>1, <1>2, <1>3
<1> QED
  BY <1>3, <1>4 DEF RecentInv

LEMMA PromiseStep == DiskInv /\ DepthInv /\ RecentInv /\ [Next]_vars => RecentInv'
<1> SUFFICES ASSUME DiskInv, DepthInv, RecentInv, [Next]_vars PROVE RecentInv'
  OBVIOUS
<1> USE DEF logVars, faultVars, exportVars
<1>0. TypeOK /\ RotationInv /\ TypeOK'
  BY TypeStep DEF DiskInv
<1>1. CASE MaxFiles = 1
  <2>1. (TypeOK /\ MaxFiles = 1 => RecentInv)'
    BY NothingPromised, PTL
  <2> QED
    BY <1>0, <1>1, <2>1
<1>2. CASE MaxFiles # 1
  <2>0. MaxFiles > 1 /\ slot \in Int /\ failures \in Nat
    BY <1>0, <1>2, RotationAssumption, LogsBounds DEF TypeOK
  <2>1. CASE Log
    BY <2>1, PromiseLog
  <2>2. CASE RemoveOldest
    BY <2>0, <2>2, PromiseRemoveOldest
  <2>3. CASE Shift \/ Push
    <3>1. PICK i : /\ i = (IF step' = "shift" THEN slot ELSE 0)
                   /\ disk' = (IF i \in DOMAIN disk THEN Rename(disk, i, i + 1) ELSE disk)
                   /\ failures = 0 => i + 1 \notin DOMAIN disk
      <4>1. CASE Shift
        BY <1>0, <2>0, <4>1 DEF Shift, RotationInv
      <4>2. CASE Push
        <5>1. failures = 0 => slot = 0 /\ 1 \notin DOMAIN disk
          BY <1>0, <2>0, <4>2 DEF Push, RotationInv
        <5> QED
          BY <1>0, <4>2, <5>1 DEF Push, RotationInv
      <4> QED
        BY <2>3, <4>1, <4>2
    <3>2. UNCHANGED <<logged, failures, crashes>>
      BY <2>3 DEF Shift, Push
    <3>3. ASSUME failures = 0 PROVE Kept \subseteq Kept'
      <4>1. CASE i \notin DOMAIN disk
        BY <3>1, <4>1 DEF Kept
      <4>2. CASE i \in DOMAIN disk
        <5>1. i \in Int
          BY <2>0, <3>1
        <5>2. /\ DOMAIN disk' = (DOMAIN disk \ {i}) \cup {i + 1} /\ disk'[i + 1] = disk[i]
              /\ \A k \in DOMAIN disk \ {i} : disk'[k] = disk[k]
          BY <3>1, <3>3, <4>2, <5>1 DEF Rename
        <5> QED
          BY <5>2 DEF Kept
      <4> QED
        BY <4>1, <4>2
    <3> QED
      BY <1>0, <3>2, <3>3, PromiseKept
  <2>4. CASE RemoveOldestFails \/ ShiftFails \/ PushFails
    <3>1. failures' # 0
      BY <2>0, <2>4 DEF RemoveOldestFails, ShiftFails, PushFails
    <3> QED
      BY <3>1 DEF RecentInv
  <2>5. CASE Reopen \/ Crash
    <3>1. disk' = OpenForAppend(disk) /\ UNCHANGED <<logged, failures>>
          /\ crashes' \in {crashes, crashes + 1}
      BY <2>5 DEF Reopen, Crash
    <3>2. Kept \subseteq Kept'
      BY <3>1, Opened DEF Kept
    <3> QED
      BY <1>0, <3>1, <3>2, PromiseKept
  <2>6. CASE StartExport \/ Collect \/ Measure \/ Zip \/ Read \/ Report \/ UNCHANGED vars
    <3>1. UNCHANGED <<disk, logged, failures, crashes>>
      BY <2>6 DEF StartExport, Collect, Measure, Zip, Read, Report, vars
    <3> QED
      BY <1>0, <3>1, PromiseKept DEF Kept
  <2> QED
    BY <2>1, <2>2, <2>3, <2>4, <2>5, <2>6 DEF Next
<1> QED
  BY <1>1, <1>2

-----------------------------------------------------------------------------
(* Theorems. *)

LEMMA LogsInit == Init => DiskInv /\ QuietInv
<1> SUFFICES ASSUME Init PROVE DiskInv /\ QuietInv
  OBVIOUS
<1>1. DOMAIN disk = {0} /\ disk[0] = {}
  <2>1. DOMAIN Nothing = {}
    BY DEF Nothing
  <2> QED
    BY <2>1, Opened DEF Init
<1>2. DOMAIN Nothing = {}
  BY DEF Nothing
<1>3. TypeOK
  <2>1. DOMAIN disk \subseteq Names /\ \A i \in DOMAIN disk : disk[i] \subseteq Lines
    BY <1>1, RotationAssumption DEF Names
  <2>2. step \in {"ready", "full", "shift", "reopen"} /\ slot \in -1 .. MaxFiles
    BY RotationAssumption DEF Init
  <2>3. logged \in 0 .. MaxLogged /\ crashes \in 0 .. MaxCrashes /\ failures \in 0 .. MaxFailures
    BY LogsBounds DEF Init
  <2>4. at \in 0 .. MaxFiles /\ files = {}
    BY RotationAssumption DEF Init
  <2>5. disturbed \in BOOLEAN
    BY DEF Init
  <2>6. export \in {"idle", "collect", "measure", "zip", "read", "done", "failed"}
    BY DEF Init
  <2>7. DOMAIN sizes = {} /\ DOMAIN bundle = {}
    BY <1>2 DEF Init
  <2> QED
    BY <2>1, <2>2, <2>3, <2>4, <2>5, <2>6, <2>7 DEF TypeOK
<1>4. RotationInv /\ ExportInv
  BY <1>1 DEF Init, RotationInv, ExportInv
<1>5. Kept = {}
  BY <1>1 DEF Kept
<1>6. LineInv
  BY <1>1, <1>5 DEF Init, LineInv, OldestLast, NoHoles
<1>7. QuietInv
  BY <1>2 DEF Init, QuietInv
<1> QED
  BY <1>3, <1>4, <1>6, <1>7 DEF DiskInv

(* The inductive invariant of the log and of the export that reads it. *)
THEOREM LogsInvariance == Spec => [](DiskInv /\ QuietInv)
<1>1. DiskInv /\ QuietInv /\ [Next]_vars => (DiskInv /\ QuietInv)'
  BY TypeStep, LineStep, QuietStep DEF DiskInv
<1> QED
  BY <1>1, LogsInit, PTL DEF Spec

(* The types, and at most MaxFiles files when there are two or more, for   *)
(* any number and size of files.                                           *)
THEOREM LogsTypeCorrect == Spec => []TypeOK
BY LogsInvariance, PTL DEF DiskInv

(* The backups of the logger are in order of age at every step of every    *)
(* rotation, whatever crashes and failures came before.                    *)
THEOREM BackupsInOrder == Spec => []OldestLast
BY LogsInvariance, PTL DEF DiskInv, LineInv

(* While renames succeed the log on disk has no hole and ends with the     *)
(* last line logged, crashes in the middle of a rotation included.         *)
THEOREM LogHasNoHoles == Spec => []NoHoles
BY LogsInvariance, PTL DEF DiskInv, LineInv

(* An export that no rotation meets bundles the files as they are.         *)
THEOREM QuietExportsAreExact == Spec => []QuietExportIsExact
<1>1. DiskInv /\ QuietInv => QuietExportIsExact
  <2> SUFFICES ASSUME DiskInv, QuietInv, ~disturbed, export = "done"
               PROVE  /\ DOMAIN bundle = files /\ DOMAIN sizes = files
                      /\ files = {i \in DOMAIN disk : i < MaxFiles}
                      /\ \A i \in files \ {0} : bundle[i] = disk[i]
                                                /\ sizes[i] = Cardinality(disk[i])
                      /\ bundle[0] \subseteq disk[0] /\ sizes[0] <= Cardinality(bundle[0])
    BY DEF QuietInv, QuietExportIsExact
  <2>1. DOMAIN bundle = files /\ DOMAIN sizes = files /\ files = Collected
        /\ step \in {"ready", "full"} /\ \A i \in DOMAIN bundle : Zipped(i)
    BY DEF QuietInv
  <2>2. 0 \in files
    BY <2>1, RotationAssumption DEF DiskInv, RotationInv, Collected
  <2> QED
    BY <2>1, <2>2 DEF Zipped, Collected
<1> QED
  BY <1>1, LogsInvariance, PTL

LEMMA PromiseInit == Init => DepthInv /\ RecentInv
<1> SUFFICES ASSUME Init PROVE DepthInv /\ RecentInv
  OBVIOUS
<1>1. DOMAIN disk = {0}
  <2>1. DOMAIN Nothing = {}
    BY DEF Nothing
  <2> QED
    BY <2>1, Opened DEF Init
<1>2. 1 .. logged = {}
  BY DEF Init
<1> QED
  BY <1>1, <1>2 DEF Init, DepthInv, RecentInv

(* The promise in numbers.                                                 *)
LEMMA PromiseCounts == TypeOK /\ LineInv /\ RecentInv => RecentKept
<1> SUFFICES ASSUME TypeOK, LineInv, RecentInv, failures = 0
             PROVE  \/ Cardinality(Kept) = logged
                    \/ Cardinality(Kept) >= Promised
  BY DEF RecentKept, Promised, Full
<1>1. logged \in Nat /\ MaxFiles - 1 - crashes \in Int
  BY RotationAssumption, LogsBounds DEF TypeOK
<1>2. Kept \subseteq 1 .. logged
  BY LogsBounds DEF TypeOK, LineInv, Kept, Lines
<1>3. IsFiniteSet(Kept) /\ Cardinality(Kept) \in Nat
  <2>1. IsFiniteSet(1 .. logged)
    BY <1>1, FS_Interval
  <2>2. IsFiniteSet(Kept)
    BY <1>2, <2>1, FS_Subset
  <2> QED
    BY <2>2, FS_CardinalityType
<1>4. CASE 1 .. logged \subseteq Kept
  <2>1. Kept = 1 .. logged
    BY <1>2, <1>4
  <2>2. Cardinality(1 .. logged) = logged
    BY <1>1, FS_Interval
  <2> QED
    BY <2>1, <2>2
<1>5. CASE Promised <= logged /\ logged - Promised + 1 .. logged \subseteq Kept
  <2>1. Promised \in Int
    BY <1>1, Fulls DEF Promised
  <2>2. CASE Promised <= 0
    BY <1>3, <2>1, <2>2
  <2>3. CASE Promised > 0
    <3>1. logged - Promised + 1 \in Int /\ logged - Promised + 1 <= logged
          /\ logged - (logged - Promised + 1) + 1 = Promised
      BY <1>1, <2>1, <2>3
    <3>2. Cardinality(logged - Promised + 1 .. logged) = Promised
      BY <1>1, <3>1, FS_Interval
    <3>3. Cardinality(logged - Promised + 1 .. logged) <= Cardinality(Kept)
      BY <1>3, <1>5, FS_Subset
    <3> QED
      BY <1>3, <2>1, <3>2, <3>3
  <2> QED
    BY <2>1, <2>2, <2>3
<1> QED
  BY <1>4, <1>5 DEF RecentInv

(* What a rotation drops is only what no longer fits: while renames        *)
(* succeed, all lines are there or the last MaxFiles - 1 files of them,    *)
(* less one file per crash.                                                *)
THEOREM RecentLinesKept == Spec => []RecentKept
<1>1. DiskInv /\ DepthInv /\ RecentInv /\ [Next]_vars => (DepthInv /\ RecentInv)'
  BY DepthStep, PromiseStep
<1>2. DiskInv /\ RecentInv => RecentKept
  BY PromiseCounts DEF DiskInv
<1> QED
  BY <1>1, <1>2, LogsInvariance, PromiseInit, PTL DEF Spec
=============================================================================
