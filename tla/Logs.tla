-------------------------------- MODULE Logs --------------------------------
(***************************************************************************)
(* The rotating log (src/utils/logging.cpp) and the diagnostic export that *)
(* reads its files (src/utils/diagnostic_exporter.cpp).  log() holds the   *)
(* mutex of the logger to its end, so however many threads log, they do so *)
(* one after the other; the exporter runs in a pool thread and knows       *)
(* nothing of that mutex.  Each rename is an action, with the removal of   *)
(* its target, and the program may be killed between any two of them.      *)
(*                                                                         *)
(* A line is its number.  A file is only ever appended to or renamed, so   *)
(* it is the set of its lines.  File 0 is the log, file i its backup ".i". *)
(* Every file is read and zipped in one step.                              *)
(***************************************************************************)
EXTENDS Integers, FiniteSets, Functions

CONSTANTS
  MaxFiles,    \* m_maxFiles and m_logMaxFiles: the validator allows 1 and more
  MaxLines,    \* m_maxSizeBytes, in lines
  MaxLogged,   \* bound: lines ever logged
  MaxCrashes,  \* bound: how often the program is killed
  MaxFailures  \* bound: how often QFile::remove or QFile::rename fails

ASSUME RotationAssumption == MaxFiles \in Nat \ {0} /\ MaxLines \in Nat \ {0}
ASSUME LogsBounds ==
  MaxLogged \in Nat /\ MaxCrashes \in Nat /\ MaxFailures \in Nat

VARIABLES
  disk,     \* the files that exist, and their lines
  step,     \* where log() is: "ready" outside of it
  slot,     \* the i of the loop in rotateFiles()
  logged,   \* number of lines logged
  crashes,  \* how often the program was killed
  failures, \* how often a removal or a rename failed
  export,   \* where exportBundle() is
  at,       \* the file it looks at next
  files,    \* outFiles
  sizes,    \* the sizes it puts in the manifest
  bundle,   \* what it has zipped of each file
  disturbed \* history: the log was rotated since the export began

logVars    == <<disk, step, slot, logged>>
faultVars  == <<crashes, failures>>
exportVars == <<export, at, files, sizes, bundle>>
vars == <<logVars, faultVars, exportVars, disturbed>>

Lines == 1 .. MaxLogged
Names == 0 .. (IF MaxFiles = 1 THEN 1 ELSE MaxFiles - 1)

(* Every variable has its type; with two files or more, at most MaxFiles   *)
(* exist, also in the middle of a rotation.                                *)
TypeOK ==
  /\ DOMAIN disk \subseteq Names /\ \A i \in DOMAIN disk : disk[i] \subseteq Lines
  /\ step \in {"ready", "full", "shift", "reopen"}
  /\ slot \in -1 .. MaxFiles
  /\ logged \in 0 .. MaxLogged
  /\ crashes \in 0 .. MaxCrashes /\ failures \in 0 .. MaxFailures
  /\ export \in {"idle", "collect", "measure", "zip", "read", "done", "failed"}
  /\ at \in 0 .. MaxFiles
  /\ files \subseteq 0 .. MaxFiles - 1
  /\ DOMAIN sizes \subseteq files /\ \A i \in DOMAIN sizes : sizes[i] \in Nat
  /\ DOMAIN bundle \subseteq files /\ \A i \in DOMAIN bundle : bundle[i] \subseteq Lines
  /\ disturbed \in BOOLEAN

Nothing == [i \in {} |-> {}]
Remove(d, i) == Restrict(d, DOMAIN d \ {i})
Rename(d, i, j) == [k \in (DOMAIN d \ {i}) \cup {j} |-> IF k = j THEN d[i] ELSE d[k]]
Write(d, i, lines) == [k \in DOMAIN d \cup {i} |-> IF k = i THEN lines ELSE d[k]]

(* QIODevice::Append creates the file when there is none. *)
OpenForAppend(d) == IF 0 \in DOMAIN d THEN d ELSE Write(d, 0, {})

Init ==
  /\ disk = OpenForAppend(Nothing)
  /\ step = "ready" /\ slot = 0 /\ logged = 0
  /\ crashes = 0 /\ failures = 0
  /\ export = "idle" /\ at = 0 /\ files = {} /\ sizes = Nothing /\ bundle = Nothing
  /\ disturbed = FALSE

-----------------------------------------------------------------------------
(* log(), from the lock of the mutex to its release. *)

(* Write and flush the line; maybeRotate() looks at the size. *)
Log_RotatesEarly ==
  /\ step = "ready" /\ logged < MaxLogged
  /\ logged' = logged + 1
  /\ disk' = [disk EXCEPT ![0] = @ \cup {logged + 1}]
  /\ step' = IF Cardinality(disk'[0]) + 1 < MaxLines THEN "ready" ELSE "full"
  /\ UNCHANGED <<slot, faultVars, exportVars, disturbed>>

Log ==
  /\ step = "ready" /\ logged < MaxLogged
  /\ logged' = logged + 1
  /\ disk' = [disk EXCEPT ![0] = @ \cup {logged + 1}]
  /\ step' = IF Cardinality(disk'[0]) < MaxLines THEN "ready" ELSE "full"
  /\ UNCHANGED <<slot, faultVars, exportVars, disturbed>>

(* rotateFiles(): the oldest backup goes.  With one file that would be     *)
(* ".0", which never exists.                                               *)
RemoveOldest_OneTooMany ==
  /\ step = "full" /\ step' = "shift"
  /\ disk' = disk
  /\ slot' = MaxFiles - 1
  /\ disturbed' = TRUE
  /\ UNCHANGED <<logged, faultVars, exportVars>>

RemoveOldest ==
  /\ step = "full" /\ step' = "shift"
  /\ disk' = IF MaxFiles > 1 THEN Remove(disk, MaxFiles - 1) ELSE disk
  /\ slot' = MaxFiles - 2
  /\ disturbed' = TRUE
  /\ UNCHANGED <<logged, faultVars, exportVars>>

(* The result of remove() is not looked at. *)
RemoveOldestFails ==
  /\ step = "full" /\ step' = "shift"
  /\ MaxFiles > 1 /\ MaxFiles - 1 \in DOMAIN disk
  /\ failures < MaxFailures
  /\ failures' = failures + 1
  /\ slot' = MaxFiles - 2
  /\ disturbed' = TRUE
  /\ UNCHANGED <<disk, logged, crashes, exportVars>>

(* One turn of the loop: remove the newer name and rename to it. *)
Shift ==
  /\ step = "shift" /\ slot >= 1
  /\ disk' = IF slot \in DOMAIN disk THEN Rename(disk, slot, slot + 1) ELSE disk
  /\ slot' = slot - 1
  /\ UNCHANGED <<step, logged, faultVars, exportVars, disturbed>>

(* Neither are the results here: a newer file that could not be removed    *)
(* stays, and rename() refuses to replace it.                              *)
ShiftFails ==
  /\ step = "shift" /\ slot >= 1 /\ slot \in DOMAIN disk
  /\ failures < MaxFailures
  /\ failures' = failures + 1
  /\ disk' \in {disk, Remove(disk, slot + 1)}
  /\ slot' = slot - 1
  /\ UNCHANGED <<step, logged, crashes, exportVars, disturbed>>

(* After the loop: the log becomes the first backup. *)
Push_Copies ==
  /\ step = "shift" /\ slot < 1
  /\ step' = "reopen"
  /\ disk' = Write(disk, 1, disk[0])
  /\ UNCHANGED <<slot, logged, faultVars, exportVars, disturbed>>

Push ==
  /\ step = "shift" /\ slot < 1
  /\ step' = "reopen"
  /\ disk' = Rename(disk, 0, 1)
  /\ UNCHANGED <<slot, logged, faultVars, exportVars, disturbed>>

PushFails ==
  /\ step = "shift" /\ slot < 1
  /\ failures < MaxFailures
  /\ failures' = failures + 1
  /\ step' = "reopen"
  /\ disk' \in {disk, Remove(disk, 1)}
  /\ UNCHANGED <<slot, logged, crashes, exportVars, disturbed>>

(* maybeRotate(): a new log, or the old one when it could not be renamed. *)
Reopen ==
  /\ step = "reopen" /\ step' = "ready"
  /\ disk' = OpenForAppend(disk)
  /\ UNCHANGED <<slot, logged, faultVars, exportVars, disturbed>>

-----------------------------------------------------------------------------
(* exportBundle(), in a pool thread. *)

StartExport ==
  /\ export = "idle" /\ export' = "collect"
  /\ at' = 0 /\ files' = {} /\ sizes' = Nothing /\ bundle' = Nothing
  /\ disturbed' = (step # "ready")
  /\ UNCHANGED <<logVars, faultVars>>

(* The files still to be looked at; the lowest name is the next. *)
Ahead == {i \in files : i >= at}
IsNext(i) == i \in Ahead /\ \A j \in Ahead : i <= j

(* collectFiles(): one name after the other. *)
Collect_MissesLast ==
  /\ export = "collect"
  /\ files' = IF at \in DOMAIN disk THEN files \cup {at} ELSE files
  /\ IF at < MaxFiles - 2
       THEN at' = at + 1 /\ UNCHANGED export
       ELSE at' = 0 /\ export' = "measure"
  /\ UNCHANGED <<logVars, faultVars, sizes, bundle, disturbed>>

Collect ==
  /\ export = "collect"
  /\ files' = IF at \in DOMAIN disk THEN files \cup {at} ELSE files
  /\ IF at < MaxFiles - 1
       THEN at' = at + 1 /\ UNCHANGED export
       ELSE at' = 0 /\ export' = "measure"
  /\ UNCHANGED <<logVars, faultVars, sizes, bundle, disturbed>>

(* The sizes for the manifest; a file that is gone by now has size 0. *)
SizeOf(i) == IF i \in DOMAIN disk THEN Cardinality(disk[i]) ELSE 0

Measure ==
  /\ export = "measure"
  /\ \/ /\ Ahead = {}
        /\ at' = 0 /\ export' = "zip" /\ UNCHANGED sizes
     \/ \E i \in files :
          /\ IsNext(i)
          /\ sizes' = [j \in DOMAIN sizes \cup {i} |-> IF j = i THEN SizeOf(i) ELSE sizes[j]]
          /\ at' = i + 1 /\ UNCHANGED export
  /\ UNCHANGED <<logVars, faultVars, files, bundle, disturbed>>

(* exportBundle(): a file that is missing is skipped ... *)
Zip ==
  /\ export = "zip"
  /\ \/ /\ Ahead = {}
        /\ export' = "done" /\ UNCHANGED at
     \/ \E i \in files :
          /\ IsNext(i)
          /\ IF i \in DOMAIN disk THEN export' = "read" /\ at' = i
               ELSE at' = i + 1 /\ UNCHANGED export
  /\ UNCHANGED <<logVars, faultVars, files, sizes, bundle, disturbed>>

(* ... but one that is gone when addFile() opens it ends the export. *)
Read ==
  /\ export = "read"
  /\ IF at \in DOMAIN disk
       THEN /\ bundle' = Write(bundle, at, disk[at])
            /\ at' = at + 1 /\ export' = "zip"
       ELSE export' = "failed" /\ UNCHANGED <<at, bundle>>
  /\ UNCHANGED <<logVars, faultVars, files, sizes, disturbed>>

(* exportFinished, delivered to the main thread. *)
Report ==
  /\ export \in {"done", "failed"} /\ export' = "idle"
  /\ UNCHANGED <<logVars, faultVars, at, files, sizes, bundle, disturbed>>

-----------------------------------------------------------------------------
(* The program is killed, and started again: setLogFile() opens the log. *)
Crash_Truncates ==
  /\ crashes < MaxCrashes /\ crashes' = crashes + 1
  /\ disk' = Write(disk, 0, {})
  /\ step' = "ready" /\ export' = "idle"
  /\ UNCHANGED <<slot, logged, failures, at, files, sizes, bundle, disturbed>>

Crash ==
  /\ crashes < MaxCrashes /\ crashes' = crashes + 1
  /\ disk' = OpenForAppend(disk)
  /\ step' = "ready" /\ export' = "idle"
  /\ UNCHANGED <<slot, logged, failures, at, files, sizes, bundle, disturbed>>

Next ==
  \/ Log \/ RemoveOldest \/ RemoveOldestFails \/ Shift \/ ShiftFails
  \/ Push \/ PushFails \/ Reopen
  \/ StartExport \/ Collect \/ Measure \/ Zip \/ Read \/ Report
  \/ Crash

Spec == Init /\ [][Next]_vars

-----------------------------------------------------------------------------
(* Properties. *)

Kept == UNION {disk[i] : i \in DOMAIN disk}

(* The files are in order: every line of a backup is older than every line *)
(* of a file with a lower number, so no line is in two files.  It holds in *)
(* the middle of a rotation, after a rotation that was cut short by a      *)
(* crash, and after a removal or a rename that failed.                     *)
OldestLast ==
  \A i, j \in DOMAIN disk : i < j => \A old \in disk[j], new \in disk[i] : old < new

(* While nothing fails, what is dropped is the oldest: the lines           *)
(* kept have no hole, and the last one logged is among them, also after    *)
(* rotations that were cut short.                                          *)
NoHoles ==
  failures = 0 =>
    /\ logged > 0 => logged \in Kept
    /\ \A line \in Kept : line .. logged \subseteq Kept

(* A rotation only makes room for as much as the files hold: without       *)
(* failures the last MaxFiles - 1 full files are always there, and each    *)
(* crash costs at most one of them.                                        *)
RecentKept ==
  failures = 0 =>
    \/ Cardinality(Kept) = logged
    \/ Cardinality(Kept) >= (MaxFiles - 1 - crashes) * MaxLines

(* An export that no rotation meets is exact: it does not fail, it zips    *)
(* the files of its manifest, which are all there are under MaxFiles, each *)
(* backup whole and the log at least as long as the manifest says.         *)
QuietExportIsExact ==
  ~disturbed =>
    /\ export # "failed"
    /\ export = "done" =>
         /\ DOMAIN bundle = files /\ DOMAIN sizes = files
         /\ files = {i \in DOMAIN disk : i < MaxFiles}
         /\ \A i \in files \ {0} : bundle[i] = disk[i] /\ sizes[i] = Cardinality(disk[i])
         /\ bundle[0] \subseteq disk[0] /\ sizes[0] <= Cardinality(bundle[0])
=============================================================================
