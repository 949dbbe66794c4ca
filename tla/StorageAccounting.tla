-------------------------- MODULE StorageAccounting --------------------------
(***************************************************************************)
(* How the Worker accounts for its disk: StorageProtection's reservations, *)
(* the scan that reads the real files one after the other, and the         *)
(* transfers that write, move and delete files meanwhile.                  *)
(*                                                                         *)
(* Every transfer is one unit.  Its bytes are first at its SOURCE (Chrome's*)
(* spool, or where an upload is written) and, for a download that is kept, *)
(* then at its TARGET.  Growing downloads reserve again and are left out.  *)
(*                                                                         *)
(* An operator named Faulty... is not part of the model: it is a mistake   *)
(* one could make in the operator that follows it, substituted for that    *)
(* operator to see that a property notices.                                *)
(***************************************************************************)
EXTENDS Naturals, FiniteSetsExt

CONSTANTS
  Transfers,
  Quotas,         \* values the Worker's quota takes
  MaxScans,       \* bound: scans in a behaviour
  MaxRestarts,    \* bound
  Unknown         \* #files is undefined

ASSUME AccountingAssumption ==
  /\ IsFiniteSet(Transfers)
  /\ Quotas \subseteq Nat /\ MaxScans \in Nat /\ MaxRestarts \in Nat

VARIABLES
  at,          \* where each transfer is
  paths,       \* #reservations: the paths of a transfer's reservation; {} without one
  actual,      \* what release() has read of a transfer's paths
  disk,        \* files that exist
  counted,     \* #files
  scanning, visited, found,   \* #scan: the paths it has looked at and those it met
  quota,       \* #workerPolicy.quotaBytes
  scans, restarts

accountingVars == <<at, paths, actual, disk, counted, scanning, visited, found, quota, scans,
                    restarts>>

Source(t) == <<t, "SOURCE">>
Target(t) == <<t, "TARGET">>
PathsOf(t) == {Source(t), Target(t)}
Files == Transfers \X {"SOURCE", "TARGET"}
Steps == {"NONE", "OPEN", "MOVING", "KEPT", "REMOVED", "MEASURED", "WAITING", "FREE"}

Waiting == {t \in Transfers : at[t] = "WAITING"}

AccountingTypeOK ==
  /\ at \in [Transfers -> Steps]
  /\ \A t \in Transfers : paths[t] \subseteq PathsOf(t) /\ actual[t] \subseteq PathsOf(t)
  /\ {disk, visited, found} \subseteq SUBSET Files
  /\ counted \in (SUBSET Files) \union {Unknown}
  /\ scanning \in BOOLEAN /\ quota \in Quotas
  /\ scans \in 0 .. MaxScans /\ restarts \in 0 .. MaxRestarts
  /\ found \subseteq visited
  /\ Waiting # {} => scanning

AccountingInit ==
  /\ at = [t \in Transfers |-> "NONE"]
  /\ paths = [t \in Transfers |-> {}] /\ actual = [t \in Transfers |-> {}]
  /\ disk = {} /\ counted = {}
  /\ scanning = FALSE /\ visited = {} /\ found = {}
  /\ quota \in Quotas
  /\ scans = 0 /\ restarts = 0

-----------------------------------------------------------------------------
(* #usage: a reservation counts with what was promised or with what its    *)
(* files take, whichever is more; every other file counts as it was met.   *)
(* A reservation being of one unit, that is what was met, and the unit of  *)
(* each reservation of which nothing was met.                              *)

FaultyUsage(reserved) == Cardinality(counted)
Usage(reserved) ==
  Cardinality(counted) +
    Cardinality({t \in Transfers : reserved[t] # {} /\ counted \intersect reserved[t] = {}})

\* reserve of a new key: #assertAdmission, then the projected usage.
Reserve(t) ==
  LET next == [paths EXCEPT ![t] = {Source(t)}] IN
  /\ at[t] = "NONE"
  /\ counted # Unknown
  /\ Usage(paths) < quota
  /\ Usage(next) <= quota
  /\ paths' = next
  /\ at' = [at EXCEPT ![t] = "OPEN"]
  /\ UNCHANGED <<actual, disk, counted, scanning, visited, found, quota, scans, restarts>>

Write(t) ==
  /\ at[t] = "OPEN" /\ Source(t) \notin disk
  /\ disk' = disk \union {Source(t)}
  /\ UNCHANGED <<at, paths, actual, counted, scanning, visited, found, quota, scans, restarts>>

\* commit of a download: retain() adds the new path before the file is renamed.
Retain(t) ==
  /\ at[t] = "OPEN" /\ Source(t) \in disk
  /\ paths' = [paths EXCEPT ![t] = @ \union {Target(t)}]
  /\ at' = [at EXCEPT ![t] = "MOVING"]
  /\ UNCHANGED <<actual, disk, counted, scanning, visited, found, quota, scans, restarts>>

Rename(t) ==
  /\ at[t] = "MOVING"
  /\ disk' = (disk \ {Source(t)}) \union {Target(t)}
  /\ at' = [at EXCEPT ![t] = "KEPT"]
  /\ UNCHANGED <<paths, actual, counted, scanning, visited, found, quota, scans, restarts>>

\* The owner deletes the bytes; a failing removal of Chrome's spool file is swallowed.
Remove(t) ==
  /\ at[t] \in {"OPEN", "MOVING", "KEPT"}
  /\ disk' \in {disk \ PathsOf(t), disk \ {Target(t)}}
  /\ at' = [at EXCEPT ![t] = "REMOVED"]
  /\ UNCHANGED <<paths, actual, counted, scanning, visited, found, quota, scans, restarts>>

-----------------------------------------------------------------------------
(* release: lstat of the paths, then the scan under way, then the          *)
(* correction of #files and the end of the reservation, without an await.  *)

Corrected(files, released, measured) ==
  IF files = Unknown THEN Unknown
  ELSE (files \ UNION {paths[t] : t \in released}) \union UNION {measured[t] : t \in released}

Release(files, released) ==
  /\ counted' = Corrected(files, released, actual)
  /\ paths' = [t \in Transfers |-> IF t \in released THEN {} ELSE paths[t]]
  /\ at' = [t \in Transfers |-> IF t \in released THEN "FREE" ELSE at[t]]

Measure(t) ==
  /\ at[t] = "REMOVED"
  /\ actual' = [actual EXCEPT ![t] = disk \intersect paths[t]]
  /\ at' = [at EXCEPT ![t] = "MEASURED"]
  /\ UNCHANGED <<paths, disk, counted, scanning, visited, found, quota, scans, restarts>>

FaultyMustWait == FALSE
MustWait == scanning
ReleaseResumes(t) ==
  /\ at[t] = "MEASURED"
  /\ IF MustWait
     THEN at' = [at EXCEPT ![t] = "WAITING"] /\ UNCHANGED <<counted, paths>>
     ELSE Release(counted, {t})
  /\ UNCHANGED <<actual, disk, scanning, visited, found, quota, scans, restarts>>

-----------------------------------------------------------------------------
(* #observe.  Looking at a path is one instant; its directory was read     *)
(* before, so that a path missed then is missed.                           *)

ScanStarts ==
  /\ ~ scanning /\ scans < MaxScans
  /\ scanning' = TRUE /\ scans' = scans + 1
  /\ UNCHANGED <<at, paths, actual, disk, counted, visited, found, quota, restarts>>

Visit(f) ==
  /\ scanning /\ f \notin visited
  /\ visited' = visited \union {f}
  /\ found' = found \union ({f} \intersect disk)
  /\ UNCHANGED <<at, paths, actual, disk, counted, scanning, quota, scans, restarts>>

\* Releases that waited for the scan go on before anything else reads #files.
ToRelease == Waiting
ScanOver(files) ==
  /\ scanning
  /\ scanning' = FALSE /\ visited' = {} /\ found' = {}
  /\ Release(files, ToRelease)
  /\ UNCHANGED <<actual, disk, quota, scans, restarts>>

ScanEnds == visited = Files /\ ScanOver(found)
ScanFails == ScanOver(Unknown)

SetQuota ==
  /\ quota' \in Quotas \ {quota}
  /\ UNCHANGED <<at, paths, actual, disk, counted, scanning, visited, found, scans, restarts>>

\* A new process keeps what was kept, clears spool and Session directories and looks again.
RestartProcess ==
  LET kept == {t \in Transfers : at[t] = "KEPT"} IN
  /\ restarts < MaxRestarts
  /\ restarts' = restarts + 1
  /\ disk' = {Target(t) : t \in kept}
  /\ counted' \in {disk', Unknown}
  /\ paths' = [t \in Transfers |-> IF t \in kept THEN {Target(t)} ELSE {}]
  /\ at' = [t \in Transfers |-> IF t \in kept \/ at[t] = "NONE" THEN at[t] ELSE "FREE"]
  /\ scanning' = FALSE /\ visited' = {} /\ found' = {}
  /\ UNCHANGED <<actual, quota, scans>>

AccountingNext ==
  \/ \E t \in Transfers : \/ Reserve(t) \/ Write(t) \/ Retain(t) \/ Rename(t) \/ Remove(t)
                          \/ Measure(t) \/ ReleaseResumes(t)
  \/ \E f \in Files : Visit(f)
  \/ ScanStarts \/ ScanEnds \/ ScanFails \/ SetQuota \/ RestartProcess

AccountingSpec == AccountingInit /\ [][AccountingNext]_accountingVars

-----------------------------------------------------------------------------
(* Properties                                                              *)

Promised == {t \in Transfers : at[t] = "OPEN" /\ disk \intersect PathsOf(t) = {}}
BytesTaken == Cardinality(disk) + Cardinality(Promised)

\* A file of a transfer that is over is counted exactly if it is still on disk, whatever a scan
\* under way had seen of it, and what is counted is never less than what the disk holds and what
\* has been promised: release() waits for the scan and corrects its result.
AccountsMatchDisk ==
  counted # Unknown =>
    /\ \A t \in Transfers : at[t] = "FREE" =>
         counted \intersect PathsOf(t) = disk \intersect PathsOf(t)
    /\ Usage(paths) >= BytesTaken

\* A transfer is only admitted while everything on disk and everything promised fits the quota.
NoOvercommit ==
  [][\A t \in Transfers : at[t] = "NONE" /\ at'[t] = "OPEN" => BytesTaken' <= quota]_accountingVars

=============================================================================
