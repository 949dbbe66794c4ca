---------------------------- MODULE StorageProofs ----------------------------
(***************************************************************************)
(* Proofs about the Worker's storage: StorageAccounting for any transfers, *)
(* quotas, scans and restarts, and StoragePolicies for any Profiles,       *)
(* versions and losses, as MCStorage composes them.                        *)
(***************************************************************************)
EXTENDS MCStorage, FiniteSetTheorems, SequenceTheorems, TLAPS

-----------------------------------------------------------------------------
(* Paths.                                                                  *)

LEMMA PathFacts ==
  /\ \A t \in Transfers : /\ Source(t) \in Files /\ Target(t) \in Files /\ Source(t) # Target(t)
                          /\ PathsOf(t) = {Source(t), Target(t)}
  /\ \A s, t \in Transfers : s # t => PathsOf(s) \intersect PathsOf(t) = {}
  /\ \A f \in Files : f[1] \in Transfers /\ f \in PathsOf(f[1])
BY DEF Files, PathsOf, Source, Target

LEMMA PathsAreFinite ==
  ASSUME AccountingAssumption
  PROVE  IsFiniteSet(Transfers) /\ IsFiniteSet(Files)
<1>1. IsFiniteSet({"SOURCE", "TARGET"})
  <2>1. IsFiniteSet({} \union {"SOURCE"}) /\ {} \union {"SOURCE"} = {"SOURCE"}
    BY FS_EmptySet, FS_AddElement
  <2>2. IsFiniteSet({"SOURCE"} \union {"TARGET"})
    BY <2>1, FS_AddElement
  <2>3. {"SOURCE"} \union {"TARGET"} = {"SOURCE", "TARGET"}
    OBVIOUS
  <2> QED BY <2>2, <2>3
<1> QED BY <1>1, FS_Product DEF AccountingAssumption, Files

-----------------------------------------------------------------------------
(* The inductive invariant of the accounts.                                *)

Free(t) == at[t] = "FREE"
Measured(t) == at[t] \in {"MEASURED", "WAITING"}

\* A transfer has the reservation its state calls for, and a file where it is; #files and the scan
\* know nothing outside a reservation, and of a transfer that is over what is still there.
Fits(t) ==
  /\ at[t] \in {"NONE", "FREE"} => paths[t] = {}
  /\ at[t] \notin {"NONE", "FREE"} => paths[t] # {}
  /\ at[t] = "OPEN" => Source(t) \in paths[t]
  /\ at[t] = "MOVING" => Source(t) \in paths[t] /\ Target(t) \in paths[t]
  /\ at[t] = "KEPT" => Target(t) \in paths[t]
  /\ Target(t) \in disk <=> at[t] = "KEPT"
  /\ at[t] = "KEPT" => Source(t) \notin disk
  /\ ~ Free(t) => \A f \in PathsOf(t) :
                    f \in disk \/ f \in found \/ (counted # Unknown /\ f \in counted) => f \in paths[t]
  /\ Measured(t) => \A f \in PathsOf(t) : f \in actual[t] <=> f \in disk
  /\ at[t] = "WAITING" => scanning
  /\ Free(t) => \A f \in PathsOf(t) : /\ counted # Unknown => (f \in counted <=> f \in disk)
                                      /\ f \in visited => (f \in found <=> f \in disk)

AccountsInv ==
  /\ AccountingTypeOK
  /\ paths \in [Transfers -> SUBSET Files] /\ actual \in [Transfers -> SUBSET Files]
  /\ ~ scanning => visited = {} /\ found = {}
  /\ \A t \in Transfers : Fits(t)

LEMMA PathTypes ==
  ASSUME AccountsInv
  PROVE  \A t \in Transfers : paths[t] \subseteq PathsOf(t) /\ actual[t] \subseteq PathsOf(t)
BY DEF AccountsInv, AccountingTypeOK

\* What steps leave of a transfer whose files, reservation and measure they do not touch.
LEMMA Untouched ==
  ASSUME AccountsInv, NEW t \in Transfers,
         at'[t] = at[t], paths'[t] = paths[t], actual'[t] = actual[t],
         \A f \in PathsOf(t) : f \in disk' <=> f \in disk,
         UNCHANGED <<counted, scanning, visited, found>>
  PROVE  Fits(t)'
<1>1. Fits(t)
  BY DEF AccountsInv
<1>2. Source(t) \in PathsOf(t) /\ Target(t) \in PathsOf(t)
  BY PathFacts
<1> QED BY <1>1, <1>2 DEF Fits, Free, Measured

LEMMA ReserveStep == ASSUME AccountsInv, NEW t \in Transfers, Reserve(t) PROVE \A s \in Transfers : Fits(s)'
<1>1. /\ at[t] = "NONE" /\ at' = [at EXCEPT ![t] = "OPEN"] /\ paths' = [paths EXCEPT ![t] = {Source(t)}]
      /\ UNCHANGED <<actual, disk, counted, scanning, visited, found>>
  BY DEF Reserve
<1>2. /\ at'[t] = "OPEN" /\ paths'[t] = {Source(t)}
      /\ \A s \in Transfers \ {t} : at'[s] = at[s] /\ paths'[s] = paths[s]
  BY <1>1 DEF AccountsInv, AccountingTypeOK
<1>3. \A s \in Transfers \ {t} : Fits(s)'
  BY <1>1, <1>2, Untouched
<1>4. Fits(t)'
  <2>1. Fits(t)
    BY DEF AccountsInv
  <2> QED BY <1>1, <1>2, <2>1 DEF Fits, Free, Measured
<1> QED BY <1>3, <1>4

LEMMA WriteStep == ASSUME AccountsInv, NEW t \in Transfers, Write(t) PROVE \A s \in Transfers : Fits(s)'
<1>1. /\ at[t] = "OPEN" /\ disk' = disk \union {Source(t)}
      /\ UNCHANGED <<at, paths, actual, counted, scanning, visited, found>>
  BY DEF Write
<1>2. \A s \in Transfers \ {t} : Fits(s)'
  <2>1. \A s \in Transfers \ {t} : Source(t) \notin PathsOf(s)
    BY PathFacts
  <2> QED BY <1>1, <2>1, Untouched
<1>3. Fits(t)'
  <2>1. Fits(t) /\ Source(t) # Target(t) /\ PathsOf(t) = {Source(t), Target(t)}
    BY PathFacts DEF AccountsInv
  <2> QED BY <1>1, <2>1 DEF Fits, Free, Measured
<1> QED BY <1>2, <1>3

LEMMA RetainStep == ASSUME AccountsInv, NEW t \in Transfers, Retain(t) PROVE \A s \in Transfers : Fits(s)'
<1>1. /\ at[t] = "OPEN" /\ at' = [at EXCEPT ![t] = "MOVING"]
      /\ paths' = [paths EXCEPT ![t] = paths[t] \union {Target(t)}]
      /\ UNCHANGED <<actual, disk, counted, scanning, visited, found>>
  BY DEF Retain
<1>2. /\ at'[t] = "MOVING" /\ paths'[t] = paths[t] \union {Target(t)}
      /\ \A s \in Transfers \ {t} : at'[s] = at[s] /\ paths'[s] = paths[s]
  BY <1>1 DEF AccountsInv, AccountingTypeOK
<1>3. \A s \in Transfers \ {t} : Fits(s)'
  BY <1>1, <1>2, Untouched
<1>4. Fits(t)'
  <2>1. Fits(t)
    BY DEF AccountsInv
  <2> QED BY <1>1, <1>2, <2>1 DEF Fits, Free, Measured
<1> QED BY <1>3, <1>4

LEMMA RenameStep == ASSUME AccountsInv, NEW t \in Transfers, Rename(t) PROVE \A s \in Transfers : Fits(s)'
<1>1. /\ at[t] = "MOVING" /\ at' = [at EXCEPT ![t] = "KEPT"]
      /\ disk' = (disk \ {Source(t)}) \union {Target(t)}
      /\ UNCHANGED <<paths, actual, counted, scanning, visited, found>>
  BY DEF Rename
<1>2. at'[t] = "KEPT" /\ \A s \in Transfers \ {t} : at'[s] = at[s]
  BY <1>1 DEF AccountsInv, AccountingTypeOK
<1>3. \A s \in Transfers \ {t} : Fits(s)'
  <2>1. \A s \in Transfers \ {t} : Source(t) \notin PathsOf(s) /\ Target(t) \notin PathsOf(s)
    BY PathFacts
  <2> QED BY <1>1, <1>2, <2>1, Untouched
<1>4. Fits(t)'
  <2>1. Fits(t) /\ Source(t) # Target(t) /\ PathsOf(t) = {Source(t), Target(t)}
    BY PathFacts DEF AccountsInv
  <2> QED BY <1>1, <1>2, <2>1 DEF Fits, Free, Measured
<1> QED BY <1>3, <1>4

LEMMA RemoveStep == ASSUME AccountsInv, NEW t \in Transfers, Remove(t) PROVE \A s \in Transfers : Fits(s)'
<1>1. /\ at[t] \in {"OPEN", "MOVING", "KEPT"} /\ at' = [at EXCEPT ![t] = "REMOVED"]
      /\ disk' \in {disk \ PathsOf(t), disk \ {Target(t)}}
      /\ UNCHANGED <<paths, actual, counted, scanning, visited, found>>
  BY DEF Remove
<1>2. at'[t] = "REMOVED" /\ \A s \in Transfers \ {t} : at'[s] = at[s]
  BY <1>1 DEF AccountsInv, AccountingTypeOK
<1>3. \A s \in Transfers \ {t} : Fits(s)'
  <2>1. ASSUME NEW s \in Transfers \ {t} PROVE \A f \in PathsOf(s) : f \in disk' <=> f \in disk
    <3>1. PathsOf(s) \intersect PathsOf(t) = {} /\ Target(t) \in PathsOf(t)
      BY PathFacts
    <3> QED BY <1>1, <3>1
  <2> QED BY <1>1, <1>2, <2>1, Untouched
<1>4. Fits(t)'
  <2>1. Fits(t) /\ Source(t) # Target(t) /\ PathsOf(t) = {Source(t), Target(t)}
    BY PathFacts DEF AccountsInv
  <2>2. disk' \subseteq disk /\ Target(t) \notin disk'
    BY <1>1, <2>1
  <2> QED BY <1>1, <1>2, <2>1, <2>2 DEF Fits, Free, Measured
<1> QED BY <1>3, <1>4

LEMMA MeasureStep == ASSUME AccountsInv, NEW t \in Transfers, Measure(t) PROVE \A s \in Transfers : Fits(s)'
<1>1. /\ at[t] = "REMOVED" /\ at' = [at EXCEPT ![t] = "MEASURED"]
      /\ actual' = [actual EXCEPT ![t] = disk \intersect paths[t]]
      /\ UNCHANGED <<paths, disk, counted, scanning, visited, found>>
  BY DEF Measure
<1>2. /\ at'[t] = "MEASURED" /\ actual'[t] = disk \intersect paths[t]
      /\ \A s \in Transfers \ {t} : at'[s] = at[s] /\ actual'[s] = actual[s]
  BY <1>1 DEF AccountsInv, AccountingTypeOK
<1>3. \A s \in Transfers \ {t} : Fits(s)'
  BY <1>1, <1>2, Untouched
<1>4. Fits(t)'
  <2>1. Fits(t)
    BY DEF AccountsInv
  <2> QED BY <1>1, <1>2, <2>1 DEF Fits, Free, Measured
<1> QED BY <1>3, <1>4

\* What release() makes of #files: nothing changes but the paths of what is released, which are those
\* that were measured.
LEMMA CorrectedFacts ==
  ASSUME AccountsInv, NEW files \in (SUBSET Files) \union {Unknown}, NEW released \in SUBSET Transfers,
         Corrected(files, released, actual) # Unknown
  PROVE  /\ files # Unknown /\ files \in SUBSET Files
         /\ Corrected(files, released, actual) \in SUBSET Files
         /\ \A t \in Transfers \ released : \A f \in PathsOf(t) :
              (f \in Corrected(files, released, actual) <=> f \in files)
         /\ \A t \in released : \A f \in PathsOf(t) :
              f \in Corrected(files, released, actual) <=> f \in actual[t] \/ (f \in files /\ f \notin paths[t])
<1> DEFINE new == (files \ UNION {paths[t] : t \in released}) \union UNION {actual[t] : t \in released}
<1>1. files # Unknown /\ files \in SUBSET Files /\ Corrected(files, released, actual) = new
  <2>1. CASE files = Unknown
    BY <2>1 DEF Corrected
  <2>2. CASE files # Unknown
    BY <2>2 DEF Corrected
  <2> QED BY <2>1, <2>2
<1>2. \A t \in Transfers : /\ paths[t] \subseteq PathsOf(t) /\ actual[t] \subseteq PathsOf(t)
                           /\ PathsOf(t) \subseteq Files
  BY PathTypes, PathFacts
<1>3. \A s, t \in Transfers : \A f \in PathsOf(t) : s # t => f \notin paths[s] /\ f \notin actual[s]
  BY <1>2, PathFacts
<1>4. new \in SUBSET Files
  BY <1>1, <1>2
<1>5. \A t \in Transfers \ released : \A f \in PathsOf(t) : f \in new <=> f \in files
  BY <1>3
<1>6. \A t \in released : \A f \in PathsOf(t) : f \in new <=> f \in actual[t] \/ (f \in files /\ f \notin paths[t])
  BY <1>3
<1> HIDE DEF new
<1> QED BY <1>1, <1>4, <1>5, <1>6

LEMMA ResumesStep ==
  ASSUME AccountsInv, NEW t \in Transfers, ReleaseResumes(t) PROVE \A s \in Transfers : Fits(s)'
<1>1. /\ at[t] = "MEASURED" /\ UNCHANGED <<actual, disk, scanning, visited, found>>
      /\ \/ scanning /\ at' = [at EXCEPT ![t] = "WAITING"] /\ UNCHANGED <<counted, paths>>
         \/ ~ scanning /\ Release(counted, {t})
  BY DEF ReleaseResumes, MustWait
<1>2. Fits(t)
  BY DEF AccountsInv
<1>3. CASE scanning /\ at' = [at EXCEPT ![t] = "WAITING"] /\ UNCHANGED <<counted, paths>>
  <2>1. at'[t] = "WAITING" /\ \A s \in Transfers \ {t} : at'[s] = at[s]
    BY <1>3 DEF AccountsInv, AccountingTypeOK
  <2>2. \A s \in Transfers \ {t} : Fits(s)'
    BY <1>1, <1>3, <2>1, Untouched
  <2>3. Fits(t)'
    BY <1>1, <1>2, <1>3, <2>1 DEF Fits, Free, Measured
  <2> QED BY <2>2, <2>3
<1>4. CASE ~ scanning /\ Release(counted, {t})
  <2>1. /\ counted' = Corrected(counted, {t}, actual)
        /\ at'[t] = "FREE" /\ paths'[t] = {}
        /\ \A s \in Transfers \ {t} : at'[s] = at[s] /\ paths'[s] = paths[s]
    BY <1>4 DEF Release
  <2>2. found = {} /\ visited = {} /\ counted \in (SUBSET Files) \union {Unknown}
    BY <1>4 DEF AccountsInv, AccountingTypeOK
  <2>3. counted' # Unknown =>
          /\ counted # Unknown
          /\ \A s \in Transfers \ {t} : \A f \in PathsOf(s) : f \in counted' <=> f \in counted
          /\ \A f \in PathsOf(t) : f \in counted' <=> f \in actual[t] \/ (f \in counted /\ f \notin paths[t])
    <3>1. SUFFICES ASSUME counted' # Unknown
                   PROVE  /\ counted # Unknown
                          /\ \A s \in Transfers \ {t} : \A f \in PathsOf(s) : f \in counted' <=> f \in counted
                          /\ \A f \in PathsOf(t) :
                               f \in counted' <=> f \in actual[t] \/ (f \in counted /\ f \notin paths[t])
      OBVIOUS
    <3>2. Corrected(counted, {t}, actual) # Unknown /\ {t} \in SUBSET Transfers
      BY <2>1, <3>1
    <3>3. /\ counted # Unknown
          /\ \A s \in Transfers \ {t} : \A f \in PathsOf(s) :
               f \in Corrected(counted, {t}, actual) <=> f \in counted
          /\ \A f \in PathsOf(t) :
               f \in Corrected(counted, {t}, actual) <=> f \in actual[t] \/ (f \in counted /\ f \notin paths[t])
      BY <2>2, <3>2, CorrectedFacts
    <3> QED BY <2>1, <3>3
  <2>4. Fits(t)'
    <3>1. \A f \in PathsOf(t) : counted' # Unknown => (f \in counted' <=> f \in disk')
      BY <1>1, <1>2, <2>3 DEF Fits, Free, Measured
    <3> QED BY <1>1, <1>2, <2>1, <2>2, <3>1 DEF Fits, Free, Measured
  <2>5. ASSUME NEW s \in Transfers \ {t} PROVE Fits(s)'
    <3>1. Fits(s) /\ Source(s) \in PathsOf(s)
      BY PathFacts DEF AccountsInv
    <3> QED BY <1>1, <2>1, <2>3, <3>1 DEF Fits, Free, Measured
  <2> QED BY <2>4, <2>5
<1> QED BY <1>1, <1>3, <1>4

LEMMA VisitStep == ASSUME AccountsInv, NEW f \in Files, Visit(f) PROVE \A s \in Transfers : Fits(s)'
<1>1. /\ visited' = visited \union {f} /\ found' = found \union ({f} \intersect disk)
      /\ f \notin visited /\ f \notin found
      /\ UNCHANGED <<at, paths, actual, disk, counted, scanning>>
  BY DEF Visit, AccountsInv, AccountingTypeOK
<1>2. ASSUME NEW s \in Transfers PROVE Fits(s)'
  <2>1. Fits(s)
    BY DEF AccountsInv
  <2> QED BY <1>1, <2>1 DEF Fits, Free, Measured
<1> QED BY <1>2

LEMMA ScanOverStep ==
  ASSUME AccountsInv, NEW files \in (SUBSET Files) \union {Unknown}, ScanOver(files),
         files # Unknown => files = found /\ visited = Files
  PROVE  \A s \in Transfers : Fits(s)'
<1>1. /\ scanning' = FALSE /\ visited' = {} /\ found' = {} /\ UNCHANGED <<actual, disk>>
      /\ counted' = Corrected(files, Waiting, actual)
      /\ \A t \in Waiting : at'[t] = "FREE" /\ paths'[t] = {}
      /\ \A t \in Transfers \ Waiting : at'[t] = at[t] /\ paths'[t] = paths[t]
      /\ Waiting \in SUBSET Transfers
  BY DEF ScanOver, Release, ToRelease, Waiting
<1>2. counted' # Unknown =>
        /\ files = found /\ visited = Files
        /\ \A s \in Transfers \ Waiting : \A f \in PathsOf(s) : f \in counted' <=> f \in found
        /\ \A t \in Waiting : \A f \in PathsOf(t) :
             f \in counted' <=> f \in actual[t] \/ (f \in found /\ f \notin paths[t])
  BY <1>1, CorrectedFacts, PathFacts
<1>3. ASSUME NEW t \in Waiting PROVE Fits(t)'
  <2>1. Fits(t) /\ at[t] = "WAITING"
    BY DEF AccountsInv, Waiting
  <2>2. \A f \in PathsOf(t) : counted' # Unknown => (f \in counted' <=> f \in disk')
    BY <1>1, <1>2, <2>1 DEF Fits, Free, Measured
  <2> QED BY <1>1, <2>1, <2>2 DEF Fits, Free, Measured
<1>4. ASSUME NEW t \in Transfers \ Waiting PROVE Fits(t)'
  <2>1. Fits(t) /\ at[t] # "WAITING" /\ PathsOf(t) \subseteq Files
    BY PathFacts DEF AccountsInv, Waiting
  <2>2. \A f \in PathsOf(t) : counted' # Unknown => (f \in counted' <=> f \in found) /\ f \in visited
    BY <1>2, <2>1
  <2> QED BY <1>1, <2>1, <2>2 DEF Fits, Free, Measured
<1> QED BY <1>3, <1>4

LEMMA RestartStep == ASSUME AccountsInv, RestartProcess PROVE \A s \in Transfers : Fits(s)'
<1> DEFINE kept == {t \in Transfers : at[t] = "KEPT"}
<1>1. /\ disk' = {Target(t) : t \in kept} /\ counted' \in {disk', Unknown}
      /\ \A t \in Transfers : /\ paths'[t] = IF t \in kept THEN {Target(t)} ELSE {}
                              /\ at'[t] = IF t \in kept \/ at[t] = "NONE" THEN at[t] ELSE "FREE"
      /\ scanning' = FALSE /\ visited' = {} /\ found' = {} /\ UNCHANGED actual
  BY DEF RestartProcess
<1>2. ASSUME NEW s \in Transfers PROVE Fits(s)'
  <2>1. Fits(s) /\ Source(s) # Target(s) /\ PathsOf(s) = {Source(s), Target(s)}
    BY PathFacts DEF AccountsInv
  <2>2. Source(s) \notin disk'
    BY <1>1, <2>1, PathFacts
  <2>3. Target(s) \in disk' <=> s \in kept
    BY <1>1, <2>1, PathFacts
  <2> QED BY <1>1, <2>1, <2>2, <2>3 DEF Fits, Free, Measured
<1> QED BY <1>2

-----------------------------------------------------------------------------
(* The invariant holds of every behaviour of the accounting.               *)

LEMMA TypesStep ==
  ASSUME AccountsInv, AccountingNext
  PROVE  /\ at' \in [Transfers -> Steps]
         /\ paths' \in [Transfers -> SUBSET Files] /\ actual' \in [Transfers -> SUBSET Files]
         /\ \A t \in Transfers : paths'[t] \subseteq PathsOf(t) /\ actual'[t] \subseteq PathsOf(t)
         /\ counted' \in (SUBSET Files) \union {Unknown}
<1> DEFINE Goal == /\ at' \in [Transfers -> Steps]
                   /\ paths' \in [Transfers -> SUBSET Files] /\ actual' \in [Transfers -> SUBSET Files]
                   /\ \A t \in Transfers : paths'[t] \subseteq PathsOf(t) /\ actual'[t] \subseteq PathsOf(t)
                   /\ counted' \in (SUBSET Files) \union {Unknown}
<1> SUFFICES Goal OBVIOUS
<1>1. /\ at \in [Transfers -> Steps]
      /\ paths \in [Transfers -> SUBSET Files] /\ actual \in [Transfers -> SUBSET Files]
      /\ \A t \in Transfers : paths[t] \subseteq PathsOf(t) /\ actual[t] \subseteq PathsOf(t)
      /\ counted \in (SUBSET Files) \union {Unknown} /\ found \in SUBSET Files /\ disk \in SUBSET Files
  BY DEF AccountsInv, AccountingTypeOK
<1>2. \A t \in Transfers : /\ PathsOf(t) \subseteq Files
                           /\ Source(t) \in PathsOf(t) /\ Target(t) \in PathsOf(t)
  BY PathFacts
<1>3. ASSUME NEW files \in (SUBSET Files) \union {Unknown}, NEW released \in SUBSET Transfers,
             Release(files, released), UNCHANGED actual
      PROVE  Goal
  <2>1. counted' \in (SUBSET Files) \union {Unknown}
    <3>1. counted' = Corrected(files, released, actual)
      BY <1>3 DEF Release
    <3>2. CASE Corrected(files, released, actual) = Unknown
      BY <3>1, <3>2
    <3>3. CASE Corrected(files, released, actual) # Unknown
      BY <3>1, <3>3, CorrectedFacts
    <3> QED BY <3>2, <3>3
  <2>2. at' = [t \in Transfers |-> IF t \in released THEN "FREE" ELSE at[t]]
    BY <1>3 DEF Release
  <2>3. paths' = [t \in Transfers |-> IF t \in released THEN {} ELSE paths[t]]
    BY <1>3 DEF Release
  <2>4. at' \in [Transfers -> Steps]
    BY <1>1, <2>2 DEF Steps
  <2>5. /\ paths' \in [Transfers -> SUBSET Files]
        /\ \A t \in Transfers : paths'[t] \subseteq PathsOf(t)
    BY <1>1, <2>3
  <2> QED BY <1>1, <1>3, <2>1, <2>4, <2>5
<1>4. ASSUME NEW t \in Transfers, Reserve(t) PROVE Goal
  BY <1>1, <1>2, <1>4 DEF Reserve, Steps
<1>5. ASSUME NEW t \in Transfers, Write(t) PROVE Goal
  BY <1>1, <1>5 DEF Write
<1>6. ASSUME NEW t \in Transfers, Retain(t) PROVE Goal
  BY <1>1, <1>2, <1>6 DEF Retain, Steps
<1>7. ASSUME NEW t \in Transfers, Rename(t) PROVE Goal
  BY <1>1, <1>7 DEF Rename, Steps
<1>8. ASSUME NEW t \in Transfers, Remove(t) PROVE Goal
  BY <1>1, <1>8 DEF Remove, Steps
<1>9. ASSUME NEW t \in Transfers, Measure(t) PROVE Goal
  <2>1. at' = [at EXCEPT ![t] = "MEASURED"] /\ actual' = [actual EXCEPT ![t] = disk \intersect paths[t]]
        /\ UNCHANGED <<paths, counted>>
    BY <1>9 DEF Measure
  <2>2. disk \intersect paths[t] \in SUBSET Files /\ disk \intersect paths[t] \subseteq PathsOf(t)
    BY <1>1
  <2>3. at' \in [Transfers -> Steps]
    BY <1>1, <2>1 DEF Steps
  <2>4. actual' \in [Transfers -> SUBSET Files]
        /\ \A s \in Transfers : actual'[s] = IF s = t THEN disk \intersect paths[t] ELSE actual[s]
    BY <1>1, <2>1, <2>2
  <2> QED BY <1>1, <2>1, <2>2, <2>3, <2>4
<1>10. ASSUME NEW t \in Transfers, ReleaseResumes(t) PROVE Goal
  <2>1. CASE MustWait
    BY <1>1, <1>10, <2>1 DEF ReleaseResumes, Steps
  <2>2. CASE ~ MustWait
    <3>1. Release(counted, {t}) /\ UNCHANGED actual /\ {t} \in SUBSET Transfers
      BY <1>10, <2>2 DEF ReleaseResumes
    <3> QED BY <1>1, <1>3, <3>1
  <2> QED BY <2>1, <2>2
<1>11. ASSUME NEW f \in Files, Visit(f) PROVE Goal
  BY <1>1, <1>11 DEF Visit
<1>12. CASE ScanStarts
  BY <1>1, <1>12 DEF ScanStarts
<1>13. Waiting \in SUBSET Transfers /\ ToRelease = Waiting
  BY DEF Waiting, ToRelease
<1>14. CASE ScanEnds
  BY <1>1, <1>3, <1>13, <1>14 DEF ScanEnds, ScanOver
<1>15. CASE ScanFails
  BY <1>3, <1>13, <1>15 DEF ScanFails, ScanOver
<1>16. CASE SetQuota
  BY <1>1, <1>16 DEF SetQuota
<1>17. CASE RestartProcess
  <2>1. /\ disk' = {Target(t) : t \in {t \in Transfers : at[t] = "KEPT"}}
        /\ counted' \in {disk', Unknown}
        /\ paths' = [t \in Transfers |-> IF t \in {u \in Transfers : at[u] = "KEPT"} THEN {Target(t)} ELSE {}]
        /\ at' = [t \in Transfers |-> IF t \in {u \in Transfers : at[u] = "KEPT"} \/ at[t] = "NONE"
                                      THEN at[t] ELSE "FREE"]
        /\ UNCHANGED actual
    BY <1>17 DEF RestartProcess
  <2>2. disk' \in SUBSET Files
    BY <1>2, <2>1
  <2>3. at' \in [Transfers -> Steps]
    BY <1>1, <2>1 DEF Steps
  <2>4. paths' \in [Transfers -> SUBSET Files] /\ \A t \in Transfers : paths'[t] \subseteq PathsOf(t)
    BY <1>2, <2>1
  <2> QED BY <1>1, <2>1, <2>2, <2>3, <2>4
<1> HIDE DEF Goal
<1> QED BY <1>4, <1>5, <1>6, <1>7, <1>8, <1>9, <1>10, <1>11, <1>12, <1>14, <1>15, <1>16, <1>17
        DEF AccountingNext

LEMMA ScalarsStep ==
  ASSUME AccountingAssumption, AccountsInv, AccountingNext
  PROVE  /\ {disk, visited, found}' \subseteq SUBSET Files
         /\ scanning' \in BOOLEAN /\ quota' \in Quotas
         /\ scans' \in 0 .. MaxScans /\ restarts' \in 0 .. MaxRestarts
         /\ found' \subseteq visited'
         /\ ~ scanning' => visited' = {} /\ found' = {}
<1> DEFINE Goal == /\ {disk, visited, found}' \subseteq SUBSET Files
                   /\ scanning' \in BOOLEAN /\ quota' \in Quotas
                   /\ scans' \in 0 .. MaxScans /\ restarts' \in 0 .. MaxRestarts
                   /\ found' \subseteq visited'
                   /\ ~ scanning' => visited' = {} /\ found' = {}
<1> SUFFICES Goal OBVIOUS
<1>1. /\ disk \in SUBSET Files /\ visited \in SUBSET Files /\ found \in SUBSET Files
      /\ scanning \in BOOLEAN /\ quota \in Quotas
      /\ scans \in 0 .. MaxScans /\ restarts \in 0 .. MaxRestarts /\ found \subseteq visited
      /\ ~ scanning => visited = {} /\ found = {}
  BY DEF AccountsInv, AccountingTypeOK
<1>2. \A t \in Transfers : Source(t) \in Files /\ Target(t) \in Files
  BY PathFacts
<1>3. ASSUME NEW t \in Transfers,
             Reserve(t) \/ Write(t) \/ Retain(t) \/ Rename(t) \/ Remove(t) \/ Measure(t) \/ ReleaseResumes(t)
      PROVE  Goal
  <2>1. UNCHANGED <<scanning, visited, found, quota, scans, restarts>>
    BY <1>3 DEF Reserve, Write, Retain, Rename, Remove, Measure, ReleaseResumes
  <2>2. disk' \in SUBSET Files
    BY <1>1, <1>2, <1>3 DEF Reserve, Write, Retain, Rename, Remove, Measure, ReleaseResumes
  <2> QED BY <1>1, <2>1, <2>2
<1>4. ASSUME NEW f \in Files, Visit(f) PROVE Goal
  BY <1>1, <1>4 DEF Visit
<1>5. CASE ScanStarts
  BY <1>1, <1>5 DEF ScanStarts, AccountingAssumption
<1>6. CASE ScanEnds \/ ScanFails
  BY <1>1, <1>6 DEF ScanEnds, ScanFails, ScanOver
<1>7. CASE SetQuota
  BY <1>1, <1>7 DEF SetQuota
<1>8. CASE RestartProcess
  <2>1. disk' \in SUBSET Files
    BY <1>2, <1>8 DEF RestartProcess
  <2>2. /\ UNCHANGED <<quota, scans>> /\ restarts < MaxRestarts /\ restarts' = restarts + 1
        /\ scanning' = FALSE /\ visited' = {} /\ found' = {}
    BY <1>8 DEF RestartProcess
  <2>3. restarts' \in 0 .. MaxRestarts
    BY <1>1, <2>2 DEF AccountingAssumption
  <2> QED BY <1>1, <2>1, <2>2, <2>3
<1> HIDE DEF Goal
<1> QED BY <1>3, <1>4, <1>5, <1>6, <1>7, <1>8 DEF AccountingNext

LEMMA AccountsStep ==
  ASSUME AccountingAssumption, AccountsInv, [AccountingNext]_accountingVars
  PROVE  AccountsInv'
<1>1. CASE AccountingNext
  <2>1. \A s \in Transfers : Fits(s)'
    <3> DEFINE Goal == \A s \in Transfers : Fits(s)'
    <3> SUFFICES Goal OBVIOUS
    <3>1. ASSUME NEW t \in Transfers,
                 Reserve(t) \/ Write(t) \/ Retain(t) \/ Rename(t) \/ Remove(t) \/ Measure(t) \/ ReleaseResumes(t)
          PROVE  Goal
      BY <3>1, ReserveStep, WriteStep, RetainStep, RenameStep, RemoveStep, MeasureStep, ResumesStep
    <3>2. ASSUME NEW f \in Files, Visit(f) PROVE Goal
      BY <3>2, VisitStep
    <3>3. CASE ScanStarts \/ SetQuota
      <4>1. UNCHANGED <<at, paths, actual, disk, counted, visited, found>> /\ (scanning => scanning')
        BY <3>3 DEF ScanStarts, SetQuota
      <4>2. ASSUME NEW s \in Transfers PROVE Fits(s)'
        <5>1. Fits(s)
          BY DEF AccountsInv
        <5> QED BY <4>1, <5>1 DEF Fits, Free, Measured
      <4> QED BY <4>2
    <3>4. CASE ScanEnds
      <4>1. found \in (SUBSET Files) \union {Unknown}
        BY DEF AccountsInv, AccountingTypeOK
      <4> QED BY <3>4, <4>1, ScanOverStep DEF ScanEnds
    <3>5. CASE ScanFails
      BY <3>5, ScanOverStep DEF ScanFails
    <3>6. CASE RestartProcess
      BY <3>6, RestartStep
    <3> HIDE DEF Goal
    <3> QED BY <1>1, <3>1, <3>2, <3>3, <3>4, <3>5, <3>6 DEF AccountingNext
  <2>2. Waiting' # {} => scanning'
    BY <2>1 DEF Fits, Waiting
  <2> QED BY <1>1, <2>1, <2>2, TypesStep, ScalarsStep DEF AccountsInv, AccountingTypeOK
<1>2. CASE UNCHANGED accountingVars
  BY <1>2 DEF accountingVars, AccountsInv, AccountingTypeOK, Waiting, Fits, Free, Measured
<1> QED BY <1>1, <1>2

LEMMA AccountsStart == ASSUME AccountingAssumption, AccountingInit PROVE AccountsInv
<1>1. \A t \in Transfers : Fits(t)
  BY DEF AccountingInit, Fits, Free, Measured
<1>2. at \in [Transfers -> Steps] /\ Waiting = {}
  BY DEF AccountingInit, Steps, Waiting
<1>3. /\ paths \in [Transfers -> SUBSET Files] /\ actual \in [Transfers -> SUBSET Files]
      /\ \A t \in Transfers : paths[t] \subseteq PathsOf(t) /\ actual[t] \subseteq PathsOf(t)
  BY DEF AccountingInit
<1>4. scans \in 0 .. MaxScans /\ restarts \in 0 .. MaxRestarts
  BY DEF AccountingInit, AccountingAssumption
<1>5. /\ {disk, visited, found} \subseteq SUBSET Files /\ counted \in SUBSET Files /\ quota \in Quotas
      /\ scanning = FALSE /\ visited = {} /\ found = {}
  BY DEF AccountingInit
<1> QED BY <1>1, <1>2, <1>3, <1>4, <1>5 DEF AccountsInv, AccountingTypeOK

-----------------------------------------------------------------------------
(* The two sides, and what is counted.                                     *)

LEMMA SidesStep ==
  ASSUME AccountingAssumption, AccountsInv, [Next]_vars
  PROVE  AccountsInv' /\ [AccountingNext]_accountingVars
<1>1. [AccountingNext]_accountingVars
  BY DEF Next, Account, Decide, vars
<1> QED BY <1>1, AccountsStep

(* What is on disk, what is reserved and what is counted agree for every    *)
(* transfer, whatever writes, moves, deletes, scans and crashes interleave. *)
THEOREM AccountsInvTheorem == Spec => []AccountsInv
<1>1. Init => AccountsInv
  BY AccountingAssumption, AccountsStart DEF Init
<1>2. AccountsInv /\ [Next]_vars => AccountsInv'
  BY AccountingAssumption, SidesStep
<1> QED BY <1>1, <1>2, PTL DEF Spec

\* What fits together for every transfer bounds what is counted: a unit is counted once, in #files
\* or by its reservation.
LEMMA Counting ==
  ASSUME AccountingAssumption, AccountsInv, counted # Unknown
  PROVE  Usage(paths) >= BytesTaken /\ Usage(paths) \in Nat /\ BytesTaken \in Nat
<1> DEFINE Held == {t \in Transfers : disk \intersect PathsOf(t) # {}}
           Met == {t \in Transfers : counted \intersect PathsOf(t) # {}}
           Unmet == {t \in Transfers : paths[t] # {} /\ counted \intersect paths[t] = {}}
<1>1. /\ IsFiniteSet(Transfers) /\ IsFiniteSet(Files)
      /\ disk \in SUBSET Files /\ counted \in SUBSET Files
  BY PathsAreFinite DEF AccountsInv, AccountingTypeOK
<1>2. /\ IsFiniteSet(disk) /\ IsFiniteSet(counted) /\ IsFiniteSet(Held) /\ IsFiniteSet(Met)
      /\ IsFiniteSet(Unmet) /\ IsFiniteSet(Promised)
  <2>1. /\ Held \in SUBSET Transfers /\ Met \in SUBSET Transfers /\ Unmet \in SUBSET Transfers
        /\ Promised \in SUBSET Transfers
    BY DEF Promised
  <2> HIDE DEF Held, Met, Unmet
  <2> QED BY <1>1, <2>1, FS_Subset
<1>3. \A t \in Transfers : /\ Fits(t) /\ paths[t] \subseteq PathsOf(t)
                           /\ PathsOf(t) = {Source(t), Target(t)} /\ Source(t) # Target(t)
                           /\ ~ (Source(t) \in disk /\ Target(t) \in disk)
  BY PathTypes, PathFacts DEF AccountsInv, Fits
<1>4. Cardinality(disk) <= Cardinality(Held)
  <2> DEFINE owner == [f \in disk |-> f[1]]
  <2>1. owner \in [disk -> Held]
    BY <1>1, PathFacts
  <2>2. \A f, g \in disk : owner[f] = owner[g] => f = g
    <3>1. SUFFICES ASSUME NEW f \in disk, NEW g \in disk, f[1] = g[1] PROVE f = g
      OBVIOUS
    <3>2. f[1] \in Transfers /\ f \in PathsOf(f[1]) /\ g \in PathsOf(f[1])
      BY <1>1, <3>1, PathFacts
    <3> QED BY <1>3, <3>2
  <2>3. owner \in Injection(disk, Held)
    BY <2>1, <2>2 DEF Injection, IsInjective
  <2> HIDE DEF Held, owner
  <2> QED BY <1>2, <2>3, FS_Injection
<1>5. Cardinality(Met) <= Cardinality(counted)
  <2> DEFINE owner == [f \in counted |-> f[1]]
  <2>1. owner \in [counted -> Met]
    BY <1>1, PathFacts
  <2>2. ASSUME NEW t \in Met PROVE \E f \in counted : owner[f] = t
    <3>1. PICK f \in counted : f \in PathsOf(t)
      BY <2>2
    <3>2. f[1] = t
      BY <3>1 DEF PathsOf, Source, Target
    <3> QED BY <3>1, <3>2
  <2>3. owner \in Surjection(counted, Met)
    BY <2>1, <2>2 DEF Surjection
  <2> HIDE DEF Met, owner
  <2> QED BY <1>2, <2>3, FS_Surjection
<1>6. Held \union Promised \subseteq Met \union Unmet
  <2>1. ASSUME NEW t \in Held PROVE t \in Met \union Unmet
    <3>1. Fits(t) /\ t \in Transfers
      BY <1>3
    <3>2. PICK f \in PathsOf(t) : f \in disk
      BY <2>1
    <3>3. CASE Free(t)
      <4>1. f \in counted
        BY <1>2, <3>1, <3>2, <3>3 DEF Fits
      <4> QED BY <3>1, <3>2, <4>1
    <3>4. CASE ~ Free(t)
      <4>1. f \in paths[t]
        BY <3>1, <3>2, <3>4 DEF Fits
      <4> QED BY <1>3, <3>1, <4>1
    <3> QED BY <3>3, <3>4
  <2>2. ASSUME NEW t \in Promised PROVE t \in Met \union Unmet
    <3>1. t \in Transfers /\ Source(t) \in paths[t]
      BY <1>3, <2>2 DEF Promised, Fits
    <3> QED BY <1>3, <3>1
  <2> QED BY <2>1, <2>2
<1>7. Held \intersect Promised = {}
  BY DEF Promised
<1>8. Cardinality(Held) + Cardinality(Promised) = Cardinality(Held \union Promised)
  <2>1. Cardinality(Held \intersect Promised) = 0
    BY <1>7, FS_EmptySet
  <2> HIDE DEF Held
  <2>2. Cardinality(Held) \in Nat /\ Cardinality(Promised) \in Nat
    BY <1>2, FS_CardinalityType
  <2>3. Cardinality(Held \union Promised) =
          Cardinality(Held) + Cardinality(Promised) - Cardinality(Held \intersect Promised)
    BY <1>2, FS_Union
  <2> QED BY <2>1, <2>2, <2>3
<1>9. Cardinality(Held \union Promised) <= Cardinality(Met \union Unmet)
  <2> HIDE DEF Held, Met, Unmet
  <2> QED BY <1>2, <1>6, FS_Union, FS_Subset
<1>10. Cardinality(Met \union Unmet) <= Cardinality(Met) + Cardinality(Unmet)
  <2> HIDE DEF Met, Unmet
  <2>1. IsFiniteSet(Met \intersect Unmet)
    BY <1>2, FS_Subset
  <2>2. Cardinality(Met \intersect Unmet) \in Nat /\ Cardinality(Met) \in Nat /\ Cardinality(Unmet) \in Nat
    BY <1>2, <2>1, FS_CardinalityType
  <2>3. Cardinality(Met \union Unmet) = Cardinality(Met) + Cardinality(Unmet) - Cardinality(Met \intersect Unmet)
    BY <1>2, FS_Union
  <2> QED BY <2>2, <2>3
<1>11. Usage(paths) = Cardinality(counted) + Cardinality(Unmet)
  BY DEF Usage
<1>12. BytesTaken = Cardinality(disk) + Cardinality(Promised)
  BY DEF BytesTaken
<1>13. /\ Cardinality(disk) \in Nat /\ Cardinality(Promised) \in Nat /\ Cardinality(counted) \in Nat
       /\ Cardinality(Held) \in Nat /\ Cardinality(Met) \in Nat /\ Cardinality(Unmet) \in Nat
       /\ Cardinality(Held \union Promised) \in Nat /\ Cardinality(Met \union Unmet) \in Nat
  <2> HIDE DEF Held, Met, Unmet
  <2> QED BY <1>2, FS_Union, FS_CardinalityType
<1> HIDE DEF Held, Met, Unmet
<1> QED BY <1>4, <1>5, <1>8, <1>9, <1>10, <1>11, <1>12, <1>13

(* What #usage reports is never less than what the disk holds and what has  *)
(* been promised, and of a transfer that is over it counts what is left.    *)
THEOREM AccountsMatchDiskTheorem == Spec => []AccountsMatchDisk
<1>1. AccountsInv => AccountsMatchDisk
  <2> SUFFICES ASSUME AccountsInv, counted # Unknown
               PROVE  /\ \A t \in Transfers : at[t] = "FREE" =>
                           counted \intersect PathsOf(t) = disk \intersect PathsOf(t)
                      /\ Usage(paths) >= BytesTaken
    BY DEF AccountsMatchDisk
  <2>1. ASSUME NEW t \in Transfers, at[t] = "FREE"
        PROVE  counted \intersect PathsOf(t) = disk \intersect PathsOf(t)
    <3>1. Fits(t)
      BY DEF AccountsInv
    <3> QED BY <2>1, <3>1 DEF Fits, Free
  <2> QED BY <2>1, AccountingAssumption, Counting
<1> QED BY <1>1, AccountsInvTheorem, PTL

(* Whatever scans, deletions and crashes ran before, a transfer is admitted *)
(* only while everything on disk and promised, itself included, fits the    *)
(* quota.                                                                   *)
THEOREM NoOvercommitTheorem == Spec => NoOvercommit
<1> DEFINE
       Admitted == \A t \in Transfers : at[t] = "NONE" /\ at'[t] = "OPEN" => BytesTaken' <= quota
       Enough == counted # Unknown => /\ Usage(paths) >= BytesTaken
                                      /\ Usage(paths) \in Nat /\ BytesTaken \in Nat
<1>1. AccountsInv => Enough
  BY AccountingAssumption, Counting
<1>2. AccountsInv /\ Enough' /\ [Next]_vars => [Admitted]_accountingVars
  <2> SUFFICES ASSUME AccountsInv, Enough', [AccountingNext]_accountingVars,
                      NEW t \in Transfers, at[t] = "NONE", at'[t] = "OPEN"
               PROVE  BytesTaken' <= quota
    BY AccountingAssumption, SidesStep
  <2>1. at \in [Transfers -> Steps] /\ quota \in Quotas /\ Quotas \subseteq Nat
    BY AccountingAssumption DEF AccountsInv, AccountingTypeOK, AccountingAssumption
  <2>2. Reserve(t)
    <3>1. AccountingNext
      BY DEF accountingVars
    <3>2. ASSUME NEW s \in Transfers,
                 Write(s) \/ Retain(s) \/ Rename(s) \/ Remove(s) \/ Measure(s)
                 \/ ReleaseResumes(s) \/ (Reserve(s) /\ s # t)
          PROVE  FALSE
      BY <2>1, <3>2 DEF Reserve, Write, Retain, Rename, Remove, Measure, ReleaseResumes, Release
    <3>3. ASSUME NEW f \in Files, Visit(f) PROVE FALSE
      BY <3>3 DEF Visit
    <3>4. ~ (ScanStarts \/ ScanEnds \/ ScanFails \/ SetQuota \/ RestartProcess)
      BY DEF ScanStarts, ScanEnds, ScanFails, ScanOver, Release, SetQuota, RestartProcess
    <3> QED BY <3>1, <3>2, <3>3, <3>4 DEF AccountingNext
  <2>3. Usage(paths') <= quota /\ counted' = counted /\ counted # Unknown
    BY <2>2 DEF Reserve
  <2>4. Usage(paths)' >= BytesTaken' /\ Usage(paths)' \in Nat /\ BytesTaken' \in Nat
    BY <2>3
  <2>5. Usage(paths)' = Usage(paths')
    BY <2>3 DEF Usage
  <2> QED BY <2>1, <2>3, <2>4, <2>5
<1> HIDE DEF Enough
<1> QED BY <1>1, <1>2, AccountsInvTheorem, PTL DEF Spec, NoOvercommit

-----------------------------------------------------------------------------
(* The inductive invariant of the policies.                                *)

\* A command to forget a Profile is only there once its deletion was asked for.
Allowed == {operation \in Operations : operation.kind = "FORGET" => deletion[operation.scope] # "NO"}

\* Between the two halves of an operation the file is ahead of memory; otherwise they are the same.
FileAgrees ==
  /\ written # Nothing => operations # <<>> /\ written = file
  /\ written = Nothing => memory = file

Lasting(s) == s \in Profiles => deletion[s] = "NO"

\* Whatever was reported, or is on its way as a fact, is in the file.
FileIsAhead ==
  \A s \in Scopes : Lasting(s) =>
    /\ file[s] >= memory[s]
    /\ stored[s] > 1 => file[s] >= stored[s]
    /\ heartbeat # Nothing => file[s] >= heartbeat.shown[s]
    /\ \A x \in Scopes : At(x, "ANSWERED") => file[s] >= sync[x].policies[s]

PoliciesInv == PoliciesTypeOK /\ operations \in Seq(Allowed) /\ FileAgrees /\ FileIsAhead

-----------------------------------------------------------------------------
(* Versions and policies.                                                  *)

LEMMA MaxOfTwo ==
  ASSUME NEW a \in Nat, NEW b \in Nat
  PROVE  Max({a, b}) \in {a, b} /\ Max({a, b}) >= a /\ Max({a, b}) >= b
<1>1. \E x \in {a, b} : \A y \in {a, b} : x >= y
  <2>1. CASE a >= b
    BY <2>1
  <2>2. CASE b >= a
    BY <2>2
  <2> QED BY <2>1, <2>2
<1> QED BY <1>1 DEF Max

LEMMA VersionFacts ==
  ASSUME PoliciesAssumption
  PROVE  /\ Versions \subseteq Nat /\ 0 \in Versions /\ 1 \in Versions
         /\ \A a, b \in Versions : /\ Max({a, b}) \in Versions /\ Max({a, b}) \in {a, b}
                                    /\ Max({a, b}) >= a /\ Max({a, b}) >= b
         /\ \A v \in Versions : Shown(v) \in Versions /\ (Shown(v) = 1 \/ Shown(v) = v)
         /\ None \in Policies
<1>1. Versions \subseteq Nat /\ 0 \in Versions /\ 1 \in Versions
  BY DEF Versions, PoliciesAssumption
<1>2. \A a, b \in Versions : Max({a, b}) \in {a, b} /\ Max({a, b}) >= a /\ Max({a, b}) >= b
  BY <1>1, MaxOfTwo
<1>3. \A v \in Versions : Shown(v) \in {1, v}
  BY <1>1, <1>2 DEF Shown
<1>4. None \in Policies
  BY <1>1 DEF None, Policies
<1> QED BY <1>1, <1>2, <1>3, <1>4

LEMMA NamedFacts ==
  ASSUME PoliciesAssumption, NEW policies \in Policies, NEW s
  PROVE  /\ Named(policies, s) \in Policies
         /\ \A x \in Scopes : Named(policies, s)[x] = 0 \/ Named(policies, s)[x] = policies[x]
BY VersionFacts DEF Named, Policies

LEMMA RowsArePolicies ==
  ASSUME PoliciesAssumption, PoliciesTypeOK
  PROVE  row \in Policies
BY DEF PoliciesTypeOK, Policies, Versions, PoliciesAssumption

LEMMA OperationTypes ==
  ASSUME NEW operation \in Operations
  PROVE  /\ operation.kind \in {"APPLY", "START", "FORGET"} /\ operation.policies \in Policies
         /\ operation.scope \in Scopes \union {Nothing}
         /\ operation.kind # "APPLY" => operation.scope \in Profiles
BY DEF Operations, Scopes

LEMMA ChosenFacts ==
  ASSUME PoliciesAssumption, PoliciesTypeOK, NEW operation \in Operations
  PROVE  /\ Chosen(operation) \in Policies
         /\ \A s \in Scopes : Chosen(operation)[s] >= memory[s]
                              \/ (operation.kind = "FORGET" /\ operation.scope = s)
<1>1. memory \in [Scopes -> Versions]
  BY DEF PoliciesTypeOK, Policies
<1>2. CASE operation.kind = "FORGET"
  <2>1. Chosen(operation) = [memory EXCEPT ![operation.scope] = 0]
    BY <1>2 DEF Chosen
  <2>2. \A s \in Scopes : memory[s] >= memory[s] /\ memory[s] \in Versions
    BY <1>1, VersionFacts
  <2>3. \A s \in Scopes : Chosen(operation)[s] = IF s = operation.scope THEN 0 ELSE memory[s]
    BY <1>1, <2>1
  <2>4. Chosen(operation) \in Policies
    BY <1>1, <2>1, VersionFacts DEF Policies
  <2>5. \A s \in Scopes : Chosen(operation)[s] >= memory[s] \/ operation.scope = s
    BY <2>2, <2>3
  <2> QED BY <1>2, <2>4, <2>5
<1>3. CASE operation.kind # "FORGET"
  <2>1. Chosen(operation) = [s \in Scopes |-> IF operation.policies[s] = 0 THEN memory[s]
                                              ELSE Max({memory[s], operation.policies[s]})]
    BY <1>3 DEF Chosen, Newer
  <2>2. operation.policies \in [Scopes -> Versions]
    BY OperationTypes DEF Policies
  <2>3. \A s \in Scopes : /\ memory[s] \in Versions /\ memory[s] >= memory[s]
                          /\ Max({memory[s], operation.policies[s]}) \in Versions
                          /\ Max({memory[s], operation.policies[s]}) >= memory[s]
    <3> SUFFICES ASSUME NEW s \in Scopes
                 PROVE  /\ memory[s] \in Versions /\ memory[s] >= memory[s]
                        /\ Max({memory[s], operation.policies[s]}) \in Versions
                        /\ Max({memory[s], operation.policies[s]}) >= memory[s]
      OBVIOUS
    <3>1. memory[s] \in Versions /\ operation.policies[s] \in Versions /\ Versions \subseteq Nat
      BY <1>1, <2>2, VersionFacts
    <3>2. memory[s] \in Nat
      BY <3>1
    <3>3. memory[s] >= memory[s]
      BY <3>2
    <3> QED BY <3>1, <3>3, VersionFacts
  <2>4. \A s \in Scopes : Chosen(operation)[s] \in Versions /\ Chosen(operation)[s] >= memory[s]
    BY <2>1, <2>3
  <2> QED BY <2>1, <2>4 DEF Policies
<1> QED BY <1>2, <1>3

-----------------------------------------------------------------------------
(* The queue.                                                              *)

LEMMA HeadFacts ==
  ASSUME operations \in Seq(Allowed), operations # <<>>
  PROVE  Head(operations) \in Allowed /\ Tail(operations) \in Seq(Allowed)
BY HeadTailProperties

LEMMA QueueTypes ==
  ASSUME operations \in Seq(Allowed)
  PROVE  operations \in Seq(Operations)
<1>1. Allowed \subseteq Operations
  BY DEF Allowed
<1> QED BY <1>1, SeqMonotonic

LEMMA CallFacts ==
  ASSUME operations \in Seq(Allowed), NEW operation \in Allowed
  PROVE  Append(operations, operation) \in Seq(Allowed) /\ Append(operations, operation) # <<>>
BY AppendProperties

LEMMA UnansweredFacts ==
  ASSUME operations \in Seq(Allowed), NEW s
  PROVE  Unanswered(s) \in Seq(Allowed) /\ (operations # <<>> => Unanswered(s) # <<>>)
<1>1. Len(operations) \in Nat /\ DOMAIN operations = 1 .. Len(operations)
  BY LenProperties
<1>2. \A i \in 1 .. Len(operations) : operations[i] \in Allowed
  BY <1>1, ElementOfSeq
<1>3. ASSUME NEW i \in 1 .. Len(operations), operations[i].kind = "APPLY"
      PROVE  [operations[i] EXCEPT !.scope = Nothing] \in Allowed
  BY <1>2, <1>3 DEF Allowed, Operations
<1>4. \A i \in 1 .. Len(operations) : Unanswered(s)[i] \in Allowed
  BY <1>2, <1>3 DEF Unanswered
<1>5. Unanswered(s) \in [1 .. Len(operations) -> Allowed]
  BY <1>4 DEF Unanswered
<1>6. Unanswered(s) \in Seq(Allowed)
  BY <1>1, <1>5, SeqDef
<1>7. ASSUME operations # <<>> PROVE Unanswered(s) # <<>>
  <2>1. Len(operations) # 0
    BY <1>7, EmptySeq
  <2>2. DOMAIN Unanswered(s) # {}
    BY <1>1, <2>1 DEF Unanswered
  <2> QED BY <2>2
<1> QED BY <1>6, <1>7

\* Deletions only go on, so that what was allowed stays allowed.
LEMMA AllowedStays ==
  ASSUME NEW queue \in Seq(Allowed), \A p \in Profiles : deletion[p] # "NO" => deletion'[p] # "NO"
  PROVE  queue \in Seq(Allowed')
<1>1. Allowed \subseteq Allowed'
  BY OperationTypes DEF Allowed
<1> QED BY <1>1, SeqMonotonic

SyncTypes == [step : SyncSteps, policies : Policies]

LEMMA SyncFacts ==
  ASSUME PoliciesAssumption, NEW policies \in Policies
  PROVE  /\ \A step \in SyncSteps : [step |-> step, policies |-> policies] \in SyncTypes
         /\ Idle \in SyncTypes /\ Idle.step = "IDLE"
BY VersionFacts DEF SyncTypes, SyncSteps, Idle

LEMMA ScheduledFacts ==
  ASSUME PoliciesAssumption, NEW before \in [Scopes -> SyncTypes], NEW scopes
  PROVE  /\ Scheduled(before, scopes) \in [Scopes -> SyncTypes]
         /\ \A x \in Scopes : Scheduled(before, scopes)[x] = before[x]
                              \/ Scheduled(before, scopes)[x].step = "SCHEDULED"
<1>1. [step |-> "SCHEDULED", policies |-> None] \in SyncTypes
  BY VersionFacts, SyncFacts DEF SyncSteps
<1> QED BY <1>1 DEF Scheduled

\* What the end of an operation leaves of the queue and of those who wait for it.
LEMMA OverFacts ==
  ASSUME PoliciesAssumption, PoliciesInv, operations # <<>>, Over
  PROVE  /\ operations' \in Seq(Allowed) /\ written' = Nothing
         /\ sync' \in [Scopes -> SyncTypes]
         /\ \A x \in Scopes : sync'[x] = sync[x] \/ sync'[x].step # "ANSWERED"
         /\ start' \in [Profiles -> Policies \union {Nothing}]
         /\ directories' \in SUBSET Profiles
<1> DEFINE operation == Head(operations)
<1>1. /\ sync \in [Scopes -> SyncTypes] /\ start \in [Profiles -> Policies \union {Nothing}]
      /\ directories \in SUBSET Profiles /\ operations \in Seq(Allowed)
  BY DEF PoliciesInv, PoliciesTypeOK, SyncTypes
<1>2. operation \in Operations /\ Tail(operations) \in Seq(Allowed)
  BY <1>1, HeadFacts DEF Allowed
<1>3. /\ operation.scope \in Scopes \union {Nothing}
      /\ operation.kind # "APPLY" => operation.scope \in Profiles
  BY <1>2, OperationTypes
<1>4. /\ operations' = Tail(operations) /\ written' = Nothing
      /\ sync' = IF operation.kind = "APPLY" /\ operation.scope # Nothing
                 THEN [sync EXCEPT ![operation.scope] = [step |-> "APPLIED", policies |-> None]] ELSE sync
      /\ start' = IF operation.kind = "START" THEN [start EXCEPT ![operation.scope] = Nothing] ELSE start
      /\ directories' \in {directories, directories \union {operation.scope}}
      /\ directories' = directories \/ operation.kind = "START"
  BY DEF Over
<1> HIDE DEF operation
<1>5. [step |-> "APPLIED", policies |-> None] \in SyncTypes
  BY VersionFacts, SyncFacts DEF SyncSteps
<1>6. /\ sync' \in [Scopes -> SyncTypes]
      /\ \A x \in Scopes : sync'[x] = sync[x] \/ sync'[x].step # "ANSWERED"
  BY <1>1, <1>3, <1>4, <1>5
<1>7. start' \in [Profiles -> Policies \union {Nothing}]
  BY <1>1, <1>3, <1>4
<1>8. directories' \in SUBSET Profiles
  BY <1>1, <1>3, <1>4
<1> QED BY <1>2, <1>4, <1>6, <1>7, <1>8

-----------------------------------------------------------------------------
(* Steps of the Backend, of commands and of what is lost.                  *)

\* Steps that leave the file, memory and what was stored alone.
LEMMA QuietStep ==
  ASSUME PoliciesInv, UNCHANGED <<stored, memory, file>>, heartbeat' \in {heartbeat, Nothing},
         \A x \in Scopes : sync'[x] = sync[x] \/ sync'[x].step # "ANSWERED",
         \A p \in Profiles : deletion[p] # "NO" => deletion'[p] # "NO"
  PROVE  FileIsAhead'
<1> SUFFICES ASSUME NEW s \in Scopes, Lasting(s)'
             PROVE  /\ file[s] >= memory[s]
                    /\ stored[s] > 1 => file[s] >= stored[s]
                    /\ heartbeat' # Nothing => file[s] >= heartbeat'.shown[s]
                    /\ \A x \in Scopes : At(x, "ANSWERED")' => file[s] >= sync'[x].policies[s]
  BY DEF FileIsAhead
<1>1. Lasting(s)
  BY DEF Lasting
<1>2. /\ file[s] >= memory[s] /\ (stored[s] > 1 => file[s] >= stored[s])
      /\ heartbeat # Nothing => file[s] >= heartbeat.shown[s]
      /\ \A x \in Scopes : sync[x].step = "ANSWERED" => file[s] >= sync[x].policies[s]
  BY <1>1 DEF PoliciesInv, FileIsAhead, At
<1> QED BY <1>2 DEF At

\* The parts of the types that a step leaves alone keep their types.
LEMMA Types ==
  ASSUME PoliciesAssumption, PoliciesInv
  PROVE  /\ row \in [Scopes -> 1 .. MaxVersion] /\ stored \in Policies /\ memory \in Policies
         /\ file \in Policies /\ deletion \in [Profiles -> {"NO", "ASKED", "DONE"}]
         /\ sync \in [Scopes -> SyncTypes] /\ start \in [Profiles -> Policies \union {Nothing}]
         /\ heartbeat \in Facts \union {Nothing} /\ online \in BOOLEAN
         /\ directories \in SUBSET Profiles /\ operations \in Seq(Allowed)
         /\ written \in Policies \union {Nothing} /\ losses \in 0 .. MaxLosses
         /\ Nothing \notin Policies
BY DEF PoliciesInv, PoliciesTypeOK, SyncTypes, PoliciesAssumption, Policies

LEMMA ComposeTypes ==
  ASSUME PoliciesAssumption, PoliciesInv,
         row' \in [Scopes -> 1 .. MaxVersion], stored' \in Policies, memory' \in Policies,
         file' \in Policies, deletion' \in [Profiles -> {"NO", "ASKED", "DONE"}],
         \A p \in Profiles : deletion[p] # "NO" => deletion'[p] # "NO",
         sync' \in [Scopes -> SyncTypes], start' \in [Profiles -> Policies \union {Nothing}],
         heartbeat' \in Facts \union {Nothing}, online' \in BOOLEAN,
         directories' \in SUBSET Profiles, operations' \in Seq(Allowed),
         written' \in Policies \union {Nothing}, losses' \in 0 .. MaxLosses
  PROVE  PoliciesTypeOK' /\ operations' \in Seq(Allowed')
<1>1. operations' \in Seq(Allowed')
  BY AllowedStays
<1>2. operations' \in Seq(Operations)
  <2>1. Allowed \subseteq Operations
    BY DEF Allowed
  <2> QED BY <2>1, SeqMonotonic
<1> QED BY <1>1, <1>2 DEF PoliciesTypeOK, SyncTypes

\* Steps of the Backend that only schedule, read and send.
LEMMA BackendStep ==
  ASSUME PoliciesAssumption, PoliciesInv, NEW s \in Scopes, ChangeQuota(s) \/ SyncReads(s)
  PROVE  PoliciesInv'
<1>1. UNCHANGED <<stored, deletion, start, heartbeat, online, memory, file, directories, operations,
                  written, losses>>
  BY DEF ChangeQuota, SyncReads
<1>2. CASE ChangeQuota(s)
  <2>1. row[s] < MaxVersion /\ row' = [row EXCEPT ![s] = row[s] + 1] /\ sync' = Scheduled(sync, {s})
    BY <1>2 DEF ChangeQuota
  <2>2. row' \in [Scopes -> 1 .. MaxVersion]
    BY <2>1, Types DEF PoliciesAssumption
  <2>3. /\ sync' \in [Scopes -> SyncTypes]
        /\ \A x \in Scopes : sync'[x] = sync[x] \/ sync'[x].step # "ANSWERED"
    BY <2>1, Types, ScheduledFacts
  <2>4. FileIsAhead'
    BY <1>1, <2>3, QuietStep
  <2>5. PoliciesTypeOK' /\ operations' \in Seq(Allowed')
    BY <1>1, <2>2, <2>3, Types, ComposeTypes
  <2> QED BY <1>1, <2>4, <2>5 DEF PoliciesInv, FileAgrees
<1>3. CASE SyncReads(s)
  <2>1. row' = row /\ sync' \in {[sync EXCEPT ![s] = [step |-> "SENT", policies |-> Named(row, s)]],
                                 [sync EXCEPT ![s] = Idle]}
    BY <1>3 DEF SyncReads
  <2>2. [step |-> "SENT", policies |-> Named(row, s)] \in SyncTypes /\ Idle \in SyncTypes /\ Idle.step = "IDLE"
    <3>1. row \in Policies
      BY RowsArePolicies DEF PoliciesInv
    <3>2. Named(row, s) \in Policies
      BY <3>1, NamedFacts
    <3> QED BY <3>2, SyncFacts DEF SyncSteps
  <2>3. /\ sync' \in [Scopes -> SyncTypes]
        /\ \A x \in Scopes : sync'[x] = sync[x] \/ sync'[x].step # "ANSWERED"
    <3>1. PICK new \in SyncTypes : sync' = [sync EXCEPT ![s] = new] /\ new.step # "ANSWERED"
      BY <2>1, <2>2
    <3> QED BY <3>1, Types
  <2>4. FileIsAhead'
    BY <1>1, <2>3, QuietStep
  <2>5. PoliciesTypeOK' /\ operations' \in Seq(Allowed')
    BY <1>1, <2>1, <2>3, Types, ComposeTypes
  <2> QED BY <1>1, <2>4, <2>5 DEF PoliciesInv, FileAgrees
<1> QED BY <1>2, <1>3

LEMMA ProfileStep ==
  ASSUME PoliciesAssumption, PoliciesInv, NEW p \in Profiles, SendStart(p) \/ DeleteProfile(p)
  PROVE  PoliciesInv'
<1>1. UNCHANGED <<row, stored, sync, heartbeat, online, memory, file, directories, operations, written,
                  losses>>
  BY DEF SendStart, DeleteProfile
<1>2. /\ start' \in [Profiles -> Policies \union {Nothing}]
      /\ deletion' \in [Profiles -> {"NO", "ASKED", "DONE"}]
      /\ \A q \in Profiles : deletion[q] # "NO" => deletion'[q] # "NO"
  <2>1. CASE SendStart(p)
    <3>1. row \in Policies
      BY RowsArePolicies DEF PoliciesInv
    <3>2. Named(row, p) \in Policies
      BY <3>1, NamedFacts
    <3>3. start' = [start EXCEPT ![p] = Named(row, p)] /\ deletion' = deletion
      BY <2>1 DEF SendStart
    <3> QED BY <3>2, <3>3, Types
  <2>2. CASE DeleteProfile(p)
    BY <2>2, Types DEF DeleteProfile
  <2> QED BY <2>1, <2>2
<1>3. FileIsAhead'
  BY <1>1, <1>2, QuietStep
<1>4. PoliciesTypeOK' /\ operations' \in Seq(Allowed')
  BY <1>1, <1>2, Types, ComposeTypes
<1> QED BY <1>1, <1>3, <1>4 DEF PoliciesInv, FileAgrees

\* Commands that become operations.
LEMMA ArrivesStep ==
  ASSUME PoliciesAssumption, PoliciesInv,
         (\E s \in Scopes : PolicyArrives(s)) \/ (\E p \in Profiles : StartArrives(p) \/ Forget(p))
  PROVE  PoliciesInv'
<1>1. UNCHANGED <<row, stored, deletion, start, heartbeat, online, memory, file, directories, written,
                  losses>>
  BY DEF PolicyArrives, StartArrives, Forget
<1>2. \E operation \in Allowed : operations' = Append(operations, operation)
  <2>1. ASSUME NEW s \in Scopes, PolicyArrives(s)
        PROVE  \E operation \in Allowed : operations' = Append(operations, operation)
    <3>1. sync[s].policies \in Policies
      BY Types DEF SyncTypes
    <3>2. [kind |-> "APPLY", policies |-> sync[s].policies, scope |-> s] \in Allowed
      BY <3>1 DEF Allowed, Operations
    <3> QED BY <2>1, <3>2 DEF PolicyArrives, Call
  <2>2. ASSUME NEW p \in Profiles, StartArrives(p)
        PROVE  \E operation \in Allowed : operations' = Append(operations, operation)
    <3>1. start[p] \in Policies
      BY <2>2, Types DEF StartArrives
    <3>2. [kind |-> "START", policies |-> start[p], scope |-> p] \in Allowed
      BY <3>1 DEF Allowed, Operations
    <3> QED BY <2>2, <3>2 DEF StartArrives, Call
  <2>3. ASSUME NEW p \in Profiles, Forget(p)
        PROVE  \E operation \in Allowed : operations' = Append(operations, operation)
    <3>1. [kind |-> "FORGET", policies |-> None, scope |-> p] \in Allowed
      BY <2>3, VersionFacts DEF Allowed, Operations, Forget
    <3> QED BY <2>3, <3>1 DEF Forget, Call
  <2> QED BY <2>1, <2>2, <2>3
<1>3. operations' \in Seq(Allowed) /\ operations' # <<>>
  BY <1>2, Types, CallFacts
<1>4. /\ sync' \in [Scopes -> SyncTypes]
      /\ \A x \in Scopes : sync'[x] = sync[x] \/ sync'[x].step # "ANSWERED"
  <2>1. CASE sync' = sync
    BY <2>1, Types
  <2>2. ASSUME NEW s \in Scopes, PolicyArrives(s)
        PROVE  /\ sync' \in [Scopes -> SyncTypes]
               /\ \A x \in Scopes : sync'[x] = sync[x] \/ sync'[x].step # "ANSWERED"
    <3>1. [step |-> "QUEUED", policies |-> None] \in SyncTypes
      BY VersionFacts, SyncFacts DEF SyncSteps
    <3>2. sync' = [sync EXCEPT ![s] = [step |-> "QUEUED", policies |-> None]]
      BY <2>2 DEF PolicyArrives
    <3> QED BY <3>1, <3>2, Types
  <2> QED BY <2>1, <2>2 DEF StartArrives, Forget
<1>5. FileIsAhead'
  BY <1>1, <1>4, QuietStep
<1>6. PoliciesTypeOK' /\ operations' \in Seq(Allowed')
  BY <1>1, <1>3, <1>4, Types, ComposeTypes
<1> QED BY <1>1, <1>3, <1>5, <1>6 DEF PoliciesInv, FileAgrees

\* Operations that end without another file, and the end of a forgotten Profile.
LEMMA EndsStep ==
  ASSUME PoliciesAssumption, PoliciesInv,
         NothingToWrite \/ WriteFails \/ (\E p \in Profiles : Forgotten(p))
  PROVE  PoliciesInv'
<1>1. /\ UNCHANGED <<row, stored, heartbeat, online, memory, file>>
      /\ written = Nothing /\ written' = Nothing /\ operations # <<>>
  BY DEF NothingToWrite, Over, WriteFails, ToWrite, Forgotten, Runs
<1> DEFINE Rest == /\ operations' \in Seq(Allowed)
                   /\ sync' \in [Scopes -> SyncTypes]
                   /\ \A x \in Scopes : sync'[x] = sync[x] \/ sync'[x].step # "ANSWERED"
                   /\ start' \in [Profiles -> Policies \union {Nothing}]
                   /\ directories' \in SUBSET Profiles
                   /\ deletion' \in [Profiles -> {"NO", "ASKED", "DONE"}]
                   /\ \A p \in Profiles : deletion[p] # "NO" => deletion'[p] # "NO"
                   /\ losses' \in 0 .. MaxLosses
<1>2. Rest
  <2>1. CASE NothingToWrite
    <3>1. Over /\ UNCHANGED <<deletion, losses>>
      BY <2>1 DEF NothingToWrite
    <3> QED BY <1>1, <3>1, OverFacts, Types
  <2>2. CASE WriteFails
    <3> DEFINE operation == Head(operations)
    <3>1. /\ operations' = Tail(operations)
          /\ sync' = IF operation.kind = "APPLY" /\ operation.scope # Nothing
                     THEN [sync EXCEPT ![operation.scope] = Idle] ELSE sync
          /\ start' = IF operation.kind = "START" THEN [start EXCEPT ![operation.scope] = Nothing] ELSE start
          /\ losses < MaxLosses /\ losses' = losses + 1 /\ UNCHANGED <<deletion, directories>>
      BY <2>2 DEF WriteFails, Loss
    <3>2. operation \in Operations /\ Tail(operations) \in Seq(Allowed)
      BY <1>1, Types, HeadFacts DEF Allowed
    <3>3. /\ operation.scope \in Scopes \union {Nothing}
          /\ operation.kind # "APPLY" => operation.scope \in Profiles
      BY <3>2, OperationTypes
    <3>4. Idle \in SyncTypes /\ Idle.step = "IDLE"
      BY VersionFacts, SyncFacts
    <3> HIDE DEF operation
    <3>5. /\ sync' \in [Scopes -> SyncTypes]
          /\ \A x \in Scopes : sync'[x] = sync[x] \/ sync'[x].step # "ANSWERED"
      BY <3>1, <3>3, <3>4, Types
    <3>6. start' \in [Profiles -> Policies \union {Nothing}]
      BY <3>1, <3>3, Types
    <3>7. losses' \in 0 .. MaxLosses
      BY <3>1, Types DEF PoliciesAssumption
    <3> QED BY <3>1, <3>2, <3>5, <3>6, <3>7, Types
  <2>3. ASSUME NEW p \in Profiles, Forgotten(p) PROVE Rest
    <3>1. /\ operations' = Tail(operations) /\ directories' = directories \ {p}
          /\ deletion' \in {deletion, [deletion EXCEPT ![p] = "DONE"]}
          /\ UNCHANGED <<sync, start, losses>>
      BY <2>3 DEF Forgotten
    <3>2. Tail(operations) \in Seq(Allowed)
      BY <1>1, Types, HeadFacts
    <3>3. /\ deletion' \in [Profiles -> {"NO", "ASKED", "DONE"}]
          /\ \A q \in Profiles : deletion[q] # "NO" => deletion'[q] # "NO"
      BY <3>1, Types
    <3> QED BY <3>1, <3>2, <3>3, Types
  <2> HIDE DEF Rest
  <2> QED BY <2>1, <2>2, <2>3
<1>3. FileIsAhead'
  BY <1>1, <1>2, QuietStep
<1>4. PoliciesTypeOK' /\ operations' \in Seq(Allowed')
  BY <1>1, <1>2, Types, ComposeTypes
<1> QED BY <1>1, <1>3, <1>4 DEF PoliciesInv, FileAgrees

\* Commands that are given up, and connections that end and begin.
LEMMA LossStep ==
  ASSUME PoliciesAssumption, PoliciesInv,
         (\E s \in Scopes : GiveUp(s)) \/ Disconnect \/ Reconnect
  PROVE  PoliciesInv'
<1>1. /\ UNCHANGED <<row, stored, deletion, start, memory, file, directories, written>>
      /\ heartbeat' \in {heartbeat, Nothing} /\ online' \in BOOLEAN /\ losses' \in 0 .. MaxLosses
  <2>1. losses' = losses \/ (losses < MaxLosses /\ losses' = losses + 1)
    BY DEF GiveUp, Disconnect, Reconnect, Loss
  <2>2. losses' \in 0 .. MaxLosses
    BY <2>1, Types DEF PoliciesAssumption
  <2> QED BY <2>2, Types DEF GiveUp, Disconnect, Reconnect
<1>2. /\ operations' \in Seq(Allowed) /\ (operations # <<>> => operations' # <<>>)
      /\ sync' \in [Scopes -> SyncTypes]
      /\ \A x \in Scopes : sync'[x] = sync[x] \/ sync'[x].step # "ANSWERED"
  <2>1. CASE Disconnect \/ Reconnect
    BY <2>1, Types DEF Disconnect, Reconnect
  <2>2. ASSUME NEW s \in Scopes, GiveUp(s)
        PROVE  /\ operations' \in Seq(Allowed) /\ (operations # <<>> => operations' # <<>>)
               /\ sync' \in [Scopes -> SyncTypes]
               /\ \A x \in Scopes : sync'[x] = sync[x] \/ sync'[x].step # "ANSWERED"
    <3> DEFINE operation == [kind |-> "APPLY", policies |-> sync[s].policies, scope |-> Nothing]
    <3>1. sync' = [sync EXCEPT ![s] = Idle]
          /\ operations' \in {Unanswered(s), Append(operations, operation)}
      BY <2>2 DEF GiveUp
    <3>2. operation \in Allowed
      <4>1. sync[s].policies \in Policies
        BY Types DEF SyncTypes
      <4> QED BY <4>1 DEF Allowed, Operations
    <3> HIDE DEF operation
    <3>3. operations' \in Seq(Allowed) /\ (operations # <<>> => operations' # <<>>)
      BY <3>1, <3>2, Types, CallFacts, UnansweredFacts
    <3>4. Idle \in SyncTypes /\ Idle.step = "IDLE"
      BY VersionFacts, SyncFacts
    <3> QED BY <3>1, <3>3, <3>4, Types
  <2> QED BY <2>1, <2>2
<1>3. FileIsAhead'
  BY <1>1, <1>2, QuietStep
<1>4. PoliciesTypeOK' /\ operations' \in Seq(Allowed')
  BY <1>1, <1>2, Types, ComposeTypes
<1> QED BY <1>1, <1>2, <1>3, <1>4 DEF PoliciesInv, FileAgrees

-----------------------------------------------------------------------------
(* Steps by which facts reach the Backend.                                 *)

LEMMA ObserveFacts ==
  ASSUME PoliciesAssumption, PoliciesInv, NEW facts \in Facts, Observe(facts),
         \A s \in Scopes : Lasting(s) => file[s] >= facts.shown[s]
  PROVE  /\ stored' \in Policies
         /\ \A s \in Scopes : Lasting(s) => (stored'[s] > 1 => file[s] >= stored'[s])
<1>1. /\ stored \in [Scopes -> Versions] /\ file \in [Scopes -> Versions]
      /\ facts.shown \in [Scopes -> Versions]
  BY Types DEF Policies, Facts
<1>2. ASSUME NEW s \in Scopes
      PROVE  stored'[s] \in Versions /\ (Lasting(s) => (stored'[s] > 1 => file[s] >= stored'[s]))
  <2>1. stored[s] \in Versions /\ facts.shown[s] \in Versions /\ file[s] \in Nat /\ Versions \subseteq Nat
    BY <1>1, VersionFacts
  <2>2. Lasting(s) => (stored[s] > 1 => file[s] >= stored[s])
    BY DEF PoliciesInv, FileIsAhead
  <2>3. CASE s \notin Kept(facts)
    <3>1. stored'[s] = stored[s]
      BY <2>3 DEF Observe
    <3> QED BY <2>1, <2>2, <3>1
  <2>4. CASE s \in Kept(facts)
    <3> DEFINE v == facts.shown[s]
    <3>1. stored'[s] = Max({stored[s], Shown(v)})
      BY <2>4 DEF Observe
    <3>2. Shown(v) \in Versions /\ (Shown(v) = 1 \/ Shown(v) = v)
      BY <2>1, VersionFacts
    <3>3. stored'[s] \in Versions /\ stored'[s] \in {stored[s], Shown(v)}
      BY <2>1, <3>1, <3>2, VersionFacts
    <3>4. Lasting(s) => file[s] >= v
      BY <2>4
    <3> QED BY <2>1, <2>2, <3>2, <3>3, <3>4
  <2> QED BY <2>3, <2>4
<1>3. stored' \in [Scopes -> Versions]
  <2>1. DOMAIN stored' = Scopes /\ stored' = [s \in Scopes |-> stored'[s]]
    BY DEF Observe
  <2> QED BY <1>2, <2>1
<1> QED BY <1>2, <1>3 DEF Policies

\* What a step that lets the Backend know leaves as it was.
LEMMA KnownStep ==
  ASSUME PoliciesAssumption, PoliciesInv,
         UNCHANGED <<row, deletion, start, memory, file, directories, operations, written, losses>>,
         stored' \in Policies, sync' \in [Scopes -> SyncTypes],
         heartbeat' \in Facts \union {Nothing}, online' \in BOOLEAN,
         \A s \in Scopes : Lasting(s) =>
           /\ stored'[s] > 1 => file[s] >= stored'[s]
           /\ heartbeat' # Nothing => file[s] >= heartbeat'.shown[s]
           /\ \A x \in Scopes : sync'[x].step = "ANSWERED" => file[s] >= sync'[x].policies[s]
  PROVE  PoliciesInv'
<1>1. PoliciesTypeOK' /\ operations' \in Seq(Allowed')
  BY Types, ComposeTypes
<1>2. FileIsAhead'
  <2>1. \A s \in Scopes : Lasting(s) => file[s] >= memory[s]
    BY DEF PoliciesInv, FileIsAhead
  <2> QED BY <2>1 DEF FileIsAhead, Lasting, At
<1> QED BY <1>1, <1>2 DEF PoliciesInv, FileAgrees

LEMMA ObservesStep ==
  ASSUME PoliciesAssumption, PoliciesInv,
         (\E s \in Scopes : SyncObserves(s)) \/ HeartbeatObserved
  PROVE  PoliciesInv'
<1>1. UNCHANGED <<row, deletion, start, memory, file, directories, operations, written, losses>>
  BY DEF SyncObserves, HeartbeatObserved
<1>2. \A s \in Scopes : Lasting(s) =>
        /\ heartbeat # Nothing => file[s] >= heartbeat.shown[s]
        /\ \A x \in Scopes : sync[x].step = "ANSWERED" => file[s] >= sync[x].policies[s]
  BY DEF PoliciesInv, FileIsAhead, At
<1>3. CASE HeartbeatObserved
  <2>1. /\ heartbeat # Nothing /\ Observe(heartbeat) /\ heartbeat' = Nothing
        /\ sync' = Scheduled(sync, ToSchedule(heartbeat)) /\ online' \in BOOLEAN
    BY <1>3, Types DEF HeartbeatObserved
  <2>2. heartbeat \in Facts /\ \A s \in Scopes : Lasting(s) => file[s] >= heartbeat.shown[s]
    BY <1>2, <2>1, Types
  <2>3. /\ stored' \in Policies
        /\ \A s \in Scopes : Lasting(s) => (stored'[s] > 1 => file[s] >= stored'[s])
    BY <2>1, <2>2, ObserveFacts
  <2>4. /\ sync' \in [Scopes -> SyncTypes]
        /\ \A x \in Scopes : sync'[x] = sync[x] \/ sync'[x].step = "SCHEDULED"
    BY <2>1, Types, ScheduledFacts
  <2>5. \A s \in Scopes : Lasting(s) =>
          \A x \in Scopes : sync'[x].step = "ANSWERED" => file[s] >= sync'[x].policies[s]
    BY <1>2, <2>4
  <2> QED BY <1>1, <2>1, <2>3, <2>4, <2>5, KnownStep
<1>4. ASSUME NEW s \in Scopes, SyncObserves(s) PROVE PoliciesInv'
  <2> DEFINE facts == [shown |-> sync[s].policies, of |-> {WorkerScope, s}]
             next == Scheduled(sync, ToSchedule(facts))
  <2>1. /\ At(s, "ANSWERED") /\ Observe(facts) /\ sync' = [next EXCEPT ![s] = Idle]
        /\ UNCHANGED <<heartbeat, online>>
    BY <1>4 DEF SyncObserves
  <2>2. facts \in Facts /\ facts.shown = sync[s].policies
    BY Types DEF SyncTypes, Facts, Scopes
  <2>3. \A x \in Scopes : Lasting(x) => file[x] >= facts.shown[x]
    BY <1>2, <2>1, <2>2 DEF At
  <2> HIDE DEF facts
  <2>4. /\ stored' \in Policies
        /\ \A x \in Scopes : Lasting(x) => (stored'[x] > 1 => file[x] >= stored'[x])
    BY <2>1, <2>2, <2>3, ObserveFacts
  <2>5. /\ next \in [Scopes -> SyncTypes]
        /\ \A x \in Scopes : next[x] = sync[x] \/ next[x].step = "SCHEDULED"
    BY Types, ScheduledFacts
  <2> HIDE DEF next
  <2>6. Idle \in SyncTypes /\ Idle.step = "IDLE"
    BY VersionFacts, SyncFacts
  <2>7. /\ sync' \in [Scopes -> SyncTypes]
        /\ \A x \in Scopes : sync'[x] = sync[x] \/ sync'[x].step # "ANSWERED"
    BY <2>1, <2>5, <2>6
  <2>8. \A y \in Scopes : Lasting(y) =>
          \A x \in Scopes : sync'[x].step = "ANSWERED" => file[y] >= sync'[x].policies[y]
    BY <1>2, <2>7
  <2> QED BY <1>1, <1>2, <2>1, <2>4, <2>7, <2>8, Types, KnownStep
<1> QED BY <1>3, <1>4

LEMMA TellsStep ==
  ASSUME PoliciesAssumption, PoliciesInv, Beat \/ (\E s \in Scopes : Answer(s))
  PROVE  PoliciesInv'
<1>1. UNCHANGED <<row, stored, deletion, start, online, memory, file, directories, operations, written,
                  losses>>
  BY DEF Beat, Answer
<1>2. \A s \in Scopes : Lasting(s) =>
        /\ file[s] >= memory[s]
        /\ stored[s] > 1 => file[s] >= stored[s]
        /\ heartbeat # Nothing => file[s] >= heartbeat.shown[s]
        /\ \A x \in Scopes : sync[x].step = "ANSWERED" => file[s] >= sync[x].policies[s]
  BY DEF PoliciesInv, FileIsAhead, At
<1>3. CASE Beat
  <2> DEFINE of == {WorkerScope} \union directories \union {p \in Profiles : memory[p] # 0}
  <2>1. heartbeat' = [shown |-> memory, of |-> of] /\ sync' = sync
    BY <1>3 DEF Beat
  <2>2. of \in SUBSET Scopes
    BY Types DEF Scopes
  <2> HIDE DEF of
  <2>3. heartbeat' \in Facts /\ heartbeat'.shown = memory
    BY <2>1, <2>2, Types DEF Facts
  <2> QED BY <1>1, <1>2, <2>1, <2>3, Types, KnownStep
<1>4. ASSUME NEW s \in Scopes, Answer(s) PROVE PoliciesInv'
  <2> DEFINE new == [step |-> "ANSWERED", policies |-> Named(memory, s)]
  <2>1. sync' = [sync EXCEPT ![s] = new] /\ heartbeat' = heartbeat
    BY <1>4 DEF Answer
  <2>2. /\ Named(memory, s) \in Policies
        /\ \A x \in Scopes : Named(memory, s)[x] = 0 \/ Named(memory, s)[x] = memory[x]
    BY Types, NamedFacts
  <2>3. new \in SyncTypes /\ new.policies = Named(memory, s)
    BY <2>2, SyncFacts DEF SyncSteps
  <2>4. \A y \in Scopes : file[y] \in Nat
    BY Types, VersionFacts DEF Policies
  <2>5. \A y \in Scopes : Lasting(y) => file[y] >= new.policies[y]
    BY <1>2, <2>2, <2>3, <2>4
  <2> HIDE DEF new
  <2>6. /\ sync' \in [Scopes -> SyncTypes]
        /\ \A x \in Scopes : sync'[x] = sync[x] \/ sync'[x] = new
    BY <2>1, <2>3, Types
  <2>7. \A y \in Scopes : Lasting(y) =>
          \A x \in Scopes : sync'[x].step = "ANSWERED" => file[y] >= sync'[x].policies[y]
    BY <1>2, <2>5, <2>6
  <2> QED BY <1>1, <1>2, <2>1, <2>6, <2>7, Types, KnownStep
<1> QED BY <1>3, <1>4

-----------------------------------------------------------------------------
(* The two halves of an operation, and crashes.                            *)

LEMMA WriteStepOfPolicies ==
  ASSUME PoliciesAssumption, PoliciesInv, WritePolicies
  PROVE  PoliciesInv'
<1> DEFINE operation == Head(operations)
<1>1. /\ operations # <<>> /\ written = Nothing /\ file' = Chosen(operation) /\ written' = file'
      /\ UNCHANGED <<row, stored, deletion, sync, start, heartbeat, online, memory, directories,
                     operations, losses>>
  BY DEF WritePolicies, ToWrite
<1>2. operation \in Allowed /\ operation \in Operations /\ memory = file
  BY <1>1, Types, HeadFacts DEF Allowed, PoliciesInv, FileAgrees
<1> HIDE DEF operation
<1>3. file' \in Policies
  BY <1>1, <1>2, ChosenFacts DEF PoliciesInv
<1>4. \A s \in Scopes : Lasting(s) => file'[s] >= file[s]
  <2>1. \A s \in Scopes : Lasting(s) => ~ (operation.kind = "FORGET" /\ operation.scope = s)
    BY <1>2, OperationTypes DEF Allowed, Lasting
  <2> QED BY <1>1, <1>2, <2>1, ChosenFacts DEF PoliciesInv
<1>5. PoliciesTypeOK' /\ operations' \in Seq(Allowed')
  BY <1>1, <1>3, Types, ComposeTypes
<1>6. FileIsAhead'
  <2> SUFFICES ASSUME NEW s \in Scopes, Lasting(s)
               PROVE  /\ file'[s] >= memory[s]
                      /\ stored[s] > 1 => file'[s] >= stored[s]
                      /\ heartbeat # Nothing => file'[s] >= heartbeat.shown[s]
                      /\ \A x \in Scopes : At(x, "ANSWERED") => file'[s] >= sync[x].policies[s]
    BY <1>1 DEF FileIsAhead, Lasting, At
  <2>1. /\ file[s] >= memory[s] /\ (stored[s] > 1 => file[s] >= stored[s])
        /\ heartbeat # Nothing => file[s] >= heartbeat.shown[s]
        /\ \A x \in Scopes : At(x, "ANSWERED") => file[s] >= sync[x].policies[s]
    BY DEF PoliciesInv, FileIsAhead
  <2>2. /\ file'[s] \in Nat /\ file[s] \in Nat /\ memory[s] \in Nat /\ stored[s] \in Nat
        /\ heartbeat # Nothing => heartbeat.shown[s] \in Nat
        /\ \A x \in Scopes : sync[x].policies[s] \in Nat
    <3>1. \A policies \in Policies : policies[s] \in Nat
      BY VersionFacts DEF Policies
    <3>2. heartbeat # Nothing => heartbeat.shown \in Policies
      BY Types DEF Facts
    <3>3. \A x \in Scopes : sync[x].policies \in Policies
      BY Types DEF SyncTypes
    <3> QED BY <1>3, <3>1, <3>2, <3>3, Types
  <2>3. file'[s] >= file[s]
    BY <1>4
  <2> QED BY <2>1, <2>2, <2>3
<1> QED BY <1>1, <1>3, <1>5, <1>6, Types DEF PoliciesInv, FileAgrees

LEMMA SetStep ==
  ASSUME PoliciesAssumption, PoliciesInv, SetPolicies
  PROVE  PoliciesInv'
<1>1. /\ written # Nothing /\ memory' = written
      /\ UNCHANGED <<row, stored, deletion, heartbeat, online, file, losses>>
  BY DEF SetPolicies
<1>2. memory' = file /\ operations # <<>>
  BY <1>1 DEF PoliciesInv, FileAgrees
<1>3. /\ operations' \in Seq(Allowed) /\ written' = Nothing /\ sync' \in [Scopes -> SyncTypes]
      /\ \A x \in Scopes : sync'[x] = sync[x] \/ sync'[x].step # "ANSWERED"
      /\ start' \in [Profiles -> Policies \union {Nothing}] /\ directories' \in SUBSET Profiles
  <2>1. CASE Runs("FORGET")
    BY <2>1, Types DEF SetPolicies
  <2>2. CASE ~ Runs("FORGET")
    <3>1. Over
      BY <2>2 DEF SetPolicies
    <3> QED BY <1>2, <3>1, OverFacts
  <2> QED BY <2>1, <2>2
<1>4. PoliciesTypeOK' /\ operations' \in Seq(Allowed')
  BY <1>1, <1>2, <1>3, Types, ComposeTypes
<1>5. FileIsAhead'
  <2> SUFFICES ASSUME NEW s \in Scopes, Lasting(s)
               PROVE  /\ file[s] >= file[s]
                      /\ stored[s] > 1 => file[s] >= stored[s]
                      /\ heartbeat # Nothing => file[s] >= heartbeat.shown[s]
                      /\ \A x \in Scopes : At(x, "ANSWERED")' => file[s] >= sync'[x].policies[s]
    BY <1>1, <1>2 DEF FileIsAhead, Lasting
  <2>1. file[s] \in Nat
    BY Types, VersionFacts DEF Policies
  <2>2. /\ stored[s] > 1 => file[s] >= stored[s]
        /\ heartbeat # Nothing => file[s] >= heartbeat.shown[s]
        /\ \A x \in Scopes : At(x, "ANSWERED") => file[s] >= sync[x].policies[s]
    BY DEF PoliciesInv, FileIsAhead
  <2> QED BY <1>3, <2>1, <2>2 DEF At
<1> QED BY <1>1, <1>2, <1>3, <1>4, <1>5 DEF PoliciesInv, FileAgrees

LEMMA CrashStep ==
  ASSUME PoliciesAssumption, PoliciesInv, Crash
  PROVE  PoliciesInv'
<1>1. /\ memory' = file /\ operations' = <<>> /\ written' = Nothing /\ online' = FALSE
      /\ heartbeat' = Nothing /\ start' = [p \in Profiles |-> Nothing]
      /\ losses < MaxLosses /\ losses' = losses + 1
      /\ UNCHANGED <<row, stored, deletion, file>>
  BY DEF Crash, Loss
<1>2. directories' \in SUBSET Profiles
  BY Types DEF Crash
<1>3. /\ sync' \in [Scopes -> SyncTypes]
      /\ \A x \in Scopes : sync'[x] = sync[x] \/ sync'[x].step # "ANSWERED"
  <2>1. sync' = [s \in Scopes |-> IF At(s, "ANSWERED") \/ At(s, "SCHEDULED") THEN sync[s] ELSE Idle]
    BY DEF Crash
  <2>2. Idle \in SyncTypes /\ Idle.step = "IDLE"
    BY VersionFacts, SyncFacts
  <2> QED BY <2>1, <2>2, Types
<1>4. losses' \in 0 .. MaxLosses
  BY <1>1, Types DEF PoliciesAssumption
<1>5. operations' \in Seq(Allowed)
  BY <1>1, EmptySeq
<1>6. PoliciesTypeOK' /\ operations' \in Seq(Allowed')
  BY <1>1, <1>2, <1>3, <1>4, <1>5, Types, ComposeTypes
<1>7. FileIsAhead'
  <2> SUFFICES ASSUME NEW s \in Scopes, Lasting(s)
               PROVE  /\ file[s] >= file[s]
                      /\ stored[s] > 1 => file[s] >= stored[s]
                      /\ \A x \in Scopes : At(x, "ANSWERED")' => file[s] >= sync'[x].policies[s]
    BY <1>1 DEF FileIsAhead, Lasting
  <2>1. file[s] \in Nat
    BY Types, VersionFacts DEF Policies
  <2>2. /\ stored[s] > 1 => file[s] >= stored[s]
        /\ \A x \in Scopes : At(x, "ANSWERED") => file[s] >= sync[x].policies[s]
    BY DEF PoliciesInv, FileIsAhead
  <2> QED BY <1>3, <2>1, <2>2 DEF At
<1> QED BY <1>1, <1>6, <1>7 DEF PoliciesInv, FileAgrees

-----------------------------------------------------------------------------
(* The invariant holds of every behaviour of the policies.                 *)

LEMMA PoliciesStart == ASSUME PoliciesAssumption, PoliciesInit PROVE PoliciesInv
<1>1. /\ row \in [Scopes -> 1 .. MaxVersion] /\ stored \in Policies /\ memory \in Policies
      /\ file \in Policies
  BY VersionFacts DEF PoliciesInit, PoliciesAssumption
<1>2. sync \in [Scopes -> SyncTypes] /\ \A x \in Scopes : sync[x].step = "IDLE"
  BY VersionFacts, SyncFacts DEF PoliciesInit
<1>3. operations \in Seq(Allowed) /\ operations \in Seq(Operations)
  BY EmptySeq DEF PoliciesInit
<1>4. PoliciesTypeOK
  BY <1>1, <1>2, <1>3 DEF PoliciesInit, PoliciesTypeOK, SyncTypes, PoliciesAssumption
<1>5. FileIsAhead
  BY <1>2 DEF PoliciesInit, FileIsAhead, At, None
<1> QED BY <1>3, <1>4, <1>5 DEF PoliciesInit, PoliciesInv, FileAgrees

LEMMA PoliciesStep ==
  ASSUME PoliciesAssumption, PoliciesInv, [PoliciesNext]_policyVars
  PROVE  PoliciesInv'
<1>1. ASSUME NEW s \in Scopes,
             ChangeQuota(s) \/ SyncReads(s) \/ PolicyArrives(s) \/ Answer(s) \/ SyncObserves(s) \/ GiveUp(s)
      PROVE  PoliciesInv'
  BY <1>1, BackendStep, ArrivesStep, TellsStep, ObservesStep, LossStep
<1>2. ASSUME NEW p \in Profiles,
             SendStart(p) \/ StartArrives(p) \/ DeleteProfile(p) \/ Forget(p) \/ Forgotten(p)
      PROVE  PoliciesInv'
  BY <1>2, ProfileStep, ArrivesStep, EndsStep
<1>3. CASE HeartbeatObserved \/ Beat \/ WritePolicies \/ SetPolicies \/ NothingToWrite \/ WriteFails
           \/ Disconnect \/ Reconnect \/ Crash
  BY <1>3, ObservesStep, TellsStep, WriteStepOfPolicies, SetStep, EndsStep, LossStep, CrashStep
<1>4. CASE UNCHANGED policyVars
  BY <1>4 DEF policyVars, PoliciesInv, PoliciesTypeOK, Allowed, FileAgrees, FileIsAhead, Lasting, At
<1> QED BY <1>1, <1>2, <1>3, <1>4 DEF PoliciesNext

LEMMA PolicySide ==
  ASSUME [Next]_vars
  PROVE  [PoliciesNext]_policyVars
BY DEF Next, Account, Decide, vars

(* Between the halves of an operation the policy file is ahead of memory,   *)
(* and whatever the Worker has reported is in the file.                     *)
THEOREM PoliciesInvTheorem == Spec => []PoliciesInv
<1>1. Init => PoliciesInv
  BY PoliciesAssumption, PoliciesStart DEF Init
<1>2. PoliciesInv /\ [Next]_vars => PoliciesInv'
  BY PoliciesAssumption, PoliciesStep, PolicySide
<1> QED BY <1>1, <1>2, PTL DEF Spec

(* What the Worker keeps of reservations, scans and policies is what its    *)
(* code can hold.                                                           *)
THEOREM StorageTypeTheorem == Spec => []TypeOK
<1>1. AccountsInv /\ PoliciesInv => TypeOK
  BY DEF AccountsInv, PoliciesInv, TypeOK
<1> QED BY <1>1, AccountsInvTheorem, PoliciesInvTheorem, PTL

(* The versions the Worker enforces only grow until a Profile is deleted,   *)
(* whatever arrives late, crashes or fails, and what it reported is in its  *)
(* file.                                                                    *)
THEOREM PolicyNeverGoesBackTheorem == Spec => PolicyNeverGoesBack
<1> DEFINE Forward == \A s \in Scopes :
                        (s \in Profiles => deletion[s] = "NO") =>
                          memory'[s] >= memory[s] /\ (stored'[s] > 1 => file'[s] >= stored'[s])
<1>1. PoliciesInv /\ PoliciesInv' /\ [Next]_vars => [Forward]_policyVars
  <2> SUFFICES ASSUME PoliciesInv, PoliciesInv', PoliciesNext, NEW s \in Scopes,
                      s \in Profiles => deletion[s] = "NO"
               PROVE  memory'[s] >= memory[s] /\ (stored'[s] > 1 => file'[s] >= stored'[s])
    BY PolicySide
  <2>1. Lasting(s)
    BY DEF Lasting
  <2>2. file[s] >= memory[s] /\ (stored[s] > 1 => file[s] >= stored[s])
    BY <2>1 DEF PoliciesInv, FileIsAhead
  <2>3. memory'[s] >= memory[s]
    <3>1. \/ memory' = memory
          \/ written # Nothing /\ memory' = written
          \/ memory' = file
      <4>1. CASE SetPolicies
        BY <4>1 DEF SetPolicies
      <4>2. CASE Crash
        BY <4>2 DEF Crash
      <4>3. CASE ~ SetPolicies /\ ~ Crash
        BY <4>3 DEF PoliciesNext, ChangeQuota, SyncReads, PolicyArrives, Answer, SyncObserves, GiveUp,
             SendStart, StartArrives, DeleteProfile, Forget, Forgotten, HeartbeatObserved, Beat,
             WritePolicies, NothingToWrite, WriteFails, Disconnect, Reconnect
      <4> QED BY <4>1, <4>2, <4>3
    <3>2. memory' \in {memory, file}
      BY <3>1 DEF PoliciesInv, FileAgrees
    <3>3. memory[s] >= memory[s]
      <4>1. memory[s] \in Nat
        BY Types, VersionFacts, PoliciesAssumption DEF Policies
      <4> QED BY <4>1
    <3> QED BY <2>2, <3>2, <3>3
  <2>4. stored'[s] > 1 => file'[s] >= stored'[s]
    <3>1. CASE Lasting(s)'
      BY <3>1 DEF PoliciesInv, FileIsAhead
    <3>2. CASE ~ Lasting(s)'
      <4>1. deletion' # deletion
        BY <2>1, <3>2 DEF Lasting
      <4>2. UNCHANGED <<stored, file>>
        BY <4>1 DEF PoliciesNext, ChangeQuota, SyncReads, PolicyArrives, Answer, SyncObserves, GiveUp,
             SendStart, StartArrives, DeleteProfile, Forget, Forgotten, HeartbeatObserved, Beat,
             WritePolicies, SetPolicies, NothingToWrite, WriteFails, Disconnect, Reconnect, Crash
      <4> QED BY <2>2, <4>2
    <3> QED BY <3>1, <3>2
  <2> QED BY <2>3, <2>4
<1> QED BY <1>1, PoliciesInvTheorem, PTL DEF Spec, PolicyNeverGoesBack
=============================================================================
