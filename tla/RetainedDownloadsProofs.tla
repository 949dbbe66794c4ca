----------------------- MODULE RetainedDownloadsProofs -----------------------
(***************************************************************************)
(* Proofs about RetainedDownloads: what happens to the files of a Session  *)
(* for any files, sizes, requests, deadlines and faults.                   *)
(***************************************************************************)
EXTENDS RetainedDownloads, FiniteSetTheorems, SequenceTheorems, TLAPS

-----------------------------------------------------------------------------
(* The inductive invariant.                                                *)

Alive == process \in {"UP", "STARTING"}

\* How a file that was handed over has ended, or that it has not: what the disk says, and the
\* Backend when the disk has been cleared.
End(f) == IF manifest[f] # NoRecord THEN manifest[f].status ELSE row[f].status

\* A process that is down has forgotten everything but its disk.
NothingIsLeft ==
  ~ Alive => /\ files = NoFile /\ allocated = {} /\ reserved = {}
             /\ queue = <<>> /\ uploads = 0
             /\ \A r \in Requests : request[r] \in {"IDLE", "TOKEN"}

\* Nobody has a record of a file that was not handed over, and all records agree on how one ended.
OneEnd(f) ==
  /\ transfer[f] # "DONE" => /\ files[f] = NoRecord /\ manifest[f] = NoRecord /\ row[f] = NoRecord
                             /\ sent[f] = NoRecord /\ late[f] = NoRecord /\ f \notin allocated
  /\ transfer[f] = "DONE" => manifest[f] # NoRecord \/ Ended(row[f])
  /\ Known(f) => files[f].status = End(f)
  /\ Ended(row[f]) => row[f].status = End(f)
  /\ Ended(sent[f]) => sent[f].status = End(f)
  /\ Ended(late[f]) => late[f].status = End(f)
  /\ f \in accepted => Ended(row[f])

StatusesAgree == \A f \in Files : OneEnd(f)

\* Every byte on disk is counted, in one place at a time.
OnDisk(f) ==
  /\ Known(f) \/ manifest[f] # NoRecord => f \in directory
  /\ manifest[f] # NoRecord /\ manifest[f].status = "AVAILABLE" => f \in data
  /\ Alive /\ f \in spool => f \in reserved /\ transfer[f] \in {"WRITING", "COMMITTING", "FAILED"}
  /\ Alive /\ f \in staging => step = "PUBLISH" /\ f = current
  /\ Alive /\ f \in data => f \in allocated

BytesAgree ==
  /\ SizeSum(Counted) + uploads <= MaxBytes
  /\ SizeSum(data) <= MaxBytes
  /\ \A f \in Files : OnDisk(f)

\* What a waiting operation is about is as it was when it was called; only reports of the end of a
\* file are acknowledged.
Waits(operation) ==
  /\ operation.kind = "commit" => transfer[operation.file] = "COMMITTING"
  /\ operation.kind = "abort" => transfer[operation.file] = "ABORTING"
  /\ operation.kind = "acquire" => request[operation.request] = "AUTHORIZED"
  /\ operation.kind = "finish" => request[operation.request] = "SENT"
  /\ operation.kind = "acknowledge" => Ended(row[operation.file])

Once == {"commit", "abort", "acquire", "finish"}

QueueAgrees ==
  /\ \A i \in DOMAIN queue : Waits(queue[i])
  /\ \A i, j \in DOMAIN queue : queue[i].kind \in Once /\ queue[j] = queue[i] => i = j

\* Where the first operation is says what it has done so far.
StepAgrees ==
  /\ queue = <<>> => step = "START"
  /\ step \in {"STAGE", "PUBLISH"} =>
       /\ current \in Files /\ Head(queue) = [kind |-> "commit", file |-> current]
       /\ current \in reserved /\ (step = "PUBLISH" => current \notin spool)
  /\ step = "PERSIST" =>
       /\ Head(queue).kind \in {"end", "expire"} /\ current \in Files /\ Known(current)
       /\ Head(queue).kind = "expire" =>
            Available(current) /\ \A r \in Holders(current) : request[r] = "ABORTED"
  /\ step \in {"DELETE", "FREE"} =>
       /\ Head(queue).kind \in {"expire", "finish"} /\ current \in Files
       /\ Known(current) /\ ~ Available(current)
       /\ Head(queue).kind = "finish" =>
            current = TargetOf[Head(queue).request] /\ files[current].status = "CLAIMED"
       /\ step = "FREE" => current \notin data
  /\ step = "REMOVE" =>
       current \in Files /\ Head(queue) = [kind |-> "acknowledge", file |-> current]

\* The end of the first operation's file is under way for this request.
Finishes(r) == queue # <<>> /\ Head(queue) = [kind |-> "finish", request |-> r] /\ step \in {"DELETE", "FREE"}

\* A lease has one holder; the file is there as long as its bytes flow, and until it is claimed.
HoldersAgree ==
  /\ \A r, q \in Requests :
       TargetOf[r] = TargetOf[q] /\ r \in Holders(TargetOf[r]) /\ q \in Holders(TargetOf[q]) => r = q
  /\ \A r \in Requests :
       /\ request[r] = "STREAMING" => Available(TargetOf[r])
       /\ request[r] = "SENT" => Available(TargetOf[r]) \/ Finishes(r)

DownloadsInv ==
  /\ TypeOK /\ NothingIsLeft /\ StatusesAgree /\ BytesAgree /\ QueueAgrees /\ StepAgrees /\ HoldersAgree

-----------------------------------------------------------------------------
(* The size of files.                                                      *)

BytesOf(F) == UNION {Bytes(f) : f \in F}

LEMMA SizeIsFinite ==
  ASSUME NEW F \in SUBSET Files, DownloadsAssumption
  PROVE  IsFiniteSet(BytesOf(F)) /\ SizeSum(F) = Cardinality(BytesOf(F)) /\ SizeSum(F) \in Nat
<1> DEFINE Each == {Bytes(f) : f \in F}
           bytes == [f \in F |-> Bytes(f)]
<1>1. IsFiniteSet(F)
  BY FS_Subset DEF DownloadsAssumption
<1>2. bytes \in Surjection(F, Each)
  BY DEF Surjection
<1>3. IsFiniteSet(Each)
  BY <1>1, <1>2, FS_Surjection
<1>4. ASSUME NEW f \in F PROVE IsFiniteSet(Bytes(f))
  <2>1. SizeOf[f] \in Nat
    BY DEF DownloadsAssumption
  <2>2. ASSUME NEW n \in Nat PROVE IsFiniteSet(1 .. n)
    BY FS_Interval
  <2>3. IsFiniteSet(1 .. SizeOf[f]) /\ IsFiniteSet({f})
    BY <2>1, <2>2, FS_Singleton
  <2> QED BY <2>3, FS_Product DEF Bytes
<1>5. \A T \in Each : IsFiniteSet(T)
  BY <1>4
<1>6. IsFiniteSet(UNION Each)
  BY <1>3, <1>5, FS_UNION
<1> QED BY <1>6, FS_CardinalityType DEF BytesOf, SizeSum

\* More files are not smaller.
LEMMA SizeGrows ==
  ASSUME NEW G \in SUBSET Files, NEW F \in SUBSET G, DownloadsAssumption
  PROVE  SizeSum(F) <= SizeSum(G) /\ SizeSum(F) \in Nat /\ SizeSum(G) \in Nat
<1>1. BytesOf(F) \subseteq BytesOf(G)
  BY DEF BytesOf
<1>2. F \in SUBSET Files
  OBVIOUS
<1>3. IsFiniteSet(BytesOf(G)) /\ SizeSum(G) = Cardinality(BytesOf(G)) /\ SizeSum(G) \in Nat
  BY SizeIsFinite
<1>4. SizeSum(F) = Cardinality(BytesOf(F)) /\ SizeSum(F) \in Nat
  BY <1>2, SizeIsFinite
<1>5. Cardinality(BytesOf(F)) <= Cardinality(BytesOf(G))
  BY <1>1, <1>3, FS_Subset
<1> QED BY <1>3, <1>4, <1>5

LEMMA CountTo ==
  ASSUME NEW n \in Nat
  PROVE  IsFiniteSet(1 .. n) /\ Cardinality(1 .. n) = n
BY FS_Interval

\* One more file adds no more than its size.
LEMMA SizeAdds ==
  ASSUME NEW F \in SUBSET Files, NEW f \in Files, DownloadsAssumption
  PROVE  SizeSum(F \union {f}) <= SizeSum(F) + SizeOf[f] /\ SizeSum(F \union {f}) \in Nat
<1>1. SizeOf[f] \in Nat
  BY DEF DownloadsAssumption
<1>2. IsFiniteSet(Bytes(f)) /\ Cardinality(Bytes(f)) = SizeOf[f]
  <2>2. IsFiniteSet(1 .. SizeOf[f]) /\ Cardinality(1 .. SizeOf[f]) = SizeOf[f]
    BY <1>1, CountTo
  <2>3. \A n : IsFiniteSet({n}) /\ Cardinality({n}) = 1
    BY FS_Singleton
  <2>4. IsFiniteSet({f}) /\ Cardinality({f}) = 1
    BY <2>3, Zenon
  <2>5. /\ IsFiniteSet({f} \X (1 .. SizeOf[f]))
        /\ Cardinality({f} \X (1 .. SizeOf[f])) = Cardinality({f}) * Cardinality(1 .. SizeOf[f])
    BY <2>2, <2>4, FS_Product
  <2> QED BY <1>1, <2>2, <2>4, <2>5 DEF Bytes
<1>3. IsFiniteSet(BytesOf(F)) /\ SizeSum(F) = Cardinality(BytesOf(F)) /\ SizeSum(F) \in Nat
  BY SizeIsFinite
<1>4. F \union {f} \in SUBSET Files
  OBVIOUS
<1>5. SizeSum(F \union {f}) = Cardinality(BytesOf(F \union {f})) /\ SizeSum(F \union {f}) \in Nat
  BY <1>4, SizeIsFinite
<1>6. BytesOf(F \union {f}) = BytesOf(F) \union Bytes(f)
  BY DEF BytesOf
<1>7. /\ Cardinality(BytesOf(F) \union Bytes(f))
           = Cardinality(BytesOf(F)) + Cardinality(Bytes(f)) - Cardinality(BytesOf(F) \intersect Bytes(f))
      /\ Cardinality(BytesOf(F) \intersect Bytes(f)) \in Nat
  <2>1. IsFiniteSet(BytesOf(F) \intersect Bytes(f))
    BY <1>2, FS_Subset
  <2> QED BY <1>2, <1>3, <2>1, FS_Union, FS_CardinalityType
<1>8. Cardinality(BytesOf(F \union {f})) = Cardinality(BytesOf(F) \union Bytes(f))
  BY <1>6
<1> DEFINE both == Cardinality(BytesOf(F) \intersect Bytes(f))
           joined == SizeSum(F \union {f})
           size == SizeSum(F)
<1>9. joined = size + SizeOf[f] - both /\ both \in Nat /\ joined \in Nat /\ size \in Nat
  BY <1>2, <1>3, <1>5, <1>7, <1>8
<1> HIDE DEF both, joined, size
<1>10. joined <= size + SizeOf[f]
  BY <1>1, <1>9
<1> QED BY <1>9, <1>10 DEF joined, size

LEMMA NothingHasNoSize == SizeSum({}) = 0
<1>1. UNION {Bytes(f) : f \in {}} = {}
  OBVIOUS
<1> QED BY <1>1, FS_EmptySet DEF SizeSum

-----------------------------------------------------------------------------
(* Facts about the state, in the terms the provers use.                    *)

LEMMA LessOfTwo ==
  ASSUME NEW x \in Nat, NEW y \in Nat
  PROVE  Min({x, y}) \in {x, y} /\ Min({x, y}) <= x /\ Min({x, y}) <= y
<1>1. \E z \in {x, y} : \A u \in {x, y} : z <= u
  OBVIOUS
<1> QED BY <1>1 DEF Min

LEMMA HeadFacts ==
  ASSUME TypeOK, queue # <<>>
  PROVE  /\ Head(queue) \in Operations /\ Head(queue) = queue[1] /\ 1 \in DOMAIN queue
         /\ Tail(queue) \in Seq(Operations)
         /\ \A i \in DOMAIN Tail(queue) : i + 1 \in DOMAIN queue /\ i \in Nat /\ i > 0
                                          /\ Tail(queue)[i] = queue[i + 1]
<1>1. queue \in Seq(Operations)
  BY DEF TypeOK
<1>2. DOMAIN queue = 1 .. Len(queue) /\ Len(queue) \in Nat /\ Len(queue) # 0
  BY <1>1, LenProperties, EmptySeq
<1>3. /\ Head(queue) \in Operations /\ Tail(queue) \in Seq(Operations) /\ Head(queue) = queue[1]
      /\ Len(Tail(queue)) = Len(queue) - 1
      /\ \A i \in 1 .. Len(Tail(queue)) : Tail(queue)[i] = queue[i + 1]
  BY <1>1, HeadTailProperties
<1>4. DOMAIN Tail(queue) = 1 .. Len(Tail(queue))
  BY <1>3, LenProperties
<1> QED BY <1>2, <1>3, <1>4

LEMMA CallFacts ==
  ASSUME TypeOK, NEW operation \in Operations
  PROVE  /\ Append(queue, operation) \in Seq(Operations) /\ Append(queue, operation) # <<>>
         /\ queue # <<>> => Head(Append(queue, operation)) = Head(queue)
         /\ \A i \in DOMAIN Append(queue, operation) :
              \/ i \in DOMAIN queue /\ Append(queue, operation)[i] = queue[i]
              \/ i = Len(queue) + 1 /\ Append(queue, operation)[i] = operation
<1>1. queue \in Seq(Operations) /\ DOMAIN queue = 1 .. Len(queue) /\ Len(queue) \in Nat
  BY LenProperties DEF TypeOK
<1>2. /\ Append(queue, operation) \in Seq(Operations)
      /\ Len(Append(queue, operation)) = Len(queue) + 1
      /\ \A i \in 1 .. Len(queue) : Append(queue, operation)[i] = queue[i]
      /\ Append(queue, operation)[Len(queue) + 1] = operation
  BY <1>1, AppendProperties
<1>3. DOMAIN Append(queue, operation) = 1 .. Len(queue) + 1
  BY <1>2, LenProperties
<1>4. queue # <<>> => Head(Append(queue, operation)) = Head(queue)
  BY <1>1, HeadTailAppend
<1>5. Append(queue, operation) # <<>>
  BY <1>1, <1>2, EmptySeq
<1> QED BY <1>1, <1>2, <1>3, <1>4, <1>5

LEMMA AgedFacts ==
  ASSUME NEW report \in Reports, DownloadsAssumption, RecordAssumption
  PROVE  /\ Aged(report) \in Reports
         /\ \A f \in Files :
              /\ Aged(report)[f] = NoRecord <=> report[f] = NoRecord
              /\ report[f] # NoRecord => Aged(report)[f].status = report[f].status
<1>1. ASSUME NEW f \in Files
      PROVE  /\ Aged(report)[f] \in Records \union {NoRecord}
             /\ Aged(report)[f] = NoRecord <=> report[f] = NoRecord
             /\ report[f] # NoRecord => Aged(report)[f].status = report[f].status
  <2>1. CASE report[f] = NoRecord \/ report[f].due = 0
    <3>1. Aged(report)[f] = report[f]
      BY <2>1 DEF Aged
    <3> QED BY <3>1 DEF Reports
  <2>2. CASE report[f] # NoRecord /\ report[f].due # 0
    <3>1. report[f] \in Records
      BY <2>2 DEF Reports
    <3>2. Aged(report)[f] = [report[f] EXCEPT !.due = @ - 1]
      BY <2>2 DEF Aged
    <3>3. report[f].due - 1 \in 0 .. Retention
      BY <2>2, <3>1 DEF Records, DownloadsAssumption
    <3>4. Aged(report)[f] \in Records /\ Aged(report)[f].status = report[f].status
      BY <3>1, <3>2, <3>3 DEF Records
    <3> QED BY <2>2, <3>4 DEF RecordAssumption
  <2> QED BY <2>1, <2>2
<1>2. Aged(report) \in Reports
  BY <1>1 DEF Aged, Reports
<1> QED BY <1>1, <1>2

\* The Backend's rows age alike.
LEMMA AgedRows ==
  ASSUME TypeOK, DownloadsAssumption, RecordAssumption
  PROVE  /\ Aged(row) \in [Files -> Rows \union {NoRecord}]
         /\ \A f \in Files :
              /\ Aged(row)[f] = NoRecord <=> row[f] = NoRecord
              /\ row[f] # NoRecord => /\ Aged(row)[f].status = row[f].status
                                      /\ Aged(row)[f].due <= row[f].due
<1>0. row \in [Files -> Rows \union {NoRecord}]
  BY DEF TypeOK
<1>1. ASSUME NEW f \in Files
      PROVE  /\ Aged(row)[f] \in Rows \union {NoRecord}
             /\ Aged(row)[f] = NoRecord <=> row[f] = NoRecord
             /\ row[f] # NoRecord => /\ Aged(row)[f].status = row[f].status
                                     /\ Aged(row)[f].due <= row[f].due
  <2>1. CASE row[f] = NoRecord \/ row[f].due = 0
    <3>1. Aged(row)[f] = row[f]
      BY <2>1 DEF Aged
    <3>2. row[f] # NoRecord => row[f].due \in Nat
      BY <1>0 DEF Rows, DownloadsAssumption
    <3> QED BY <1>0, <3>1, <3>2
  <2>2. CASE row[f] # NoRecord /\ row[f].due # 0
    <3>1. row[f] \in Rows
      BY <1>0, <2>2
    <3>2. Aged(row)[f] = [row[f] EXCEPT !.due = @ - 1]
      BY <2>2 DEF Aged
    <3>3. row[f].due - 1 \in 0 .. Retention /\ row[f].due - 1 <= row[f].due
      BY <2>2, <3>1 DEF Rows, DownloadsAssumption
    <3>4. /\ Aged(row)[f] \in Rows /\ Aged(row)[f].status = row[f].status
          /\ Aged(row)[f].due = row[f].due - 1
      BY <3>1, <3>2, <3>3 DEF Rows
    <3> QED BY <2>2, <3>3, <3>4 DEF RecordAssumption
  <2> QED BY <2>1, <2>2
<1>2. Aged(row) \in [Files -> Rows \union {NoRecord}]
  BY <1>1 DEF Aged
<1> QED BY <1>1, <1>2

LEMMA RecordFacts ==
  ASSUME TypeOK, RecordAssumption, NEW f \in Files
  PROVE  /\ files[f] \in Records \union {NoRecord} /\ manifest[f] \in Records \union {NoRecord}
         /\ sent[f] \in Records \union {NoRecord} /\ late[f] \in Records \union {NoRecord}
         /\ row[f] \in Rows \union {NoRecord}
         /\ NoRecord \notin Records /\ NoRecord \notin Rows
BY DEF TypeOK, Reports, RecordAssumption

\* What a report adds to the Backend's row: the first end stays, and deadlines only come nearer.
LEMMA MergeFacts ==
  ASSUME DownloadsAssumption, RecordAssumption,
         NEW old \in Rows \union {NoRecord}, NEW new \in Records \union {NoRecord}
  PROVE  /\ Merge(old, new) \in Rows \union {NoRecord}
         /\ old # NoRecord => Merge(old, new) # NoRecord /\ Merge(old, new).due <= old.due
         /\ Ended(old) => Ended(Merge(old, new)) /\ Merge(old, new).status = old.status
         /\ Merge(old, new) # NoRecord => old # NoRecord \/ new # NoRecord
         /\ Ended(new) => Ended(Merge(old, new))
         /\ Ended(Merge(old, new)) => \/ Ended(old)
                                      \/ Ended(new) /\ Merge(old, new).status = new.status
<1>1. NoRecord \notin Records /\ NoRecord \notin Rows /\ Retention \in Nat
  BY DEF RecordAssumption, DownloadsAssumption
<1>2. CASE new = NoRecord
  <2>1. Merge(old, new) = old
    BY <1>2 DEF Merge
  <2>2. old # NoRecord => old.due \in Nat
    BY <1>1 DEF Rows
  <2> QED BY <1>2, <2>1, <2>2 DEF Ended
<1>3. CASE new # NoRecord /\ old = NoRecord
  <2>1. Merge(old, new) = [status |-> new.status, due |-> new.due]
    BY <1>3 DEF Merge
  <2>2. new.status \in Statuses /\ new.due \in 0 .. Retention
    BY <1>3 DEF Records
  <2>3. Merge(old, new) \in Rows /\ Merge(old, new).status = new.status
    BY <2>1, <2>2 DEF Rows
  <2> QED BY <1>1, <1>3, <2>3 DEF Ended
<1>4. CASE new # NoRecord /\ old # NoRecord
  <2> DEFINE due == Min({old.due, new.due})
             status == IF old.status = "AVAILABLE" THEN new.status ELSE old.status
  <2>1. Merge(old, new) = [status |-> status, due |-> due]
    BY <1>4 DEF Merge
  <2>2. /\ new.status \in Statuses /\ new.due \in 0 .. Retention
        /\ old.status \in Statuses /\ old.due \in 0 .. Retention
    BY <1>4 DEF Records, Rows
  <2>3. due \in 0 .. Retention /\ due <= old.due
    <3>1. old.due \in Nat /\ new.due \in Nat
      BY <1>1, <2>2
    <3> QED BY <2>2, <3>1, LessOfTwo
  <2>4. status \in Statuses
    BY <2>2
  <2> HIDE DEF due
  <2>5. Merge(old, new) \in Rows /\ Merge(old, new).status = status /\ Merge(old, new).due = due
    BY <2>1, <2>3, <2>4 DEF Rows
  <2> QED BY <1>1, <1>4, <2>2, <2>3, <2>5 DEF Ended
<1> QED BY <1>2, <1>3, <1>4

\* An end that the Backend knows stays, and comes from a report.
LEMMA RowsStep ==
  ASSUME DownloadsInv, DownloadsAssumption, RecordAssumption, Next
  PROVE  /\ row' \in [Files -> Rows \union {NoRecord}]
         /\ \A f \in Files :
              /\ row[f] # NoRecord => row'[f] # NoRecord /\ row'[f].due <= row[f].due
              /\ Ended(row[f]) => Ended(row'[f]) /\ row'[f].status = row[f].status
              /\ row'[f] # NoRecord => row[f] # NoRecord \/ sent[f] # NoRecord \/ late[f] # NoRecord
              /\ Ended(row'[f]) => \/ Ended(row[f])
                                   \/ Ended(sent[f]) /\ row'[f].status = sent[f].status
                                   \/ Ended(late[f]) /\ row'[f].status = late[f].status
<1> DEFINE Goal ==
      /\ row' \in [Files -> Rows \union {NoRecord}]
      /\ \A f \in Files :
           /\ row[f] # NoRecord => row'[f] # NoRecord /\ row'[f].due <= row[f].due
           /\ Ended(row[f]) => Ended(row'[f]) /\ row'[f].status = row[f].status
           /\ row'[f] # NoRecord => row[f] # NoRecord \/ sent[f] # NoRecord \/ late[f] # NoRecord
           /\ Ended(row'[f]) => \/ Ended(row[f])
                                \/ Ended(sent[f]) /\ row'[f].status = sent[f].status
                                \/ Ended(late[f]) /\ row'[f].status = late[f].status
<1> SUFFICES Goal
  OBVIOUS
<1>1. UNCHANGED row => Goal
  <2>1. row \in [Files -> Rows \union {NoRecord}] /\ Retention \in Nat
    BY DEF DownloadsInv, TypeOK, DownloadsAssumption
  <2>2. \A f \in Files : row[f] # NoRecord => row[f].due \in Nat
    BY <2>1 DEF Rows
  <2> QED BY <2>1, <2>2
<1>2. CASE Reconcile \/ ReconcileLate
  <2>1. /\ row \in [Files -> Rows \union {NoRecord}]
        /\ \A f \in Files : /\ sent[f] \in Records \union {NoRecord} /\ late[f] \in Records \union {NoRecord}
                            /\ row[f] \in Rows \union {NoRecord}
    BY DEF DownloadsInv, TypeOK, Reports
  <2>2. row' = row \/ row' = Merged(sent) \/ row' = Merged(late)
    BY <1>2 DEF Reconcile, ReconcileLate
  <2>3. CASE row' = row
    BY <1>1, <2>3
  <2>4. CASE row' = Merged(sent)
    BY <2>1, <2>4, MergeFacts DEF Merged
  <2>5. CASE row' = Merged(late)
    BY <2>1, <2>5, MergeFacts DEF Merged
  <2> QED BY <2>2, <2>3, <2>4, <2>5
<1>3. CASE Tick
  <2>1. row' = Aged(row)
    BY <1>3 DEF Tick
  <2>2. TypeOK /\ \A f \in Files : row[f] \in Rows \union {NoRecord}
    BY DEF DownloadsInv, TypeOK
  <2> QED BY <2>1, <2>2, AgedRows DEF Ended
<1>4. CASE \/ (\E f \in Files : Reserve(f)) \/ (\E f \in Files : Commit(f))
           \/ (\E f \in Files : Abort(f)) \/ (\E f \in Files : CommitFails(f))
           \/ (\E f \in Files : CommitStarts(f)) \/ (\E f \in Files : Stage(f))
           \/ (\E f \in Files : Publish(f)) \/ (\E f \in Files : AbortRuns(f))
           \/ (\E f \in Files : EndsFile(f))
  <2>1. UNCHANGED row
    BY <1>4 DEF Reserve, Commit, Abort, CommitFails, CommitStarts, Stage, Publish, AbortRuns,
       EndsFile, backendVars
  <2> QED BY <1>1, <2>1
<1>5. CASE \/ (\E f \in Files : FileEnded(f)) \/ (\E f \in Files : ExpireFile(f))
           \/ (\E f \in Files : FileExpired(f)) \/ (\E f \in Files : DeleteLeftOver(f))
           \/ (\E f \in Files : DeleteBytes(f)) \/ (\E f \in Files : FreeBytes(f))
           \/ (\E f \in Files : AcknowledgeStarts(f)) \/ (\E f \in Files : Acknowledged(f))
           \/ (\E f \in Files : Unlink(f))
           \/ (\E r \in Requests : Acquire(r))
  <2>1. UNCHANGED row
    BY <1>5 DEF FileEnded, ExpireFile, FileExpired, DeleteLeftOver, DeleteBytes, FreeBytes,
       AcknowledgeStarts, Unlink, Acknowledged, Acquire, backendVars
  <2> QED BY <1>1, <2>1
<1>6. CASE \/ (\E r \in Requests : Claim(r)) \/ (\E r \in Requests : Prepare(r))
           \/ (\E r \in Requests : Consume(r)) \/ (\E r \in Requests : TokenLost(r))
           \/ (\E r \in Requests : StreamBreaks(r)) \/ (\E r \in Requests : Release(r))
           \/ (\E r \in Requests : Finish(r)) \/ SessionEnded \/ ExpireEnds
  <2>1. UNCHANGED row
    BY <1>6 DEF Claim, Prepare, Consume, TokenLost, StreamBreaks, Release, Finish, SessionEnded,
       ExpireEnds, backendVars
  <2> QED BY <1>1, <2>1
<1>7. CASE \/ OperationFails \/ Upload \/ CloseCore \/ CleanUpSession \/ Expire \/ Report
           \/ Acknowledge \/ Disconnect \/ Connect
  <2>1. UNCHANGED row
    BY <1>7 DEF OperationFails, Upload, CloseCore, CleanUpSession, Expire, Report, Acknowledge,
       Disconnect, Connect, backendVars
  <2> QED BY <1>1, <2>1
<1>8. CASE LoseAccess \/ Crash \/ Restart \/ Started
  <2>1. UNCHANGED row
    BY <1>8 DEF LoseAccess, Crash, Restart, Started, backendVars
  <2> QED BY <1>1, <2>1
<1> HIDE DEF Goal
<1> QED BY <1>2, <1>3, <1>4, <1>5, <1>6, <1>7, <1>8 DEF Next, RunQueue, Operation

LEMMA OperationFacts ==
  ASSUME NEW operation \in Operations
  PROVE  /\ operation.kind \in Once \union {"acknowledge", "end", "expire"}
         /\ operation.kind \in {"commit", "abort", "acknowledge"} =>
              /\ operation.file \in Files
              /\ operation = [kind |-> operation.kind, file |-> operation.file]
         /\ operation.kind \in {"acquire", "finish"} =>
              /\ operation.request \in Requests
              /\ operation = [kind |-> operation.kind, request |-> operation.request]
         /\ operation.kind = "end" => operation.left \in 0 .. AfterSession
         /\ operation.kind = "expire" => operation.over \in SUBSET Files
BY DEF Operations, Once

\* A transfer that waits for the store goes on when its operation is over.
LEMMA TransferStep ==
  ASSUME DownloadsInv, DownloadsAssumption, RecordAssumption, Next
  PROVE  \/ Crash
         \/ \A f \in Files : transfer[f] \in {"COMMITTING", "ABORTING"} /\ transfer'[f] # transfer[f] =>
              /\ queue # <<>> /\ queue' = Tail(queue) /\ Head(queue).file = f
              /\ Head(queue).kind = IF transfer[f] = "COMMITTING" THEN "commit" ELSE "abort"
<1> DEFINE Goal ==
      \/ Crash
      \/ \A f \in Files : transfer[f] \in {"COMMITTING", "ABORTING"} /\ transfer'[f] # transfer[f] =>
           /\ queue # <<>> /\ queue' = Tail(queue) /\ Head(queue).file = f
           /\ Head(queue).kind = IF transfer[f] = "COMMITTING" THEN "commit" ELSE "abort"
<1> SUFFICES Goal
  OBVIOUS
<1>1. UNCHANGED transfer => Goal
  OBVIOUS
<1>2. CASE Crash
  BY <1>2
<1>3. CASE \/ (\E f \in Files : Reserve(f)) \/ (\E f \in Files : Commit(f))
           \/ (\E f \in Files : Abort(f))
  BY <1>3 DEF Reserve, Commit, Abort, DownloadsInv, TypeOK
<1>4. CASE \E f \in Files : CommitStarts(f)
  <2>1. PICK f \in Files : CommitStarts(f)
    BY <1>4
  <2>2. queue # <<>> /\ Head(queue) = [kind |-> "commit", file |-> f]
    BY <2>1 DEF CommitStarts, Running
  <2>3. \/ UNCHANGED transfer
        \/ queue' = Tail(queue) /\ transfer' = [transfer EXCEPT ![f] = "FAILED"]
    BY <2>1 DEF CommitStarts, Finished
  <2>4. Waits(Head(queue)) /\ transfer[f] = "COMMITTING"
    BY <2>2, HeadFacts DEF DownloadsInv, QueueAgrees, Waits
  <2> QED BY <2>2, <2>3, <2>4 DEF DownloadsInv, TypeOK
<1>5. CASE (\E f \in Files : Publish(f)) \/ (\E f \in Files : CommitFails(f))
  <2>1. PICK f \in Files : Publish(f) \/ CommitFails(f)
    BY <1>5
  <2>2. /\ queue # <<>> /\ Head(queue) = [kind |-> "commit", file |-> f] /\ queue' = Tail(queue)
        /\ \E to \in {"DONE", "FAILED"} : transfer' = [transfer EXCEPT ![f] = to]
    BY <2>1 DEF Publish, CommitFails, Running, Finished
  <2>3. Waits(Head(queue)) /\ transfer[f] = "COMMITTING"
    BY <2>2, HeadFacts DEF DownloadsInv, QueueAgrees, Waits
  <2> QED BY <2>2, <2>3 DEF DownloadsInv, TypeOK
<1>6. CASE \E f \in Files : AbortRuns(f)
  <2>1. PICK f \in Files : AbortRuns(f)
    BY <1>6
  <2>2. /\ queue # <<>> /\ Head(queue) = [kind |-> "abort", file |-> f] /\ queue' = Tail(queue)
        /\ transfer' = [transfer EXCEPT ![f] = "NONE"]
    BY <2>1 DEF AbortRuns, Running, Finished
  <2>3. Waits(Head(queue)) /\ transfer[f] = "ABORTING"
    BY <2>2, HeadFacts DEF DownloadsInv, QueueAgrees, Waits
  <2> QED BY <2>2, <2>3 DEF DownloadsInv, TypeOK
<1>7. CASE \/ (\E f \in Files : Stage(f)) \/ (\E f \in Files : EndsFile(f))
           \/ (\E f \in Files : FileEnded(f)) \/ (\E f \in Files : ExpireFile(f))
           \/ (\E f \in Files : FileExpired(f)) \/ (\E f \in Files : DeleteLeftOver(f))
           \/ (\E f \in Files : DeleteBytes(f)) \/ (\E f \in Files : FreeBytes(f))
           \/ (\E f \in Files : AcknowledgeStarts(f))
           \/ (\E f \in Files : Unlink(f))
  <2>1. UNCHANGED transfer
    BY <1>7 DEF Stage, EndsFile, FileEnded, ExpireFile, FileExpired, DeleteLeftOver, DeleteBytes,
       FreeBytes, AcknowledgeStarts, Unlink, coreVars
  <2> QED BY <1>1, <2>1
<1>8. CASE \/ (\E f \in Files : Acknowledged(f)) \/ (\E r \in Requests : Acquire(r))
           \/ (\E r \in Requests : Claim(r)) \/ (\E r \in Requests : Prepare(r))
           \/ (\E r \in Requests : Consume(r)) \/ (\E r \in Requests : TokenLost(r))
           \/ (\E r \in Requests : StreamBreaks(r)) \/ (\E r \in Requests : Release(r))
           \/ (\E r \in Requests : Finish(r))
  <2>1. UNCHANGED transfer
    BY <1>8 DEF Acknowledged, Acquire, Claim, Prepare, Consume, TokenLost, StreamBreaks, Release,
       Finish, coreVars
  <2> QED BY <1>1, <2>1
<1>9. CASE \/ SessionEnded \/ ExpireEnds \/ OperationFails \/ Upload \/ CloseCore
           \/ CleanUpSession \/ Expire \/ Report \/ Reconcile
  <2>1. UNCHANGED transfer
    BY <1>9 DEF SessionEnded, ExpireEnds, OperationFails, Upload, CloseCore, CleanUpSession, Expire,
       Report, Reconcile, coreVars
  <2> QED BY <1>1, <2>1
<1>10. CASE \/ ReconcileLate \/ Acknowledge \/ Disconnect \/ Connect \/ LoseAccess \/ Restart
            \/ Started \/ Tick
  <2>1. UNCHANGED transfer
    BY <1>10 DEF ReconcileLate, Acknowledge, Disconnect, Connect, LoseAccess, Restart, Started, Tick,
       coreVars
  <2> QED BY <1>1, <2>1
<1> HIDE DEF Goal
<1> QED BY <1>2, <1>3, <1>4, <1>5, <1>6, <1>7, <1>8, <1>9, <1>10 DEF Next, RunQueue, Operation

\* A request that waits for the store goes on when its operation is over.
LEMMA RequestStep ==
  ASSUME DownloadsInv, DownloadsAssumption, RecordAssumption, Next
  PROVE  \/ Crash
         \/ \A r \in Requests : request[r] \in {"AUTHORIZED", "SENT"} /\ request'[r] # request[r] =>
              /\ queue # <<>> /\ queue' = Tail(queue) /\ Head(queue).request = r
              /\ Head(queue).kind = IF request[r] = "AUTHORIZED" THEN "acquire" ELSE "finish"
<1> DEFINE Goal ==
      \/ Crash
      \/ \A r \in Requests : request[r] \in {"AUTHORIZED", "SENT"} /\ request'[r] # request[r] =>
           /\ queue # <<>> /\ queue' = Tail(queue) /\ Head(queue).request = r
           /\ Head(queue).kind = IF request[r] = "AUTHORIZED" THEN "acquire" ELSE "finish"
<1> SUFFICES Goal
  OBVIOUS
<1>1. UNCHANGED request => Goal
  OBVIOUS
<1>2. CASE Crash
  BY <1>2
<1>3. CASE \/ (\E r \in Requests : Prepare(r)) \/ (\E r \in Requests : Consume(r))
           \/ (\E r \in Requests : TokenLost(r)) \/ (\E r \in Requests : StreamBreaks(r))
           \/ (\E r \in Requests : Release(r)) \/ (\E r \in Requests : Finish(r))
  BY <1>3 DEF Prepare, Consume, TokenLost, StreamBreaks, Release, Finish, DownloadsInv, TypeOK
<1>4. CASE Reconcile \/ ReconcileLate \/ (\E f \in Files : ExpireFile(f))
  BY <1>4 DEF Reconcile, ReconcileLate, WithoutClaims, ExpireFile
<1>5. CASE \E r \in Requests : Acquire(r)
  <2>1. PICK r \in Requests : Acquire(r)
    BY <1>5
  <2>2. /\ queue # <<>> /\ Head(queue) = [kind |-> "acquire", request |-> r] /\ queue' = Tail(queue)
        /\ \E to \in {"STREAMING", "IDLE"} : request' = [request EXCEPT ![r] = to]
    BY <2>1 DEF Acquire, Running, Finished
  <2>3. Waits(Head(queue)) /\ request[r] = "AUTHORIZED"
    BY <2>2, HeadFacts DEF DownloadsInv, QueueAgrees, Waits
  <2> QED BY <2>2, <2>3 DEF DownloadsInv, TypeOK
<1>6. CASE \E f \in Files : FreeBytes(f)
  <2>1. PICK f \in Files : FreeBytes(f)
    BY <1>6
  <2>2. CASE UNCHANGED request
    BY <1>1, <2>2
  <2>3. CASE ~ UNCHANGED request
    <3> DEFINE r == Head(queue).request
    <3>1. /\ queue # <<>> /\ step = "FREE" /\ Head(queue).kind # "expire" /\ queue' = Tail(queue)
          /\ request' = [request EXCEPT ![r] = "IDLE"]
      BY <2>1, <2>3 DEF FreeBytes, Finished
    <3>2. Head(queue).kind = "finish"
      BY <3>1 DEF DownloadsInv, StepAgrees
    <3>3. Waits(Head(queue)) /\ request[r] = "SENT"
      BY <3>1, <3>2, HeadFacts DEF DownloadsInv, QueueAgrees, Waits
    <3> QED BY <3>1, <3>2, <3>3 DEF DownloadsInv, TypeOK
  <2> QED BY <2>2, <2>3
<1>7. CASE OperationFails
  <2>1. CASE UNCHANGED request
    BY <1>1, <2>1
  <2>2. CASE ~ UNCHANGED request
    <3> DEFINE r == Head(queue).request
    <3>1. /\ queue # <<>> /\ Head(queue).kind = "finish" /\ queue' = Tail(queue)
          /\ request' = [request EXCEPT ![r] = "IDLE"]
      BY <1>7, <2>2 DEF OperationFails, Finished
    <3>2. Waits(Head(queue)) /\ request[r] = "SENT"
      BY <3>1, HeadFacts DEF DownloadsInv, QueueAgrees, Waits
    <3> QED BY <3>1, <3>2 DEF DownloadsInv, TypeOK
  <2> QED BY <2>1, <2>2
<1>8. CASE \/ (\E f \in Files : Reserve(f)) \/ (\E f \in Files : Commit(f))
           \/ (\E f \in Files : Abort(f)) \/ (\E f \in Files : CommitFails(f))
           \/ (\E f \in Files : CommitStarts(f)) \/ (\E f \in Files : Stage(f))
           \/ (\E f \in Files : Publish(f)) \/ (\E f \in Files : AbortRuns(f))
           \/ (\E f \in Files : EndsFile(f))
  <2>1. UNCHANGED request
    BY <1>8 DEF Reserve, Commit, Abort, CommitFails, CommitStarts, Stage, Publish, AbortRuns,
       EndsFile
  <2> QED BY <1>1, <2>1
<1>9. CASE \/ (\E f \in Files : FileEnded(f)) \/ (\E f \in Files : FileExpired(f))
           \/ (\E f \in Files : DeleteLeftOver(f)) \/ (\E f \in Files : DeleteBytes(f))
           \/ (\E f \in Files : AcknowledgeStarts(f)) \/ (\E f \in Files : Acknowledged(f))
           \/ (\E f \in Files : Unlink(f))
           \/ (\E r \in Requests : Claim(r)) \/ SessionEnded \/ ExpireEnds
  <2>1. UNCHANGED request
    BY <1>9 DEF FileEnded, FileExpired, DeleteLeftOver, DeleteBytes, AcknowledgeStarts, Unlink, Acknowledged,
       Claim, SessionEnded, ExpireEnds
  <2> QED BY <1>1, <2>1
<1>10. CASE \/ Upload \/ CloseCore \/ CleanUpSession \/ Expire \/ Report \/ Acknowledge
            \/ Disconnect \/ Connect \/ LoseAccess
  <2>1. UNCHANGED request
    BY <1>10 DEF Upload, CloseCore, CleanUpSession, Expire, Report, Acknowledge, Disconnect, Connect,
       LoseAccess
  <2> QED BY <1>1, <2>1
<1>11. CASE Restart \/ Started \/ Tick
  <2>1. UNCHANGED request
    BY <1>11 DEF Restart, Started, Tick
  <2> QED BY <1>1, <2>1
<1> HIDE DEF Goal
<1> QED BY <1>2, <1>3, <1>4, <1>5, <1>6, <1>7, <1>8, <1>9, <1>10, <1>11 DEF Next, RunQueue, Operation

\* What an operation waits for stays as it is until it has run.
LEMMA WaitsStep ==
  ASSUME DownloadsInv, DownloadsAssumption, RecordAssumption, Next, ~ Crash,
         NEW operation \in Operations, Waits(operation)
  PROVE  \/ Waits(operation)'
         \/ /\ queue # <<>> /\ queue' = Tail(queue) /\ operation = Head(queue)
            /\ operation.kind \in Once
<1>1. CASE operation.kind \in {"commit", "abort"}
  <2>1. operation.file \in Files
    BY <1>1, OperationFacts
  <2>2. CASE transfer'[operation.file] = transfer[operation.file]
    BY <1>1, <2>2 DEF Waits
  <2>3. CASE transfer'[operation.file] # transfer[operation.file]
    <3>1. /\ queue # <<>> /\ queue' = Tail(queue) /\ Head(queue).file = operation.file
          /\ Head(queue).kind = operation.kind
      BY <1>1, <2>1, <2>3, TransferStep DEF Waits
    <3>2. Head(queue) \in Operations
      BY <3>1, HeadFacts DEF DownloadsInv
    <3>3. Head(queue) = operation
      BY <1>1, <3>1, <3>2, OperationFacts
    <3> QED BY <1>1, <3>1, <3>3 DEF Once
  <2> QED BY <2>2, <2>3
<1>2. CASE operation.kind \in {"acquire", "finish"}
  <2>1. operation.request \in Requests
    BY <1>2, OperationFacts
  <2>2. CASE request'[operation.request] = request[operation.request]
    BY <1>2, <2>2 DEF Waits
  <2>3. CASE request'[operation.request] # request[operation.request]
    <3>1. /\ queue # <<>> /\ queue' = Tail(queue) /\ Head(queue).request = operation.request
          /\ Head(queue).kind = operation.kind
      BY <1>2, <2>1, <2>3, RequestStep DEF Waits
    <3>2. Head(queue) \in Operations
      BY <3>1, HeadFacts DEF DownloadsInv
    <3>3. Head(queue) = operation
      BY <1>2, <3>1, <3>2, OperationFacts
    <3> QED BY <1>2, <3>1, <3>3 DEF Once
  <2> QED BY <2>2, <2>3
<1>3. CASE operation.kind = "acknowledge"
  <2>1. operation.file \in Files
    BY <1>3, OperationFacts
  <2> QED BY <1>3, <2>1, RowsStep DEF Waits
<1>4. CASE operation.kind \in {"end", "expire"}
  BY <1>4 DEF Waits
<1> QED BY <1>1, <1>2, <1>3, <1>4, OperationFacts DEF Once

\* An operation that is called has not been in the queue yet.
IsCalled(operation) ==
  /\ queue' = Append(queue, operation) /\ Waits(operation)'
  /\ operation.kind \in Once => ~ Waits(operation)

\* Nothing waits for anybody.
IsIdle == queue' \in Seq(Operations) /\ \A i \in DOMAIN queue' : queue'[i].kind \in {"end", "expire"}

\* What steps do to the queue: a new operation is not in it yet.
LEMMA QueueStep ==
  ASSUME DownloadsInv, DownloadsAssumption, RecordAssumption, Next
  PROVE  \/ queue' = queue
         \/ queue # <<>> /\ queue' = Tail(queue)
         \/ \E operation \in Operations : IsCalled(operation)
         \/ IsIdle
         \/ Tick
<1> DEFINE Goal ==
      \/ queue' = queue
      \/ queue # <<>> /\ queue' = Tail(queue)
      \/ \E operation \in Operations : IsCalled(operation)
      \/ IsIdle
      \/ Tick
<1> SUFFICES Goal
  OBVIOUS
<1>1. UNCHANGED queue => Goal
  OBVIOUS
<1>2. CASE (\E f \in Files : Commit(f)) \/ (\E f \in Files : Abort(f))
  <2>1. PICK f \in Files : Commit(f) \/ Abort(f)
    BY <1>2
  <2>2. PICK to \in {"commit", "abort"} :
          /\ queue' = Append(queue, [kind |-> to, file |-> f])
          /\ transfer' = [transfer EXCEPT ![f] = IF to = "commit" THEN "COMMITTING" ELSE "ABORTING"]
          /\ transfer[f] \in {"WRITING", "FAILED"}
    BY <2>1 DEF Commit, Abort, Call
  <2> DEFINE operation == [kind |-> to, file |-> f]
  <2>3. operation \in Operations /\ operation.kind = to /\ operation.file = f
    BY DEF Operations
  <2>4. transfer'[f] = IF to = "commit" THEN "COMMITTING" ELSE "ABORTING"
    BY <2>2 DEF DownloadsInv, TypeOK
  <2> HIDE DEF operation
  <2>5. Waits(operation)' /\ ~ Waits(operation)
    BY <2>2, <2>3, <2>4 DEF Waits
  <2>6. queue' = Append(queue, operation)
    BY <2>2 DEF operation
  <2>7. IsCalled(operation)
    BY <2>5, <2>6 DEF IsCalled
  <2> QED BY <2>3, <2>7
<1>3. CASE CleanUpSession
  <2> DEFINE operation == [kind |-> "end", left |-> AfterSession]
  <2>1. operation \in Operations /\ operation.kind = "end"
    BY DEF Operations, DownloadsAssumption
  <2>2. queue' = Append(queue, operation)
    BY <1>3 DEF CleanUpSession, Call
  <2> HIDE DEF operation
  <2>3. IsCalled(operation)
    BY <2>1, <2>2 DEF IsCalled, Waits, Once
  <2> QED BY <2>1, <2>3
<1>4. CASE Expire
  <2> DEFINE over == {f \in Files : Overdue(f)}
             ending == Ending
             operation == [kind |-> "expire", over |-> over, ending |-> ending]
  <2>1. over \in SUBSET Files
    OBVIOUS
  <2>2. ending \in BOOLEAN
    BY Zenon DEF Ending
  <2>3. queue' = Append(queue, operation)
    BY <1>4, Zenon DEF Expire, Call
  <2> HIDE DEF over, ending
  <2>4. operation \in [kind : {"expire"}, over : SUBSET Files, ending : BOOLEAN]
    BY <2>1, <2>2
  <2> HIDE DEF operation
  <2>5. PICK call \in Operations : queue' = Append(queue, call) /\ call.kind = "expire"
    BY <2>3, <2>4 DEF Operations
  <2>6. IsCalled(call)
    BY ONLY <2>5 DEF IsCalled, Waits, Once
  <2> QED BY <2>6
<1>5. CASE \E r \in Requests : Consume(r)
  <2>1. PICK r \in Requests : Consume(r)
    BY <1>5
  <2> DEFINE operation == [kind |-> "acquire", request |-> r]
  <2>2. operation \in Operations /\ operation.kind = "acquire" /\ operation.request = r
    BY DEF Operations
  <2>3. /\ queue' = Append(queue, operation) /\ request[r] = "TOKEN"
        /\ request' = [request EXCEPT ![r] = "AUTHORIZED"]
    BY <2>1 DEF Consume, Call
  <2>4. request'[r] = "AUTHORIZED"
    BY <2>3 DEF DownloadsInv, TypeOK
  <2> HIDE DEF operation
  <2>5. IsCalled(operation)
    BY <2>2, <2>3, <2>4 DEF IsCalled, Waits
  <2> QED BY <2>2, <2>5
<1>6. CASE \E r \in Requests : Finish(r)
  <2>1. PICK r \in Requests : Finish(r)
    BY <1>6
  <2> DEFINE operation == [kind |-> "finish", request |-> r]
  <2>2. operation \in Operations /\ operation.kind = "finish" /\ operation.request = r
    BY DEF Operations
  <2>3. \/ queue' = queue
        \/ /\ queue' = Append(queue, operation) /\ request[r] = "STREAMING"
           /\ request' = [request EXCEPT ![r] = "SENT"]
    BY <2>1 DEF Finish, Call, queueVars
  <2>4. request' = [request EXCEPT ![r] = "SENT"] => request'[r] = "SENT"
    BY DEF DownloadsInv, TypeOK
  <2> HIDE DEF operation
  <2>5. queue' = queue \/ IsCalled(operation)
    BY <2>2, <2>3, <2>4 DEF IsCalled, Waits
  <2> QED BY <2>2, <2>5
<1>7. CASE Acknowledge
  <2>1. \/ queue' = queue
        \/ \E f \in accepted : queue' = Append(queue, [kind |-> "acknowledge", file |-> f])
    BY <1>7 DEF Acknowledge, Call, ToAcknowledge, queueVars
  <2>2. CASE queue' = queue
    BY <2>2
  <2>3. ASSUME NEW f \in accepted, queue' = Append(queue, [kind |-> "acknowledge", file |-> f])
        PROVE  Goal
    <3> DEFINE operation == [kind |-> "acknowledge", file |-> f]
    <3>1. f \in Files /\ Ended(row[f]) /\ UNCHANGED row
      BY <1>7 DEF DownloadsInv, TypeOK, StatusesAgree, OneEnd, Acknowledge, backendVars
    <3>2. operation \in Operations /\ operation.kind = "acknowledge" /\ operation.file = f
      BY <3>1 DEF Operations
    <3>3. queue' = Append(queue, operation)
      BY <2>3
    <3> HIDE DEF operation
    <3>4. IsCalled(operation)
      BY <3>1, <3>2, <3>3 DEF IsCalled, Waits, Once
    <3> QED BY <3>2, <3>4
  <2> QED BY <2>1, <2>2, <2>3
<1>8. CASE \/ (\E f \in Files : CommitStarts(f)) \/ (\E f \in Files : Publish(f))
           \/ (\E f \in Files : CommitFails(f)) \/ (\E f \in Files : AbortRuns(f))
           \/ (\E f \in Files : FreeBytes(f))
  <2>1. queue' = queue \/ (queue # <<>> /\ queue' = Tail(queue))
    BY <1>8 DEF CommitStarts, Publish, CommitFails, AbortRuns, FreeBytes, Running, Finished, Goto
  <2> QED BY <2>1
<1>9. CASE \/ (\E f \in Files : Acknowledged(f)) \/ (\E r \in Requests : Acquire(r))
           \/ SessionEnded \/ ExpireEnds \/ OperationFails
  <2>1. queue # <<>> /\ queue' = Tail(queue)
    BY <1>9 DEF Acknowledged, Acquire, SessionEnded, ExpireEnds, OperationFails, Running, Runs, Finished
  <2> QED BY <2>1
<1>10. CASE Crash
  <2>1. queue' = <<>>
    BY <1>10 DEF Crash
  <2>2. IsIdle
    BY <2>1 DEF IsIdle
  <2> QED BY <2>2
<1>11. CASE Restart
  <2>1. CASE UNCHANGED queue
    BY <2>1
  <2>2. CASE ~ UNCHANGED queue
    <3> DEFINE over == {f \in directory : Overdue(f)'}
               first == [kind |-> "expire", over |-> over, ending |-> FALSE]
               second == [kind |-> "end", left |-> AfterSession]
    <3>1. queue' = <<first, second>>
      BY <1>11, <2>2 DEF Restart, queueVars
    <3>2. over \in SUBSET Files
      BY DEF DownloadsInv, TypeOK
    <3> HIDE DEF over
    <3>3. first \in Operations /\ second \in Operations
      BY <3>2 DEF Operations, DownloadsAssumption
    <3>4. first.kind = "expire" /\ second.kind = "end"
      OBVIOUS
    <3> HIDE DEF first, second
    <3>5. queue' \in Seq(Operations) /\ DOMAIN queue' = {1, 2} /\ queue'[1] = first /\ queue'[2] = second
      BY <3>1, <3>3
    <3>6. IsIdle
      BY <3>4, <3>5 DEF IsIdle
    <3> QED BY <3>6
  <2> QED BY <2>1, <2>2
<1>12. CASE Tick
  BY <1>12
<1>13. CASE \/ (\E f \in Files : Reserve(f)) \/ (\E f \in Files : Stage(f))
            \/ (\E f \in Files : EndsFile(f)) \/ (\E f \in Files : FileEnded(f))
            \/ (\E f \in Files : ExpireFile(f)) \/ (\E f \in Files : FileExpired(f))
            \/ (\E f \in Files : DeleteLeftOver(f)) \/ (\E f \in Files : DeleteBytes(f))
            \/ (\E f \in Files : AcknowledgeStarts(f))
            \/ (\E f \in Files : Unlink(f))
  <2>1. UNCHANGED queue
    BY <1>13 DEF Reserve, Stage, EndsFile, FileEnded, ExpireFile, FileExpired, DeleteLeftOver,
       DeleteBytes, AcknowledgeStarts, Unlink, queueVars, Goto
  <2> QED BY <1>1, <2>1
<1>14. CASE \/ (\E r \in Requests : Claim(r)) \/ (\E r \in Requests : Prepare(r))
            \/ (\E r \in Requests : TokenLost(r)) \/ (\E r \in Requests : StreamBreaks(r))
            \/ (\E r \in Requests : Release(r)) \/ Upload \/ CloseCore \/ Report \/ Reconcile
  <2>1. UNCHANGED queue
    BY <1>14 DEF Claim, Prepare, TokenLost, StreamBreaks, Release, Upload, CloseCore, Report,
       Reconcile, queueVars, Goto
  <2> QED BY <1>1, <2>1
<1>15. CASE ReconcileLate \/ Disconnect \/ Connect \/ LoseAccess \/ Started
  <2>1. UNCHANGED queue
    BY <1>15 DEF ReconcileLate, Disconnect, Connect, LoseAccess, Started, queueVars
  <2> QED BY <1>1, <2>1
<1> HIDE DEF Goal
<1> QED BY <1>2, <1>3, <1>4, <1>5, <1>6, <1>7, <1>8, <1>9, <1>10, <1>11, <1>12, <1>13, <1>14, <1>15 DEF Next, RunQueue, Operation

LEMMA OffByOne ==
  ASSUME NEW n \in Nat
  PROVE  n # n - 1 /\ n + 1 # n - 1
OBVIOUS

LEMMA AgedCallFacts ==
  ASSUME NEW operation \in Operations, DownloadsAssumption
  PROVE  /\ AgedCall(operation) \in Operations /\ AgedCall(operation).kind = operation.kind
         /\ operation.kind # "end" => AgedCall(operation) = operation
<1>1. CASE operation.kind = "end" /\ operation.left > 0
  <2>1. operation \in [kind : {"end"}, left : 0 .. AfterSession]
    BY <1>1 DEF Operations
  <2>2. AgedCall(operation) = [operation EXCEPT !.left = @ - 1]
    BY <1>1 DEF AgedCall
  <2>3. operation.left - 1 \in 0 .. AfterSession
    BY <1>1, <2>1 DEF DownloadsAssumption
  <2>4. AgedCall(operation) \in [kind : {"end"}, left : 0 .. AfterSession]
    BY <2>1, <2>2, <2>3
  <2> QED BY <1>1, <2>4 DEF Operations
<1>2. CASE ~ (operation.kind = "end" /\ operation.left > 0)
  BY <1>2 DEF AgedCall
<1> QED BY <1>1, <1>2

\* The queue of a tick: the same operations, with less time left.
LEMMA AgedQueue ==
  ASSUME TypeOK, DownloadsAssumption, Tick
  PROVE  /\ queue' \in Seq(Operations) /\ DOMAIN queue' = DOMAIN queue
         /\ \A i \in DOMAIN queue : /\ queue'[i].kind = queue[i].kind
                                    /\ queue[i].kind # "end" => queue'[i] = queue[i]
         /\ queue' = <<>> <=> queue = <<>>
         /\ queue # <<>> => /\ Head(queue').kind = Head(queue).kind
                            /\ Head(queue).kind # "end" => Head(queue') = Head(queue)
<1>1. /\ queue \in Seq(Operations) /\ DOMAIN queue = 1 .. Len(queue) /\ Len(queue) \in Nat
      /\ \A i \in DOMAIN queue : queue[i] \in Operations
  BY LenProperties DEF TypeOK
<1>2. queue' = [i \in 1 .. Len(queue) |-> AgedCall(queue[i])]
  BY <1>1 DEF Tick
<1>3. queue' \in [1 .. Len(queue) -> Operations]
  BY <1>1, <1>2, AgedCallFacts
<1>4. queue' \in Seq(Operations)
  BY <1>1, <1>3, SeqDef
<1>5. DOMAIN queue' = DOMAIN queue /\ Len(queue') = Len(queue)
  BY <1>1, <1>3, <1>4, LenProperties
<1>6. \A i \in DOMAIN queue : /\ queue'[i].kind = queue[i].kind
                              /\ queue[i].kind # "end" => queue'[i] = queue[i]
  BY <1>1, <1>2, AgedCallFacts
<1>7. queue' = <<>> <=> queue = <<>>
  BY <1>1, <1>4, <1>5, EmptySeq
<1>8. queue # <<>> => Head(queue) = queue[1] /\ Head(queue') = queue'[1] /\ 1 \in DOMAIN queue
  BY <1>1, <1>4, <1>5, <1>7, HeadTailProperties, EmptySeq
<1> QED BY <1>4, <1>5, <1>6, <1>7, <1>8

\* Operations are about what they were called for until they have run.
LEMMA QueueAgreesStep ==
  ASSUME DownloadsInv, DownloadsAssumption, RecordAssumption, Next
  PROVE  queue' \in Seq(Operations) /\ QueueAgrees'
<1>1. /\ TypeOK /\ queue \in Seq(Operations) /\ \A i \in DOMAIN queue : queue[i] \in Operations
      /\ DOMAIN queue = 1 .. Len(queue) /\ Len(queue) \in Nat
  BY LenProperties DEF DownloadsInv, TypeOK
<1>2. /\ \A i \in DOMAIN queue : Waits(queue[i])
      /\ \A i, j \in DOMAIN queue : queue[i].kind \in Once /\ queue[j] = queue[i] => i = j
  BY DEF DownloadsInv, QueueAgrees
<1>3. CASE Crash
  <2>1. queue' = <<>>
    BY <1>3 DEF Crash
  <2> QED BY <2>1 DEF QueueAgrees
<1>4. CASE ~ Crash /\ queue' = queue
  <2>1. ASSUME NEW i \in DOMAIN queue PROVE Waits(queue[i])'
    <3>1. queue # <<>> => queue' # Tail(queue)
      <4>1. queue # <<>> => Len(Tail(queue)) = Len(queue) - 1
        BY <1>1, HeadTailProperties
      <4>2. Len(queue) # Len(queue) - 1
        BY <1>1, OffByOne
      <4> QED BY <1>4, <4>1, <4>2
    <3>2. Waits(queue[i]) /\ queue[i] \in Operations /\ queue'[i] = queue[i]
      BY <1>1, <1>2, <1>4
    <3>3. ASSUME NEW operation \in Operations, Waits(operation) PROVE Waits(operation)'
      BY <1>4, <3>1, <3>3, WaitsStep
    <3> QED BY <3>2, <3>3 DEF Waits
  <2> QED BY <1>1, <1>2, <1>4, <2>1 DEF QueueAgrees
<1>5. CASE ~ Crash /\ queue # <<>> /\ queue' = Tail(queue)
  <2>1. /\ queue' \in Seq(Operations) /\ Head(queue) = queue[1] /\ 1 \in DOMAIN queue
        /\ \A i \in DOMAIN queue' : i + 1 \in DOMAIN queue /\ i \in Nat /\ i > 0 /\ queue'[i] = queue[i + 1]
    BY <1>1, <1>5, HeadFacts
  <2>2. ASSUME NEW i \in DOMAIN queue' PROVE Waits(queue'[i])
    BY <1>2, <2>1
  <2>3. ASSUME NEW i \in DOMAIN queue' PROVE ~ (queue'[i] = Head(queue) /\ queue'[i].kind \in Once)
    <3>1. i + 1 \in DOMAIN queue /\ i + 1 # 1 /\ queue'[i] = queue[i + 1]
      BY <2>1
    <3> QED BY <1>2, <2>1, <3>1
  <2>4. ASSUME NEW operation \in Operations, NEW i \in DOMAIN queue', operation = queue'[i]
        PROVE  Waits(operation)'
    BY <1>5, <2>2, <2>3, <2>4, WaitsStep
  <2>5. \A i \in DOMAIN queue' : queue'[i] \in Operations
    BY <1>1, <2>1
  <2>6. \A i \in DOMAIN queue' : Waits(queue[i])'
    BY <2>4, <2>5 DEF Waits
  <2>7. \A i, j \in DOMAIN queue' : queue'[i].kind \in Once /\ queue'[j] = queue'[i] => i = j
    <3>1. ASSUME NEW i \in DOMAIN queue', NEW j \in DOMAIN queue',
                 queue'[i].kind \in Once, queue'[j] = queue'[i]
          PROVE  i = j
      <4>1. i + 1 = j + 1 /\ i \in Nat /\ j \in Nat
        BY <1>2, <2>1, <3>1
      <4> QED BY <4>1
    <3> QED BY <3>1
  <2> QED BY <2>1, <2>6, <2>7 DEF QueueAgrees
<1>6. ASSUME ~ Crash, NEW operation \in Operations, IsCalled(operation)
      PROVE  queue' \in Seq(Operations) /\ QueueAgrees'
  <2>0. /\ queue' = Append(queue, operation) /\ Waits(operation)'
        /\ operation.kind \in Once => ~ Waits(operation)
    BY <1>6 DEF IsCalled
  <2>1. /\ queue' \in Seq(Operations)
        /\ \A i \in DOMAIN queue' : \/ i \in DOMAIN queue /\ queue'[i] = queue[i]
                                    \/ i = Len(queue) + 1 /\ queue'[i] = operation
    BY <1>1, <2>0, CallFacts
  <2>2. queue # <<>> => queue' # Tail(queue)
    <3>1. Len(Append(queue, operation)) = Len(queue) + 1
      BY <1>1, AppendProperties
    <3>2. queue # <<>> => Len(Tail(queue)) = Len(queue) - 1
      BY <1>1, HeadTailProperties
    <3>3. Len(queue) + 1 # Len(queue) - 1
      BY <1>1, OffByOne
    <3> QED BY <2>0, <3>1, <3>2, <3>3
  <2>3. ASSUME NEW o \in Operations, Waits(o) PROVE Waits(o)'
    BY <1>6, <2>2, <2>3, WaitsStep
  <2>4. ASSUME NEW i \in DOMAIN queue' PROVE Waits(queue[i])'
    <3>1. CASE i \in DOMAIN queue /\ queue'[i] = queue[i]
      <4>1. Waits(queue[i]) /\ queue[i] \in Operations
        BY <1>1, <1>2, <3>1
      <4>2. ASSUME NEW o \in Operations, o = queue'[i], Waits(o) PROVE Waits(queue[i])'
        BY <2>3, <4>2 DEF Waits
      <4> QED BY <3>1, <4>1, <4>2
    <3>2. CASE queue'[i] = operation
      BY <2>0, <3>2 DEF Waits
    <3> QED BY <2>1, <3>1, <3>2
  <2>5. ASSUME NEW i \in DOMAIN queue', NEW j \in DOMAIN queue',
               queue'[i].kind \in Once, queue'[j] = queue'[i]
        PROVE  i = j
    <3>1. \A k \in DOMAIN queue : queue[k] = operation => operation.kind \notin Once
      BY <1>2, <2>0
    <3> QED BY <1>2, <2>1, <2>5, <3>1
  <2> QED BY <2>1, <2>4, <2>5 DEF QueueAgrees
<1>7. CASE IsIdle
  BY <1>7 DEF IsIdle, QueueAgrees, Waits, Once
<1>8. CASE Tick /\ ~ Crash
  <2>1. /\ queue' \in Seq(Operations) /\ DOMAIN queue' = DOMAIN queue
        /\ \A i \in DOMAIN queue : /\ queue'[i].kind = queue[i].kind
                                   /\ queue[i].kind # "end" => queue'[i] = queue[i]
    BY <1>1, <1>8, AgedQueue
  <2>2. UNCHANGED <<transfer, request>>
    BY <1>8 DEF Tick, coreVars
  <2>3. ASSUME NEW i \in DOMAIN queue PROVE Waits(queue[i])'
    <3>1. CASE queue[i].kind = "end"
      BY <2>1, <3>1 DEF Waits
    <3>2. CASE queue[i].kind # "end"
      <4>1. queue'[i] = queue[i] /\ Waits(queue[i]) /\ queue[i] \in Operations
        BY <1>1, <1>2, <2>1, <3>2
      <4>2. queue[i].kind = "acknowledge" => queue[i].file \in Files
        BY <4>1, OperationFacts
      <4> QED BY <2>2, <4>1, <4>2, RowsStep DEF Waits
    <3> QED BY <3>1, <3>2
  <2>4. ASSUME NEW i \in DOMAIN queue, NEW j \in DOMAIN queue,
               queue'[i].kind \in Once, queue'[j] = queue'[i]
        PROVE  i = j
    <3>1. queue[i].kind \in Once /\ queue[i] = queue[j]
      BY <2>1, <2>4 DEF Once
    <3> QED BY <1>2, <3>1
  <2> QED BY <2>1, <2>3, <2>4 DEF QueueAgrees
<1> QED BY <1>3, <1>4, <1>5, <1>6, <1>7, <1>8, QueueStep

-----------------------------------------------------------------------------
(* Types.                                                                  *)

\* endSession only shortens deadlines.
LEMMA TightenedFacts ==
  ASSUME NEW file \in Records, NEW left \in 0 .. AfterSession, DownloadsAssumption
  PROVE  /\ Tightened(file, left) \in Records /\ Tightened(file, left).status = file.status
         /\ Tightened(file, left).due <= file.due
<1>1. file.due \in 0 .. Retention /\ left \in Nat /\ Retention \in Nat
  BY DEF Records, DownloadsAssumption
<1>2. Min({file.due, left}) \in 0 .. Retention /\ Min({file.due, left}) <= file.due
  BY <1>1, LessOfTwo
<1>3. Tightened(file, left) = [file EXCEPT !.due = Min({file.due, left}), !.ended = TRUE]
  BY DEF Tightened
<1> HIDE DEF Min
<1> QED BY <1>2, <1>3 DEF Records

LEMMA TransferType ==
  ASSUME DownloadsInv, DownloadsAssumption, RecordAssumption, Next
  PROVE  transfer' \in [Files -> {"NONE", "WRITING", "COMMITTING", "FAILED", "ABORTING", "DONE"}]
<1>1. UNCHANGED transfer =>
      transfer' \in [Files -> {"NONE", "WRITING", "COMMITTING", "FAILED", "ABORTING", "DONE"}]
  BY DEF DownloadsInv, TypeOK
<1>2. CASE \/ (\E f \in Files : Reserve(f)) \/ (\E f \in Files : Commit(f))
           \/ (\E f \in Files : Abort(f)) \/ (\E f \in Files : CommitStarts(f))
           \/ (\E f \in Files : Publish(f)) \/ (\E f \in Files : CommitFails(f))
           \/ (\E f \in Files : AbortRuns(f)) \/ Crash
  <2>1. CASE (\E f \in Files : Reserve(f)) \/ (\E f \in Files : Commit(f))
    BY <2>1 DEF Reserve, Commit, DownloadsInv, TypeOK
  <2>3. CASE (\E f \in Files : Abort(f)) \/ (\E f \in Files : CommitStarts(f))
    BY <2>3 DEF Abort, CommitStarts, DownloadsInv, TypeOK
  <2>2. CASE \/ (\E f \in Files : Publish(f)) \/ (\E f \in Files : CommitFails(f))
             \/ (\E f \in Files : AbortRuns(f)) \/ Crash
    BY <2>2 DEF Publish, CommitFails, AbortRuns, Crash, DownloadsInv, TypeOK
  <2> QED BY <1>2, <2>1, <2>2, <2>3
<1>3. CASE \/ (\E f \in Files : Stage(f)) \/ (\E f \in Files : EndsFile(f))
           \/ (\E f \in Files : FileEnded(f)) \/ (\E f \in Files : ExpireFile(f))
           \/ (\E f \in Files : FileExpired(f)) \/ (\E f \in Files : DeleteLeftOver(f))
           \/ (\E f \in Files : DeleteBytes(f)) \/ (\E f \in Files : FreeBytes(f))
           \/ (\E f \in Files : AcknowledgeStarts(f))
           \/ (\E f \in Files : Unlink(f))
  <2>1. UNCHANGED transfer
    BY <1>3 DEF Stage, EndsFile, FileEnded, ExpireFile, FileExpired, DeleteLeftOver, DeleteBytes,
       FreeBytes, AcknowledgeStarts, Unlink, coreVars
  <2> QED BY <1>1, <2>1
<1>4. CASE \/ (\E f \in Files : Acknowledged(f)) \/ (\E r \in Requests : Acquire(r))
           \/ (\E r \in Requests : Claim(r)) \/ (\E r \in Requests : Prepare(r))
           \/ (\E r \in Requests : Consume(r)) \/ (\E r \in Requests : TokenLost(r))
           \/ (\E r \in Requests : StreamBreaks(r)) \/ (\E r \in Requests : Release(r))
           \/ (\E r \in Requests : Finish(r))
  <2>1. UNCHANGED transfer
    BY <1>4 DEF Acknowledged, Acquire, Claim, Prepare, Consume, TokenLost, StreamBreaks, Release,
       Finish, coreVars
  <2> QED BY <1>1, <2>1
<1>5. CASE \/ SessionEnded \/ ExpireEnds \/ OperationFails \/ Upload \/ CloseCore
           \/ CleanUpSession \/ Expire \/ Report \/ Reconcile
  <2>1. UNCHANGED transfer
    BY <1>5 DEF SessionEnded, ExpireEnds, OperationFails, Upload, CloseCore, CleanUpSession, Expire,
       Report, Reconcile, coreVars
  <2> QED BY <1>1, <2>1
<1>6. CASE \/ ReconcileLate \/ Acknowledge \/ Disconnect \/ Connect \/ LoseAccess \/ Restart
           \/ Started \/ Tick
  <2>1. UNCHANGED transfer
    BY <1>6 DEF ReconcileLate, Acknowledge, Disconnect, Connect, LoseAccess, Restart, Started, Tick,
       coreVars
  <2> QED BY <1>1, <2>1
<1> QED BY <1>2, <1>3, <1>4, <1>5, <1>6 DEF Next, RunQueue, Operation

LEMMA RequestType ==
  ASSUME DownloadsInv, DownloadsAssumption, RecordAssumption, Next
  PROVE  request' \in [Requests -> {"IDLE", "TOKEN", "AUTHORIZED", "STREAMING", "ABORTED", "SENT"}]
<1>1. UNCHANGED request =>
      request' \in [Requests -> {"IDLE", "TOKEN", "AUTHORIZED", "STREAMING", "ABORTED", "SENT"}]
  BY DEF DownloadsInv, TypeOK
<1>2. CASE \/ (\E r \in Requests : Prepare(r)) \/ (\E r \in Requests : Consume(r))
           \/ (\E r \in Requests : TokenLost(r)) \/ (\E r \in Requests : Acquire(r))
           \/ (\E r \in Requests : StreamBreaks(r)) \/ (\E r \in Requests : Release(r))
           \/ (\E r \in Requests : Finish(r))
  <2>1. CASE \/ (\E r \in Requests : Prepare(r)) \/ (\E r \in Requests : Consume(r))
             \/ (\E r \in Requests : TokenLost(r)) \/ (\E r \in Requests : Acquire(r))
    BY <2>1 DEF Prepare, Consume, TokenLost, Acquire, DownloadsInv, TypeOK
  <2>2. CASE \/ (\E r \in Requests : StreamBreaks(r)) \/ (\E r \in Requests : Release(r))
             \/ (\E r \in Requests : Finish(r))
    BY <2>2 DEF StreamBreaks, Release, Finish, DownloadsInv, TypeOK
  <2> QED BY <1>2, <2>1, <2>2
<1>3. CASE \/ (\E f \in Files : ExpireFile(f)) \/ (\E f \in Files : FreeBytes(f))
           \/ OperationFails \/ Crash \/ Reconcile \/ ReconcileLate
  BY <1>3 DEF ExpireFile, FreeBytes, OperationFails, Crash, Reconcile, ReconcileLate, DownloadsInv,
       TypeOK, WithoutClaims, Fault
<1>4. CASE \/ (\E f \in Files : Reserve(f)) \/ (\E f \in Files : Commit(f))
           \/ (\E f \in Files : Abort(f)) \/ (\E f \in Files : CommitFails(f))
           \/ (\E f \in Files : CommitStarts(f)) \/ (\E f \in Files : Stage(f))
           \/ (\E f \in Files : Publish(f)) \/ (\E f \in Files : AbortRuns(f))
           \/ (\E f \in Files : EndsFile(f))
  <2>1. UNCHANGED request
    BY <1>4 DEF Reserve, Commit, Abort, CommitFails, CommitStarts, Stage, Publish, AbortRuns,
       EndsFile
  <2> QED BY <1>1, <2>1
<1>5. CASE \/ (\E f \in Files : FileEnded(f)) \/ (\E f \in Files : FileExpired(f))
           \/ (\E f \in Files : DeleteLeftOver(f)) \/ (\E f \in Files : DeleteBytes(f))
           \/ (\E f \in Files : AcknowledgeStarts(f)) \/ (\E f \in Files : Acknowledged(f))
           \/ (\E f \in Files : Unlink(f))
           \/ (\E r \in Requests : Claim(r)) \/ SessionEnded \/ ExpireEnds
  <2>1. UNCHANGED request
    BY <1>5 DEF FileEnded, FileExpired, DeleteLeftOver, DeleteBytes, AcknowledgeStarts, Unlink, Acknowledged,
       Claim, SessionEnded, ExpireEnds
  <2> QED BY <1>1, <2>1
<1>6. CASE \/ Upload \/ CloseCore \/ CleanUpSession \/ Expire \/ Report \/ Acknowledge
           \/ Disconnect \/ Connect \/ LoseAccess
  <2>1. UNCHANGED request
    BY <1>6 DEF Upload, CloseCore, CleanUpSession, Expire, Report, Acknowledge, Disconnect, Connect,
       LoseAccess
  <2> QED BY <1>1, <2>1
<1>7. CASE Restart \/ Started \/ Tick
  <2>1. UNCHANGED request
    BY <1>7 DEF Restart, Started, Tick
  <2> QED BY <1>1, <2>1
<1> QED BY <1>2, <1>3, <1>4, <1>5, <1>6, <1>7 DEF Next, RunQueue, Operation

LEMMA SetsType ==
  ASSUME DownloadsInv, DownloadsAssumption, RecordAssumption, Next
  PROVE  /\ allocated' \subseteq Files /\ reserved' \subseteq Files /\ spool' \subseteq Files
         /\ staging' \subseteq Files /\ directory' \subseteq Files /\ data' \subseteq Files
         /\ accepted' \subseteq Files
<1>1. UNCHANGED <<allocated, reserved, spool, staging, directory, data, accepted>> =>
      /\ allocated' \subseteq Files /\ reserved' \subseteq Files /\ spool' \subseteq Files
      /\ staging' \subseteq Files /\ directory' \subseteq Files /\ data' \subseteq Files
      /\ accepted' \subseteq Files
  BY DEF DownloadsInv, TypeOK
<1>2. CASE \/ (\E f \in Files : Reserve(f)) \/ (\E f \in Files : Abort(f))
           \/ (\E f \in Files : Stage(f)) \/ (\E f \in Files : CommitFails(f))
  BY <1>2 DEF Reserve, Abort, Stage, CommitFails, DownloadsInv, TypeOK, storeVars, diskVars,
       reportVars
<1>3. CASE \/ (\E f \in Files : Publish(f)) \/ (\E f \in Files : AbortRuns(f))
           \/ (\E f \in Files : DeleteBytes(f)) \/ (\E f \in Files : FreeBytes(f))
  BY <1>3 DEF Publish, AbortRuns, DeleteBytes, FreeBytes, DownloadsInv, TypeOK, storeVars, diskVars,
       reportVars
<1>4. CASE \/ (\E f \in Files : AcknowledgeStarts(f)) \/ (\E f \in Files : Unlink(f))
           \/ (\E f \in Files : Acknowledged(f))
  BY <1>4 DEF AcknowledgeStarts, Unlink, Acknowledged, DownloadsInv, TypeOK, storeVars, diskVars, reportVars
<1>5. CASE OperationFails \/ Reconcile \/ Crash
  BY <1>5 DEF OperationFails, Reconcile, Crash, DownloadsInv, TypeOK, TerminalIn, diskVars,
       storeVars, reportVars
<1>6. CASE Restart
  <2>1. /\ UNCHANGED <<reserved, directory, accepted>>
        /\ allocated' \in {allocated, {f \in directory : manifest[f].status = "AVAILABLE"}}
        /\ data' \in {data, allocated'} /\ staging' \in {staging, {}} /\ spool' \in {spool, {}}
    BY <1>6 DEF Restart, diskVars, reportVars
  <2>2. /\ allocated \subseteq Files /\ data \subseteq Files /\ directory \subseteq Files
        /\ reserved \subseteq Files /\ staging \subseteq Files /\ spool \subseteq Files /\ accepted \subseteq Files
    BY DEF DownloadsInv, TypeOK
  <2>3. allocated' \subseteq Files /\ data' \subseteq Files
    BY <2>1, <2>2
  <2>4. staging' \subseteq Files /\ spool' \subseteq Files /\ directory' \subseteq Files
    BY <2>1, <2>2
  <2> QED BY <2>1, <2>2, <2>3, <2>4
<1>7. CASE \/ (\E f \in Files : Commit(f)) \/ (\E f \in Files : CommitStarts(f))
           \/ (\E f \in Files : EndsFile(f)) \/ (\E f \in Files : FileEnded(f))
           \/ (\E f \in Files : ExpireFile(f)) \/ (\E f \in Files : FileExpired(f))
           \/ (\E f \in Files : DeleteLeftOver(f)) \/ (\E r \in Requests : Acquire(r))
           \/ (\E r \in Requests : Claim(r))
  <2>1. UNCHANGED <<allocated, reserved, spool, staging, directory, data, accepted>>
    BY <1>7 DEF Commit, CommitStarts, EndsFile, FileEnded, ExpireFile, FileExpired, DeleteLeftOver,
       Acquire, Claim, storeVars, diskVars, reportVars
  <2> QED BY <1>1, <2>1
<1>8. CASE \/ (\E r \in Requests : Prepare(r)) \/ (\E r \in Requests : Consume(r))
           \/ (\E r \in Requests : TokenLost(r)) \/ (\E r \in Requests : StreamBreaks(r))
           \/ (\E r \in Requests : Release(r)) \/ (\E r \in Requests : Finish(r))
           \/ SessionEnded \/ ExpireEnds \/ Upload
  <2>1. UNCHANGED <<allocated, reserved, spool, staging, directory, data, accepted>>
    BY <1>8 DEF Prepare, Consume, TokenLost, StreamBreaks, Release, Finish, SessionEnded, ExpireEnds,
       Upload, storeVars, diskVars, reportVars
  <2> QED BY <1>1, <2>1
<1>9. CASE \/ CloseCore \/ CleanUpSession \/ Expire \/ Report \/ ReconcileLate \/ Acknowledge
           \/ Disconnect \/ Connect \/ LoseAccess
  <2>1. UNCHANGED <<allocated, reserved, spool, staging, directory, data, accepted>>
    BY <1>9 DEF CloseCore, CleanUpSession, Expire, Report, ReconcileLate, Acknowledge, Disconnect,
       Connect, LoseAccess, storeVars, diskVars, reportVars
  <2> QED BY <1>1, <2>1
<1>10. CASE Started \/ Tick
  <2>1. UNCHANGED <<allocated, reserved, spool, staging, directory, data, accepted>>
    BY <1>10 DEF Started, Tick, storeVars, diskVars, reportVars
  <2> QED BY <1>1, <2>1
<1> QED BY <1>2, <1>3, <1>4, <1>5, <1>6, <1>7, <1>8, <1>9, <1>10 DEF Next, RunQueue, Operation

LEMMA StepType ==
  ASSUME DownloadsInv, DownloadsAssumption, RecordAssumption, Next
  PROVE  /\ step' \in {"START", "STAGE", "PUBLISH", "PERSIST", "DELETE", "FREE", "REMOVE"}
         /\ current' \in Files \union {NoRecord}
<1>1. UNCHANGED <<step, current>> =>
      /\ step' \in {"START", "STAGE", "PUBLISH", "PERSIST", "DELETE", "FREE", "REMOVE"}
      /\ current' \in Files \union {NoRecord}
  BY DEF DownloadsInv, TypeOK
<1>2. CASE \/ (\E f \in Files : CommitStarts(f)) \/ (\E f \in Files : Stage(f))
           \/ (\E f \in Files : Publish(f)) \/ (\E f \in Files : CommitFails(f))
           \/ (\E f \in Files : AbortRuns(f)) \/ (\E f \in Files : EndsFile(f))
           \/ (\E f \in Files : FileEnded(f)) \/ (\E f \in Files : ExpireFile(f))
           \/ (\E f \in Files : FileExpired(f))
  BY <1>2 DEF CommitStarts, Stage, Publish, CommitFails, AbortRuns, EndsFile, FileEnded, ExpireFile,
       FileExpired, DownloadsInv, TypeOK, Goto, Finished
<1>3. CASE \/ (\E f \in Files : DeleteLeftOver(f)) \/ (\E f \in Files : DeleteBytes(f))
           \/ (\E f \in Files : FreeBytes(f)) \/ (\E f \in Files : AcknowledgeStarts(f))
           \/ (\E f \in Files : Acknowledged(f)) \/ (\E r \in Requests : Acquire(r))
           \/ (\E r \in Requests : Claim(r)) \/ SessionEnded \/ ExpireEnds \/ OperationFails
           \/ Crash
  BY <1>3 DEF DeleteLeftOver, DeleteBytes, FreeBytes, AcknowledgeStarts, Acknowledged, Acquire,
       Claim, SessionEnded, ExpireEnds, OperationFails, Crash, DownloadsInv, TypeOK,
       DownloadsAssumption, Goto, Finished
<1>4. CASE \/ (\E f \in Files : Reserve(f)) \/ (\E f \in Files : Commit(f))
           \/ (\E f \in Files : Abort(f)) \/ (\E r \in Requests : Prepare(r))
           \/ (\E r \in Requests : Consume(r)) \/ (\E r \in Requests : TokenLost(r))
           \/ (\E r \in Requests : StreamBreaks(r)) \/ (\E r \in Requests : Release(r))
           \/ (\E r \in Requests : Finish(r))
  <2>1. UNCHANGED <<step, current>>
    BY <1>4 DEF Reserve, Commit, Abort, Prepare, Consume, TokenLost, StreamBreaks, Release, Finish,
       queueVars, Call
  <2> QED BY <1>1, <2>1
<1>5. CASE \/ Upload \/ CloseCore \/ CleanUpSession \/ Expire \/ Report \/ Reconcile
           \/ ReconcileLate \/ Acknowledge \/ Disconnect
  <2>1. UNCHANGED <<step, current>>
    BY <1>5 DEF Upload, CloseCore, CleanUpSession, Expire, Report, Reconcile, ReconcileLate,
       Acknowledge, Disconnect, queueVars, Call
  <2> QED BY <1>1, <2>1
<1>6. CASE Connect \/ LoseAccess \/ Restart \/ Started \/ Tick \/ (\E f \in Files : Unlink(f))
  <2>1. UNCHANGED <<step, current>>
    BY <1>6 DEF Connect, LoseAccess, Restart, Started, Tick, Unlink, queueVars
  <2> QED BY <1>1, <2>1
<1> QED BY <1>2, <1>3, <1>4, <1>5, <1>6 DEF Next, RunQueue, Operation

LEMMA ProcessType ==
  ASSUME DownloadsInv, DownloadsAssumption, RecordAssumption, Next
  PROVE  /\ session' \in {"OPEN", "CLOSING", "ENDING", "ENDED"}
         /\ process' \in {"UP", "STARTING", "DOWN", "BROKEN"}
         /\ phase' \in {"IDLE", "SENT", "ACCEPTED", "ACKNOWLEDGING"}
         /\ connected' \in BOOLEAN /\ authorized' \in BOOLEAN
<1>1. UNCHANGED <<session, process, phase, connected, authorized>> =>
      /\ session' \in {"OPEN", "CLOSING", "ENDING", "ENDED"}
      /\ process' \in {"UP", "STARTING", "DOWN", "BROKEN"}
      /\ phase' \in {"IDLE", "SENT", "ACCEPTED", "ACKNOWLEDGING"}
      /\ connected' \in BOOLEAN /\ authorized' \in BOOLEAN
  BY DEF DownloadsInv, TypeOK
<1>2. CASE \/ (\E f \in Files : Acknowledged(f)) \/ SessionEnded \/ CloseCore \/ CleanUpSession
           \/ Report
  BY <1>2 DEF Acknowledged, SessionEnded, CloseCore, CleanUpSession, Report, DownloadsInv, TypeOK,
       backendVars, coreVars, reportVars
<1>3. CASE OperationFails
  BY <1>3 DEF OperationFails, DownloadsInv, TypeOK, backendVars, coreVars, reportVars
<1>4. CASE Reconcile \/ Acknowledge \/ Disconnect \/ Connect \/ LoseAccess \/ Crash
  BY <1>4 DEF Reconcile, Acknowledge, Disconnect, Connect, LoseAccess, Crash, DownloadsInv, TypeOK,
       backendVars, coreVars, reportVars
<1>5. CASE Restart \/ Started
  BY <1>5 DEF Restart, Started, DownloadsInv, TypeOK, backendVars, coreVars, reportVars
<1>6. CASE \/ (\E f \in Files : Reserve(f)) \/ (\E f \in Files : Commit(f))
           \/ (\E f \in Files : Abort(f)) \/ (\E f \in Files : CommitFails(f))
           \/ (\E f \in Files : CommitStarts(f)) \/ (\E f \in Files : Stage(f))
           \/ (\E f \in Files : Publish(f)) \/ (\E f \in Files : AbortRuns(f))
           \/ (\E f \in Files : EndsFile(f))
  <2>1. UNCHANGED <<session, process, phase, connected, authorized>>
    BY <1>6 DEF Reserve, Commit, Abort, CommitFails, CommitStarts, Stage, Publish, AbortRuns,
       EndsFile, coreVars, reportVars, backendVars
  <2> QED BY <1>1, <2>1
<1>7. CASE \/ (\E f \in Files : FileEnded(f)) \/ (\E f \in Files : ExpireFile(f))
           \/ (\E f \in Files : FileExpired(f)) \/ (\E f \in Files : DeleteLeftOver(f))
           \/ (\E f \in Files : DeleteBytes(f)) \/ (\E f \in Files : FreeBytes(f))
           \/ (\E f \in Files : AcknowledgeStarts(f)) \/ (\E r \in Requests : Acquire(r))
           \/ (\E f \in Files : Unlink(f))
           \/ (\E r \in Requests : Claim(r))
  <2>1. UNCHANGED <<session, process, phase, connected, authorized>>
    BY <1>7 DEF FileEnded, ExpireFile, FileExpired, DeleteLeftOver, DeleteBytes, FreeBytes,
       AcknowledgeStarts, Unlink, Acquire, Claim, coreVars, reportVars, backendVars
  <2> QED BY <1>1, <2>1
<1>8. CASE \/ (\E r \in Requests : Prepare(r)) \/ (\E r \in Requests : Consume(r))
           \/ (\E r \in Requests : TokenLost(r)) \/ (\E r \in Requests : StreamBreaks(r))
           \/ (\E r \in Requests : Release(r)) \/ (\E r \in Requests : Finish(r)) \/ ExpireEnds
           \/ Upload \/ Expire
  <2>1. UNCHANGED <<session, process, phase, connected, authorized>>
    BY <1>8 DEF Prepare, Consume, TokenLost, StreamBreaks, Release, Finish, ExpireEnds, Upload,
       Expire, coreVars, reportVars, backendVars
  <2> QED BY <1>1, <2>1
<1>9. CASE ReconcileLate \/ Tick
  <2>1. UNCHANGED <<session, process, phase, connected, authorized>>
    BY <1>9 DEF ReconcileLate, Tick, coreVars
  <2> QED BY <1>1, <2>1
<1> QED BY <1>2, <1>3, <1>4, <1>5, <1>6, <1>7, <1>8, <1>9 DEF Next, RunQueue, Operation

LEMMA FaultsType ==
  ASSUME DownloadsInv, DownloadsAssumption, RecordAssumption, Next
  PROVE  faults' \in 0 .. MaxFaults
<1>1. UNCHANGED faults =>
      faults' \in 0 .. MaxFaults
  BY DEF DownloadsInv, TypeOK
<1>2. CASE (\E f \in Files : CommitFails(f)) \/ OperationFails \/ Disconnect \/ Crash
  <2>1. faults < MaxFaults /\ faults' = faults + 1
    BY <1>2 DEF CommitFails, OperationFails, Disconnect, Crash, Fault
  <2>2. faults \in 0 .. MaxFaults /\ MaxFaults \in Nat
    BY DEF DownloadsInv, TypeOK, DownloadsAssumption
  <2> QED BY <2>1, <2>2
<1>3. CASE \/ (\E f \in Files : Reserve(f)) \/ (\E f \in Files : Commit(f))
           \/ (\E f \in Files : Abort(f)) \/ (\E f \in Files : CommitStarts(f))
           \/ (\E f \in Files : Stage(f)) \/ (\E f \in Files : Publish(f))
           \/ (\E f \in Files : AbortRuns(f)) \/ (\E f \in Files : EndsFile(f))
           \/ (\E f \in Files : FileEnded(f))
  <2>1. UNCHANGED faults
    BY <1>3 DEF Reserve, Commit, Abort, CommitStarts, Stage, Publish, AbortRuns, EndsFile, FileEnded
  <2> QED BY <1>1, <2>1
<1>4. CASE \/ (\E f \in Files : ExpireFile(f)) \/ (\E f \in Files : FileExpired(f))
           \/ (\E f \in Files : DeleteLeftOver(f)) \/ (\E f \in Files : DeleteBytes(f))
           \/ (\E f \in Files : FreeBytes(f)) \/ (\E f \in Files : AcknowledgeStarts(f))
           \/ (\E f \in Files : Unlink(f))
           \/ (\E f \in Files : Acknowledged(f)) \/ (\E r \in Requests : Acquire(r))
           \/ (\E r \in Requests : Claim(r))
  <2>1. UNCHANGED faults
    BY <1>4 DEF ExpireFile, FileExpired, DeleteLeftOver, DeleteBytes, FreeBytes, AcknowledgeStarts, Unlink,
       Acknowledged, Acquire, Claim
  <2> QED BY <1>1, <2>1
<1>5. CASE \/ (\E r \in Requests : Prepare(r)) \/ (\E r \in Requests : Consume(r))
           \/ (\E r \in Requests : TokenLost(r)) \/ (\E r \in Requests : StreamBreaks(r))
           \/ (\E r \in Requests : Release(r)) \/ (\E r \in Requests : Finish(r))
           \/ SessionEnded \/ ExpireEnds \/ Upload
  <2>1. UNCHANGED faults
    BY <1>5 DEF Prepare, Consume, TokenLost, StreamBreaks, Release, Finish, SessionEnded, ExpireEnds,
       Upload
  <2> QED BY <1>1, <2>1
<1>6. CASE \/ CloseCore \/ CleanUpSession \/ Expire \/ Report \/ Reconcile \/ ReconcileLate
           \/ Acknowledge \/ Connect \/ LoseAccess
  <2>1. UNCHANGED faults
    BY <1>6 DEF CloseCore, CleanUpSession, Expire, Report, Reconcile, ReconcileLate, Acknowledge,
       Connect, LoseAccess
  <2> QED BY <1>1, <2>1
<1>7. CASE Restart \/ Started \/ Tick
  <2>1. UNCHANGED faults
    BY <1>7 DEF Restart, Started, Tick
  <2> QED BY <1>1, <2>1
<1> QED BY <1>2, <1>3, <1>4, <1>5, <1>6, <1>7 DEF Next, RunQueue, Operation

LEMMA UploadsType ==
  ASSUME DownloadsInv, DownloadsAssumption, RecordAssumption, Next
  PROVE  uploads' \in 0 .. MaxBytes
<1>1. UNCHANGED uploads =>
      uploads' \in 0 .. MaxBytes
  BY DEF DownloadsInv, TypeOK
<1>2. CASE Upload
  <2>1. uploads' = uploads + 1 /\ SizeSum(Counted) + uploads + 1 <= MaxBytes
    BY <1>2 DEF Upload
  <2>2. uploads \in 0 .. MaxBytes /\ MaxBytes \in Nat /\ Counted \in SUBSET Files
    BY DEF DownloadsInv, TypeOK, DownloadsAssumption, Counted
  <2>3. SizeSum(Counted) \in Nat
    BY <2>2, SizeIsFinite
  <2> QED BY <2>1, <2>2, <2>3
<1>3. CASE SessionEnded \/ Crash
  BY <1>3 DEF SessionEnded, Crash, DownloadsInv, TypeOK, DownloadsAssumption
<1>4. CASE \/ (\E f \in Files : Reserve(f)) \/ (\E f \in Files : Commit(f))
           \/ (\E f \in Files : Abort(f)) \/ (\E f \in Files : CommitFails(f))
           \/ (\E f \in Files : CommitStarts(f)) \/ (\E f \in Files : Stage(f))
           \/ (\E f \in Files : Publish(f)) \/ (\E f \in Files : AbortRuns(f))
           \/ (\E f \in Files : EndsFile(f))
  <2>1. UNCHANGED uploads
    BY <1>4 DEF Reserve, Commit, Abort, CommitFails, CommitStarts, Stage, Publish, AbortRuns,
       EndsFile, coreVars
  <2> QED BY <1>1, <2>1
<1>5. CASE \/ (\E f \in Files : FileEnded(f)) \/ (\E f \in Files : ExpireFile(f))
           \/ (\E f \in Files : FileExpired(f)) \/ (\E f \in Files : DeleteLeftOver(f))
           \/ (\E f \in Files : DeleteBytes(f)) \/ (\E f \in Files : FreeBytes(f))
           \/ (\E f \in Files : AcknowledgeStarts(f)) \/ (\E f \in Files : Acknowledged(f))
           \/ (\E f \in Files : Unlink(f))
           \/ (\E r \in Requests : Acquire(r))
  <2>1. UNCHANGED uploads
    BY <1>5 DEF FileEnded, ExpireFile, FileExpired, DeleteLeftOver, DeleteBytes, FreeBytes,
       AcknowledgeStarts, Unlink, Acknowledged, Acquire, coreVars
  <2> QED BY <1>1, <2>1
<1>6. CASE \/ (\E r \in Requests : Claim(r)) \/ (\E r \in Requests : Prepare(r))
           \/ (\E r \in Requests : Consume(r)) \/ (\E r \in Requests : TokenLost(r))
           \/ (\E r \in Requests : StreamBreaks(r)) \/ (\E r \in Requests : Release(r))
           \/ (\E r \in Requests : Finish(r)) \/ ExpireEnds \/ OperationFails
  <2>1. UNCHANGED uploads
    BY <1>6 DEF Claim, Prepare, Consume, TokenLost, StreamBreaks, Release, Finish, ExpireEnds,
       OperationFails, coreVars
  <2> QED BY <1>1, <2>1
<1>7. CASE \/ CloseCore \/ CleanUpSession \/ Expire \/ Report \/ Reconcile \/ ReconcileLate
           \/ Acknowledge \/ Disconnect \/ Connect
  <2>1. UNCHANGED uploads
    BY <1>7 DEF CloseCore, CleanUpSession, Expire, Report, Reconcile, ReconcileLate, Acknowledge,
       Disconnect, Connect, coreVars
  <2> QED BY <1>1, <2>1
<1>8. CASE LoseAccess \/ Restart \/ Started \/ Tick
  <2>1. UNCHANGED uploads
    BY <1>8 DEF LoseAccess, Restart, Started, Tick, coreVars
  <2> QED BY <1>1, <2>1
<1> QED BY <1>2, <1>3, <1>4, <1>5, <1>6, <1>7, <1>8 DEF Next, RunQueue, Operation

LEMMA ReportsType ==
  ASSUME DownloadsInv, DownloadsAssumption, RecordAssumption, Next
  PROVE  files' \in Reports /\ manifest' \in Reports /\ sent' \in Reports /\ late' \in Reports
<1>1. UNCHANGED <<files, manifest, sent, late>> =>
      files' \in Reports /\ manifest' \in Reports /\ sent' \in Reports /\ late' \in Reports
  BY DEF DownloadsInv, TypeOK
<1>2. CASE \E f \in Files : Publish(f)
  <2>1. PICK f, file : /\ f \in Files
                       /\ file = [status |-> "AVAILABLE", due |-> Retention, ended |-> FALSE]
                       /\ manifest' = [manifest EXCEPT ![f] = file]
                       /\ files' = [files EXCEPT ![f] = file]
                       /\ UNCHANGED <<sent, late>>
    BY <1>2 DEF Publish, reportVars
  <2>2. file \in Records
    BY <2>1 DEF Records, Statuses, DownloadsAssumption
  <2> QED BY <2>1, <2>2 DEF DownloadsInv, TypeOK, Reports
<1>3. CASE \E f \in Files : EndsFile(f)
  <2>1. PICK f \in Files : EndsFile(f)
    BY <1>3
  <2>2. /\ UNCHANGED <<manifest, sent, late>> /\ files[f] # NoRecord
        /\ files' = [files EXCEPT ![f] = Tightened(files[f], Head(queue).left)]
        /\ queue # <<>> /\ Head(queue).kind = "end"
    BY <2>1 DEF EndsFile, ToEnd, Known, Runs, diskVars, reportVars
  <2>3. files[f] \in Records /\ Head(queue).left \in 0 .. AfterSession
    BY <2>2, HeadFacts, OperationFacts DEF DownloadsInv, TypeOK, Reports
  <2>4. Tightened(files[f], Head(queue).left) \in Records
    BY <2>3, TightenedFacts
  <2> QED BY <2>2, <2>4 DEF DownloadsInv, TypeOK, Reports
<1>4. CASE \/ (\E f \in Files : FileEnded(f)) \/ (\E f \in Files : FileExpired(f))
           \/ (\E r \in Requests : Claim(r))
  <2>1. PICK f, file : /\ f \in Files
                       /\ Persist(f, file) /\ UNCHANGED <<sent, late>>
                       /\ \/ file = files[f]
                          \/ files[f] # NoRecord /\ \E end \in {"EXPIRED", "CLAIMED"} :
                                                       file = [files[f] EXCEPT !.status = end]
    <3>1. CASE \E f \in Files : FileEnded(f)
      BY <3>1 DEF FileEnded, reportVars
    <3>2. CASE \E f \in Files : FileExpired(f)
      BY <3>2 DEF FileExpired, reportVars, Runs, DownloadsInv, StepAgrees, Known
    <3>3. CASE \E r \in Requests : Claim(r)
      <4>1. PICK r \in Requests : Claim(r)
        BY <3>3
      <4>2. queue # <<>> /\ Head(queue) = [kind |-> "finish", request |-> r] /\ step = "START"
        BY <4>1 DEF Claim, Running
      <4>3. Waits(Head(queue)) /\ request[r] = "SENT"
        BY <4>2, HeadFacts DEF DownloadsInv, QueueAgrees, Waits
      <4>4. Known(TargetOf[r]) /\ TargetOf[r] \in Files
        BY <4>2, <4>3 DEF DownloadsInv, HoldersAgree, Finishes, Available, DownloadsAssumption
      <4> QED BY <4>1, <4>4 DEF Claim, reportVars, Known
    <3> QED BY <1>4, <3>1, <3>2, <3>3
  <2>2. file \in Records \union {NoRecord}
    BY <2>1 DEF DownloadsInv, TypeOK, Reports, Records, Statuses
  <2> QED BY <2>1, <2>2 DEF Persist, DownloadsInv, TypeOK, Reports
<1>5. CASE \/ (\E f \in Files : AcknowledgeStarts(f)) \/ (\E f \in Files : Acknowledged(f))
           \/ (\E f \in Files : Unlink(f))
           \/ Report \/ Reconcile \/ ReconcileLate \/ Disconnect \/ Crash \/ Restart
  <2>1. /\ files \in Reports /\ manifest \in Reports /\ sent \in Reports /\ late \in Reports
        /\ NoFile \in Reports /\ Empty \in Reports
        /\ \A f \in Files : files[f] # NoRecord => files[f] \in Records
    BY DEF DownloadsInv, TypeOK, Reports, NoFile, Empty
  <2>2. /\ files' \in {files, NoFile, manifest} \union {[files EXCEPT ![f] = NoRecord] : f \in Files}
        /\ manifest' \in {manifest} \union {[manifest EXCEPT ![f] = NoRecord] : f \in Files}
        /\ sent' \in {sent, files, Empty} /\ late' \in {late, sent, Empty}
    BY <1>5 DEF AcknowledgeStarts, Unlink, Acknowledged, Report, Reconcile, ReconcileLate, Disconnect,
              Crash, Restart, Loses, diskVars, storeVars, reportVars
  <2> QED BY <2>1, <2>2 DEF Reports
<1>6. CASE Tick
  <2>1. files' = Aged(files) /\ manifest' = Aged(manifest) /\ sent' = Aged(sent) /\ late' = Aged(late)
    BY <1>6 DEF Tick
  <2> QED BY <2>1, AgedFacts DEF DownloadsInv, TypeOK
<1>7. CASE \/ (\E f \in Files : Reserve(f)) \/ (\E f \in Files : Commit(f))
           \/ (\E f \in Files : Abort(f)) \/ (\E f \in Files : CommitFails(f))
           \/ (\E f \in Files : CommitStarts(f)) \/ (\E f \in Files : Stage(f))
           \/ (\E f \in Files : AbortRuns(f)) \/ (\E f \in Files : ExpireFile(f))
           \/ (\E f \in Files : DeleteLeftOver(f))
  <2>1. UNCHANGED <<files, manifest, sent, late>>
    BY <1>7 DEF Reserve, Commit, Abort, CommitFails, CommitStarts, Stage, AbortRuns, ExpireFile,
       DeleteLeftOver, storeVars, diskVars, reportVars
  <2> QED BY <1>1, <2>1
<1>8. CASE \/ (\E f \in Files : DeleteBytes(f)) \/ (\E f \in Files : FreeBytes(f))
           \/ (\E r \in Requests : Acquire(r)) \/ (\E r \in Requests : Prepare(r))
           \/ (\E r \in Requests : Consume(r)) \/ (\E r \in Requests : TokenLost(r))
           \/ (\E r \in Requests : StreamBreaks(r)) \/ (\E r \in Requests : Release(r))
           \/ (\E r \in Requests : Finish(r))
  <2>1. UNCHANGED <<files, manifest, sent, late>>
    BY <1>8 DEF DeleteBytes, FreeBytes, Acquire, Prepare, Consume, TokenLost, StreamBreaks, Release,
       Finish, storeVars, diskVars, reportVars
  <2> QED BY <1>1, <2>1
<1>9. CASE \/ SessionEnded \/ ExpireEnds \/ OperationFails \/ Upload \/ CloseCore
           \/ CleanUpSession \/ Expire \/ Acknowledge \/ Connect
  <2>1. UNCHANGED <<files, manifest, sent, late>>
    BY <1>9 DEF SessionEnded, ExpireEnds, OperationFails, Upload, CloseCore, CleanUpSession, Expire,
       Acknowledge, Connect, storeVars, diskVars, reportVars
  <2> QED BY <1>1, <2>1
<1>10. CASE LoseAccess \/ Started
  <2>1. UNCHANGED <<files, manifest, sent, late>>
    BY <1>10 DEF LoseAccess, Started, storeVars, diskVars, reportVars
  <2> QED BY <1>1, <2>1
<1> QED BY <1>2, <1>3, <1>4, <1>5, <1>6, <1>7, <1>8, <1>9, <1>10 DEF Next, RunQueue, Operation

LEMMA TypeStep ==
  ASSUME DownloadsInv, DownloadsAssumption, RecordAssumption, Next
  PROVE  TypeOK'
<1>1. /\ {allocated, reserved, spool, staging, directory, data, accepted}' \subseteq SUBSET Files
      /\ queue' \in Seq(Operations) /\ row' \in [Files -> Rows \union {NoRecord}]
  BY SetsType, QueueAgreesStep, RowsStep
<1> QED BY <1>1, TransferType, RequestType, StepType, ProcessType, FaultsType, UploadsType, ReportsType DEF TypeOK

-----------------------------------------------------------------------------
(* All records of a file agree on how it ended.                            *)

LEMMA HeadWaits ==
  ASSUME DownloadsInv, queue # <<>>
  PROVE  Waits(Head(queue)) /\ Head(queue) \in Operations
BY HeadFacts DEF DownloadsInv, QueueAgrees

\* A file that is written as ended was available until then.
LEMMA ExpiresOrClaims ==
  ASSUME DownloadsInv, DownloadsAssumption,
         (\E f \in Files : FileExpired(f)) \/ (\E r \in Requests : Claim(r))
  PROVE  \E f \in Files, end \in {"EXPIRED", "CLAIMED"} :
           Available(f) /\ Persist(f, [files[f] EXCEPT !.status = end])
<1>1. CASE \E f \in Files : FileExpired(f)
  BY <1>1 DEF FileExpired, Runs, DownloadsInv, StepAgrees
<1>2. CASE \E r \in Requests : Claim(r)
  <2>1. PICK r \in Requests : Claim(r)
    BY <1>2
  <2>2. queue # <<>> /\ Head(queue) = [kind |-> "finish", request |-> r] /\ step = "START"
    BY <2>1 DEF Claim, Running
  <2>3. request[r] = "SENT"
    BY <2>2, HeadWaits DEF Waits
  <2>4. Available(TargetOf[r]) /\ TargetOf[r] \in Files
    BY <2>2, <2>3 DEF DownloadsInv, HoldersAgree, Finishes, DownloadsAssumption
  <2> QED BY <2>1, <2>4 DEF Claim
<1> QED BY <1>1, <1>2

\* No step makes two records disagree on how a file ended.
LEMMA StatusesStep ==
  ASSUME DownloadsInv, DownloadsAssumption, RecordAssumption, Next
  PROVE  \A g \in Files : OneEnd(g)'
<1>0. \A g \in Files : OneEnd(g)
  BY DEF DownloadsInv, StatusesAgree
<1>1. UNCHANGED <<transfer, files, manifest, row, sent, late, allocated, accepted>> =>
      \A g \in Files : OneEnd(g)'
  BY <1>0 DEF OneEnd, End, Known, Ended
<1>2. CASE \/ (\E f \in Files : Reserve(f)) \/ (\E f \in Files : Commit(f))
           \/ (\E f \in Files : Abort(f)) \/ (\E f \in Files : CommitStarts(f))
           \/ (\E f \in Files : CommitFails(f)) \/ (\E f \in Files : AbortRuns(f))
  <2>1. UNCHANGED <<files, manifest, row, sent, late, allocated, accepted>>
    BY <1>2 DEF Reserve, Commit, Abort, CommitStarts, CommitFails, AbortRuns, storeVars, diskVars, reportVars,
              backendVars
  <2>2. \A f \in Files : transfer'[f] = "DONE" <=> transfer[f] = "DONE"
    <3>1. CASE \E f \in Files : Reserve(f) \/ Commit(f) \/ Abort(f)
      BY <3>1 DEF Reserve, Commit, Abort, DownloadsInv, TypeOK
    <3>2. ASSUME NEW f \in Files, CommitStarts(f) \/ CommitFails(f) \/ AbortRuns(f)
          PROVE  \A g \in Files : transfer'[g] = "DONE" <=> transfer[g] = "DONE"
      <4>1. /\ queue # <<>> /\ Head(queue).kind \in {"commit", "abort"} /\ Head(queue).file = f
            /\ \E to \in {transfer[f], "FAILED", "NONE"} : transfer' = [transfer EXCEPT ![f] = to]
        BY <3>2 DEF CommitStarts, CommitFails, AbortRuns, Running, DownloadsInv, TypeOK
      <4>2. transfer[f] \in {"COMMITTING", "ABORTING"}
        BY <4>1, HeadWaits DEF Waits
      <4> QED BY <4>1, <4>2 DEF DownloadsInv, TypeOK
    <3> QED BY <1>2, <3>1, <3>2
  <2> QED BY <1>0, <2>1, <2>2 DEF OneEnd, End, Known, Ended
<1>3. CASE \E f \in Files : Publish(f)
  <2>1. PICK f, file :
          /\ f \in Files
          /\ file = [status |-> "AVAILABLE", due |-> Retention, ended |-> FALSE]
          /\ queue # <<>> /\ Head(queue) = [kind |-> "commit", file |-> f]
          /\ manifest' = [manifest EXCEPT ![f] = file] /\ files' = [files EXCEPT ![f] = file]
          /\ allocated' = allocated \union {f} /\ transfer' = [transfer EXCEPT ![f] = "DONE"]
          /\ UNCHANGED <<row, sent, late, accepted>>
    BY <1>3 DEF Publish, Running, reportVars, backendVars
  <2>2. transfer[f] = "COMMITTING"
    BY <2>1, HeadWaits DEF Waits
  <2>3. file # NoRecord /\ file.status = "AVAILABLE"
    <3>1. file \in Records
      BY <2>1 DEF Records, Statuses, DownloadsAssumption
    <3> QED BY <2>1, <3>1 DEF RecordAssumption
  <2>4. /\ manifest'[f] = file /\ files'[f] = file /\ transfer'[f] = "DONE"
        /\ \A g \in Files \ {f} : /\ manifest'[g] = manifest[g] /\ files'[g] = files[g]
                                  /\ transfer'[g] = transfer[g] /\ (g \in allocated' <=> g \in allocated)
    BY <2>1 DEF DownloadsInv, TypeOK, Reports
  <2>5. OneEnd(f)'
    BY <1>0, <2>1, <2>2, <2>3, <2>4 DEF OneEnd, End, Known, Ended
  <2>6. ASSUME NEW g \in Files \ {f} PROVE OneEnd(g)'
    BY <1>0, <2>1, <2>4 DEF OneEnd, End, Known, Ended
  <2> QED BY <2>5, <2>6
<1>4. CASE \E f \in Files : EndsFile(f)
  <2>1. PICK f \in Files : EndsFile(f)
    BY <1>4
  <2>2. /\ UNCHANGED <<transfer, manifest, row, sent, late, allocated, accepted>> /\ files[f] # NoRecord
        /\ files' = [files EXCEPT ![f] = Tightened(files[f], Head(queue).left)]
        /\ queue # <<>> /\ Head(queue).kind = "end"
    BY <2>1 DEF EndsFile, ToEnd, Known, Runs, coreVars, diskVars, reportVars, backendVars
  <2>3. files[f] \in Records /\ Head(queue).left \in 0 .. AfterSession
    BY <2>2, HeadFacts, OperationFacts DEF DownloadsInv, TypeOK, Reports
  <2>4. files'[f].status = files[f].status /\ \A g \in Files \ {f} : files'[g] = files[g]
    BY <2>2, <2>3, TightenedFacts DEF DownloadsInv, TypeOK, Reports
  <2> QED BY <1>0, <2>2, <2>4 DEF OneEnd, End, Known, Ended
<1>5. CASE \E f \in Files : FileEnded(f)
  <2>1. PICK f \in Files : FileEnded(f)
    BY <1>5
  <2>2. Known(f)
    BY <2>1 DEF FileEnded, Runs, DownloadsInv, StepAgrees
  <2>3. /\ manifest' = [manifest EXCEPT ![f] = files[f]] /\ files' = files
        /\ UNCHANGED <<transfer, row, sent, late, allocated, accepted>>
    BY <2>1 DEF FileEnded, Persist, coreVars, reportVars, backendVars, DownloadsInv, TypeOK, Reports
  <2>4. manifest'[f] = files[f] /\ \A g \in Files \ {f} : manifest'[g] = manifest[g]
    BY <2>3 DEF DownloadsInv, TypeOK, Reports
  <2> QED BY <1>0, <2>2, <2>3, <2>4 DEF OneEnd, End, Known, Ended
<1>6. CASE (\E f \in Files : FileExpired(f)) \/ (\E r \in Requests : Claim(r))
  <2>1. PICK f \in Files, end \in {"EXPIRED", "CLAIMED"} :
          Available(f) /\ Persist(f, [files[f] EXCEPT !.status = end])
    BY <1>6, ExpiresOrClaims
  <2>2. UNCHANGED <<transfer, row, sent, late, allocated, accepted>>
    BY <1>6 DEF FileExpired, Claim, coreVars, reportVars, backendVars
  <2>3. PICK file \in Records : /\ file.status = end
                                /\ manifest' = [manifest EXCEPT ![f] = file]
                                /\ files' = [files EXCEPT ![f] = file]
    <3>1. files[f] \in Records
      BY <2>1 DEF Available, Known, DownloadsInv, TypeOK, Reports
    <3>2. /\ [files[f] EXCEPT !.status = end] \in Records
          /\ [files[f] EXCEPT !.status = end].status = end
      BY <3>1 DEF Records, Statuses
    <3> QED BY <2>1, <3>2 DEF Persist
  <2>4. /\ manifest'[f] = file /\ files'[f] = file
        /\ \A g \in Files \ {f} : manifest'[g] = manifest[g] /\ files'[g] = files[g]
    BY <2>3 DEF DownloadsInv, TypeOK, Reports
  <2>5. file # NoRecord
    BY DEF RecordAssumption
  <2>6. OneEnd(f)'
    <3>1. transfer[f] = "DONE" /\ ~ Ended(row[f]) /\ ~ Ended(sent[f]) /\ ~ Ended(late[f])
      BY <1>0, <2>1 DEF OneEnd, End, Known, Ended, Available
    <3> QED BY <1>0, <2>2, <2>3, <2>4, <2>5, <3>1 DEF OneEnd, End, Known, Ended
  <2>7. ASSUME NEW g \in Files \ {f} PROVE OneEnd(g)'
    BY <1>0, <2>2, <2>4 DEF OneEnd, End, Known, Ended
  <2> QED BY <2>6, <2>7
<1>7. CASE \E f \in Files : Unlink(f)
  <2>1. PICK f \in Files : Unlink(f)
    BY <1>7
  <2>2. /\ queue # <<>> /\ Head(queue) = [kind |-> "acknowledge", file |-> f]
        /\ manifest' \in {manifest, [manifest EXCEPT ![f] = NoRecord]}
        /\ UNCHANGED <<transfer, files, row, sent, late, allocated, accepted>>
    BY <2>1 DEF Unlink, Running, coreVars, storeVars, reportVars, backendVars
  <2>3. Ended(row[f])
    BY <2>2, HeadWaits DEF Waits
  <2>4. /\ manifest'[f] \in {manifest[f], NoRecord}
        /\ \A g \in Files \ {f} : manifest'[g] = manifest[g]
    BY <2>2 DEF DownloadsInv, TypeOK, Reports
  <2> QED BY <1>0, <2>2, <2>3, <2>4 DEF OneEnd, End, Known, Ended
<1>8. CASE \/ (\E f \in Files : Acknowledged(f)) \/ (\E f \in Files : FreeBytes(f))
           \/ OperationFails
  <2>1. /\ UNCHANGED <<transfer, manifest, row, sent, late>>
        /\ files' \in {files} \union {[files EXCEPT ![f] = NoRecord] : f \in Files}
        /\ allocated' \subseteq allocated /\ accepted' \subseteq accepted
    BY <1>8 DEF Acknowledged, FreeBytes, OperationFails, coreVars, storeVars, diskVars, reportVars, backendVars
  <2>2. \A g \in Files : files'[g] \in {files[g], NoRecord}
    BY <2>1 DEF DownloadsInv, TypeOK, Reports
  <2> QED BY <1>0, <2>1, <2>2 DEF OneEnd, End, Known, Ended
<1>9. CASE Report
  <2>1. sent' = files /\ UNCHANGED <<transfer, files, manifest, row, late, allocated, accepted>>
    BY <1>9 DEF Report, coreVars, storeVars, diskVars, backendVars
  <2> QED BY <1>0, <2>1 DEF OneEnd, End, Known, Ended
<1>10. CASE Reconcile \/ ReconcileLate
  <2>1. /\ UNCHANGED <<transfer, files, manifest, allocated>>
        /\ sent' \in {sent, Empty} /\ late' \in {late, Empty}
    BY <1>10 DEF Reconcile, ReconcileLate, coreVars, storeVars, diskVars
  <2>2. \A f \in Files : sent'[f] \in {sent[f], NoRecord} /\ late'[f] \in {late[f], NoRecord}
    BY <2>1 DEF Empty, NoFile
  <2>3. \A f \in Files : /\ row'[f] # NoRecord => row[f] # NoRecord \/ sent[f] # NoRecord \/ late[f] # NoRecord
                         /\ Ended(row[f]) => Ended(row'[f]) /\ row'[f].status = row[f].status
                         /\ Ended(row'[f]) => \/ Ended(row[f])
                                              \/ Ended(sent[f]) /\ row'[f].status = sent[f].status
                                              \/ Ended(late[f]) /\ row'[f].status = late[f].status
    BY RowsStep
  <2>4. \A f \in accepted' : f \in Files /\ Ended(row'[f])
    <3>1. CASE UNCHANGED accepted
      BY <1>0, <2>3, <3>1 DEF OneEnd, DownloadsInv, TypeOK
    <3>2. CASE accepted' = TerminalIn(sent) /\ row' = Merged(sent)
      BY <3>2, MergeFacts, RecordFacts DEF TerminalIn, Merged, DownloadsInv
    <3> QED BY <1>10, <3>1, <3>2 DEF Reconcile, ReconcileLate
  <2>5. ASSUME NEW f \in Files PROVE OneEnd(f)'
    <3>1. transfer[f] = "DONE" => End(f)' = End(f)
      BY <1>0, <2>1, <2>3 DEF OneEnd, End
    <3>2. transfer[f] # "DONE" => row'[f] = NoRecord
      BY <1>0, <2>3 DEF OneEnd
    <3>3. Ended(row'[f]) => row'[f].status = End(f)
      BY <1>0, <2>3 DEF OneEnd
    <3> QED BY <1>0, <2>1, <2>2, <2>3, <2>4, <3>1, <3>2, <3>3 DEF OneEnd, Known, Ended
  <2> QED BY <2>5
<1>11. CASE Disconnect
  <2>1. /\ UNCHANGED <<transfer, files, manifest, row, allocated, accepted>>
        /\ sent' = Empty /\ late' \in {late, sent}
    BY <1>11 DEF Disconnect, Loses, coreVars, storeVars, diskVars, backendVars
  <2>2. \A f \in Files : sent'[f] = NoRecord /\ late'[f] \in {late[f], sent[f]}
    BY <2>1 DEF Empty, NoFile
  <2> QED BY <1>0, <2>1, <2>2 DEF OneEnd, End, Known, Ended
<1>12. CASE Crash
  <2>1. /\ UNCHANGED <<manifest, row>> /\ files' = NoFile /\ allocated' = {} /\ accepted' = {}
        /\ transfer' = [f \in Files |-> IF transfer[f] = "DONE" THEN "DONE" ELSE "NONE"]
        /\ sent' = Empty /\ late' \in {late, sent}
    BY <1>12 DEF Crash, Loses, diskVars, backendVars
  <2>2. \A f \in Files : /\ sent'[f] = NoRecord /\ late'[f] \in {late[f], sent[f]} /\ files'[f] = NoRecord
                         /\ transfer'[f] = "DONE" <=> transfer[f] = "DONE"
    BY <2>1 DEF Empty, NoFile
  <2> QED BY <1>0, <2>1, <2>2 DEF OneEnd, End, Known, Ended
<1>13. CASE Restart
  <2>1. /\ UNCHANGED <<transfer, manifest, row, sent, late, accepted>>
        /\ \/ UNCHANGED <<files, allocated>>
           \/ /\ files' = manifest /\ Unexplained = {}
              /\ allocated' = {f \in directory : manifest[f].status = "AVAILABLE"}
    BY <1>13 DEF Restart, diskVars, reportVars, backendVars
  <2>2. CASE UNCHANGED <<files, allocated>>
    BY <1>1, <2>1, <2>2
  <2>3. CASE /\ files' = manifest /\ Unexplained = {}
             /\ allocated' = {f \in directory : manifest[f].status = "AVAILABLE"}
    <3>1. \A f \in allocated' : manifest[f] # NoRecord
      BY <2>3 DEF Unexplained
    <3> QED BY <1>0, <2>1, <2>3, <3>1 DEF OneEnd, End, Known, Ended
  <2> QED BY <2>1, <2>2, <2>3
<1>14. CASE Tick
  <2>1. /\ files' = Aged(files) /\ manifest' = Aged(manifest) /\ sent' = Aged(sent) /\ late' = Aged(late)
        /\ row' = Aged(row) /\ UNCHANGED <<transfer, allocated, accepted>>
    BY <1>14 DEF Tick, coreVars
  <2>2. \A f \in Files :
          /\ files'[f] = NoRecord <=> files[f] = NoRecord
          /\ files[f] # NoRecord => files'[f].status = files[f].status
          /\ manifest'[f] = NoRecord <=> manifest[f] = NoRecord
          /\ manifest[f] # NoRecord => manifest'[f].status = manifest[f].status
          /\ sent'[f] = NoRecord <=> sent[f] = NoRecord
          /\ sent[f] # NoRecord => sent'[f].status = sent[f].status
          /\ late'[f] = NoRecord <=> late[f] = NoRecord
          /\ late[f] # NoRecord => late'[f].status = late[f].status
          /\ row'[f] = NoRecord <=> row[f] = NoRecord
          /\ row[f] # NoRecord => row'[f].status = row[f].status
    <3>1. \A f \in Files :
            /\ files'[f] = NoRecord <=> files[f] = NoRecord
            /\ files[f] # NoRecord => files'[f].status = files[f].status
            /\ manifest'[f] = NoRecord <=> manifest[f] = NoRecord
            /\ manifest[f] # NoRecord => manifest'[f].status = manifest[f].status
      BY <2>1, AgedFacts DEF DownloadsInv, TypeOK
    <3>2. \A f \in Files :
            /\ sent'[f] = NoRecord <=> sent[f] = NoRecord
            /\ sent[f] # NoRecord => sent'[f].status = sent[f].status
            /\ late'[f] = NoRecord <=> late[f] = NoRecord
            /\ late[f] # NoRecord => late'[f].status = late[f].status
      BY <2>1, AgedFacts DEF DownloadsInv, TypeOK
    <3>3. \A f \in Files :
            /\ row'[f] = NoRecord <=> row[f] = NoRecord
            /\ row[f] # NoRecord => row'[f].status = row[f].status
      BY <2>1, AgedRows DEF DownloadsInv, TypeOK
    <3> QED BY <3>1, <3>2, <3>3
  <2>3. ASSUME NEW f \in Files PROVE OneEnd(f)'
    <3>1. /\ Ended(row'[f]) <=> Ended(row[f])
          /\ Ended(sent'[f]) <=> Ended(sent[f])
          /\ Ended(late'[f]) <=> Ended(late[f])
      BY <2>2 DEF Ended
    <3>2. transfer[f] = "DONE" => End(f)' = End(f)
      BY <1>0, <2>2 DEF OneEnd, End, Ended
    <3> QED BY <1>0, <2>1, <2>2, <3>1, <3>2 DEF OneEnd, Known, Ended
  <2> QED BY <2>3
<1>15. CASE \/ (\E f \in Files : Stage(f)) \/ (\E f \in Files : ExpireFile(f))
            \/ (\E f \in Files : DeleteLeftOver(f)) \/ (\E f \in Files : DeleteBytes(f))
            \/ (\E r \in Requests : Acquire(r)) \/ (\E r \in Requests : Prepare(r))
            \/ (\E r \in Requests : Consume(r)) \/ (\E r \in Requests : TokenLost(r))
            \/ (\E r \in Requests : StreamBreaks(r)) \/ (\E f \in Files : AcknowledgeStarts(f))
  <2>1. UNCHANGED <<transfer, files, manifest, row, sent, late, allocated, accepted>>
    BY <1>15 DEF Stage, ExpireFile, DeleteLeftOver, DeleteBytes, Acquire, Prepare, Consume, TokenLost,
       StreamBreaks, AcknowledgeStarts, storeVars, diskVars, coreVars, reportVars, backendVars
  <2> QED BY <1>1, <2>1
<1>16. CASE \/ (\E r \in Requests : Release(r)) \/ (\E r \in Requests : Finish(r))
            \/ SessionEnded \/ ExpireEnds \/ Upload \/ CloseCore \/ CleanUpSession \/ Expire
            \/ Acknowledge
  <2>1. UNCHANGED <<transfer, files, manifest, row, sent, late, allocated, accepted>>
    BY <1>16 DEF Release, Finish, SessionEnded, ExpireEnds, Upload, CloseCore, CleanUpSession, Expire,
       Acknowledge, storeVars, diskVars, coreVars, reportVars, backendVars
  <2> QED BY <1>1, <2>1
<1>17. CASE Connect \/ LoseAccess \/ Started
  <2>1. UNCHANGED <<transfer, files, manifest, row, sent, late, allocated, accepted>>
    BY <1>17 DEF Connect, LoseAccess, Started, storeVars, diskVars, coreVars, reportVars, backendVars
  <2> QED BY <1>1, <2>1
<1> QED BY <1>2, <1>3, <1>4, <1>5, <1>6, <1>7, <1>8, <1>9, <1>10, <1>11, <1>12, <1>13, <1>14,
       <1>15, <1>16, <1>17 DEF Next, RunQueue, Operation

-----------------------------------------------------------------------------
(* A process that is down has forgotten everything.                        *)

\* A process forgets everything when it ends, and does nothing before it starts again.
LEMMA NothingStep ==
  ASSUME DownloadsInv, DownloadsAssumption, RecordAssumption, Next
  PROVE  NothingIsLeft'
<1>1. UNCHANGED <<process, files, allocated, reserved, queue, uploads, request>> =>
      NothingIsLeft'
  BY DEF DownloadsInv, NothingIsLeft, Alive
<1>2. CASE \/ (\E f \in Files : Reserve(f)) \/ (\E f \in Files : CommitFails(f))
           \/ (\E f \in Files : CommitStarts(f)) \/ (\E f \in Files : Publish(f))
           \/ (\E f \in Files : AbortRuns(f)) \/ (\E f \in Files : EndsFile(f))
           \/ (\E f \in Files : FileEnded(f)) \/ (\E f \in Files : ExpireFile(f))
  <2>1. Alive /\ UNCHANGED process
    BY <1>2 DEF Reserve, CommitFails, CommitStarts, Publish, AbortRuns, EndsFile, FileEnded,
         ExpireFile, Running, Runs, Alive, DownloadsInv, NothingIsLeft
  <2> QED BY <2>1 DEF NothingIsLeft, Alive
<1>3. CASE \/ (\E f \in Files : FileExpired(f)) \/ (\E f \in Files : FreeBytes(f))
           \/ (\E f \in Files : Acknowledged(f)) \/ (\E r \in Requests : Acquire(r))
           \/ (\E r \in Requests : Claim(r)) \/ (\E r \in Requests : Consume(r)) \/ SessionEnded
           \/ ExpireEnds
  <2>1. Alive /\ UNCHANGED process
    BY <1>3 DEF FileExpired, FreeBytes, Acknowledged, Acquire, Claim, Consume, SessionEnded,
         ExpireEnds, Running, Runs, Alive, DownloadsInv, NothingIsLeft
  <2> QED BY <2>1 DEF NothingIsLeft, Alive
<1>4. CASE \/ OperationFails \/ Upload \/ CleanUpSession \/ Expire \/ Acknowledge
           \/ (\E f \in Files : Commit(f)) \/ (\E f \in Files : Abort(f))
  <2>1. Alive /\ UNCHANGED process
    BY <1>4 DEF OperationFails, Upload, CleanUpSession, Expire, Acknowledge, Commit, Abort, Running,
         Runs, Alive, DownloadsInv, NothingIsLeft
  <2> QED BY <2>1 DEF NothingIsLeft, Alive
<1>5. CASE \/ (\E r \in Requests : StreamBreaks(r)) \/ (\E r \in Requests : Release(r))
           \/ (\E r \in Requests : Finish(r))
  <2>1. Alive /\ UNCHANGED process
    BY <1>5 DEF StreamBreaks, Release, Finish, Alive, DownloadsInv, NothingIsLeft
  <2> QED BY <2>1 DEF NothingIsLeft, Alive
<1>6. CASE \/ (\E r \in Requests : Prepare(r)) \/ (\E r \in Requests : TokenLost(r))
           \/ Reconcile \/ ReconcileLate
  <2>1. UNCHANGED <<process, files, allocated, reserved, queue, uploads>>
    BY <1>6 DEF Prepare, TokenLost, Reconcile, ReconcileLate, coreVars, storeVars, queueVars
  <2>2. \A q \in Requests : request'[q] \in {request[q], "IDLE", "TOKEN"}
    BY <1>6 DEF Prepare, TokenLost, Reconcile, ReconcileLate, WithoutClaims, DownloadsInv, TypeOK
  <2> QED BY <2>1, <2>2 DEF DownloadsInv, NothingIsLeft, Alive
<1>7. CASE Crash
  BY <1>7 DEF Crash, NothingIsLeft
<1>8. CASE Restart
  <2>1. process = "DOWN" /\ UNCHANGED <<reserved, uploads, request>>
    BY <1>8 DEF Restart
  <2>2. \/ process' = "STARTING"
        \/ UNCHANGED <<files, allocated, queue>>
    BY <1>8 DEF Restart, queueVars
  <2> QED BY <2>1, <2>2 DEF DownloadsInv, NothingIsLeft, Alive
<1>9. CASE Started
  BY <1>9 DEF Started, NothingIsLeft, Alive
<1>10. CASE Tick
  <2>1. UNCHANGED <<process, allocated, reserved, uploads, request>> /\ files' = Aged(files)
    BY <1>10 DEF Tick, coreVars
  <2>2. ~ Alive => files' = NoFile
    BY <2>1 DEF DownloadsInv, NothingIsLeft, Aged, NoFile
  <2>3. queue' = <<>> <=> queue = <<>>
    BY <1>10, AgedQueue DEF DownloadsInv
  <2> QED BY <2>1, <2>2, <2>3 DEF DownloadsInv, NothingIsLeft, Alive
<1>11. CASE \/ (\E f \in Files : Stage(f)) \/ (\E f \in Files : DeleteLeftOver(f))
            \/ (\E f \in Files : DeleteBytes(f)) \/ (\E f \in Files : AcknowledgeStarts(f))
            \/ (\E f \in Files : Unlink(f))
            \/ CloseCore \/ Report \/ Disconnect \/ Connect \/ LoseAccess
  <2>1. UNCHANGED <<process, files, allocated, reserved, queue, uploads, request>>
    BY <1>11 DEF Stage, DeleteLeftOver, DeleteBytes, AcknowledgeStarts, Unlink, CloseCore, Report, Disconnect,
       Connect, LoseAccess, storeVars, queueVars, coreVars, Goto
  <2> QED BY <1>1, <2>1
<1> QED BY <1>2, <1>3, <1>4, <1>5, <1>6, <1>7, <1>8, <1>9, <1>10, <1>11 DEF Next, RunQueue, Operation

-----------------------------------------------------------------------------
(* Bytes on disk and in the accounts.                                      *)

LEMMA Shrinks ==
  ASSUME DownloadsInv, DownloadsAssumption,
         NEW C \in SUBSET Counted, NEW D \in SUBSET data, NEW u \in 0 .. uploads
  PROVE  SizeSum(C) + u <= MaxBytes /\ SizeSum(D) <= MaxBytes
<1>1. /\ Counted \in SUBSET Files /\ data \in SUBSET Files
      /\ uploads \in Nat /\ u \in Nat /\ u <= uploads /\ MaxBytes \in Nat
  BY DEF DownloadsInv, TypeOK, Counted, DownloadsAssumption
<1>2. /\ SizeSum(C) <= SizeSum(Counted) /\ SizeSum(C) \in Nat /\ SizeSum(Counted) \in Nat
      /\ SizeSum(D) <= SizeSum(data) /\ SizeSum(D) \in Nat /\ SizeSum(data) \in Nat
  BY <1>1, SizeGrows
<1>3. SizeSum(Counted) + uploads <= MaxBytes /\ SizeSum(data) <= MaxBytes
  BY DEF DownloadsInv, BytesAgree
<1> QED BY <1>1, <1>2, <1>3

\* Nothing is reserved that does not fit, and what is on disk has been reserved.
LEMMA SumsStep ==
  ASSUME DownloadsInv, DownloadsAssumption, RecordAssumption, Next
  PROVE  SizeSum(allocated' \union reserved') + uploads' <= MaxBytes /\ SizeSum(data') <= MaxBytes
<1>1. UNCHANGED <<allocated, reserved, uploads, data>> =>
      SizeSum(allocated' \union reserved') + uploads' <= MaxBytes /\ SizeSum(data') <= MaxBytes
  BY DEF DownloadsInv, BytesAgree, Counted
<1>2. CASE \E f \in Files : Reserve(f)
  <2>1. PICK f \in Files : Reserve(f)
    BY <1>2
  <2>2. /\ SizeSum(Counted) + SizeOf[f] + uploads <= MaxBytes
        /\ allocated' \union reserved' = Counted \union {f} /\ UNCHANGED <<uploads, data>>
    BY <2>1 DEF Reserve, Counted
  <2>3. Counted \in SUBSET Files /\ uploads \in Nat /\ MaxBytes \in Nat /\ SizeOf[f] \in Nat
    BY DEF DownloadsInv, TypeOK, Counted, DownloadsAssumption
  <2>4. SizeSum(Counted \union {f}) <= SizeSum(Counted) + SizeOf[f] /\ SizeSum(Counted \union {f}) \in Nat
    BY <2>3, SizeAdds
  <2>5. SizeSum(Counted) \in Nat /\ SizeSum(data) <= MaxBytes
    BY <2>3, SizeIsFinite DEF DownloadsInv, BytesAgree
  <2>6. SizeSum(Counted \union {f}) + uploads <= MaxBytes
    BY <2>2, <2>3, <2>4, <2>5
  <2> QED BY <2>2, <2>5, <2>6
<1>3. CASE Upload
  <2>1. /\ SizeSum(Counted) + uploads + 1 <= MaxBytes /\ uploads' = uploads + 1
        /\ allocated' \union reserved' = Counted /\ UNCHANGED data
    BY <1>3 DEF Upload, Counted, storeVars, diskVars
  <2>2. Counted \in SUBSET Files /\ uploads \in Nat /\ MaxBytes \in Nat
    BY DEF DownloadsInv, TypeOK, Counted, DownloadsAssumption
  <2>3. SizeSum(Counted) \in Nat /\ SizeSum(data) <= MaxBytes
    BY <2>2, SizeIsFinite DEF DownloadsInv, BytesAgree
  <2>4. SizeSum(Counted) + (uploads + 1) <= MaxBytes
    BY <2>1, <2>2, <2>3
  <2> QED BY <2>1, <2>3, <2>4
<1>4. CASE \E f \in Files : Publish(f)
  <2>1. PICK f \in Files : Publish(f)
    BY <1>4
  <2>2. /\ queue # <<>> /\ Head(queue) = [kind |-> "commit", file |-> f] /\ step = "PUBLISH"
        /\ allocated' = allocated \union {f} /\ reserved' = reserved \ {f} /\ data' = data \union {f}
        /\ uploads' = uploads
    BY <2>1 DEF Publish, Running
  <2>3. f \in reserved
    BY <2>2 DEF DownloadsInv, StepAgrees
  <2>4. data \subseteq allocated
    BY <2>2 DEF DownloadsInv, NothingIsLeft, BytesAgree, OnDisk, TypeOK
  <2>5. allocated' \union reserved' \subseteq Counted /\ data' \subseteq Counted
    BY <2>2, <2>3, <2>4 DEF Counted
  <2>6. uploads \in 0 .. uploads
    BY DEF DownloadsInv, TypeOK
  <2>7. SizeSum(allocated' \union reserved') + uploads <= MaxBytes /\ SizeSum(data') + uploads <= MaxBytes
    BY <2>5, <2>6, Shrinks
  <2>8. data' \in SUBSET Files /\ uploads \in Nat /\ MaxBytes \in Nat
    BY <2>5, SetsType DEF DownloadsInv, TypeOK, DownloadsAssumption
  <2>9. SizeSum(data') \in Nat
    BY <2>8, SizeIsFinite
  <2>10. SizeSum(data') <= MaxBytes
    BY <2>7, <2>8, <2>9
  <2> QED BY <2>2, <2>7, <2>10
<1>5. CASE \/ (\E f \in Files : AbortRuns(f)) \/ (\E f \in Files : FreeBytes(f))
           \/ (\E f \in Files : Acknowledged(f)) \/ (\E f \in Files : DeleteBytes(f))
           \/ (\E f \in Files : AcknowledgeStarts(f)) \/ (\E f \in Files : Unlink(f)) \/ SessionEnded \/ Crash
  <2>1. /\ allocated' \subseteq allocated /\ reserved' \subseteq reserved /\ data' \subseteq data
        /\ uploads' \in {uploads, 0}
    BY <1>5 DEF AbortRuns, FreeBytes, Acknowledged, DeleteBytes, AcknowledgeStarts, Unlink, SessionEnded, Crash,
              coreVars, storeVars, diskVars
  <2>2. allocated' \union reserved' \subseteq Counted
    BY <2>1 DEF Counted
  <2>3. uploads' \in 0 .. uploads
    BY <2>1 DEF DownloadsInv, TypeOK
  <2> QED BY <2>1, <2>2, <2>3, Shrinks
<1>6. CASE Restart
  <2>1. CASE UNCHANGED <<allocated, data>>
    BY <1>1, <1>6, <2>1 DEF Restart
  <2>2. CASE ~ UNCHANGED <<allocated, data>>
    <3>1. /\ process = "DOWN" /\ Unexplained = {} /\ UNCHANGED <<reserved, uploads>>
          /\ allocated' = {f \in directory : manifest[f].status = "AVAILABLE"} /\ data' = allocated'
      BY <1>6, <2>2 DEF Restart, diskVars
    <3>2. reserved = {} /\ uploads = 0
      BY <3>1 DEF DownloadsInv, NothingIsLeft, Alive
    <3>3. data' \subseteq data
      BY <3>1 DEF Unexplained
    <3>4. SizeSum(data') <= MaxBytes /\ data' \in SUBSET Files
      <4>1. {} \in SUBSET Counted /\ 0 \in 0 .. uploads
        BY DEF DownloadsInv, TypeOK
      <4> QED BY <3>3, <4>1, Shrinks, SetsType
    <3>5. allocated' \union reserved' = data'
      BY <3>1, <3>2
    <3>6. SizeSum(data') \in Nat
      BY <3>4, SizeIsFinite
    <3>7. SizeSum(data') + 0 <= MaxBytes
      BY <3>4, <3>6
    <3> QED BY <3>1, <3>2, <3>4, <3>5, <3>7
  <2> QED BY <2>1, <2>2
<1>7. CASE \/ (\E f \in Files : Commit(f)) \/ (\E f \in Files : Abort(f))
           \/ (\E f \in Files : CommitFails(f)) \/ (\E f \in Files : CommitStarts(f))
           \/ (\E f \in Files : Stage(f)) \/ (\E f \in Files : EndsFile(f))
           \/ (\E f \in Files : FileEnded(f)) \/ (\E f \in Files : ExpireFile(f))
           \/ (\E f \in Files : FileExpired(f))
  <2>1. UNCHANGED <<allocated, reserved, uploads, data>>
    BY <1>7 DEF Commit, Abort, CommitFails, CommitStarts, Stage, EndsFile, FileEnded, ExpireFile,
       FileExpired, storeVars, diskVars, coreVars
  <2> QED BY <1>1, <2>1
<1>8. CASE \/ (\E f \in Files : DeleteLeftOver(f)) \/ (\E r \in Requests : Acquire(r))
           \/ (\E r \in Requests : Claim(r)) \/ (\E r \in Requests : Prepare(r))
           \/ (\E r \in Requests : Consume(r)) \/ (\E r \in Requests : TokenLost(r))
           \/ (\E r \in Requests : StreamBreaks(r)) \/ (\E r \in Requests : Release(r))
           \/ (\E r \in Requests : Finish(r))
  <2>1. UNCHANGED <<allocated, reserved, uploads, data>>
    BY <1>8 DEF DeleteLeftOver, Acquire, Claim, Prepare, Consume, TokenLost, StreamBreaks, Release,
       Finish, storeVars, diskVars, coreVars
  <2> QED BY <1>1, <2>1
<1>9. CASE \/ ExpireEnds \/ OperationFails \/ CloseCore \/ CleanUpSession \/ Expire \/ Report
           \/ Reconcile \/ ReconcileLate \/ Acknowledge
  <2>1. UNCHANGED <<allocated, reserved, uploads, data>>
    BY <1>9 DEF ExpireEnds, OperationFails, CloseCore, CleanUpSession, Expire, Report, Reconcile,
       ReconcileLate, Acknowledge, storeVars, diskVars, coreVars
  <2> QED BY <1>1, <2>1
<1>10. CASE Disconnect \/ Connect \/ LoseAccess \/ Started \/ Tick
  <2>1. UNCHANGED <<allocated, reserved, uploads, data>>
    BY <1>10 DEF Disconnect, Connect, LoseAccess, Started, Tick, storeVars, diskVars, coreVars
  <2> QED BY <1>1, <2>1
<1> QED BY <1>2, <1>3, <1>4, <1>5, <1>6, <1>7, <1>8, <1>9, <1>10 DEF Next, RunQueue, Operation

\* An operation runs: the process is there, and nothing is staged but what is being published.
LEMMA Runs1 ==
  ASSUME DownloadsInv, queue # <<>>, step # "PUBLISH"
  PROVE  Alive /\ \A f \in Files : f \notin staging
BY DEF DownloadsInv, NothingIsLeft, BytesAgree, OnDisk

\* What is on disk is accounted for, and a complete manifest has its bytes.
LEMMA DiskStep ==
  ASSUME DownloadsInv, DownloadsAssumption, RecordAssumption, Next
  PROVE  \A f \in Files : OnDisk(f)'
<1>0. \A f \in Files : OnDisk(f)
  BY DEF DownloadsInv, BytesAgree
<1>1. UNCHANGED <<process, files, manifest, directory, data, spool, staging, reserved, allocated, transfer, step, current>> =>
      \A f \in Files : OnDisk(f)'
  BY <1>0 DEF OnDisk, Known, Alive
<1>2. CASE \/ (\E f \in Files : Reserve(f)) \/ (\E f \in Files : Commit(f))
           \/ (\E f \in Files : Abort(f))
  <2>1. PICK f \in Files : Reserve(f) \/ Commit(f) \/ Abort(f)
    BY <1>2
  <2>2. /\ UNCHANGED <<process, files, manifest, directory, data, staging, allocated, step, current>>
        /\ \/ transfer' = [transfer EXCEPT ![f] = "WRITING"] /\ spool' = spool \union {f}
              /\ reserved' = reserved \union {f}
           \/ transfer' = [transfer EXCEPT ![f] = "COMMITTING"] /\ UNCHANGED <<spool, reserved>>
           \/ transfer' = [transfer EXCEPT ![f] = "ABORTING"] /\ spool' = spool \ {f} /\ UNCHANGED reserved
    BY <2>1 DEF Reserve, Commit, Abort, Call, storeVars, queueVars, diskVars
  <2>3. /\ transfer'[f] \in {"WRITING", "COMMITTING"} \/ f \notin spool'
        /\ \A g \in Files \ {f} : transfer'[g] = transfer[g]
    BY <2>2 DEF DownloadsInv, TypeOK
  <2>4. /\ spool' \subseteq spool \union {f} /\ f \in spool' => f \in spool \/ f \in reserved'
        /\ reserved \subseteq reserved'
    BY <2>2
  <2> QED BY <1>0, <2>2, <2>3, <2>4 DEF OnDisk, Known, Alive
<1>3. CASE \/ (\E f \in Files : CommitStarts(f)) \/ (\E f \in Files : ExpireFile(f))
           \/ (\E f \in Files : DeleteLeftOver(f)) \/ (\E r \in Requests : Acquire(r))
           \/ (\E f \in Files : AcknowledgeStarts(f))
           \/ SessionEnded \/ ExpireEnds \/ OperationFails
  <2>1. queue # <<>> /\ step # "PUBLISH"
    BY <1>3 DEF CommitStarts, ExpireFile, DeleteLeftOver, Acquire, AcknowledgeStarts, SessionEnded,
              ExpireEnds, OperationFails, Running, Runs
  <2>2. /\ UNCHANGED <<process, files, manifest, directory, data, spool, staging, reserved, allocated>>
        /\ \A f \in Files : transfer'[f] \in {transfer[f], "FAILED"}
    BY <1>3 DEF CommitStarts, ExpireFile, DeleteLeftOver, Acquire, AcknowledgeStarts, SessionEnded,
              ExpireEnds, OperationFails, coreVars, storeVars, diskVars, DownloadsInv, TypeOK
  <2>3. Alive /\ \A f \in Files : f \notin staging
    BY <2>1, Runs1
  <2> QED BY <1>0, <2>2, <2>3 DEF OnDisk, Known, Alive
<1>4. CASE \E f \in Files : EndsFile(f)
  <2>1. PICK f \in Files : EndsFile(f)
    BY <1>4
  <2>2. /\ UNCHANGED <<process, manifest, directory, data, spool, staging, reserved, allocated, transfer>>
        /\ queue # <<>> /\ step # "PUBLISH" /\ Known(f)
        /\ \E file : files' = [files EXCEPT ![f] = file]
    BY <2>1 DEF EndsFile, ToEnd, Runs, coreVars, diskVars
  <2>3. Alive /\ \A g \in Files : g \notin staging
    BY <2>2, Runs1
  <2>4. \A g \in Files : files'[g] # NoRecord => Known(g)
    BY <2>2 DEF Known, DownloadsInv, TypeOK, Reports
  <2> QED BY <1>0, <2>2, <2>3, <2>4 DEF OnDisk, Known, Alive
<1>5. CASE \/ (\E f \in Files : FileEnded(f)) \/ (\E f \in Files : FileExpired(f))
           \/ (\E r \in Requests : Claim(r))
  <2>1. /\ UNCHANGED <<process, directory, data, spool, staging, reserved, allocated, transfer>>
        /\ queue # <<>> /\ step # "PUBLISH"
    BY <1>5 DEF FileEnded, FileExpired, Claim, Running, Runs, coreVars
  <2>2. Alive /\ \A g \in Files : g \notin staging
    BY <2>1, Runs1
  <2>3. \E f, file : /\ f \in Files
                     /\ Known(f) /\ Persist(f, file)
                     /\ file.status = "AVAILABLE" => files[f].status = "AVAILABLE"
    <3>1. CASE \E f \in Files : FileEnded(f)
      BY <3>1 DEF FileEnded, Runs, DownloadsInv, StepAgrees
    <3>2. CASE (\E f \in Files : FileExpired(f)) \/ (\E r \in Requests : Claim(r))
      <4>1. PICK f \in Files, end \in {"EXPIRED", "CLAIMED"} :
              Available(f) /\ Persist(f, [files[f] EXCEPT !.status = end])
        BY <3>2, ExpiresOrClaims
      <4> QED BY <4>1 DEF Available
    <3> QED BY <1>5, <3>1, <3>2
  <2>4. PICK f, file : /\ f \in Files
                       /\ Known(f) /\ Persist(f, file)
                       /\ file.status = "AVAILABLE" => files[f].status = "AVAILABLE"
    BY <2>3
  <2>5. \A g \in Files \ {f} : files'[g] = files[g] /\ manifest'[g] = manifest[g]
    BY <2>4 DEF Persist, DownloadsInv, TypeOK, Reports
  <2>6. manifest'[f] = file
    BY <2>4 DEF Persist, DownloadsInv, TypeOK, Reports
  <2>7. file.status = "AVAILABLE" => f \in data
    <3>1. OneEnd(f)
      BY <2>4 DEF DownloadsInv, StatusesAgree
    <3> QED BY <1>0, <2>4, <3>1 DEF OneEnd, OnDisk, Known, End, Ended
  <2>8. f \in directory
    BY <1>0, <2>4 DEF OnDisk
  <2>9. OnDisk(f)'
    BY <1>0, <2>1, <2>2, <2>4, <2>6, <2>7, <2>8 DEF OnDisk, Alive
  <2>10. ASSUME NEW g \in Files \ {f} PROVE OnDisk(g)'
    BY <1>0, <2>1, <2>2, <2>5 DEF OnDisk, Known, Alive
  <2> QED BY <2>9, <2>10
<1>6. CASE \E f \in Files : Unlink(f)
  <2>1. PICK f \in Files : Unlink(f)
    BY <1>6
  <2>2. /\ UNCHANGED <<process, files, directory, spool, staging, reserved, allocated, transfer>>
        /\ queue # <<>> /\ step # "PUBLISH" /\ Head(queue) = [kind |-> "acknowledge", file |-> f]
        /\ \/ manifest' = [manifest EXCEPT ![f] = NoRecord] /\ UNCHANGED data
           \/ data' = data \ {f} /\ UNCHANGED manifest
    BY <2>1 DEF Unlink, Running, coreVars, storeVars
  <2>3. Alive /\ \A g \in Files : g \notin staging
    BY <2>2, Runs1
  <2>4. manifest[f] # NoRecord => manifest[f].status # "AVAILABLE"
    <3>1. Ended(row[f]) /\ OneEnd(f)
      BY <2>2, HeadWaits DEF Waits, DownloadsInv, StatusesAgree
    <3> QED BY <3>1 DEF OneEnd, End, Ended
  <2> QED BY <1>0, <2>2, <2>3, <2>4 DEF OnDisk, Known, Alive, DownloadsInv, TypeOK, Reports
<1>7. CASE \E f \in Files : Acknowledged(f)
  <2>1. PICK f \in Files : Acknowledged(f)
    BY <1>7
  <2>2. /\ UNCHANGED <<process, manifest, data, spool, staging, reserved, transfer>>
        /\ queue # <<>> /\ step = "REMOVE" /\ manifest[f] = NoRecord /\ f \notin data
        /\ files' = [files EXCEPT ![f] = NoRecord]
        /\ directory' = directory \ {f} /\ allocated' = allocated \ {f}
    BY <2>1 DEF Acknowledged, Running, coreVars, storeVars
  <2>3. Alive /\ \A g \in Files : g \notin staging
    BY <2>2, Runs1
  <2> QED BY <1>0, <2>2, <2>3 DEF OnDisk, Known, Alive, DownloadsInv, TypeOK, Reports
<1>8. CASE (\E f \in Files : DeleteBytes(f)) \/ (\E f \in Files : FreeBytes(f))
  <2>1. /\ UNCHANGED <<process, files, manifest, directory, spool, staging, reserved, transfer>>
        /\ queue # <<>> /\ step \in {"DELETE", "FREE"}
        /\ \/ step = "DELETE" /\ data' = data \ {current} /\ UNCHANGED allocated
           \/ step = "FREE" /\ allocated' = allocated \ {current} /\ UNCHANGED data
    BY <1>8 DEF DeleteBytes, FreeBytes, coreVars, storeVars, diskVars
  <2>2. /\ current \in Files /\ Known(current) /\ ~ Available(current)
        /\ step = "FREE" => current \notin data
    BY <2>1 DEF DownloadsInv, StepAgrees
  <2>3. Alive /\ \A g \in Files : g \notin staging
    BY <2>1, Runs1
  <2>4. manifest[current] # NoRecord => manifest[current].status # "AVAILABLE"
    <3>1. OneEnd(current)
      BY <2>2 DEF DownloadsInv, StatusesAgree
    <3> QED BY <2>2, <3>1 DEF OneEnd, End, Available
  <2> QED BY <1>0, <2>1, <2>2, <2>3, <2>4 DEF OnDisk, Known, Alive
<1>9. CASE \E f \in Files : AbortRuns(f)
  <2>1. PICK f \in Files : AbortRuns(f)
    BY <1>9
  <2>2. /\ UNCHANGED <<process, files, manifest, directory, data, spool, staging, allocated>>
        /\ queue # <<>> /\ step # "PUBLISH" /\ Head(queue) = [kind |-> "abort", file |-> f]
        /\ reserved' = reserved \ {f} /\ transfer' = [transfer EXCEPT ![f] = "NONE"]
    BY <2>1 DEF AbortRuns, Running, diskVars
  <2>3. transfer[f] = "ABORTING"
    BY <2>2, HeadWaits DEF Waits
  <2>4. Alive /\ \A g \in Files : g \notin staging
    BY <2>2, Runs1
  <2> QED BY <1>0, <2>2, <2>3, <2>4 DEF OnDisk, Known, Alive, DownloadsInv, TypeOK
<1>10. CASE \E f \in Files : Stage(f)
  <2>1. PICK f \in Files : Stage(f)
    BY <1>10
  <2>2. /\ UNCHANGED <<process, files, manifest, directory, data, reserved, allocated, transfer>>
        /\ queue # <<>> /\ step # "PUBLISH"
        /\ spool' = spool \ {f} /\ staging' = staging \union {f} /\ step' = "PUBLISH" /\ current' = f
    BY <2>1 DEF Stage, Running, Goto, coreVars, storeVars
  <2>3. Alive /\ \A g \in Files : g \notin staging
    BY <2>2, Runs1
  <2> QED BY <1>0, <2>2, <2>3 DEF OnDisk, Known, Alive
<1>11. CASE \E f \in Files : CommitFails(f)
  <2>1. PICK f \in Files : CommitFails(f)
    BY <1>11
  <2>2. /\ UNCHANGED <<process, files, manifest, directory, data, spool, reserved, allocated>>
        /\ queue # <<>> /\ step \in {"STAGE", "PUBLISH"} /\ Head(queue) = [kind |-> "commit", file |-> f]
        /\ staging' = staging \ {f} /\ transfer' = [transfer EXCEPT ![f] = "FAILED"]
    BY <2>1 DEF CommitFails, Running, storeVars
  <2>3. current = f
    BY <2>2 DEF DownloadsInv, StepAgrees
  <2>4. Alive /\ \A g \in Files : g \notin staging'
    BY <1>0, <2>2, <2>3 DEF OnDisk, DownloadsInv, NothingIsLeft
  <2> QED BY <1>0, <2>2, <2>4 DEF OnDisk, Known, Alive, DownloadsInv, TypeOK
<1>12. CASE \E f \in Files : Publish(f)
  <2>1. PICK f, file :
          /\ f \in Files
          /\ UNCHANGED <<process, spool>>
          /\ queue # <<>> /\ step = "PUBLISH" /\ Head(queue) = [kind |-> "commit", file |-> f]
          /\ staging' = staging \ {f} /\ transfer' = [transfer EXCEPT ![f] = "DONE"]
          /\ directory' = directory \union {f} /\ data' = data \union {f}
          /\ manifest' = [manifest EXCEPT ![f] = file] /\ files' = [files EXCEPT ![f] = file]
          /\ allocated' = allocated \union {f} /\ reserved' = reserved \ {f}
    BY <1>12 DEF Publish, Running
  <2>2. current = f /\ f \notin spool
    BY <2>1 DEF DownloadsInv, StepAgrees
  <2>3. Alive /\ \A g \in Files : g \notin staging'
    BY <1>0, <2>1, <2>2 DEF OnDisk, DownloadsInv, NothingIsLeft
  <2>4. OnDisk(f)'
    BY <2>1, <2>2, <2>3 DEF OnDisk
  <2>5. \A g \in Files \ {f} : /\ manifest'[g] = manifest[g] /\ files'[g] = files[g]
                               /\ transfer'[g] = transfer[g]
    BY <2>1 DEF DownloadsInv, TypeOK, Reports
  <2>6. ASSUME NEW g \in Files \ {f} PROVE OnDisk(g)'
    BY <1>0, <2>1, <2>3, <2>5 DEF OnDisk, Known, Alive
  <2> QED BY <2>4, <2>6
<1>13. CASE Crash
  <2>1. process' = "DOWN" /\ files' = NoFile /\ UNCHANGED <<manifest, directory, data>>
    BY <1>13 DEF Crash, diskVars
  <2>2. \A f \in Files : files'[f] = NoRecord
    BY <2>1 DEF NoFile
  <2> QED BY <1>0, <2>1, <2>2 DEF OnDisk, Known, Alive
<1>14. CASE Restart
  <2>1. CASE Unexplained # {}
    <3>1. process' = "BROKEN" /\ process = "DOWN" /\ UNCHANGED <<files, manifest, directory, data>>
      BY <1>14, <2>1 DEF Restart, diskVars
    <3> QED BY <1>0, <3>1 DEF OnDisk, Known, Alive
  <2>2. CASE Unexplained = {}
    <3>1. /\ process = "DOWN" /\ UNCHANGED <<manifest, directory>> /\ files' = manifest
          /\ allocated' = {f \in directory : manifest[f].status = "AVAILABLE"} /\ data' = allocated'
          /\ staging' = {} /\ spool' = {}
      BY <1>14, <2>2 DEF Restart
    <3> QED BY <1>0, <3>1 DEF OnDisk, Known
  <2> QED BY <2>1, <2>2
<1>15. CASE Started
  <2>1. Alive /\ UNCHANGED <<files, manifest, directory, data, spool, staging, reserved, allocated, transfer, step, current>>
    BY <1>15 DEF Started, Alive, coreVars, storeVars, queueVars, diskVars
  <2> QED BY <1>0, <2>1 DEF OnDisk, Known
<1>16. CASE Tick
  <2>1. /\ UNCHANGED <<process, directory, data, spool, staging, reserved, allocated, transfer, step, current>>
        /\ files' = Aged(files) /\ manifest' = Aged(manifest)
    BY <1>16 DEF Tick, coreVars
  <2>2. \A f \in Files : /\ files'[f] = NoRecord <=> files[f] = NoRecord
                         /\ manifest'[f] = NoRecord <=> manifest[f] = NoRecord
                         /\ manifest[f] # NoRecord => manifest'[f].status = manifest[f].status
    BY <2>1, AgedFacts DEF DownloadsInv, TypeOK
  <2> QED BY <1>0, <2>1, <2>2 DEF OnDisk, Known, Alive
<1>17. CASE \/ (\E r \in Requests : Prepare(r)) \/ (\E r \in Requests : Consume(r))
            \/ (\E r \in Requests : TokenLost(r)) \/ (\E r \in Requests : StreamBreaks(r))
            \/ (\E r \in Requests : Release(r)) \/ (\E r \in Requests : Finish(r)) \/ Upload
            \/ CloseCore \/ CleanUpSession
  <2>1. UNCHANGED <<process, files, manifest, directory, data, spool, staging, reserved, allocated, transfer, step, current>>
    BY <1>17 DEF Prepare, Consume, TokenLost, StreamBreaks, Release, Finish, Upload, CloseCore,
       CleanUpSession, storeVars, queueVars, diskVars, coreVars, Call
  <2> QED BY <1>1, <2>1
<1>18. CASE \/ Expire \/ Report \/ Reconcile \/ ReconcileLate \/ Acknowledge \/ Disconnect
            \/ Connect \/ LoseAccess
  <2>1. UNCHANGED <<process, files, manifest, directory, data, spool, staging, reserved, allocated, transfer, step, current>>
    BY <1>18 DEF Expire, Report, Reconcile, ReconcileLate, Acknowledge, Disconnect, Connect,
       LoseAccess, storeVars, queueVars, diskVars, coreVars, Call
  <2> QED BY <1>1, <2>1
<1> QED BY <1>2, <1>3, <1>4, <1>5, <1>6, <1>7, <1>8, <1>9, <1>10, <1>11, <1>12, <1>13, <1>14,
       <1>15, <1>16, <1>17, <1>18 DEF Next, RunQueue, Operation

-----------------------------------------------------------------------------
(* What the first operation of the queue has done, and who holds a lease.  *)

LEMMA CallHead ==
  ASSUME DownloadsInv, NEW operation
  PROVE  /\ Append(queue, operation) # <<>>
         /\ queue # <<>> => Head(Append(queue, operation)) = Head(queue)
<1> DEFINE S == Operations \union {operation}
<1>1. queue \in Seq(Operations)
  BY DEF DownloadsInv, TypeOK
<1>2. queue \in Seq(S) /\ operation \in S
  BY <1>1, SeqMonotonic
<1> HIDE DEF S
<1>3. Append(queue, operation) # <<>> /\ (queue # <<>> => Head(Append(queue, operation)) = Head(queue))
  <2>1. Append(queue, operation) \in Seq(S) /\ Len(Append(queue, operation)) = Len(queue) + 1
    BY <1>2, AppendProperties
  <2>2. Len(queue) \in Nat /\ (queue # <<>> => Len(queue) # 0)
    BY <1>2, LenProperties, EmptySeq
  <2>3. Append(queue, operation) # <<>>
    BY <1>2, AppendProperties
  <2>4. ASSUME queue # <<>> PROVE Head(Append(queue, operation)) = Head(queue)
    <3>1. 1 \in 1 .. Len(queue)
      BY <2>2, <2>4
    <3>2. Append(queue, operation)[1] = queue[1]
      BY <1>2, <3>1, AppendProperties
    <3> QED BY <1>2, <2>1, <2>3, <2>4, <3>2, HeadTailProperties
  <2> QED BY <2>3, <2>4
<1> QED BY <1>3

\* The first operation stays where it is while others wait and requests come and go.
LEMMA StepStays ==
  ASSUME DownloadsInv, UNCHANGED <<step, current>>,
         queue # <<>> => /\ queue' # <<>> /\ Head(queue').kind = Head(queue).kind
                         /\ Head(queue).kind # "end" => Head(queue') = Head(queue),
         reserved \subseteq reserved', data' \subseteq data,
         \A f \in Files : /\ transfer[f] = "COMMITTING" /\ f \in spool' => f \in spool
                          /\ files'[f] = NoRecord <=> files[f] = NoRecord
                          /\ files[f] # NoRecord => files'[f].status = files[f].status,
         \A r \in Requests : request'[r] \in {"STREAMING", "SENT"} => request[r] \in {"STREAMING", "SENT"}
  PROVE  StepAgrees'
<1>1. CASE queue = <<>>
  BY <1>1 DEF DownloadsInv, StepAgrees
<1>2. CASE queue # <<>>
  <2>1. StepAgrees
    BY DEF DownloadsInv
  <2>2. step \in {"STAGE", "PUBLISH"} => transfer[current] = "COMMITTING"
    BY <1>2, <2>1, HeadWaits DEF StepAgrees, Waits
  <2>3. \A f \in Files : (Known(f)' <=> Known(f)) /\ (Available(f)' <=> Available(f))
    BY DEF Known, Available
  <2>4. ASSUME NEW f \in Files, \A r \in Holders(f) : request[r] = "ABORTED"
        PROVE  \A r \in Holders(f)' : request'[r] = "ABORTED"
    BY <2>4 DEF Holders
  <2>5. step' \in {"STAGE", "PUBLISH"} =>
          /\ current' \in Files /\ Head(queue') = [kind |-> "commit", file |-> current']
          /\ current' \in reserved' /\ (step' = "PUBLISH" => current' \notin spool')
    BY <1>2, <2>1, <2>2 DEF StepAgrees
  <2>6. step' = "PERSIST" =>
          /\ Head(queue').kind \in {"end", "expire"} /\ current' \in Files /\ Known(current)'
          /\ Head(queue').kind = "expire" =>
               Available(current)' /\ \A r \in Holders(current)' : request'[r] = "ABORTED"
    BY <1>2, <2>1, <2>3, <2>4 DEF StepAgrees, Known, Available, Holders
  <2>7. step' \in {"DELETE", "FREE"} =>
          /\ Head(queue').kind \in {"expire", "finish"} /\ current' \in Files
          /\ Known(current)' /\ ~ Available(current)'
          /\ Head(queue').kind = "finish" =>
               current' = TargetOf[Head(queue').request] /\ files'[current'].status = "CLAIMED"
          /\ step' = "FREE" => current' \notin data'
    BY <1>2, <2>1 DEF StepAgrees, Known, Available
  <2>8. step' = "REMOVE" =>
          current' \in Files /\ Head(queue') = [kind |-> "acknowledge", file |-> current']
    BY <1>2, <2>1 DEF StepAgrees
  <2>9. queue' # <<>>
    BY <1>2
  <2> QED BY <2>5, <2>6, <2>7, <2>8, <2>9 DEF StepAgrees
<1> QED BY <1>1, <1>2

\* Operations take their steps in order, each on what the one before has left.
LEMMA StepAgreesStep ==
  ASSUME DownloadsInv, DownloadsAssumption, RecordAssumption, Next
  PROVE  StepAgrees'
<1>1. UNCHANGED <<queue, step, current, reserved, spool, files, request, data>> =>
      StepAgrees'
  BY DEF DownloadsInv, StepAgrees, Known, Available, Holders
<1>2. CASE \/ (\E f \in Files : Publish(f)) \/ (\E f \in Files : CommitFails(f))
           \/ (\E f \in Files : AbortRuns(f)) \/ (\E f \in Files : FileEnded(f))
           \/ (\E f \in Files : Acknowledged(f))
  <2>1. step' = "START"
    BY <1>2 DEF Publish, CommitFails, AbortRuns, FileEnded, Acknowledged, Finished, Goto
  <2> QED BY <2>1 DEF StepAgrees
<1>3. CASE \/ (\E f \in Files : FreeBytes(f)) \/ (\E r \in Requests : Acquire(r))
           \/ SessionEnded \/ ExpireEnds \/ OperationFails \/ Crash
  <2>1. step' = "START"
    BY <1>3 DEF FreeBytes, Acquire, SessionEnded, ExpireEnds, OperationFails, Crash, Finished, Goto
  <2> QED BY <2>1 DEF StepAgrees
<1>4. CASE \E f \in Files : CommitStarts(f)
  <2>1. PICK f \in Files : CommitStarts(f)
    BY <1>4
  <2>2. CASE step' = "START"
    BY <2>2 DEF StepAgrees
  <2>3. CASE step' # "START"
    <3>1. /\ queue # <<>> /\ Head(queue) = [kind |-> "commit", file |-> f] /\ queue' = queue
          /\ step' = "STAGE" /\ current' = f /\ f \in reserved /\ UNCHANGED reserved
      BY <2>1, <2>3 DEF CommitStarts, Running, Goto, Finished, storeVars
    <3> QED BY <3>1 DEF StepAgrees
  <2> QED BY <2>2, <2>3
<1>5. CASE \E f \in Files : Stage(f)
  <2>1. PICK f \in Files : Stage(f)
    BY <1>5
  <2>2. /\ queue # <<>> /\ Head(queue) = [kind |-> "commit", file |-> f] /\ queue' = queue
        /\ step = "STAGE" /\ step' = "PUBLISH" /\ current' = f /\ spool' = spool \ {f} /\ UNCHANGED reserved
    BY <2>1 DEF Stage, Running, Goto, storeVars
  <2>3. f \in reserved
    BY <2>2 DEF DownloadsInv, StepAgrees
  <2> QED BY <2>2, <2>3 DEF StepAgrees
<1>6. CASE \E f \in Files : EndsFile(f)
  <2>1. PICK f \in Files : EndsFile(f)
    BY <1>6
  <2>2. /\ files[f] # NoRecord /\ files' = [files EXCEPT ![f] = Tightened(files[f], Head(queue).left)]
        /\ queue # <<>> /\ Head(queue).kind = "end" /\ queue' = queue /\ step' = "PERSIST" /\ current' = f
    BY <2>1 DEF EndsFile, ToEnd, Known, Runs, Goto
  <2>3. files[f] \in Records /\ Head(queue).left \in 0 .. AfterSession
    BY <2>2, HeadFacts, OperationFacts DEF DownloadsInv, TypeOK, Reports
  <2>4. files'[f] # NoRecord
    <3>1. Tightened(files[f], Head(queue).left) \in Records
      BY <2>3, TightenedFacts
    <3>2. files'[f] = Tightened(files[f], Head(queue).left)
      BY <2>2 DEF DownloadsInv, TypeOK, Reports
    <3> QED BY <3>1, <3>2 DEF RecordAssumption
  <2> QED BY <2>2, <2>4 DEF StepAgrees, Known
<1>7. CASE \E f \in Files : ExpireFile(f)
  <2>1. PICK f \in Files : ExpireFile(f)
    BY <1>7
  <2>2. /\ queue # <<>> /\ Head(queue).kind = "expire" /\ queue' = queue /\ step' = "PERSIST" /\ current' = f
        /\ UNCHANGED files /\ Available(f) /\ ~ Finishing(f)
        /\ \A r \in Requests : request'[r] = IF TargetOf[r] = f /\ request[r] = "STREAMING"
                                             THEN "ABORTED" ELSE request[r]
    BY <2>1 DEF ExpireFile, Runs, Goto, ToExpire, storeVars
  <2>3. \A r \in Holders(f)' : request'[r] = "ABORTED"
    BY <2>2 DEF Finishing, Holders
  <2>4. Available(f)' /\ Known(f)'
    BY <2>2 DEF Available, Known
  <2> QED BY <2>2, <2>3, <2>4 DEF StepAgrees, Holders, Available, Known
<1>8. CASE \E f \in Files : FileExpired(f)
  <2>1. PICK f \in Files : FileExpired(f)
    BY <1>8
  <2>2. /\ queue # <<>> /\ Head(queue).kind = "expire" /\ queue' = queue /\ step' = "DELETE" /\ current' = f
        /\ step = "PERSIST" /\ current = f /\ files' = [files EXCEPT ![f] = [files[f] EXCEPT !.status = "EXPIRED"]]
    BY <2>1 DEF FileExpired, Runs, Goto, Persist
  <2>3. Available(f)
    BY <2>2 DEF DownloadsInv, StepAgrees
  <2>4. files'[f] \in Records /\ files'[f].status = "EXPIRED"
    <3>1. files \in [Files -> Records \union {NoRecord}] /\ files[f] \in Records
      BY <2>3 DEF Available, Known, DownloadsInv, TypeOK, Reports
    <3>2. files'[f] = [files[f] EXCEPT !.status = "EXPIRED"]
      BY <2>2, <3>1
    <3> QED BY <3>1, <3>2 DEF Records, Statuses
  <2>5. files'[f] # NoRecord
    BY <2>4 DEF RecordAssumption
  <2> QED BY <2>2, <2>4, <2>5 DEF StepAgrees, Available, Known
<1>9. CASE \E f \in Files : DeleteLeftOver(f)
  <2>1. PICK f \in Files : DeleteLeftOver(f)
    BY <1>9
  <2>2. /\ queue # <<>> /\ Head(queue).kind = "expire" /\ queue' = queue /\ step' = "DELETE" /\ current' = f
        /\ UNCHANGED files /\ Known(f) /\ ~ Available(f)
    BY <2>1 DEF DeleteLeftOver, Runs, Goto, ToDelete, storeVars
  <2> QED BY <2>2 DEF StepAgrees, Available, Known
<1>10. CASE \E r \in Requests : Claim(r)
  <2>1. PICK r \in Requests : Claim(r)
    BY <1>10
  <2> DEFINE f == TargetOf[r]
  <2>2. /\ queue # <<>> /\ Head(queue) = [kind |-> "finish", request |-> r] /\ queue' = queue
        /\ step = "START" /\ step' = "DELETE" /\ current' = f
        /\ files' = [files EXCEPT ![f] = [files[f] EXCEPT !.status = "CLAIMED"]]
    BY <2>1 DEF Claim, Running, Goto, Persist
  <2>3. request[r] = "SENT"
    BY <2>2, HeadWaits DEF Waits
  <2>4. Available(f) /\ f \in Files
    BY <2>2, <2>3 DEF DownloadsInv, HoldersAgree, Finishes, DownloadsAssumption
  <2> HIDE DEF f
  <2>5. files'[f] \in Records /\ files'[f].status = "CLAIMED"
    BY <2>2, <2>4 DEF Available, Known, DownloadsInv, TypeOK, Reports, Records, Statuses
  <2>6. files'[f] # NoRecord
    BY <2>5 DEF RecordAssumption
  <2> QED BY <2>2, <2>4, <2>5, <2>6 DEF StepAgrees, Available, Known, f
<1>11. CASE \E f \in Files : DeleteBytes(f)
  <2>1. PICK f \in Files : DeleteBytes(f)
    BY <1>11
  <2>2. /\ queue # <<>> /\ queue' = queue /\ step = "DELETE" /\ step' = "FREE" /\ current = f /\ current' = f
        /\ data' = data \ {f} /\ UNCHANGED files
    BY <2>1 DEF DeleteBytes, Goto, storeVars
  <2> QED BY <2>2 DEF DownloadsInv, StepAgrees, Available, Known
<1>12. CASE \E f \in Files : AcknowledgeStarts(f)
  <2>1. PICK f \in Files : AcknowledgeStarts(f)
    BY <1>12
  <2>2. /\ queue # <<>> /\ Head(queue) = [kind |-> "acknowledge", file |-> f] /\ queue' = queue
        /\ step' = "REMOVE" /\ current' = f
    BY <2>1 DEF AcknowledgeStarts, Running, Goto
  <2> QED BY <2>2 DEF StepAgrees
<1>13. CASE \/ (\E f \in Files : Reserve(f)) \/ (\E f \in Files : Commit(f))
            \/ (\E f \in Files : Abort(f)) \/ CleanUpSession \/ Expire \/ Acknowledge
  <2>1. /\ UNCHANGED <<step, current, files, data, manifest, request>> /\ reserved \subseteq reserved'
        /\ queue' = queue \/ \E operation : queue' = Append(queue, operation)
    BY <1>13 DEF Reserve, Commit, Abort, CleanUpSession, Expire, Acknowledge, Call, storeVars, queueVars, diskVars
  <2>2. \A f \in Files : transfer[f] = "COMMITTING" /\ f \in spool' => f \in spool
    BY <1>13 DEF Reserve, Commit, Abort, CleanUpSession, Expire, Acknowledge, diskVars
  <2>3. queue # <<>> => queue' # <<>> /\ Head(queue') = Head(queue)
    BY <2>1, CallHead
  <2> QED BY <2>1, <2>2, <2>3, StepStays
<1>14. CASE \/ (\E r \in Requests : Prepare(r)) \/ (\E r \in Requests : Consume(r))
            \/ (\E r \in Requests : TokenLost(r)) \/ (\E r \in Requests : StreamBreaks(r))
            \/ (\E r \in Requests : Release(r)) \/ (\E r \in Requests : Finish(r)) \/ Reconcile
            \/ ReconcileLate
  <2>1. /\ UNCHANGED <<step, current, files, data, manifest, reserved, spool>>
        /\ queue' = queue \/ \E operation : queue' = Append(queue, operation)
    BY <1>14 DEF Prepare, Consume, TokenLost, StreamBreaks, Release, Finish, Reconcile, ReconcileLate, Call,
              storeVars, queueVars, diskVars
  <2>2. \A r \in Requests : request'[r] \in {"STREAMING", "SENT"} => request[r] \in {"STREAMING", "SENT"}
    <3>1. CASE \/ (\E r \in Requests : Prepare(r)) \/ (\E r \in Requests : Consume(r))
               \/ (\E r \in Requests : TokenLost(r)) \/ (\E r \in Requests : StreamBreaks(r))
      BY <3>1 DEF Prepare, Consume, TokenLost, StreamBreaks, DownloadsInv, TypeOK
    <3>2. CASE \/ (\E r \in Requests : Release(r)) \/ (\E r \in Requests : Finish(r)) \/ Reconcile
               \/ ReconcileLate
      BY <3>2 DEF Release, Finish, Reconcile, ReconcileLate, WithoutClaims, DownloadsInv, TypeOK
    <3> QED BY <1>14, <3>1, <3>2
  <2>3. queue # <<>> => queue' # <<>> /\ Head(queue') = Head(queue)
    BY <2>1, CallHead
  <2> QED BY <2>1, <2>2, <2>3, StepStays
<1>15. CASE Restart
  <2>1. process = "DOWN" /\ UNCHANGED step
    BY <1>15 DEF Restart, queueVars
  <2>2. step' = "START"
    BY <2>1 DEF DownloadsInv, NothingIsLeft, Alive, StepAgrees
  <2> QED BY <2>2 DEF StepAgrees
<1>16. CASE Tick
  <2>1. /\ UNCHANGED <<step, current, request, reserved, spool, data>>
        /\ files' = Aged(files) /\ manifest' = Aged(manifest)
    BY <1>16 DEF Tick
  <2>2. \A f \in Files : /\ files'[f] = NoRecord <=> files[f] = NoRecord
                         /\ files[f] # NoRecord => files'[f].status = files[f].status
                         /\ manifest'[f] = NoRecord <=> manifest[f] = NoRecord
    BY <2>1, AgedFacts DEF DownloadsInv, TypeOK
  <2>3. queue # <<>> => /\ queue' # <<>> /\ Head(queue').kind = Head(queue).kind
                        /\ Head(queue).kind # "end" => Head(queue') = Head(queue)
    BY <1>16, AgedQueue DEF DownloadsInv
  <2> QED BY <2>1, <2>2, <2>3, StepStays
<1>17. CASE \E f \in Files : Unlink(f)
  <2>1. /\ UNCHANGED <<queue, step, current, reserved, spool, files, request>> /\ data' \subseteq data
    BY <1>17 DEF Unlink, storeVars, queueVars
  <2> QED BY <2>1, StepStays
<1>18. CASE Upload \/ CloseCore \/ Report \/ Disconnect \/ Connect \/ LoseAccess \/ Started
  <2>1. UNCHANGED <<queue, step, current, reserved, spool, files, request, data>>
    BY <1>18 DEF Upload, CloseCore, Report, Disconnect, Connect, LoseAccess, Started, storeVars,
       queueVars, diskVars
  <2> QED BY <1>1, <2>1
<1> QED BY <1>2, <1>3, <1>4, <1>5, <1>6, <1>7, <1>8, <1>9, <1>10, <1>11, <1>12, <1>13, <1>14,
       <1>15, <1>16, <1>17, <1>18 DEF Next, RunQueue, Operation

\* Nobody gets a lease, and nobody loses what the lease is for.
LEMMA HoldersStay ==
  ASSUME DownloadsInv,
         \A r \in Requests :
           /\ request'[r] \in {"STREAMING", "ABORTED", "SENT"} =>
                request[r] \in {"STREAMING", "ABORTED", "SENT"}
           /\ request'[r] = "STREAMING" =>
                request[r] = "STREAMING" /\ (Available(TargetOf[r]) => Available(TargetOf[r])')
           /\ request'[r] = "SENT" =>
                /\ request[r] = "SENT" /\ (Available(TargetOf[r]) => Available(TargetOf[r])')
                /\ Finishes(r) => Finishes(r)'
  PROVE  HoldersAgree'
<1>1. \A r \in Requests : r \in Holders(TargetOf[r])' => r \in Holders(TargetOf[r])
  BY DEF Holders
<1>2. \A r, q \in Requests :
        TargetOf[r] = TargetOf[q] /\ r \in Holders(TargetOf[r])' /\ q \in Holders(TargetOf[q])' => r = q
  BY <1>1 DEF DownloadsInv, HoldersAgree
<1>3. \A r \in Requests : request'[r] = "STREAMING" => Available(TargetOf[r])'
  BY DEF DownloadsInv, HoldersAgree
<1>4. \A r \in Requests : request'[r] = "SENT" => Available(TargetOf[r])' \/ Finishes(r)'
  BY DEF DownloadsInv, HoldersAgree
<1> QED BY <1>2, <1>3, <1>4 DEF HoldersAgree

\* A file is there for the one who reads it, until it is claimed.
LEMMA HoldersStep ==
  ASSUME DownloadsInv, DownloadsAssumption, RecordAssumption, Next
  PROVE  HoldersAgree'
<1>1. UNCHANGED <<request, files, queue, step>> =>
      HoldersAgree'
  BY DEF DownloadsInv, HoldersAgree, Holders, Finishes, Available, Known
<1>2. CASE \/ (\E f \in Files : Commit(f)) \/ (\E f \in Files : Abort(f)) \/ CleanUpSession
           \/ Expire \/ Acknowledge
  <2>1. /\ UNCHANGED <<request, files, step>>
        /\ queue' = queue \/ \E operation : queue' = Append(queue, operation)
    BY <1>2 DEF Commit, Abort, CleanUpSession, Expire, Acknowledge, Call, storeVars, queueVars
  <2>2. queue # <<>> => queue' # <<>> /\ Head(queue') = Head(queue)
    BY <2>1, CallHead
  <2>3. \A r \in Requests : /\ Available(TargetOf[r]) => Available(TargetOf[r])'
                            /\ Finishes(r) => Finishes(r)'
    BY <2>1, <2>2 DEF Finishes, Available, Known
  <2> QED BY <2>1, <2>3, HoldersStay
<1>3. CASE \/ (\E r \in Requests : Prepare(r)) \/ (\E r \in Requests : Consume(r))
           \/ (\E r \in Requests : TokenLost(r)) \/ (\E r \in Requests : StreamBreaks(r))
           \/ (\E r \in Requests : Release(r)) \/ Reconcile \/ ReconcileLate
  <2>1. /\ UNCHANGED <<files, step>>
        /\ queue' = queue \/ \E operation : queue' = Append(queue, operation)
    BY <1>3 DEF Prepare, Consume, TokenLost, StreamBreaks, Release, Reconcile, ReconcileLate, Call, storeVars,
              queueVars
  <2>2. queue # <<>> => queue' # <<>> /\ Head(queue') = Head(queue)
    BY <2>1, CallHead
  <2>3. \A r \in Requests : /\ Available(TargetOf[r]) => Available(TargetOf[r])'
                            /\ Finishes(r) => Finishes(r)'
    BY <2>1, <2>2 DEF Finishes, Available, Known
  <2>4. \A r \in Requests :
          \/ request'[r] \in {request[r], "IDLE", "TOKEN", "AUTHORIZED"}
          \/ request[r] = "STREAMING" /\ request'[r] = "ABORTED"
    <3>1. CASE (\E r \in Requests : Prepare(r)) \/ (\E r \in Requests : Consume(r))
      BY <3>1 DEF Prepare, Consume, DownloadsInv, TypeOK
    <3>2. CASE \/ (\E r \in Requests : TokenLost(r)) \/ (\E r \in Requests : StreamBreaks(r))
               \/ (\E r \in Requests : Release(r))
      BY <3>2 DEF TokenLost, StreamBreaks, Release, DownloadsInv, TypeOK
    <3>3. CASE Reconcile \/ ReconcileLate
      BY <3>3 DEF Reconcile, ReconcileLate, WithoutClaims, DownloadsInv, TypeOK
    <3> QED BY <1>3, <3>1, <3>2, <3>3
  <2> QED BY <2>3, <2>4, HoldersStay
<1>4. CASE \E r \in Requests : Finish(r)
  <2>1. PICK r \in Requests : Finish(r)
    BY <1>4
  <2>2. /\ UNCHANGED <<files, step>> /\ request[r] = "STREAMING"
        /\ \E to \in {"IDLE", "SENT"} : request' = [request EXCEPT ![r] = to]
        /\ queue' = queue \/ \E operation : queue' = Append(queue, operation)
    BY <2>1 DEF Finish, Call, storeVars, queueVars
  <2>3. queue # <<>> => queue' # <<>> /\ Head(queue') = Head(queue)
    BY <2>2, CallHead
  <2>4. \A q \in Requests : /\ Available(TargetOf[q])' <=> Available(TargetOf[q])
                            /\ Finishes(q) => Finishes(q)'
    BY <2>2, <2>3 DEF Finishes, Available, Known
  <2>5. Available(TargetOf[r])
    BY <2>2 DEF DownloadsInv, HoldersAgree
  <2>6. /\ request'[r] \in {"IDLE", "SENT"}
        /\ \A q \in Requests \ {r} : request'[q] = request[q]
    BY <2>2 DEF DownloadsInv, TypeOK
  <2>7. \A q \in Requests : q \in Holders(TargetOf[q])' => q \in Holders(TargetOf[q])
    BY <2>2, <2>6 DEF Holders
  <2>8. \A p, q \in Requests :
          TargetOf[p] = TargetOf[q] /\ p \in Holders(TargetOf[p])' /\ q \in Holders(TargetOf[q])' => p = q
    BY <2>7 DEF DownloadsInv, HoldersAgree
  <2>9. ASSUME NEW q \in Requests
        PROVE  /\ request'[q] = "STREAMING" => Available(TargetOf[q])'
               /\ request'[q] = "SENT" => Available(TargetOf[q])' \/ Finishes(q)'
    <3>1. CASE q = r
      BY <2>4, <2>5, <2>6, <3>1
    <3>2. CASE q # r
      BY <2>4, <2>6, <3>2 DEF DownloadsInv, HoldersAgree
    <3> QED BY <3>1, <3>2
  <2> QED BY <2>8, <2>9 DEF HoldersAgree
<1>5. CASE \E r \in Requests : Acquire(r)
  <2>1. PICK r \in Requests : Acquire(r)
    BY <1>5
  <2>2. /\ UNCHANGED files /\ step = "START"
        /\ request' = [request EXCEPT ![r] = IF MayRead(TargetOf[r]) THEN "STREAMING" ELSE "IDLE"]
    BY <2>1 DEF Acquire, Running, storeVars
  <2>3. /\ request'[r] = IF MayRead(TargetOf[r]) THEN "STREAMING" ELSE "IDLE"
        /\ \A q \in Requests \ {r} : request'[q] = request[q]
    BY <2>2 DEF DownloadsInv, TypeOK
  <2>4. \A q \in Requests : ~ Finishes(q) /\ (Available(TargetOf[q])' <=> Available(TargetOf[q]))
    BY <2>2 DEF Finishes, Available, Known
  <2>5. \A q \in Requests \ {r} : q \in Holders(TargetOf[q])' => q \in Holders(TargetOf[q])
    BY <2>3 DEF Holders
  <2>6. ASSUME NEW q \in Requests \ {r}, TargetOf[q] = TargetOf[r],
               q \in Holders(TargetOf[q])', r \in Holders(TargetOf[r])'
        PROVE  FALSE
    <3>1. MayRead(TargetOf[r])
      BY <2>3, <2>6 DEF Holders
    <3>2. q \in Holders(TargetOf[r])
      BY <2>5, <2>6
    <3> QED BY <3>1, <3>2 DEF MayRead
  <2>7. \A p, q \in Requests :
          TargetOf[p] = TargetOf[q] /\ p \in Holders(TargetOf[p])' /\ q \in Holders(TargetOf[q])' => p = q
    <3>1. ASSUME NEW p \in Requests, NEW q \in Requests, TargetOf[p] = TargetOf[q],
                 p \in Holders(TargetOf[p])', q \in Holders(TargetOf[q])'
          PROVE  p = q
      <4>1. CASE p # r /\ q # r
        BY <2>5, <3>1, <4>1 DEF DownloadsInv, HoldersAgree
      <4>2. CASE p = r \/ q = r
        BY <2>6, <3>1, <4>2
      <4> QED BY <4>1, <4>2
    <3> QED BY <3>1
  <2>8. ASSUME NEW q \in Requests
        PROVE  /\ request'[q] = "STREAMING" => Available(TargetOf[q])'
               /\ request'[q] = "SENT" => Available(TargetOf[q])' \/ Finishes(q)'
    <3>1. CASE q = r
      BY <2>3, <2>4, <3>1 DEF MayRead
    <3>2. CASE q # r
      BY <2>3, <2>4, <3>2 DEF DownloadsInv, HoldersAgree
    <3> QED BY <3>1, <3>2
  <2> QED BY <2>7, <2>8 DEF HoldersAgree
<1>6. CASE \/ (\E f \in Files : ExpireFile(f)) \/ (\E f \in Files : EndsFile(f))
           \/ (\E f \in Files : FileEnded(f)) \/ (\E f \in Files : DeleteLeftOver(f))
           \/ (\E f \in Files : AcknowledgeStarts(f))
  <2>1. /\ step \in {"START", "PERSIST"}
        /\ \A r \in Requests : \/ request'[r] = request[r]
                               \/ request[r] = "STREAMING" /\ request'[r] = "ABORTED"
    BY <1>6 DEF ExpireFile, EndsFile, FileEnded, DeleteLeftOver, AcknowledgeStarts, Running, Runs
  <2>2. \A f \in Files : Available(f) => Available(f)'
    <3>1. CASE UNCHANGED files
      BY <3>1 DEF Available, Known
    <3>2. CASE \E f \in Files : FileEnded(f)
      BY <3>2 DEF FileEnded, Persist, Available, Known, DownloadsInv, TypeOK, Reports
    <3>3. ASSUME NEW f \in Files, EndsFile(f) PROVE \A g \in Files : Available(g) => Available(g)'
      <4>1. /\ files[f] # NoRecord /\ files' = [files EXCEPT ![f] = Tightened(files[f], Head(queue).left)]
            /\ queue # <<>> /\ Head(queue).kind = "end"
        BY <3>3 DEF EndsFile, ToEnd, Known, Runs
      <4>2. files[f] \in Records /\ Head(queue).left \in 0 .. AfterSession
        BY <4>1, HeadFacts, OperationFacts DEF DownloadsInv, TypeOK, Reports
      <4>3. /\ Tightened(files[f], Head(queue).left) \in Records
            /\ Tightened(files[f], Head(queue).left).status = files[f].status
        BY <4>2, TightenedFacts
      <4>4. /\ files'[f] # NoRecord /\ files'[f].status = files[f].status
            /\ \A g \in Files \ {f} : files'[g] = files[g]
        BY <4>1, <4>3 DEF DownloadsInv, TypeOK, Reports, RecordAssumption
      <4> QED BY <4>4 DEF Available, Known
    <3> QED BY <1>6, <3>1, <3>2, <3>3 DEF ExpireFile, DeleteLeftOver, AcknowledgeStarts, storeVars
  <2>3. \A r \in Requests : ~ Finishes(r)
    BY <2>1 DEF Finishes
  <2> QED BY <2>1, <2>2, <2>3, HoldersStay DEF DownloadsAssumption
<1>7. CASE \E f \in Files : FileExpired(f)
  <2>1. PICK f \in Files : FileExpired(f)
    BY <1>7
  <2>2. /\ queue # <<>> /\ Head(queue).kind = "expire" /\ step = "PERSIST" /\ current = f
        /\ UNCHANGED request /\ \E file : files' = [files EXCEPT ![f] = file]
    BY <2>1 DEF FileExpired, Runs, Persist
  <2>3. \A r \in Holders(f) : request[r] = "ABORTED"
    BY <2>2 DEF DownloadsInv, StepAgrees
  <2>4. \A g \in Files \ {f} : files'[g] = files[g]
    BY <2>2 DEF DownloadsInv, TypeOK, Reports
  <2>5. \A r \in Requests : request[r] \in {"STREAMING", "SENT"} => TargetOf[r] # f
    BY <2>3 DEF Holders
  <2>6. \A g \in Files \ {f} : Available(g) => Available(g)'
    BY <2>4 DEF Available, Known
  <2>7. \A r \in Requests : ~ Finishes(r)
    BY <2>2 DEF Finishes
  <2> QED BY <2>2, <2>5, <2>6, <2>7, HoldersStay DEF DownloadsAssumption
<1>8. CASE \E r \in Requests : Claim(r)
  <2>1. PICK r \in Requests : Claim(r)
    BY <1>8
  <2>2. /\ queue # <<>> /\ Head(queue) = [kind |-> "finish", request |-> r] /\ UNCHANGED <<queue, request>>
        /\ step = "START" /\ step' = "DELETE"
        /\ \E file : files' = [files EXCEPT ![TargetOf[r]] = file]
    BY <2>1 DEF Claim, Running, Persist, Goto
  <2>3. request[r] = "SENT"
    BY <2>2, HeadWaits DEF Waits
  <2>4. Finishes(r)' /\ \A q \in Requests : ~ Finishes(q)
    BY <2>2 DEF Finishes
  <2>5. \A g \in Files \ {TargetOf[r]} : Available(g) => Available(g)'
    BY <2>2 DEF Available, Known, DownloadsInv, TypeOK, Reports
  <2>6. \A q \in Requests \ {r} : request[q] \in {"STREAMING", "SENT"} => TargetOf[q] # TargetOf[r]
    BY <2>3 DEF DownloadsInv, HoldersAgree, Holders
  <2>7. \A p, q \in Requests :
          TargetOf[p] = TargetOf[q] /\ p \in Holders(TargetOf[p])' /\ q \in Holders(TargetOf[q])' => p = q
    BY <2>2 DEF DownloadsInv, HoldersAgree, Holders
  <2>8. ASSUME NEW q \in Requests
        PROVE  /\ request'[q] = "STREAMING" => Available(TargetOf[q])'
               /\ request'[q] = "SENT" => Available(TargetOf[q])' \/ Finishes(q)'
    <3>1. CASE q = r
      BY <2>2, <2>3, <2>4, <3>1
    <3>2. CASE q # r
      <4>1. request[q] \in {"STREAMING", "SENT"} => Available(TargetOf[q])
        BY <2>4 DEF DownloadsInv, HoldersAgree
      <4> QED BY <2>2, <2>5, <2>6, <3>2, <4>1 DEF DownloadsAssumption
    <3> QED BY <3>1, <3>2
  <2> QED BY <2>7, <2>8 DEF HoldersAgree
<1>9. CASE \E f \in Files : DeleteBytes(f)
  <2>1. UNCHANGED <<queue, request, files>> /\ step = "DELETE" /\ step' = "FREE"
    BY <1>9 DEF DeleteBytes, Goto, storeVars
  <2>2. \A r \in Requests : /\ Available(TargetOf[r]) => Available(TargetOf[r])'
                            /\ Finishes(r) => Finishes(r)'
    BY <2>1 DEF Available, Known, Finishes
  <2> QED BY <2>1, <2>2, HoldersStay
<1>10. CASE (\E f \in Files : FreeBytes(f)) \/ OperationFails
  <2>1. /\ UNCHANGED files /\ queue # <<>>
        /\ \/ Head(queue).kind # "finish" /\ UNCHANGED request
           \/ Head(queue).kind = "finish" /\ request' = [request EXCEPT ![Head(queue).request] = "IDLE"]
    <3>1. CASE \E f \in Files : FreeBytes(f)
      <4>1. /\ UNCHANGED files /\ queue # <<>> /\ step = "FREE"
            /\ \/ Head(queue).kind = "expire" /\ UNCHANGED request
               \/ /\ Head(queue).kind # "expire"
                  /\ request' = [request EXCEPT ![Head(queue).request] = "IDLE"]
        BY <3>1 DEF FreeBytes
      <4> QED BY <4>1 DEF DownloadsInv, StepAgrees
    <3>2. CASE OperationFails
      BY <3>2 DEF OperationFails, storeVars
    <3> QED BY <1>10, <3>1, <3>2
  <2>2. \A r \in Requests : /\ request'[r] \in {request[r], "IDLE"}
                            /\ Finishes(r) => request'[r] = "IDLE"
    BY <2>1 DEF Finishes, DownloadsInv, TypeOK
  <2>3. \A r \in Requests : Available(TargetOf[r]) => Available(TargetOf[r])'
    BY <2>1 DEF Available, Known
  <2> QED BY <2>2, <2>3, HoldersStay
<1>11. CASE \/ (\E f \in Files : CommitStarts(f)) \/ (\E f \in Files : Stage(f))
            \/ (\E f \in Files : Publish(f)) \/ (\E f \in Files : CommitFails(f))
            \/ (\E f \in Files : AbortRuns(f)) \/ SessionEnded \/ ExpireEnds
  <2>1. /\ UNCHANGED request /\ step \in {"START", "STAGE", "PUBLISH"}
    BY <1>11 DEF CommitStarts, Stage, Publish, CommitFails, AbortRuns, SessionEnded, ExpireEnds, Running, Runs
  <2>2. \A r \in Requests : ~ Finishes(r)
    BY <2>1 DEF Finishes
  <2>3. \A g \in Files : Available(g) => Available(g)'
    <3>1. CASE UNCHANGED files
      BY <3>1 DEF Available, Known
    <3>2. CASE \E f \in Files : Publish(f)
      <4>1. PICK f, file : /\ f \in Files
                           /\ file = [status |-> "AVAILABLE", due |-> Retention, ended |-> FALSE]
                           /\ files' = [files EXCEPT ![f] = file]
        BY <3>2 DEF Publish
      <4>2. file \in Records
        BY <4>1 DEF Records, Statuses, DownloadsAssumption
      <4>3. file # NoRecord /\ file.status = "AVAILABLE"
        BY <4>1, <4>2 DEF RecordAssumption
      <4> QED BY <4>1, <4>3 DEF Available, Known, DownloadsInv, TypeOK, Reports
    <3> QED BY <1>11, <3>1, <3>2 DEF CommitStarts, Stage, CommitFails, AbortRuns, SessionEnded, ExpireEnds,
                                  storeVars
  <2> QED BY <2>1, <2>2, <2>3, HoldersStay DEF DownloadsAssumption
<1>12. CASE \E f \in Files : Acknowledged(f)
  <2>1. PICK f \in Files : Acknowledged(f)
    BY <1>12
  <2>2. /\ UNCHANGED request /\ step = "REMOVE" /\ files' = [files EXCEPT ![f] = NoRecord]
        /\ queue # <<>> /\ Head(queue) = [kind |-> "acknowledge", file |-> f] /\ manifest[f] = NoRecord
    BY <2>1 DEF Acknowledged, Running
  <2>3. manifest[f] = NoRecord /\ Ended(row[f])
    BY <2>2, HeadWaits DEF Waits
  <2>4. ~ Available(f)
    <3>1. OneEnd(f)
      BY DEF DownloadsInv, StatusesAgree
    <3> QED BY <2>3, <3>1 DEF OneEnd, End, Known, Available, Ended
  <2>5. \A r \in Requests : ~ Finishes(r)
    BY <2>2 DEF Finishes
  <2>6. \A g \in Files \ {f} : Available(g) => Available(g)'
    BY <2>2 DEF Available, Known, DownloadsInv, TypeOK, Reports
  <2> QED BY <2>2, <2>4, <2>5, <2>6, HoldersStay DEF DownloadsAssumption
<1>13. CASE Crash
  <2>1. \A r \in Requests : request'[r] \in {"IDLE", "TOKEN"}
    BY <1>13 DEF Crash
  <2> QED BY <2>1, HoldersStay
<1>14. CASE Restart
  <2>1. process = "DOWN" /\ UNCHANGED request
    BY <1>14 DEF Restart
  <2>2. \A r \in Requests : request'[r] \in {"IDLE", "TOKEN"}
    BY <2>1 DEF DownloadsInv, NothingIsLeft, Alive
  <2> QED BY <2>2, HoldersStay
<1>15. CASE Tick
  <2>1. UNCHANGED <<request, step>> /\ files' = Aged(files)
    BY <1>15 DEF Tick
  <2>2. \A f \in Files : Available(f) => Available(f)'
    BY <2>1, AgedFacts DEF Available, Known, DownloadsInv, TypeOK
  <2>3. queue # <<>> => /\ queue' # <<>>
                        /\ Head(queue).kind # "end" => Head(queue') = Head(queue)
    BY <1>15, AgedQueue DEF DownloadsInv
  <2>4. \A r \in Requests : Finishes(r) => Finishes(r)'
    BY <2>1, <2>3 DEF Finishes
  <2> QED BY <2>1, <2>2, <2>4, HoldersStay DEF DownloadsAssumption
<1>16. CASE \/ (\E f \in Files : Reserve(f)) \/ Upload \/ CloseCore \/ Report \/ Disconnect
            \/ Connect \/ LoseAccess \/ Started \/ (\E f \in Files : Unlink(f))
  <2>1. UNCHANGED <<request, files, queue, step>>
    BY <1>16 DEF Reserve, Unlink, Upload, CloseCore, Report, Disconnect, Connect, LoseAccess, Started,
       storeVars, queueVars
  <2> QED BY <1>1, <2>1
<1> QED BY <1>2, <1>3, <1>4, <1>5, <1>6, <1>7, <1>8, <1>9, <1>10, <1>11, <1>12, <1>13, <1>14,
       <1>15, <1>16 DEF Next, RunQueue, Operation

-----------------------------------------------------------------------------
(* The invariant, and what follows from it.                                *)

LEMMA DownloadsStart == ASSUME DownloadsAssumption, Init PROVE DownloadsInv
<1>1. TypeOK
  <2>1. files \in Reports /\ manifest \in Reports /\ sent \in Reports /\ late \in Reports
    BY DEF Init, Reports, NoFile, Empty
  <2>2. row \in [Files -> Rows \union {NoRecord}]
    BY DEF Init, NoFile
  <2>3. 0 \in 0 .. MaxBytes /\ 0 \in 0 .. MaxFaults
    BY DEF DownloadsAssumption
  <2>4. queue \in Seq(Operations)
    BY DEF Init
  <2> QED BY <2>1, <2>2, <2>3, <2>4 DEF Init, TypeOK
<1>2. NothingIsLeft
  BY DEF Init, NothingIsLeft, Alive
<1>3. StatusesAgree
  BY DEF Init, StatusesAgree, OneEnd, Known, Ended, NoFile, Empty
<1>4. BytesAgree
  <2>1. SizeSum(Counted) = 0 /\ SizeSum(data) = 0 /\ uploads = 0
    <3>1. Counted = {} /\ data = {} /\ uploads = 0
      BY DEF Init, Counted
    <3> QED BY <3>1, NothingHasNoSize
  <2>2. MaxBytes \in Nat
    BY DEF DownloadsAssumption
  <2>3. \A f \in Files : OnDisk(f)
    BY DEF Init, OnDisk, Known, NoFile
  <2> QED BY <2>1, <2>2, <2>3 DEF BytesAgree
<1>5. QueueAgrees /\ StepAgrees
  BY DEF Init, QueueAgrees, StepAgrees
<1>6. HoldersAgree
  BY DEF Init, HoldersAgree, Holders
<1> QED BY <1>1, <1>2, <1>3, <1>4, <1>5, <1>6 DEF DownloadsInv

\* For any files, sizes, quota, retention and faults: what memory, disk, queue, requests and Backend
\* say about a file fits together (WorkerRetainedDownloads).
THEOREM DownloadsInvTheorem == Spec => []DownloadsInv
<1> USE DownloadsAssumption, RecordAssumption
<1>1. Init => DownloadsInv
  BY DownloadsStart
<1>2. DownloadsInv /\ [Next]_vars => DownloadsInv'
  <2>1. ASSUME DownloadsInv, Next PROVE DownloadsInv'
    <3>1. TypeOK' /\ NothingIsLeft' /\ QueueAgrees' /\ StepAgrees' /\ HoldersAgree'
      BY <2>1, TypeStep, NothingStep, QueueAgreesStep, StepAgreesStep, HoldersStep
    <3>2. StatusesAgree'
      BY <2>1, StatusesStep DEF StatusesAgree
    <3>3. BytesAgree'
      <4>1. Counted' = allocated' \union reserved'
        BY DEF Counted
      <4>2. SizeSum(allocated' \union reserved') + uploads' <= MaxBytes /\ SizeSum(data') <= MaxBytes
        BY <2>1, SumsStep
      <4>3. \A f \in Files : OnDisk(f)'
        BY <2>1, DiskStep
      <4> QED BY <4>1, <4>2, <4>3 DEF BytesAgree
    <3> QED BY <3>1, <3>2, <3>3 DEF DownloadsInv
  <2>2. ASSUME DownloadsInv, UNCHANGED vars PROVE DownloadsInv'
    BY <2>2 DEF vars, coreVars, storeVars, queueVars, diskVars, reportVars, backendVars,
       DownloadsInv, TypeOK, NothingIsLeft, StatusesAgree, BytesAgree, QueueAgrees, StepAgrees, HoldersAgree,
       OneEnd, OnDisk, Waits, Holders, Finishes, Known, Available, Ended, End, Alive, Counted
  <2> QED BY <2>1, <2>2
<1> QED BY <1>1, <1>2, PTL DEF Spec

\* Types.
THEOREM DownloadsTypeTheorem == Spec => []TypeOK
<1>1. DownloadsInv => TypeOK
  BY DEF DownloadsInv
<1> QED BY <1>1, DownloadsInvTheorem, PTL

\* docs/design/11-download-retention.md: every byte on disk is in the accounts, and downloads and
\* uploads together stay within the quota of the Session, whatever fails or overtakes an operation.
THEOREM BytesAreCountedTheorem == Spec => []BytesAreCounted
<1> USE DownloadsAssumption
<1>1. ASSUME DownloadsInv PROVE BytesAreCounted
  <2>1. SUFFICES ASSUME process = "UP"
                 PROVE  /\ spool \union staging \union data \subseteq Counted
                        /\ SizeSum(spool \union staging \union data) + uploads <= MaxBytes
    BY DEF BytesAreCounted
  <2>2. Alive /\ spool \subseteq Files /\ staging \subseteq Files /\ data \subseteq Files
    BY <1>1, <2>1 DEF Alive, DownloadsInv, TypeOK
  <2>3. \A f \in Files : OnDisk(f)
    BY <1>1 DEF DownloadsInv, BytesAgree
  <2>4. spool \subseteq reserved /\ data \subseteq allocated
    BY <2>2, <2>3 DEF OnDisk
  <2>5. \A f \in staging : f \in reserved
    BY <1>1, <2>2, <2>3 DEF OnDisk, DownloadsInv, StepAgrees
  <2>6. spool \union staging \union data \subseteq Counted
    BY <2>4, <2>5 DEF Counted
  <2>7. uploads \in 0 .. uploads /\ data \in SUBSET data
    BY <1>1 DEF DownloadsInv, TypeOK
  <2>8. SizeSum(spool \union staging \union data) + uploads <= MaxBytes
    BY <1>1, <2>6, <2>7, Shrinks
  <2> QED BY <2>6, <2>8
<1> QED BY <1>1, DownloadsInvTheorem, PTL

\* The Backend and the disk never disagree on how a file ended, so that no report is rejected, and a
\* file is forgotten only when the Backend knows its end.
THEOREM RecordsAgreeTheorem == Spec => []RecordsAgree
<1>1. ASSUME DownloadsInv PROVE RecordsAgree
  <2>1. \A f \in Files : OneEnd(f) /\ OnDisk(f)
    BY <1>1 DEF DownloadsInv, StatusesAgree, BytesAgree
  <2>2. \A f \in Files :
          /\ Ended(row[f]) => manifest[f] = NoRecord \/ manifest[f].status = row[f].status
          /\ transfer[f] = "DONE" /\ manifest[f] = NoRecord => Ended(row[f])
          /\ manifest[f] # NoRecord /\ manifest[f].status = "AVAILABLE" => f \in data
    BY <2>1 DEF OneEnd, OnDisk, End
  <2>3. \A f \in Files : /\ Ended(row[f]) /\ Ended(sent[f]) => row[f].status = sent[f].status
                         /\ Ended(row[f]) /\ Ended(late[f]) => row[f].status = late[f].status
    BY <2>1 DEF OneEnd
  <2>4. ~ Conflict(sent) /\ ~ Conflict(late)
    BY <2>3 DEF Conflict, TerminalIn
  <2> QED BY <2>2, <2>4 DEF RecordsAgree
<1> QED BY <1>1, DownloadsInvTheorem, PTL

\* What was sent completely is not, or will not be, recorded as expired.
NotExpired ==
  \A r \in Requests :
    request[r] = "SENT" => manifest[TargetOf[r]] = NoRecord \/ manifest[TargetOf[r]].status # "EXPIRED"

LEMMA SentIsNotExpired == DownloadsAssumption /\ DownloadsInv => NotExpired
<1> SUFFICES ASSUME DownloadsInv, DownloadsAssumption, NEW r \in Requests, request[r] = "SENT"
             PROVE  manifest[TargetOf[r]] = NoRecord \/ manifest[TargetOf[r]].status # "EXPIRED"
  BY DEF NotExpired
<1> DEFINE f == TargetOf[r]
<1>1. f \in Files
  BY DEF DownloadsAssumption
<1>2. OneEnd(f)
  BY <1>1 DEF DownloadsInv, StatusesAgree
<1>3. CASE Available(f)
  BY <1>2, <1>3 DEF OneEnd, End, Available
<1>4. CASE Finishes(r)
  <2>1. Known(f) /\ files[f].status = "CLAIMED"
    BY <1>4 DEF DownloadsInv, StepAgrees, Finishes
  <2> QED BY <1>2, <2>1 DEF OneEnd, End
<1> QED BY <1>3, <1>4 DEF DownloadsInv, HoldersAgree

\* A step writes a manifest or goes on with a request.
LEMMA DiskOrRequest ==
  ASSUME DownloadsInv, DownloadsAssumption, RecordAssumption, Next
  PROVE  UNCHANGED manifest \/ UNCHANGED request
<1>1. UNCHANGED manifest =>
      UNCHANGED manifest \/ UNCHANGED request
  OBVIOUS
<1>2. CASE \/ (\E f \in Files : Publish(f)) \/ (\E f \in Files : FileEnded(f))
           \/ (\E f \in Files : FileExpired(f)) \/ (\E r \in Requests : Claim(r))
           \/ (\E f \in Files : AcknowledgeStarts(f)) \/ (\E f \in Files : Unlink(f)) \/ Tick
  BY <1>2 DEF Publish, FileEnded, FileExpired, Claim, AcknowledgeStarts, Unlink, Tick
<1>3. CASE \/ (\E f \in Files : Reserve(f)) \/ (\E f \in Files : Commit(f))
           \/ (\E f \in Files : Abort(f)) \/ (\E f \in Files : CommitFails(f))
           \/ (\E f \in Files : CommitStarts(f)) \/ (\E f \in Files : Stage(f))
           \/ (\E f \in Files : AbortRuns(f)) \/ (\E f \in Files : EndsFile(f))
           \/ (\E f \in Files : ExpireFile(f))
  <2>1. UNCHANGED manifest
    BY <1>3 DEF Reserve, Commit, Abort, CommitFails, CommitStarts, Stage, AbortRuns, EndsFile,
       ExpireFile, diskVars
  <2> QED BY <1>1, <2>1
<1>4. CASE \/ (\E f \in Files : DeleteLeftOver(f)) \/ (\E f \in Files : DeleteBytes(f))
           \/ (\E f \in Files : FreeBytes(f)) \/ (\E f \in Files : Acknowledged(f))
           \/ (\E r \in Requests : Acquire(r)) \/ (\E r \in Requests : Prepare(r))
           \/ (\E r \in Requests : Consume(r)) \/ (\E r \in Requests : TokenLost(r))
           \/ (\E r \in Requests : StreamBreaks(r))
  <2>1. UNCHANGED manifest
    BY <1>4 DEF DeleteLeftOver, DeleteBytes, FreeBytes, Acknowledged, Acquire, Prepare, Consume,
       TokenLost, StreamBreaks, diskVars
  <2> QED BY <1>1, <2>1
<1>5. CASE \/ (\E r \in Requests : Release(r)) \/ (\E r \in Requests : Finish(r))
           \/ SessionEnded \/ ExpireEnds \/ OperationFails \/ Upload \/ CloseCore
           \/ CleanUpSession \/ Expire
  <2>1. UNCHANGED manifest
    BY <1>5 DEF Release, Finish, SessionEnded, ExpireEnds, OperationFails, Upload, CloseCore,
       CleanUpSession, Expire, diskVars
  <2> QED BY <1>1, <2>1
<1>6. CASE \/ Report \/ Reconcile \/ ReconcileLate \/ Acknowledge \/ Disconnect \/ Connect
           \/ LoseAccess \/ Crash \/ Restart
  <2>1. UNCHANGED manifest
    BY <1>6 DEF Report, Reconcile, ReconcileLate, Acknowledge, Disconnect, Connect, LoseAccess,
       Crash, Restart, diskVars
  <2> QED BY <1>1, <2>1
<1>7. CASE Started
  <2>1. UNCHANGED manifest
    BY <1>7 DEF Started, diskVars
  <2> QED BY <1>1, <2>1
<1> QED BY <1>2, <1>3, <1>4, <1>5, <1>6, <1>7 DEF Next, RunQueue, Operation

\* A file has one reader; one that was sent completely before its deadline does not end as expired
\* while its claim is still to be written; and the deadline the user was told is never extended.
THEOREM PromisesAreKeptTheorem == Spec => PromisesAreKept
<1> USE DownloadsAssumption, RecordAssumption
<1> DEFINE Kept ==
      /\ \A f \in Files : Cardinality(Holders(f)) <= 1
      /\ \A r \in Requests : request[r] = "SENT" =>
           LET record == manifest'[TargetOf[r]] IN record = NoRecord \/ record.status # "EXPIRED"
      /\ \A f \in Files : row[f] # NoRecord => row'[f].due <= row[f].due
<1>1. ASSUME DownloadsInv, NotExpired, NotExpired', Next PROVE Kept
  <2>1. ASSUME NEW f \in Files PROVE Cardinality(Holders(f)) <= 1
    <3>1. \A r, q \in Holders(f) : r = q
      BY <1>1 DEF DownloadsInv, HoldersAgree, Holders
    <3>2. CASE Holders(f) = {}
      BY <3>2, FS_EmptySet
    <3>3. CASE Holders(f) # {}
      <4>1. PICK r : r \in Holders(f)
        BY <3>3
      <4>2. Holders(f) = {r}
        BY <3>1, <4>1
      <4>3. \A n : IsFiniteSet({n}) /\ Cardinality({n}) = 1
        BY FS_Singleton
      <4>4. Cardinality({r}) = 1
        BY <4>3, Zenon
      <4> QED BY <4>2, <4>4
    <3> QED BY <3>2, <3>3
  <2>2. ASSUME NEW r \in Requests, request[r] = "SENT"
        PROVE  manifest'[TargetOf[r]] = NoRecord \/ manifest'[TargetOf[r]].status # "EXPIRED"
    <3>1. CASE UNCHANGED manifest
      BY <1>1, <2>2, <3>1 DEF NotExpired
    <3>2. CASE UNCHANGED request
      BY <1>1, <2>2, <3>2 DEF NotExpired
    <3> QED BY <1>1, <3>1, <3>2, DiskOrRequest
  <2>3. \A f \in Files : row[f] # NoRecord => row'[f].due <= row[f].due
    BY <1>1, RowsStep
  <2> QED BY <2>1, <2>2, <2>3
<1>2. DownloadsInv /\ NotExpired /\ NotExpired' /\ [Next]_vars => [Kept]_vars
  BY <1>1
<1>3. PromisesAreKept <=> [][Kept]_vars
  BY DEF PromisesAreKept
<1>4. DownloadsInv => NotExpired
  BY SentIsNotExpired
<1> QED BY <1>2, <1>3, <1>4, DownloadsInvTheorem, PTL DEF Spec

=============================================================================
