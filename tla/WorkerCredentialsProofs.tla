------------------------ MODULE WorkerCredentialsProofs ------------------------
(***************************************************************************)
(* Proofs about WorkerCredentials: which credential a Worker is left with, *)
(* for any number of processes, rotations and failures.                    *)
(***************************************************************************)
EXTENDS WorkerCredentials, FiniteSetTheorems, SequenceTheorems, TLAPS

-----------------------------------------------------------------------------
(* The inductive invariant.                                                *)

\* The credentials that c has replaced.
Predecessors(c) == {rotations[r].replaces : r \in {x \in Consumed : rotations[x].issued = c}}

\* A handshake with c has come far enough to rotate its predecessors away.
Settled(c) == c \in DOMAIN credentials /\ Predecessors(c) \intersect Active = {}

\* The bound on processes and rotations; nothing is asked, and so issued, before a process starts.
WithinBounds ==
  /\ starts + Len(rotations) + (IF creating = 0 THEN 0 ELSE 1) <= MaxBegun
  /\ Consumed # {} \/ asked # {} \/ claim # Nobody => starts > 0

\* A request names a rotation and a credential that exist; the claimed rotation stays as it is.
RequestsAgree ==
  /\ \A q \in asked : q.rotation \in DOMAIN rotations /\ q.current \in DOMAIN credentials
  /\ claim # Nobody => /\ claim.request.rotation \in DOMAIN rotations
                       /\ claim.request.current \in DOMAIN credentials
                       /\ Usable(claim.request)

\* Identities go up, and what was rotated away is behind the Worker's.
IdentityAgrees ==
  /\ process.token <= Len(rotations)
  /\ process.step = "ANSWERED" => process.answer \in identity + 1 .. Len(credentials)
  /\ \A h \in hellos : h.credential <= identity
  /\ \A c \in DOMAIN credentials : credentials[c] = "ROTATED" => c < identity

\* Only a credential that has connected is replaced, by one that is issued later.
SuccessionAgrees ==
  /\ \A r \in Consumed : rotations[r].replaces < rotations[r].issued
  /\ \A r \in DOMAIN rotations : Settled(rotations[r].replaces)
  /\ \A c \in DOMAIN credentials : credentials[c] = "ROTATED" =>
       \E r \in DOMAIN rotations : rotations[r].replaces = c
  /\ creating # 0 => Settled(creating)
  /\ connection # Nobody => Settled(connection.credential)
  /\ \A h \in hellos : h.step = "ACTIVATED" => Settled(h.credential)

CredentialsInv ==
  CredentialsTypeOK /\ WithinBounds /\ RequestsAgree /\ IdentityAgrees /\ SuccessionAgrees

Statuses == {"ACTIVE", "REVOKED", "ROTATED"}
RotationRows == [status : {"ACTIVE", "CONSUMED", "REVOKED"}, replaces : Credentials, issued : Numbers]
Endings == [step : {"CHECK", "DISABLED", "CREDENTIAL_REVOKED", "RETIRED"}, credential : Numbers]
StillOpen(rows) == {r \in DOMAIN rows : rows[r].status = "ACTIVE"}

-----------------------------------------------------------------------------
(* What a step does to the rows.                                           *)

\* Rows and numbers, in the terms the provers use.
LEMMA RowFacts ==
  ASSUME CredentialsInv, CredentialsAssumption
  PROVE  /\ credentials \in Seq(Statuses) /\ Len(credentials) \in 1 .. MaxBegun
         /\ DOMAIN credentials = 1 .. Len(credentials)
         /\ rotations \in Seq(RotationRows) /\ Len(rotations) \in 0 .. MaxBegun
         /\ DOMAIN rotations = 1 .. Len(rotations)
         /\ \A r \in DOMAIN rotations : rotations[r] \in RotationRows
         /\ IsFiniteSet(Consumed) /\ Cardinality(Consumed) = Len(credentials) - 1
         /\ starts \in Nat /\ creating \in Nat /\ MaxBegun \in Nat \ {0}
<1>1. credentials \in Seq(Statuses) /\ rotations \in Seq(RotationRows)
  BY DEF CredentialsInv, CredentialsTypeOK, Statuses, RotationRows
<1>2. /\ Len(credentials) \in Nat /\ DOMAIN credentials = 1 .. Len(credentials)
      /\ Len(rotations) \in Nat /\ DOMAIN rotations = 1 .. Len(rotations)
      /\ \A r \in DOMAIN rotations : rotations[r] \in RotationRows
  BY <1>1, LenProperties
<1>3. starts \in Nat /\ creating \in Nat /\ MaxBegun \in Nat \ {0}
  BY DEF CredentialsInv, CredentialsTypeOK, CredentialsAssumption, Numbers
<1>4. Len(rotations) <= MaxBegun /\ (Consumed # {} => Len(rotations) + 1 <= MaxBegun)
  BY <1>2, <1>3 DEF CredentialsInv, WithinBounds
<1>5. /\ IsFiniteSet(Consumed) /\ Cardinality(Consumed) \in Nat
      /\ Cardinality(Consumed) <= Len(rotations) /\ Cardinality(Consumed) = Len(credentials) - 1
  <2>1. IsFiniteSet(1 .. Len(rotations)) /\ Cardinality(1 .. Len(rotations)) = Len(rotations)
    <3>1. ASSUME NEW n \in Nat PROVE IsFiniteSet(1 .. n) /\ Cardinality(1 .. n) = n
      BY FS_Interval
    <3> QED BY <1>2, <3>1
  <2>2. Consumed \subseteq 1 .. Len(rotations)
    BY <1>2 DEF Consumed
  <2>3. IsFiniteSet(Consumed) /\ Cardinality(Consumed) <= Cardinality(1 .. Len(rotations))
    BY <2>1, <2>2, FS_Subset
  <2> QED BY <2>1, <2>3, FS_CardinalityType DEF CredentialsInv, CredentialsTypeOK
<1>6. Consumed = {} => Cardinality(Consumed) = 0
  BY FS_EmptySet
<1>7. identity \in DOMAIN credentials
  BY DEF CredentialsInv, CredentialsTypeOK
<1> QED BY <1>1, <1>2, <1>3, <1>4, <1>5, <1>6, <1>7

\* Revoking what is open changes nothing else.
LEMMA RevokedFacts ==
  ASSUME CredentialsInv, CredentialsAssumption
  PROVE  /\ RevokedRotations \in Seq(RotationRows) /\ Len(RevokedRotations) = Len(rotations)
         /\ DOMAIN RevokedRotations = DOMAIN rotations
         /\ StillOpen(RevokedRotations) = {}
         /\ \A r \in DOMAIN rotations :
              /\ RevokedRotations[r].replaces = rotations[r].replaces
              /\ RevokedRotations[r].issued = rotations[r].issued
              /\ RevokedRotations[r].status = "CONSUMED" <=> rotations[r].status = "CONSUMED"
<1>1. /\ RevokedRotations \in [1 .. Len(rotations) -> RotationRows]
      /\ \A r \in DOMAIN rotations :
           /\ RevokedRotations[r].replaces = rotations[r].replaces
           /\ RevokedRotations[r].issued = rotations[r].issued
           /\ RevokedRotations[r].status = "CONSUMED" <=> rotations[r].status = "CONSUMED"
           /\ RevokedRotations[r].status # "ACTIVE"
  BY RowFacts DEF RevokedRotations, RotationRows, Revoked
<1>2. Len(rotations) \in Nat
  BY RowFacts
<1>3. RevokedRotations \in Seq(RotationRows)
  BY <1>1, <1>2, SeqDef
<1>4. DOMAIN RevokedRotations = DOMAIN rotations /\ Len(RevokedRotations) = Len(rotations)
  BY <1>1, <1>2, <1>3, RowFacts, LenProperties
<1> QED BY <1>1, <1>3, <1>4 DEF StillOpen

\* A credential that is not active never becomes active again.
Fades ==
  /\ credentials' \in Seq(Statuses) /\ Len(credentials') >= Len(credentials)
  /\ \A c \in DOMAIN credentials : credentials'[c] = "ACTIVE" => credentials[c] = "ACTIVE"

\* What a rotation replaces and what it has issued are decided once.
Unfolds ==
  /\ rotations' \in Seq(RotationRows) /\ Len(rotations') >= Len(rotations)
  /\ \A r \in DOMAIN rotations :
       /\ rotations'[r].replaces = rotations[r].replaces
       /\ r \in Consumed =>
            rotations'[r].status = "CONSUMED" /\ rotations'[r].issued = rotations[r].issued
  /\ Cardinality(StillOpen(rotations')) <= 1

\* The open rotation, if there is one.
LEMMA OpenFacts ==
  ASSUME CredentialsInv, CredentialsAssumption
  PROVE  IsFiniteSet(StillOpen(rotations)) /\ Cardinality(StillOpen(rotations)) <= 1
<1>1. StillOpen(rotations) \subseteq 1 .. Len(rotations)
  BY RowFacts DEF StillOpen
<1>2. IsFiniteSet(1 .. Len(rotations))
  BY RowFacts, FS_Interval
<1> QED BY <1>1, <1>2, FS_Subset DEF StillOpen, CredentialsInv, CredentialsTypeOK

\* CreateRotation that goes through.
LEMMA Creates ==
  ASSUME CredentialsInv, CredentialsAssumption, CreateRotation, rotations' # rotations
  PROVE  /\ Unfolds /\ UNCHANGED credentials /\ Consumed' = Consumed
         /\ Len(rotations') = Len(rotations) + 1 /\ creating # 0 /\ claim = Nobody
         /\ \A r \in DOMAIN rotations' : r \in DOMAIN rotations \/ rotations'[r].replaces = creating
<1> DEFINE row == [status |-> "ACTIVE", replaces |-> creating, issued |-> 0]
<1>1. /\ rotations' = Append(RevokedRotations, row) /\ creating \in Active /\ creating # 0
      /\ claim = Nobody /\ UNCHANGED credentials
  BY DEF CreateRotation
<1>2. row \in RotationRows
  <2>1. creating \in Credentials
    <3>1. creating \in DOMAIN credentials
      BY <1>1 DEF Active
    <3>2. DOMAIN credentials = 1 .. Len(credentials) /\ Len(credentials) \in 1 .. MaxBegun
      BY RowFacts
    <3>3. MaxBegun \in Nat
      BY RowFacts
    <3> QED BY <3>1, <3>2, <3>3 DEF Credentials
  <2>2. 0 \in Numbers
    BY RowFacts DEF Numbers
  <2> QED BY <2>1, <2>2 DEF RotationRows
<1> HIDE DEF row
<1>3. /\ rotations' \in Seq(RotationRows) /\ Len(rotations') = Len(rotations) + 1
      /\ rotations'[Len(rotations) + 1] = row
      /\ \A r \in DOMAIN rotations : rotations'[r] = RevokedRotations[r]
      /\ DOMAIN rotations' = 1 .. Len(rotations) + 1
  <2>1. /\ RevokedRotations \in Seq(RotationRows) /\ Len(RevokedRotations) = Len(rotations)
        /\ DOMAIN rotations = 1 .. Len(rotations)
    BY RevokedFacts, RowFacts
  <2>2. /\ Append(RevokedRotations, row) \in Seq(RotationRows)
        /\ Len(Append(RevokedRotations, row)) = Len(RevokedRotations) + 1
        /\ \A i \in 1 .. Len(RevokedRotations) :
             Append(RevokedRotations, row)[i] = RevokedRotations[i]
        /\ Append(RevokedRotations, row)[Len(RevokedRotations) + 1] = row
    BY <1>2, <2>1, AppendProperties
  <2>3. rotations' \in Seq(RotationRows) /\ Len(rotations') = Len(rotations) + 1
    BY <1>1, <2>1, <2>2
  <2>4. DOMAIN rotations' = 1 .. Len(rotations) + 1
    BY <2>3, LenProperties
  <2> QED BY <1>1, <2>1, <2>2, <2>3, <2>4
<1>4. DOMAIN rotations = 1 .. Len(rotations) /\ Len(rotations) \in Nat
  BY RowFacts
<1>5. StillOpen(rotations') = {Len(rotations) + 1}
  BY <1>3, <1>4, RevokedFacts DEF StillOpen, row
<1>6. Consumed' = Consumed
  BY <1>3, <1>4, RevokedFacts DEF Consumed, row
<1>7. Cardinality(StillOpen(rotations')) <= 1
  <2>1. \A n : Cardinality({n}) = 1
    BY FS_Singleton
  <2>2. Cardinality(StillOpen(rotations')) = 1
    BY <1>5, <2>1, Zenon
  <2> QED BY <2>2
<1>8. \A r \in DOMAIN rotations :
        /\ rotations'[r].replaces = rotations[r].replaces
        /\ r \in Consumed =>
            rotations'[r].status = "CONSUMED" /\ rotations'[r].issued = rotations[r].issued
  BY <1>3, RevokedFacts DEF Consumed
<1>9. Unfolds
  BY <1>3, <1>4, <1>7, <1>8 DEF Unfolds
<1>10. \A r \in DOMAIN rotations' : r \in DOMAIN rotations \/ rotations'[r].replaces = creating
  BY <1>3, <1>4 DEF row
<1> QED BY <1>1, <1>3, <1>6, <1>9, <1>10

\* revokeRotation, or the end of its time.
LEMMA EndsRotation ==
  ASSUME CredentialsInv, CredentialsAssumption, NEW r \in Credentials, EndRotation(r)
  PROVE  /\ Unfolds /\ UNCHANGED credentials /\ Consumed' = Consumed
         /\ DOMAIN rotations' = DOMAIN rotations /\ Len(rotations') = Len(rotations)
<1>1. /\ rotations' = [rotations EXCEPT ![r].status = "REVOKED"]
      /\ r \in DOMAIN rotations /\ rotations[r].status = "ACTIVE" /\ UNCHANGED credentials
  BY DEF EndRotation
<1>2. rotations \in [1 .. Len(rotations) -> RotationRows] /\ Len(rotations) \in Nat
  BY RowFacts, LenProperties
<1>3. rotations' \in [1 .. Len(rotations) -> RotationRows]
  BY <1>1, <1>2 DEF RotationRows
<1>4. rotations' \in Seq(RotationRows)
  BY <1>2, <1>3, SeqDef
<1>5. Len(rotations') = Len(rotations) /\ DOMAIN rotations' = DOMAIN rotations
  BY <1>2, <1>3, <1>4, LenProperties
<1>6. \A x \in DOMAIN rotations :
        /\ rotations'[x].replaces = rotations[x].replaces /\ rotations'[x].issued = rotations[x].issued
        /\ rotations'[x].status = "CONSUMED" <=> rotations[x].status = "CONSUMED"
        /\ rotations'[x].status = "ACTIVE" => rotations[x].status = "ACTIVE"
  BY <1>1, <1>2 DEF RotationRows
<1>7. Consumed' = Consumed /\ StillOpen(rotations') \subseteq StillOpen(rotations)
  BY <1>5, <1>6 DEF Consumed, StillOpen
<1>8. Cardinality(StillOpen(rotations')) <= 1
  <2>1. Cardinality(StillOpen(rotations')) <= Cardinality(StillOpen(rotations))
    BY <1>7, OpenFacts, FS_Subset
  <2>2. IsFiniteSet(StillOpen(rotations'))
    BY <1>7, OpenFacts, FS_Subset
  <2> QED BY <2>1, <2>2, OpenFacts, FS_CardinalityType
<1> QED BY <1>1, <1>2, <1>4, <1>5, <1>6, <1>7, <1>8 DEF Unfolds, Consumed

\* retire.
LEMMA Retires ==
  ASSUME CredentialsInv, CredentialsAssumption, Retire
  PROVE  /\ Unfolds /\ Fades /\ Consumed' = Consumed /\ DOMAIN rotations' = DOMAIN rotations
         /\ Len(rotations') = Len(rotations) /\ Len(credentials') = Len(credentials)
         /\ \A c \in DOMAIN credentials : credentials'[c] = "ROTATED" => credentials[c] = "ROTATED"
<1>1. rotations' = RevokedRotations
  BY DEF Retire
<1>2. credentials' = [c \in 1 .. Len(credentials) |-> Revoked(credentials[c])]
  BY RowFacts DEF Retire
<1>3. credentials \in [1 .. Len(credentials) -> Statuses] /\ Len(credentials) \in Nat
  BY RowFacts, LenProperties
<1>4. credentials' \in [1 .. Len(credentials) -> Statuses]
  BY <1>2, <1>3 DEF Revoked, Statuses
<1>5. credentials' \in Seq(Statuses)
  BY <1>3, <1>4, SeqDef
<1>6. Len(credentials') = Len(credentials)
  BY <1>3, <1>4, <1>5, LenProperties
<1>7. Fades /\ \A c \in DOMAIN credentials : credentials'[c] = "ROTATED" => credentials[c] = "ROTATED"
  BY <1>2, <1>3, <1>5, <1>6 DEF Fades, Revoked
<1>8. Consumed' = Consumed
  BY <1>1, RevokedFacts DEF Consumed
<1>9. Cardinality(StillOpen(rotations')) <= 1
  BY <1>1, RevokedFacts, FS_EmptySet
<1>10. Len(rotations) \in Nat
  BY RowFacts
<1>11. Unfolds
  BY <1>1, <1>9, <1>10, RevokedFacts DEF Unfolds, Consumed
<1> QED BY <1>1, <1>6, <1>7, <1>8, <1>11, RevokedFacts

\* revokeCredential.
LEMMA Revokes ==
  ASSUME CredentialsInv, CredentialsAssumption, NEW k \in Credentials, RevokeCredential(k)
  PROVE  /\ Fades /\ UNCHANGED rotations /\ Len(credentials') = Len(credentials)
         /\ \A c \in DOMAIN credentials : credentials'[c] = "ROTATED" => credentials[c] = "ROTATED"
<1>1. credentials' = [credentials EXCEPT ![k] = "REVOKED"] /\ UNCHANGED rotations
  BY DEF RevokeCredential
<1>2. credentials \in [1 .. Len(credentials) -> Statuses] /\ Len(credentials) \in Nat
  BY RowFacts, LenProperties
<1>3. credentials' \in [1 .. Len(credentials) -> Statuses]
  BY <1>1, <1>2 DEF Statuses
<1>4. credentials' \in Seq(Statuses)
  BY <1>2, <1>3, SeqDef
<1>5. Len(credentials') = Len(credentials)
  BY <1>2, <1>3, <1>4, LenProperties
<1> QED BY <1>1, <1>2, <1>4, <1>5 DEF Fades

\* #activateRotatedCredential.
LEMMA Activates ==
  ASSUME CredentialsInv, CredentialsAssumption, NEW h \in hellos, Activate(h)
  PROVE  /\ Fades /\ UNCHANGED rotations /\ Len(credentials') = Len(credentials)
         /\ \A c \in DOMAIN credentials :
              credentials'[c] = IF c \in Predecessors(h.credential) \intersect Active
                                THEN "ROTATED" ELSE credentials[c]
<1>1. /\ credentials' = [c \in 1 .. Len(credentials) |->
                           IF c \in Predecessors(h.credential) \intersect Active
                           THEN "ROTATED" ELSE credentials[c]]
      /\ UNCHANGED rotations
  BY RowFacts DEF Activate, Proceeds, Predecessors
<1>2. credentials \in [1 .. Len(credentials) -> Statuses] /\ Len(credentials) \in Nat
  BY RowFacts, LenProperties
<1>3. credentials' \in [1 .. Len(credentials) -> Statuses]
  BY <1>1, <1>2 DEF Statuses
<1>4. credentials' \in Seq(Statuses)
  BY <1>2, <1>3, SeqDef
<1>5. Len(credentials') = Len(credentials)
  BY <1>2, <1>3, <1>4, LenProperties
<1> QED BY <1>1, <1>2, <1>4, <1>5 DEF Fades

\* The insertion of a new credential.
LEMMA Issues ==
  ASSUME CredentialsInv, CredentialsAssumption, Inserts
  PROVE  LET q == claim.request
         IN  /\ Fades /\ Unfolds /\ q \in Requests /\ claim # Nobody
             /\ q.rotation \in DOMAIN rotations /\ q.rotation \notin Consumed
             /\ q.current \in DOMAIN credentials
             /\ Consumed' = Consumed \union {q.rotation}
             /\ rotations'[q.rotation].issued = Len(credentials) + 1
             /\ rotations'[q.rotation].replaces = q.current
             /\ DOMAIN rotations' = DOMAIN rotations /\ Len(rotations') = Len(rotations)
             /\ Len(credentials') = Len(credentials) + 1 /\ Len(credentials) + 1 <= MaxBegun
             /\ \A c \in DOMAIN credentials : credentials'[c] = credentials[c]
             /\ credentials'[Len(credentials) + 1] = "ACTIVE"
<1> DEFINE q == claim.request
           number == Len(credentials) + 1
<1>1. /\ claim # Nobody /\ credentials' = Append(credentials, "ACTIVE")
      /\ rotations' = [rotations EXCEPT ![q.rotation].status = "CONSUMED",
                                        ![q.rotation].issued = number]
  BY DEF Inserts, Issued
<1>2. /\ q \in Requests /\ q.rotation \in DOMAIN rotations /\ q.current \in DOMAIN credentials
      /\ rotations[q.rotation].status = "ACTIVE" /\ rotations[q.rotation].replaces = q.current
  BY <1>1 DEF CredentialsInv, CredentialsTypeOK, RequestsAgree, Usable
<1> HIDE DEF q
<1>3. q.rotation \notin Consumed
  BY <1>2 DEF Consumed
<1>4. /\ rotations \in [1 .. Len(rotations) -> RotationRows] /\ Len(rotations) \in Nat
      /\ Len(credentials) \in Nat /\ MaxBegun \in Nat /\ DOMAIN rotations = 1 .. Len(rotations)
      /\ DOMAIN credentials = 1 .. Len(credentials)
  BY RowFacts, LenProperties
<1>5. number <= MaxBegun
  <2>1. Len(credentials) <= Len(rotations)
    <3>1. IsFiniteSet(1 .. Len(rotations)) /\ Cardinality(1 .. Len(rotations)) = Len(rotations)
      <4>1. ASSUME NEW n \in Nat PROVE IsFiniteSet(1 .. n) /\ Cardinality(1 .. n) = n
        BY FS_Interval
      <4> QED BY <1>4, <4>1
    <3>2. Consumed \subseteq 1 .. Len(rotations) /\ Consumed # 1 .. Len(rotations)
      BY <1>2, <1>3, <1>4 DEF Consumed
    <3>3. Cardinality(Consumed) < Cardinality(1 .. Len(rotations))
      <4>1. /\ Cardinality(Consumed) <= Cardinality(1 .. Len(rotations))
            /\ Cardinality(Consumed) # Cardinality(1 .. Len(rotations))
        BY <3>1, <3>2, FS_Subset
      <4>2. Cardinality(Consumed) \in Nat
        BY RowFacts, FS_CardinalityType
      <4> QED BY <1>4, <3>1, <4>1, <4>2
    <3>4. Cardinality(Consumed) = Len(credentials) - 1
      BY RowFacts
    <3> QED BY <1>4, <3>1, <3>3, <3>4
  <2>2. starts > 0 /\ starts \in Nat /\ starts + Len(rotations) <= MaxBegun
    <3>1. starts \in Nat /\ creating \in Nat
      BY RowFacts
    <3> QED BY <1>1, <1>4, <3>1 DEF CredentialsInv, WithinBounds
  <2> QED BY <1>4, <2>1, <2>2
<1>6. /\ rotations' \in [1 .. Len(rotations) -> RotationRows]
      /\ \A r \in DOMAIN rotations :
           /\ rotations'[r].replaces = rotations[r].replaces
           /\ r # q.rotation => rotations'[r] = rotations[r]
      /\ rotations'[q.rotation].status = "CONSUMED" /\ rotations'[q.rotation].issued = number
  <2>1. number \in Numbers
    BY <1>4, <1>5 DEF Numbers
  <2> HIDE DEF number
  <2> QED BY <1>1, <1>2, <1>4, <2>1 DEF RotationRows
<1>7. rotations' \in Seq(RotationRows)
  BY <1>4, <1>6, SeqDef
<1>8. Len(rotations') = Len(rotations) /\ DOMAIN rotations' = DOMAIN rotations
  BY <1>4, <1>6, <1>7, LenProperties
<1>9. Consumed' = Consumed \union {q.rotation} /\ StillOpen(rotations') \subseteq StillOpen(rotations)
  BY <1>2, <1>6, <1>8 DEF Consumed, StillOpen
<1>10. Cardinality(StillOpen(rotations')) <= 1
  <2>1. /\ Cardinality(StillOpen(rotations')) <= Cardinality(StillOpen(rotations))
        /\ IsFiniteSet(StillOpen(rotations'))
    BY <1>9, OpenFacts, FS_Subset
  <2> QED BY <2>1, OpenFacts, FS_CardinalityType
<1>11. Unfolds
  BY <1>3, <1>4, <1>6, <1>7, <1>8, <1>10 DEF Unfolds, Consumed
<1>12. /\ credentials' \in Seq(Statuses) /\ Len(credentials') = number
       /\ \A c \in 1 .. Len(credentials) : credentials'[c] = credentials[c]
       /\ credentials'[number] = "ACTIVE"
  <2>1. credentials \in Seq(Statuses) /\ "ACTIVE" \in Statuses
    BY RowFacts DEF Statuses
  <2>2. /\ Append(credentials, "ACTIVE") \in Seq(Statuses)
        /\ Len(Append(credentials, "ACTIVE")) = Len(credentials) + 1
        /\ \A i \in 1 .. Len(credentials) : Append(credentials, "ACTIVE")[i] = credentials[i]
        /\ Append(credentials, "ACTIVE")[Len(credentials) + 1] = "ACTIVE"
    BY <2>1, AppendProperties
  <2> QED BY <1>1, <2>2
<1>13. Fades
  BY <1>4, <1>12 DEF Fades
<1> QED BY <1>1, <1>2, <1>3, <1>4, <1>5, <1>6, <1>8, <1>9, <1>11, <1>12, <1>13 DEF q

\* Together: what every step does to the rows.
LEMMA RowsStep ==
  ASSUME CredentialsInv, CredentialsAssumption, CredentialsNext
  PROVE  /\ Fades /\ Unfolds
         /\ \A r \in Consumed' : r \in Consumed \/ rotations'[r].issued = Len(credentials) + 1
         /\ \A r \in DOMAIN rotations' :
              r \in DOMAIN rotations \/ (creating # 0 /\ rotations'[r].replaces = creating)
<1> DEFINE Goal == /\ Fades /\ Unfolds
                   /\ \A r \in Consumed' : r \in Consumed \/ rotations'[r].issued = Len(credentials) + 1
                   /\ \A r \in DOMAIN rotations' :
                        r \in DOMAIN rotations \/ (creating # 0 /\ rotations'[r].replaces = creating)
<1> SUFFICES Goal
  OBVIOUS
<1>1. UNCHANGED credentials => Fades
  BY RowFacts DEF Fades
<1>2. UNCHANGED rotations => Unfolds /\ Consumed' = Consumed
  BY RowFacts, OpenFacts DEF Unfolds, Consumed
<1>3. UNCHANGED rowVars => Goal
  BY <1>1, <1>2 DEF rowVars
<1>4. CASE CreateRotation
  <2>1. CASE rotations' = rotations
    BY <1>1, <1>2, <1>4, <2>1 DEF CreateRotation
  <2>2. CASE rotations' # rotations
    BY <1>1, <1>4, <2>2, Creates
  <2> QED BY <2>1, <2>2
<1>5. CASE \E r \in Credentials : EndRotation(r)
  BY <1>1, <1>5, EndsRotation
<1>6. CASE \E c \in Credentials : RevokeCredential(c)
  BY <1>2, <1>6, Revokes
<1>7. CASE Retire
  BY <1>7, Retires
<1>8. CASE Inserts
  BY <1>8, Issues
<1>9. CASE \E h \in hellos : Activate(h)
  BY <1>2, <1>9, Activates
<1>10. CASE \/ Disable \/ Enable \/ CreateSees \/ Reads \/ RotateFails \/ Replace \/ RotationFails
            \/ Unlock \/ Ends \/ RemoveLock
  <2>1. UNCHANGED rowVars
    BY <1>10 DEF Disable, Enable, CreateSees, Reads, RollBack, RotateFails, Replace, RotationFails,
       Unlock, Ends, RemoveLock, rowVars
  <2> QED BY <1>3, <2>1
<1>11. CASE \/ (\E e \in ending : Checks(e) \/ Disconnects(e)) \/ (\E q \in asked : Claim(q))
            \/ (\E token \in Numbers : Start(token)) \/ Connect
            \/ (\E h \in hellos : Abandon(h) \/ Authenticate(h) \/ Accept(h) \/ Connected(h))
            \/ SweepReads \/ SweepCloses \/ LoseConnection \/ RestartBackend
  <2>1. UNCHANGED rowVars
    BY <1>11 DEF Checks, Disconnects, Claim, Start, Connect, Abandon, Authenticate, Accept,
       Proceeds, Connected, SweepReads, SweepCloses, LoseConnection, RestartBackend, rowVars
  <2> QED BY <1>3, <2>1
<1> HIDE DEF Goal
<1> QED BY <1>4, <1>5, <1>6, <1>7, <1>8, <1>9, <1>10, <1>11 DEF CredentialsNext

\* A predecessor once inactive stays so, and an issued credential gets no other predecessor.
LEMMA SettledStays ==
  ASSUME CredentialsInv, CredentialsAssumption, CredentialsNext, NEW c, Settled(c)
  PROVE  Settled(c)'
<1>1. /\ Len(credentials) \in Nat /\ DOMAIN credentials = 1 .. Len(credentials)
      /\ Len(credentials') \in Nat /\ DOMAIN credentials' = 1 .. Len(credentials')
      /\ Len(credentials') >= Len(credentials)
      /\ \A k \in DOMAIN credentials : credentials'[k] = "ACTIVE" => credentials[k] = "ACTIVE"
  BY RowFacts, RowsStep, LenProperties DEF Fades
<1>2. c \in DOMAIN credentials /\ c # Len(credentials) + 1 /\ c \in DOMAIN credentials'
  BY <1>1 DEF Settled
<1>3. ASSUME NEW p \in Predecessors(c)', p \in Active'
      PROVE  FALSE
  <2>1. PICK r \in Consumed' : rotations'[r].issued = c /\ rotations'[r].replaces = p
    BY <1>3 DEF Predecessors
  <2>2. r \in Consumed
    BY <1>2, <2>1, RowsStep
  <2>3. r \in DOMAIN rotations /\ rotations[r].issued = c /\ rotations[r].replaces = p
    BY <2>1, <2>2, RowsStep DEF Unfolds, Consumed
  <2>4. p \in Predecessors(c)
    BY <2>2, <2>3 DEF Predecessors
  <2>5. p \in DOMAIN credentials
    BY <2>3 DEF CredentialsInv, SuccessionAgrees, Settled
  <2>6. p \in Active
    BY <1>1, <1>3, <2>5 DEF Active
  <2> QED BY <2>4, <2>6 DEF Settled
<1> QED BY <1>2, <1>3 DEF Settled

\* Only a handshake rotates a credential away.
LEMMA RotatedStep ==
  ASSUME CredentialsInv, CredentialsAssumption, CredentialsNext,
         NEW c \in DOMAIN credentials', credentials'[c] = "ROTATED"
  PROVE  \/ c \in DOMAIN credentials /\ credentials[c] = "ROTATED"
         \/ \E h \in hellos : c \in Predecessors(h.credential)
<1>1. CASE UNCHANGED credentials
  BY <1>1
<1>2. CASE \E k \in Credentials : RevokeCredential(k)
  <2>1. PICK k \in Credentials : RevokeCredential(k)
    BY <1>2
  <2>2. DOMAIN credentials' = DOMAIN credentials
    BY <2>1, Revokes, RowFacts, LenProperties DEF Fades
  <2> QED BY <2>1, <2>2, Revokes
<1>3. CASE Retire
  <2>1. DOMAIN credentials' = DOMAIN credentials
    BY <1>3, Retires, RowFacts, LenProperties DEF Fades
  <2> QED BY <1>3, <2>1, Retires
<1>4. CASE Inserts
  <2>1. DOMAIN credentials' = 1 .. Len(credentials) + 1 /\ DOMAIN credentials = 1 .. Len(credentials)
        /\ Len(credentials) \in Nat
    BY <1>4, Issues, RowFacts, LenProperties DEF Fades
  <2>2. c \in DOMAIN credentials \/ c = Len(credentials) + 1
    BY <2>1
  <2> QED BY <1>4, <2>2, Issues
<1>5. CASE \E h \in hellos : Activate(h)
  <2>1. PICK h \in hellos : Activate(h)
    BY <1>5
  <2>2. DOMAIN credentials' = DOMAIN credentials
    BY <2>1, Activates, RowFacts, LenProperties DEF Fades
  <2> QED BY <2>1, <2>2, Activates
<1>6. CASE \/ CreateRotation \/ (\E r \in Credentials : EndRotation(r)) \/ Disable \/ Enable
           \/ CreateSees \/ Reads \/ RotateFails \/ Replace \/ RotationFails \/ Unlock \/ Ends
           \/ RemoveLock
  <2>1. UNCHANGED credentials
    BY <1>6 DEF CreateRotation, EndRotation, Disable, Enable, CreateSees, Reads, RollBack,
       RotateFails, Replace, RotationFails, Unlock, Ends, RemoveLock, rowVars
  <2> QED BY <1>1, <2>1
<1>7. CASE \/ (\E e \in ending : Checks(e) \/ Disconnects(e)) \/ (\E q \in asked : Claim(q))
           \/ (\E token \in Numbers : Start(token)) \/ Connect
           \/ (\E h \in hellos : Abandon(h) \/ Authenticate(h) \/ Accept(h) \/ Connected(h))
           \/ SweepReads \/ SweepCloses \/ LoseConnection \/ RestartBackend
  <2>1. UNCHANGED credentials
    BY <1>7 DEF Checks, Disconnects, Claim, Start, Connect, Abandon, Authenticate, Accept, Proceeds,
       Connected, SweepReads, SweepCloses, LoseConnection, RestartBackend, rowVars
  <2> QED BY <1>1, <2>1
<1> QED BY <1>2, <1>3, <1>4, <1>5, <1>6, <1>7 DEF CredentialsNext

\* The identity file only changes to a newer credential.
LEMMA IdentityStep ==
  ASSUME CredentialsInv, CredentialsAssumption, CredentialsNext
  PROVE  /\ identity' = identity \/ Replace
         /\ identity' \in DOMAIN credentials /\ identity' >= identity
<1>1. identity' = identity \/ Replace
  <2>1. CASE \/ CreateRotation \/ (\E r \in Credentials : EndRotation(r)) \/ Disable \/ Enable
             \/ CreateSees \/ Retire \/ (\E k \in Credentials : RevokeCredential(k)) \/ Inserts
             \/ Reads \/ RotateFails \/ RotationFails \/ Unlock \/ Ends \/ RemoveLock
    BY <2>1 DEF CreateRotation, EndRotation, Disable, Enable, CreateSees, Retire, RevokeCredential,
       Inserts, Reads, RollBack, RotateFails, RotationFails, Unlock, Ends, RemoveLock, identityVars
  <2>2. CASE \/ (\E e \in ending : Checks(e) \/ Disconnects(e)) \/ (\E q \in asked : Claim(q))
             \/ (\E token \in Numbers : Start(token)) \/ Connect
             \/ (\E h \in hellos : Abandon(h) \/ Authenticate(h) \/ Accept(h) \/ Activate(h) \/ Connected(h))
             \/ SweepReads \/ SweepCloses \/ LoseConnection \/ RestartBackend
    BY <2>2 DEF Checks, Disconnects, Claim, Start, Connect, Abandon, Authenticate, Accept, Activate,
       Proceeds, Connected, SweepReads, SweepCloses, LoseConnection, RestartBackend, identityVars
  <2> QED BY <2>1, <2>2 DEF CredentialsNext
<1>2. identity \in DOMAIN credentials /\ DOMAIN credentials = 1 .. Len(credentials)
      /\ Len(credentials) \in Nat
  BY RowFacts DEF CredentialsInv, CredentialsTypeOK
<1>3. Replace => identity' \in identity + 1 .. Len(credentials)
  BY DEF Replace, CredentialsInv, IdentityAgrees
<1> QED BY <1>1, <1>2, <1>3

\* A handshake keeps its credential, which is the identity it began with.
LEMMA HellosStep ==
  ASSUME CredentialsInv, CredentialsAssumption, CredentialsNext, NEW h \in hellos'
  PROVE  \/ h.credential = identity /\ h.step = "ARRIVED"
         \/ \E k \in hellos : h.credential = k.credential /\ h.step = k.step
         \/ \E k \in hellos : /\ h.credential = k.credential
                              /\ h.step = "ACTIVATED" => Activate(k)
<1>1. CASE Connect
  BY <1>1 DEF Connect
<1>2. CASE \E k \in hellos : Authenticate(k) \/ Accept(k) \/ Activate(k)
  <2>1. PICK k \in hellos : Authenticate(k) \/ Accept(k) \/ Activate(k)
    BY <1>2
  <2>2. k \in [credential : Credentials, start : Numbers,
               step : {"ARRIVED", "AUTHENTICATED", "ACCEPTED", "ACTIVATED"}]
    BY DEF CredentialsInv, CredentialsTypeOK
  <2>3. CASE Authenticate(k)
    BY <2>2, <2>3 DEF Abandon, Authenticate, Proceeds
  <2>4. CASE Accept(k)
    BY <2>2, <2>4 DEF Accept, Proceeds
  <2>5. CASE Activate(k)
    BY <2>2, <2>5 DEF Activate, Proceeds
  <2> QED BY <2>1, <2>3, <2>4, <2>5
<1>7. CASE \E k \in hellos : Abandon(k)
  <2>1. PICK k \in hellos : Abandon(k)
    BY <1>7
  <2>2. k \in [credential : Credentials, start : Numbers,
               step : {"ARRIVED", "AUTHENTICATED", "ACCEPTED", "ACTIVATED"}]
    BY DEF CredentialsInv, CredentialsTypeOK
  <2>3. h \in hellos \/ h = [k EXCEPT !.start = 0]
    BY <2>1 DEF Abandon
  <2> QED BY <2>2, <2>3
<1>3. CASE \E k \in hellos : Connected(k)
  BY <1>3 DEF Connected
<1>4. CASE RestartBackend
  BY <1>4 DEF RestartBackend
<1>5. CASE \/ CreateRotation \/ (\E r \in Credentials : EndRotation(r)) \/ Disable \/ Enable
           \/ CreateSees \/ Retire \/ (\E c \in Credentials : RevokeCredential(c)) \/ Inserts
           \/ Reads \/ RotateFails \/ Replace \/ RotationFails \/ Unlock \/ RemoveLock
  BY <1>5 DEF CreateRotation, EndRotation, Disable, Enable, CreateSees, Retire, RevokeCredential,
     Inserts, Reads, RollBack, RotateFails, Replace, RotationFails, Unlock, RemoveLock, channelVars
<1>6. CASE \/ (\E e \in ending : Checks(e) \/ Disconnects(e)) \/ (\E q \in asked : Claim(q))
           \/ (\E token \in Numbers : Start(token)) \/ Ends \/ SweepReads \/ SweepCloses
           \/ LoseConnection
  BY <1>6 DEF Checks, Disconnects, Claim, Start, Ends, SweepReads, SweepCloses, LoseConnection,
     channelVars
<1> QED BY <1>1, <1>2, <1>3, <1>4, <1>5, <1>6, <1>7 DEF CredentialsNext

\* An answer is about the credential that was just issued.
LEMMA AnswersStep ==
  ASSUME CredentialsInv, CredentialsAssumption, CredentialsNext
  PROVE  /\ process'.token <= Len(rotations')
         /\ process'.step = "ANSWERED" => process'.answer \in identity' + 1 .. Len(credentials')
<1> DEFINE Goal == /\ process'.token <= Len(rotations')
                   /\ process'.step = "ANSWERED" =>
                        process'.answer \in identity' + 1 .. Len(credentials')
<1> SUFFICES Goal
  OBVIOUS
<1>1. /\ Len(rotations) \in Nat /\ Len(rotations') \in Nat /\ Len(rotations') >= Len(rotations)
      /\ Len(credentials) \in Nat /\ Len(credentials') \in Nat
      /\ Len(credentials') >= Len(credentials)
  BY RowFacts, RowsStep, LenProperties DEF Fades, Unfolds
<1>2. /\ process \in [step : {"DOWN", "WAITING", "ANSWERED", "REPLACED", "FAILED", "UP", "CLOSED"},
                      token : Numbers, answer : Numbers]
      /\ process.token <= Len(rotations)
      /\ process.step = "ANSWERED" => process.answer \in identity + 1 .. Len(credentials)
      /\ identity \in Nat /\ process.token \in Nat /\ process.answer \in Nat
  BY RowFacts DEF CredentialsInv, CredentialsTypeOK, IdentityAgrees, Numbers
<1>3. CASE UNCHANGED <<process, identity>>
  BY <1>1, <1>2, <1>3
<1>4. CASE \E token \in Numbers : Start(token)
  <2>1. process'.token \in 0 .. Len(rotations) /\ process'.step # "ANSWERED"
    BY <1>1, <1>4 DEF Start, Up, Down
  <2> QED BY <1>1, <2>1
<1>5. CASE Replace \/ RotationFails
  <2>1. process'.token = process.token /\ process'.step # "ANSWERED"
    BY <1>2, <1>5 DEF Replace, RotationFails
  <2> QED BY <1>1, <1>2, <2>1
<1>6. CASE Reads \/ RotateFails \/ (\E q \in asked : Claim(q))
  <2>1. process'.token = process.token /\ UNCHANGED identity
    BY <1>2, <1>6 DEF Reads, RotateFails, RollBack, Claim, Answered, identityVars
  <2>2. process'.step = "ANSWERED" => process'.answer = process.answer /\ process.step = "ANSWERED"
    BY <1>2, <1>6 DEF Reads, RotateFails, RollBack, Claim, Answered, identityVars
  <2> QED BY <1>1, <1>2, <2>1, <2>2
<1>7. CASE Inserts
  <2>1. process'.token = process.token /\ UNCHANGED identity
    BY <1>2, <1>7 DEF Inserts, Answered
  <2>2. process'.step = "ANSWERED" =>
          \/ process'.answer = process.answer /\ process.step = "ANSWERED"
          \/ process'.answer = Len(credentials) + 1
    BY <1>2, <1>7 DEF Inserts, Answered
  <2>3. Len(credentials') = Len(credentials) + 1
    BY <1>7, Issues
  <2>4. identity <= Len(credentials)
    BY RowFacts DEF CredentialsInv, CredentialsTypeOK
  <2> QED BY <1>1, <1>2, <2>1, <2>2, <2>3, <2>4
<1>8. CASE \/ CreateRotation \/ (\E r \in Credentials : EndRotation(r)) \/ Disable \/ Enable
           \/ CreateSees \/ Retire \/ (\E c \in Credentials : RevokeCredential(c)) \/ RemoveLock
  BY <1>3, <1>8 DEF CreateRotation, EndRotation, Disable, Enable, CreateSees, Retire,
     RevokeCredential, RemoveLock, identityVars
<1>9. CASE \/ (\E e \in ending : Checks(e)) \/ Connect \/ SweepReads \/ LoseConnection
           \/ (\E h \in hellos : Abandon(h) \/ Authenticate(h) \/ Accept(h) \/ Activate(h))
  BY <1>3, <1>9 DEF Checks, Connect, SweepReads, LoseConnection, Abandon, Authenticate, Accept,
     Activate, Proceeds, identityVars
<1>12. CASE (\E e \in ending : Disconnects(e)) \/ SweepCloses \/ (\E h \in hellos : Connected(h))
  <2>1. process' \in {process, Closed} /\ UNCHANGED identity
    BY <1>12 DEF Disconnects, SweepCloses, Connected, Closes
  <2>2. Closed.token = 0 /\ Closed.step # "ANSWERED"
    BY DEF Closed, Down
  <2> QED BY <1>1, <1>2, <2>1, <2>2
<1>10. CASE Unlock \/ Ends
  <2>1. process'.token = 0 /\ process'.step # "ANSWERED"
    BY <1>10 DEF Unlock, Ends, Up, Down
  <2> QED BY <1>1, <2>1
<1>11. CASE RestartBackend
  <2>1. process' \in {process, [process EXCEPT !.step = "FAILED"]} /\ UNCHANGED identity
    BY <1>11 DEF RestartBackend
  <2>2. /\ process'.token = process.token
        /\ process'.step = "ANSWERED" => process' = process
    BY <1>2, <2>1
  <2> QED BY <1>1, <1>2, <2>1, <2>2
<1> HIDE DEF Goal
<1> QED BY <1>4, <1>5, <1>6, <1>7, <1>8, <1>9, <1>10, <1>11, <1>12 DEF CredentialsNext

\* What was rotated away is behind the identity before and after.
LEMMA IdentityAgreesStep ==
  ASSUME CredentialsInv, CredentialsAssumption, CredentialsNext
  PROVE  IdentityAgrees'
<1>1. /\ identity \in Nat /\ identity' \in Nat /\ identity' >= identity
  BY RowFacts, IdentityStep DEF CredentialsInv, CredentialsTypeOK
<1>2. ASSUME NEW h \in hellos' PROVE h.credential <= identity'
  <2>1. h.credential = identity \/ \E k \in hellos : h.credential = k.credential
    BY HellosStep
  <2>2. h.credential \in Nat /\ h.credential <= identity
    BY <1>1, <2>1 DEF CredentialsInv, CredentialsTypeOK, IdentityAgrees, Credentials
  <2> QED BY <1>1, <2>2
<1>3. ASSUME NEW c \in DOMAIN credentials', credentials'[c] = "ROTATED" PROVE c < identity'
  <2>1. CASE c \in DOMAIN credentials /\ credentials[c] = "ROTATED"
    <3>1. c < identity /\ c \in Nat
      BY <2>1, RowFacts DEF CredentialsInv, IdentityAgrees
    <3> QED BY <1>1, <3>1
  <2>2. CASE \E h \in hellos : c \in Predecessors(h.credential)
    <3>1. PICK h \in hellos, r \in Consumed : rotations[r].issued = h.credential
                                              /\ rotations[r].replaces = c
      BY <2>2 DEF Predecessors
    <3>2. c < h.credential
      BY <3>1 DEF CredentialsInv, SuccessionAgrees
    <3>4. h.credential <= identity
      BY DEF CredentialsInv, IdentityAgrees
    <3>3. c \in Nat /\ h.credential \in Nat
      <4>1. r \in DOMAIN rotations /\ rotations[r] \in RotationRows
        BY <3>1, RowFacts DEF Consumed
      <4>2. h.credential \in Credentials
        BY DEF CredentialsInv, CredentialsTypeOK
      <4> QED BY <3>1, <4>1, <4>2 DEF Credentials, RotationRows
    <3> QED BY <1>1, <3>2, <3>3, <3>4
  <2> QED BY <1>3, <2>1, <2>2, RotatedStep
<1> QED BY <1>2, <1>3, AnswersStep DEF IdentityAgrees

\* Where a connection and a new rotation's credential come from.
LEMMA SourcesStep ==
  ASSUME CredentialsInv, CredentialsAssumption, CredentialsNext
  PROVE  /\ creating' # 0 => \/ creating' = creating
                             \/ connection # Nobody /\ creating' = connection.credential
         /\ connection' # Nobody => \/ connection' = connection
                                    \/ \E h \in hellos : /\ h.step = "ACTIVATED"
                                                         /\ connection'.credential = h.credential
<1>1. CASE \/ CreateRotation \/ (\E r \in Credentials : EndRotation(r)) \/ Disable \/ Enable
           \/ Retire \/ (\E c \in Credentials : RevokeCredential(c)) \/ Inserts
           \/ Reads \/ RotateFails \/ Replace \/ RotationFails \/ Unlock \/ RemoveLock
  BY <1>1 DEF CreateRotation, EndRotation, Disable, Enable, Retire, RevokeCredential,
     Inserts, Reads, RollBack, RotateFails, Replace, RotationFails, Unlock, RemoveLock, channelVars,
     adminVars
<1>2. CASE \/ (\E e \in ending : Checks(e) \/ Disconnects(e)) \/ (\E q \in asked : Claim(q))
           \/ (\E token \in Numbers : Start(token)) \/ Ends \/ SweepReads \/ SweepCloses
           \/ LoseConnection \/ Connect \/ RestartBackend
  BY <1>2 DEF Checks, Disconnects, Claim, Start, Ends, SweepReads, SweepCloses, LoseConnection,
     Connect, RestartBackend, channelVars, adminVars
<1>3. CASE \E h \in hellos : Abandon(h) \/ Authenticate(h) \/ Accept(h) \/ Activate(h)
  BY <1>3 DEF Abandon, Authenticate, Accept, Activate, Proceeds, adminVars
<1>4. CASE \E h \in hellos : Connected(h)
  BY <1>4 DEF Connected, adminVars
<1>5. CASE CreateSees
  BY <1>5 DEF CreateSees, Open, channelVars
<1> QED BY <1>1, <1>2, <1>3, <1>4, <1>5 DEF CredentialsNext

\* What has connected stays ahead of what it replaced.
LEMMA SuccessionStep ==
  ASSUME CredentialsInv, CredentialsAssumption, CredentialsNext
  PROVE  SuccessionAgrees'
<1>1. /\ Len(credentials) \in Nat /\ DOMAIN credentials = 1 .. Len(credentials)
  BY RowFacts
<1>2. ASSUME NEW r \in DOMAIN rotations' PROVE Settled(rotations'[r].replaces)
  BY RowsStep DEF Unfolds, CredentialsInv, SuccessionAgrees
<1>3. ASSUME NEW r \in DOMAIN rotations' PROVE Settled(rotations[r].replaces)'
  <2>1. ASSUME NEW c, c = rotations'[r].replaces PROVE Settled(c)'
    BY <1>2, <1>3, <2>1, SettledStays
  <2> QED BY <2>1 DEF Settled, Predecessors
<1>4. ASSUME NEW r \in Consumed' PROVE rotations'[r].replaces < rotations'[r].issued
  <2>1. CASE r \in Consumed
    BY <2>1, RowsStep DEF Unfolds, Consumed, CredentialsInv, SuccessionAgrees
  <2>2. CASE rotations'[r].issued = Len(credentials) + 1
    <3>1. rotations'[r].replaces \in 1 .. Len(credentials)
      BY <1>1, <1>2 DEF Consumed, Settled
    <3> QED BY <1>1, <2>2, <3>1
  <2> QED BY <2>1, <2>2, RowsStep
<1>5. ASSUME NEW c \in DOMAIN credentials', credentials'[c] = "ROTATED"
      PROVE  \E r \in DOMAIN rotations' : rotations'[r].replaces = c
  <2>1. PICK r \in DOMAIN rotations : rotations[r].replaces = c
    <3>1. CASE c \in DOMAIN credentials /\ credentials[c] = "ROTATED"
      BY <3>1 DEF CredentialsInv, SuccessionAgrees
    <3>2. CASE \E h \in hellos : c \in Predecessors(h.credential)
      BY <3>2 DEF Predecessors, Consumed
    <3> QED BY <1>5, <3>1, <3>2, RotatedStep
  <2>2. r \in DOMAIN rotations'
    BY RowFacts, RowsStep, LenProperties DEF Unfolds
  <2> QED BY <2>1, <2>2, RowsStep DEF Unfolds
<1>6. (creating # 0 => Settled(creating))'
  <2>1. creating' # 0 => Settled(creating')
    BY SourcesStep DEF CredentialsInv, SuccessionAgrees
  <2>2. ASSUME NEW c, creating' # 0, c = creating' PROVE Settled(c)'
    BY <2>1, <2>2, SettledStays
  <2> QED BY <2>2 DEF Settled, Predecessors
<1>7. (connection # Nobody => Settled(connection.credential))'
  <2>1. connection' # Nobody => Settled(connection'.credential)
    BY SourcesStep DEF CredentialsInv, SuccessionAgrees
  <2>2. ASSUME NEW c, connection' # Nobody, c = connection'.credential PROVE Settled(c)'
    BY <2>1, <2>2, SettledStays
  <2> QED BY <2>2 DEF Settled, Predecessors
<1>8. ASSUME NEW h \in hellos', h.step = "ACTIVATED" PROVE Settled(h.credential)'
  <2>1. CASE \E k \in hellos : h.credential = k.credential /\ h.step = k.step
    BY <1>8, <2>1, SettledStays DEF CredentialsInv, SuccessionAgrees
  <2>2. CASE \E k \in hellos : h.credential = k.credential /\ Activate(k)
    <3>1. PICK k \in hellos : h.credential = k.credential /\ Activate(k)
      BY <2>2
    <3>2. /\ UNCHANGED rotations /\ Len(credentials') = Len(credentials)
          /\ \A c \in DOMAIN credentials :
               credentials'[c] = IF c \in Predecessors(k.credential) \intersect Active
                                 THEN "ROTATED" ELSE credentials[c]
          /\ DOMAIN credentials' = DOMAIN credentials
      BY <1>1, <3>1, Activates, LenProperties DEF Fades
    <3>3. k.credential \in DOMAIN credentials
      <4>1. k.credential \in Nat \ {0} /\ k.credential <= identity /\ identity \in 1 .. Len(credentials)
        BY <1>1 DEF CredentialsInv, CredentialsTypeOK, IdentityAgrees, Credentials
      <4> QED BY <1>1, <4>1
    <3>4. Predecessors(k.credential)' = Predecessors(k.credential)
      BY <3>2 DEF Predecessors, Consumed
    <3>5. Predecessors(k.credential) \intersect Active' = {}
      BY <3>2 DEF Active
    <3> QED BY <3>1, <3>2, <3>3, <3>4, <3>5 DEF Settled
  <2> QED BY <1>8, <2>1, <2>2, HellosStep
<1> QED BY <1>3, <1>4, <1>5, <1>6, <1>7, <1>8 DEF SuccessionAgrees

\* No step begins more than the bound allows.
LEMMA BoundsStep ==
  ASSUME CredentialsInv, CredentialsAssumption, CredentialsNext
  PROVE  starts' + Len(rotations') + (IF creating' = 0 THEN 0 ELSE 1) <= MaxBegun
<1>1. CASE CreateSees
  <2>1. UNCHANGED <<starts, rotations>> /\ starts + Len(rotations) < MaxBegun
    BY <1>1, RowFacts DEF CreateSees, MayBegin, rowVars, identityVars
  <2> QED BY <2>1, RowFacts
<1>2. CASE CreateRotation
  <2>1. starts' = starts /\ creating' = 0 /\ creating # 0
    BY <1>2 DEF CreateRotation, identityVars
  <2>2. Len(rotations') = Len(rotations) \/ Len(rotations') = Len(rotations) + 1
    BY <1>2, Creates
  <2> QED BY <2>1, <2>2, RowFacts DEF CredentialsInv, WithinBounds
<1>3. CASE (\E r \in Credentials : EndRotation(r)) \/ Retire \/ Inserts
  <2>1. UNCHANGED <<starts, creating>>
    BY <1>3 DEF EndRotation, Retire, Inserts, adminVars, identityVars
  <2>2. Len(rotations') = Len(rotations)
    BY <1>3, EndsRotation, Retires, Issues
  <2> QED BY <2>1, <2>2 DEF CredentialsInv, WithinBounds
<1>4. CASE \E token \in Numbers : Start(token)
  <2>1. /\ UNCHANGED <<creating, rotations>> /\ starts' = starts + 1
        /\ starts + Len(rotations) + (IF creating = 0 THEN 0 ELSE 1) < MaxBegun
    BY <1>4 DEF Start, MayBegin, rowVars, adminVars
  <2> QED BY <2>1, RowFacts
<1>5. CASE RestartBackend
  <2>1. UNCHANGED <<starts, rotations>> /\ creating' = 0
    BY <1>5 DEF RestartBackend, rowVars
  <2> QED BY <2>1, RowFacts DEF CredentialsInv, WithinBounds
<1>6. CASE \/ (\E c \in Credentials : RevokeCredential(c)) \/ Disable \/ Enable
           \/ (\E e \in ending : Checks(e)) \/ (\E e \in ending : Disconnects(e))
           \/ (\E q \in asked : Claim(q)) \/ Reads \/ RotateFails \/ Replace \/ RotationFails
           \/ Unlock \/ Ends \/ RemoveLock
  BY <1>6 DEF RevokeCredential, Disable, Enable, Checks, Disconnects, Claim, Reads, RollBack,
     RotateFails, Replace, RotationFails, Unlock, Ends, RemoveLock, CredentialsInv, WithinBounds,
     adminVars, rowVars, requestVars, identityVars, channelVars
<1>7. CASE \/ Connect \/ (\E h \in hellos : Abandon(h)) \/ (\E h \in hellos : Authenticate(h))
           \/ (\E h \in hellos : Accept(h)) \/ (\E h \in hellos : Activate(h))
           \/ (\E h \in hellos : Connected(h)) \/ SweepReads \/ SweepCloses \/ LoseConnection
  BY <1>7 DEF Connect, Abandon, Authenticate, Proceeds, Accept, Activate, Connected, SweepReads,
     SweepCloses, LoseConnection, CredentialsInv, WithinBounds, adminVars, rowVars, requestVars,
     identityVars, channelVars
<1> QED BY <1>1, <1>2, <1>3, <1>4, <1>5, <1>6, <1>7 DEF CredentialsNext

\* A process asks for a rotation that exists, with the credential it has.
LEMMA AskedStep ==
  ASSUME CredentialsInv, CredentialsAssumption, CredentialsNext
  PROVE  \A q \in asked' : /\ q \in Requests /\ q.rotation \in DOMAIN rotations
                           /\ q.current \in DOMAIN credentials /\ starts' > 0
<1>1. CASE \E token \in Numbers : Start(token)
  <2>1. PICK token \in Numbers : Start(token)
    BY <1>1
  <2> DEFINE q == [rotation |-> token, current |-> identity, start |-> starts + 1]
  <2>2. ASSUME token # 0
        PROVE  q \in Requests /\ token \in DOMAIN rotations /\ identity \in DOMAIN credentials
    <3>1. token \in 1 .. Len(rotations) /\ token \in Credentials
      BY <2>1, <2>2, RowFacts DEF Start, Credentials
    <3>2. identity \in DOMAIN credentials /\ identity \in Credentials
      BY RowFacts DEF Credentials, CredentialsInv, CredentialsTypeOK
    <3>3. starts + 1 \in Numbers
      BY <2>1, RowFacts DEF Start, MayBegin, Numbers
    <3> QED BY <3>1, <3>2, <3>3, RowFacts DEF Requests
  <2>3. asked' = asked \/ (asked' = asked \union {q} /\ token # 0)
    BY <2>1 DEF Start
  <2>4. starts' > 0
    BY <2>1, RowFacts DEF Start
  <2> HIDE DEF q
  <2>5. \A x \in asked : /\ x \in Requests /\ x.rotation \in DOMAIN rotations
                         /\ x.current \in DOMAIN credentials
    BY DEF CredentialsInv, CredentialsTypeOK, RequestsAgree
  <2>6. q.rotation = token /\ q.current = identity
    BY DEF q
  <2> QED BY <2>2, <2>3, <2>4, <2>5, <2>6
<1>2. CASE \/ CreateSees \/ CreateRotation \/ (\E r \in Credentials : EndRotation(r))
           \/ (\E c \in Credentials : RevokeCredential(c)) \/ Disable \/ Enable \/ Retire
           \/ (\E e \in ending : Checks(e)) \/ (\E e \in ending : Disconnects(e))
           \/ (\E q \in asked : Claim(q)) \/ Reads \/ Inserts \/ RotateFails
  BY <1>2 DEF CreateSees, CreateRotation, EndRotation, RevokeCredential, Disable, Enable, Retire,
     Checks, Disconnects, Claim, Reads, RollBack, Inserts, RotateFails, CredentialsInv,
     CredentialsTypeOK, RequestsAgree, WithinBounds, adminVars, rowVars, requestVars, identityVars,
     channelVars
<1>3. CASE \/ Replace \/ RotationFails \/ Unlock \/ Ends \/ RemoveLock \/ Connect
           \/ (\E h \in hellos : Abandon(h)) \/ (\E h \in hellos : Authenticate(h))
           \/ (\E h \in hellos : Accept(h)) \/ (\E h \in hellos : Activate(h))
           \/ (\E h \in hellos : Connected(h)) \/ SweepReads \/ SweepCloses \/ LoseConnection
           \/ RestartBackend
  BY <1>3 DEF Replace, RotationFails, Unlock, Ends, RemoveLock, Connect, Abandon, Authenticate,
     Proceeds, Accept, Activate, Connected, SweepReads, SweepCloses, LoseConnection, RestartBackend,
     CredentialsInv, CredentialsTypeOK, RequestsAgree, WithinBounds, adminVars, rowVars,
     requestVars, identityVars, channelVars
<1> QED BY <1>1, <1>2, <1>3 DEF CredentialsNext

\* What is known of the rotation that is being used.
LEMMA Held ==
  ASSUME CredentialsInv, claim # Nobody
  PROVE  /\ claim \in [step : {"CLAIMED", "READ"}, request : Requests]
         /\ claim.request.rotation \in DOMAIN rotations
         /\ claim.request.current \in DOMAIN credentials
         /\ Usable(claim.request) /\ starts > 0
BY DEF CredentialsInv, CredentialsTypeOK, RequestsAgree, WithinBounds

\* The rotation that is being used stays usable until its transaction is over.
LEMMA ClaimStep ==
  ASSUME CredentialsInv, CredentialsAssumption, CredentialsNext
  PROVE  claim' # Nobody =>
           /\ claim' \in [step : {"CLAIMED", "READ"}, request : Requests]
           /\ claim'.request.rotation \in DOMAIN rotations
           /\ claim'.request.current \in DOMAIN credentials
           /\ rotations'[claim'.request.rotation] = rotations[claim'.request.rotation]
           /\ Usable(claim'.request) /\ starts' > 0
<1>1. CASE CreateRotation
  <2>1. UNCHANGED <<claim, starts>> /\ (claim # Nobody => rotations' = rotations)
    BY <1>1, Creates DEF CreateRotation, requestVars, identityVars
  <2> QED BY <2>1, Held
<1>2. CASE \E r \in Credentials : EndRotation(r)
  <2>1. PICK r \in Credentials : EndRotation(r)
    BY <1>2
  <2>2. /\ UNCHANGED <<claim, starts>> /\ r \in DOMAIN rotations
        /\ rotations' = [rotations EXCEPT ![r].status = "REVOKED"]
        /\ claim # Nobody => claim.request.rotation # r
    BY <2>1 DEF EndRotation, requestVars, identityVars
  <2> QED BY <2>2, Held
<1>3. CASE Retire \/ Inserts \/ RestartBackend \/ RotateFails
  BY <1>3 DEF Retire, Inserts, RestartBackend, RotateFails, RollBack, requestVars
<1>4. CASE \E q \in asked : Claim(q)
  <2>1. PICK q \in asked : Claim(q)
    BY <1>4
  <2>2. CASE ~ Usable(q)
    BY <2>1, <2>2 DEF Claim
  <2>3. CASE Usable(q)
    <3>1. claim' = [step |-> "CLAIMED", request |-> q] /\ UNCHANGED <<rotations, starts>>
      BY <2>1, <2>3 DEF Claim, rowVars
    <3>2. /\ q \in Requests /\ q.rotation \in DOMAIN rotations /\ q.current \in DOMAIN credentials
          /\ starts > 0
      BY DEF CredentialsInv, CredentialsTypeOK, RequestsAgree, WithinBounds
    <3> QED BY <2>3, <3>1, <3>2
  <2> QED BY <2>2, <2>3
<1>5. CASE Reads
  <2>1. /\ claim' = Nobody \/ claim' = [claim EXCEPT !.step = "READ"]
        /\ UNCHANGED <<rotations, starts>> /\ claim # Nobody
    BY <1>5 DEF Reads, RollBack, rowVars, identityVars
  <2> QED BY <2>1, Held
<1>6. CASE \E token \in Numbers : Start(token)
  <2>1. UNCHANGED <<claim, rotations>> /\ starts' = starts + 1 /\ starts \in Nat
    BY <1>6, RowFacts DEF Start, rowVars
  <2> QED BY <2>1, Held
<1>7. CASE \/ CreateSees \/ (\E c \in Credentials : RevokeCredential(c)) \/ Disable \/ Enable
           \/ (\E e \in ending : Checks(e)) \/ (\E e \in ending : Disconnects(e)) \/ Replace
           \/ RotationFails \/ Unlock \/ Ends \/ RemoveLock \/ Connect
           \/ (\E h \in hellos : Abandon(h)) \/ (\E h \in hellos : Authenticate(h))
  BY <1>7, Held DEF CreateSees, RevokeCredential, Disable, Enable, Checks, Disconnects, Replace,
     RotationFails, Unlock, Ends, RemoveLock, Connect, Abandon, Authenticate, Proceeds, adminVars,
     rowVars, requestVars, identityVars, channelVars
<1>8. CASE \/ (\E h \in hellos : Accept(h)) \/ (\E h \in hellos : Activate(h))
           \/ (\E h \in hellos : Connected(h)) \/ SweepReads \/ SweepCloses \/ LoseConnection
  BY <1>8, Held DEF Accept, Proceeds, Activate, Connected, SweepReads, SweepCloses, LoseConnection,
     adminVars, rowVars, requestVars, identityVars, channelVars
<1> QED BY <1>1, <1>2, <1>3, <1>4, <1>5, <1>6, <1>7, <1>8 DEF CredentialsNext


\* Only an insertion issues a credential, and it issues the one its rotation stands for.
LEMMA CountsStep ==
  ASSUME CredentialsInv, CredentialsAssumption, CredentialsNext, ~ Inserts
  PROVE  Consumed' = Consumed /\ Len(credentials') = Len(credentials)
<1>1. UNCHANGED rowVars => Consumed' = Consumed /\ Len(credentials') = Len(credentials)
  BY DEF rowVars, Consumed
<1>2. CASE CreateRotation
  <2>1. UNCHANGED credentials /\ (rotations' = rotations \/ Consumed' = Consumed)
    BY <1>2, Creates DEF CreateRotation
  <2> QED BY <2>1 DEF Consumed
<1>3. CASE \E r \in Credentials : EndRotation(r)
  BY <1>3, EndsRotation
<1>4. CASE \E c \in Credentials : RevokeCredential(c)
  BY <1>4, Revokes DEF Consumed
<1>5. CASE Retire
  BY <1>5, Retires
<1>6. CASE \E h \in hellos : Activate(h)
  BY <1>6, Activates DEF Consumed
<1>7. CASE \/ Disable \/ Enable \/ CreateSees \/ Reads \/ RotateFails \/ Replace \/ RotationFails
           \/ Unlock \/ Ends \/ RemoveLock
  BY <1>1, <1>7 DEF Disable, Enable, CreateSees, Reads, RollBack, RotateFails, Replace,
     RotationFails, Unlock, Ends, RemoveLock, rowVars
<1>8. CASE \/ (\E e \in ending : Checks(e) \/ Disconnects(e)) \/ (\E q \in asked : Claim(q))
           \/ (\E token \in Numbers : Start(token)) \/ Connect
           \/ (\E h \in hellos : Abandon(h) \/ Authenticate(h) \/ Accept(h) \/ Connected(h))
           \/ SweepReads \/ SweepCloses \/ LoseConnection \/ RestartBackend
  BY <1>1, <1>8 DEF Checks, Disconnects, Claim, Start, Connect, Abandon, Authenticate, Accept,
     Proceeds, Connected, SweepReads, SweepCloses, LoseConnection, RestartBackend, rowVars
<1> QED BY <1>2, <1>3, <1>4, <1>5, <1>6, <1>7, <1>8 DEF CredentialsNext

\* What a step does to the Worker's process; processes are counted.
LEMMA ProcessStep ==
  ASSUME CredentialsInv, CredentialsAssumption, CredentialsNext
  PROVE  /\ process' \in [step : {"DOWN", "WAITING", "ANSWERED", "REPLACED", "FAILED", "UP", "CLOSED"},
                          token : Numbers, answer : Numbers]
         /\ usedToken' \in {usedToken, process.token} /\ lock' \in BOOLEAN
         /\ starts' = starts \/ starts' = starts + 1
<1> DEFINE Processes == [step : {"DOWN", "WAITING", "ANSWERED", "REPLACED", "FAILED", "UP", "CLOSED"},
                         token : Numbers, answer : Numbers]
           Goal == /\ process' \in Processes
                   /\ usedToken' \in {usedToken, process.token} /\ lock' \in BOOLEAN
                   /\ starts' = starts \/ starts' = starts + 1
<1> SUFFICES Goal
  OBVIOUS
<1>1. process \in Processes /\ lock \in BOOLEAN /\ 0 \in Numbers
  BY RowFacts DEF CredentialsInv, CredentialsTypeOK, Numbers
<1>2. UNCHANGED identityVars => Goal
  BY <1>1 DEF identityVars
<1>3. CASE \E token \in Numbers : Start(token)
  BY <1>1, <1>3 DEF Start, Up, Down
<1>4. CASE Replace \/ RotationFails
  BY <1>1, <1>4 DEF Replace, RotationFails
<1>5. CASE Unlock \/ Ends \/ RemoveLock
  <2>1. Up \in Processes /\ Down \in Processes
    BY <1>1 DEF Up, Down
  <2>2. /\ process' \in {process, Up, Down} /\ UNCHANGED <<usedToken, starts>>
        /\ lock' = FALSE \/ lock' = lock
    BY <1>5 DEF Unlock, Ends, RemoveLock
  <2> QED BY <1>1, <2>1, <2>2
<1>6. CASE RestartBackend
  BY <1>1, <1>6 DEF RestartBackend
<1>7. CASE Reads \/ RotateFails \/ (\E q \in asked : Claim(q))
  BY <1>1, <1>7 DEF Reads, RotateFails, RollBack, Claim, Answered, identityVars
<1>8. CASE Inserts
  <2> DEFINE number == Len(credentials) + 1
  <2>1. number \in Numbers
    BY <1>8, Issues, RowFacts DEF Numbers
  <2>2. /\ Answered(claim.request, number)
        /\ UNCHANGED <<usedToken, lock, starts>>
    BY <1>8 DEF Inserts
  <2> HIDE DEF number
  <2>3. process' \in Processes
    BY <1>1, <2>1, <2>2 DEF Answered
  <2> QED BY <1>1, <2>2, <2>3
<1>9. CASE \/ CreateRotation \/ (\E r \in Credentials : EndRotation(r)) \/ Disable \/ Enable
           \/ CreateSees \/ Retire \/ (\E c \in Credentials : RevokeCredential(c))
  BY <1>2, <1>9 DEF CreateRotation, EndRotation, Disable, Enable, CreateSees, Retire,
     RevokeCredential
<1>10. CASE \/ (\E e \in ending : Checks(e)) \/ Connect \/ SweepReads \/ LoseConnection
            \/ (\E h \in hellos : Abandon(h) \/ Authenticate(h) \/ Accept(h) \/ Activate(h))
  BY <1>2, <1>10 DEF Checks, Connect, SweepReads, LoseConnection, Abandon, Authenticate, Accept,
     Activate, Proceeds
<1>11. CASE (\E e \in ending : Disconnects(e)) \/ SweepCloses \/ (\E h \in hellos : Connected(h))
  <2>1. process' \in {process, Closed} /\ UNCHANGED <<usedToken, lock, starts>>
    BY <1>11 DEF Disconnects, SweepCloses, Connected, Closes
  <2>2. Closed \in Processes
    BY <1>1 DEF Closed, Down
  <2> QED BY <1>1, <2>1, <2>2
<1> HIDE DEF Goal
<1> QED BY <1>3, <1>4, <1>5, <1>6, <1>7, <1>8, <1>9, <1>10, <1>11 DEF CredentialsNext

\* Nothing is issued before a process has asked for it.
LEMMA WithinBoundsStep ==
  ASSUME CredentialsInv, CredentialsAssumption, CredentialsNext
  PROVE  WithinBounds'
<1>1. starts \in Nat /\ starts' \in Nat /\ starts' >= starts
  BY RowFacts, ProcessStep
<1>2. Consumed' # {} => starts' > 0
  <2>1. CASE Inserts
    <3>1. claim # Nobody
      BY <2>1 DEF Inserts
    <3> QED BY <1>1, <3>1 DEF CredentialsInv, WithinBounds
  <2>2. CASE ~ Inserts
    BY <1>1, <2>2, CountsStep DEF CredentialsInv, WithinBounds
  <2> QED BY <2>1, <2>2
<1> QED BY <1>2, BoundsStep, AskedStep, ClaimStep DEF WithinBounds

\* Rows are never deleted.
LEMMA RequestsAgreeStep ==
  ASSUME CredentialsInv, CredentialsAssumption, CredentialsNext
  PROVE  RequestsAgree'
<1>1. DOMAIN rotations \subseteq DOMAIN rotations' /\ DOMAIN credentials \subseteq DOMAIN credentials'
  BY RowFacts, RowsStep, LenProperties DEF Fades, Unfolds
<1>2. ASSUME claim' # Nobody
      PROVE  /\ claim'.request.rotation \in DOMAIN rotations'
             /\ claim'.request.current \in DOMAIN credentials'
             /\ Usable(claim.request)'
  BY <1>1, <1>2, ClaimStep DEF Usable
<1> QED BY <1>1, <1>2, AskedStep DEF RequestsAgree

\* Every credential but the first has exactly one rotation that issued it.
LEMMA IssuedStep ==
  ASSUME CredentialsInv, CredentialsAssumption, CredentialsNext
  PROVE  /\ {rotations'[r].issued : r \in Consumed'} = 2 .. Len(credentials')
         /\ Cardinality(Consumed') = Len(credentials') - 1
<1>1. /\ {rotations[r].issued : r \in Consumed} = 2 .. Len(credentials)
      /\ IsFiniteSet(Consumed) /\ Cardinality(Consumed) = Len(credentials) - 1
      /\ Len(credentials) \in Nat \ {0}
  BY RowFacts DEF CredentialsInv, CredentialsTypeOK
<1>2. \A r \in Consumed : rotations'[r].issued = rotations[r].issued
  BY RowsStep DEF Unfolds, Consumed
<1>3. CASE Inserts
  <2> DEFINE x == claim.request.rotation
  <2>1. /\ x \notin Consumed /\ Consumed' = Consumed \union {x}
        /\ rotations'[x].issued = Len(credentials) + 1
        /\ Len(credentials') = Len(credentials) + 1
    BY <1>3, Issues
  <2>2. Cardinality(Consumed') = Cardinality(Consumed) + 1
    BY <1>1, <2>1, FS_AddElement
  <2>3. {rotations'[r].issued : r \in Consumed'}
          = {rotations[r].issued : r \in Consumed} \union {Len(credentials) + 1}
    BY <1>2, <2>1
  <2>4. 2 .. Len(credentials) \union {Len(credentials) + 1} = 2 .. Len(credentials) + 1
    BY <1>1
  <2>5. {rotations'[r].issued : r \in Consumed'} = 2 .. Len(credentials')
    BY <1>1, <2>1, <2>3, <2>4
  <2> QED BY <1>1, <2>1, <2>2, <2>5
<1>4. CASE ~ Inserts
  <2>1. {rotations'[r].issued : r \in Consumed'} = {rotations[r].issued : r \in Consumed}
    BY <1>2, <1>4, CountsStep
  <2> QED BY <1>1, <1>4, <2>1, CountsStep
<1> QED BY <1>3, <1>4

\* The administrators' side, and what is under way for them.
LEMMA AdminTypeStep ==
  ASSUME CredentialsInv, CredentialsAssumption, CredentialsNext
  PROVE  /\ worker' \in {"ENABLED", "DISABLED", "RETIRED"}
         /\ ending' \subseteq Endings
         /\ failures' \in 0 .. MaxFailures
<1> DEFINE Goal == /\ worker' \in {"ENABLED", "DISABLED", "RETIRED"}
                   /\ ending' \subseteq Endings
                   /\ failures' \in 0 .. MaxFailures
<1> SUFFICES Goal
  OBVIOUS
<1>1. /\ worker \in {"ENABLED", "DISABLED", "RETIRED"} /\ 0 \in Numbers /\ Credentials \subseteq Numbers
      /\ ending \subseteq Endings
      /\ failures \in 0 .. MaxFailures /\ MaxFailures \in Nat
  BY RowFacts DEF CredentialsInv, CredentialsTypeOK, Numbers, Credentials, CredentialsAssumption,
     Endings
<1>2. CASE Disable \/ Enable \/ Retire \/ CreateSees \/ CreateRotation
  BY <1>1, <1>2 DEF Disable, Enable, Retire, After, CreateSees, CreateRotation, Endings
<1>3. CASE \E c \in Credentials : RevokeCredential(c)
  BY <1>1, <1>3 DEF RevokeCredential, After, Endings
<1>4. CASE \E e \in ending : Checks(e) \/ Disconnects(e)
  BY <1>1, <1>4 DEF Checks, Disconnects, Endings
<1>5. CASE RotateFails \/ RotationFails \/ LoseConnection \/ RestartBackend \/ \E h \in hellos : Abandon(h)
  <2>1. failures' \in 0 .. MaxFailures
    BY <1>1, <1>5 DEF RotateFails, RotationFails, LoseConnection, RestartBackend, Abandon, Failure
  <2>2. worker' = worker /\ (ending' = ending \/ ending' = {})
    BY <1>5 DEF RotateFails, RollBack, RotationFails, LoseConnection, RestartBackend, Abandon,
       adminVars
  <2> QED BY <1>1, <2>1, <2>2
<1>6. CASE \/ (\E r \in Credentials : EndRotation(r)) \/ (\E q \in asked : Claim(q)) \/ Reads
           \/ Inserts \/ (\E token \in Numbers : Start(token)) \/ Replace \/ Unlock \/ Ends
           \/ RemoveLock \/ Connect
           \/ (\E h \in hellos : Authenticate(h) \/ Accept(h) \/ Activate(h) \/ Connected(h))
           \/ SweepReads \/ SweepCloses
  <2>1. UNCHANGED <<worker, ending, failures>>
    BY <1>6 DEF EndRotation, Claim, Reads, RollBack, Inserts, Start, Replace, Unlock, Ends,
       RemoveLock, Connect, Authenticate, Accept, Activate, Proceeds, Connected, SweepReads,
       SweepCloses, adminVars
  <2> QED BY <1>1, <2>1
<1> HIDE DEF Goal
<1> QED BY <1>2, <1>3, <1>4, <1>5, <1>6 DEF CredentialsNext

\* The control channel's side.
LEMMA ChannelTypeStep ==
  ASSUME CredentialsInv, CredentialsAssumption, CredentialsNext
  PROVE  /\ creating' \in Numbers
         /\ hellos' \subseteq [credential : Credentials, start : Numbers,
                               step : {"ARRIVED", "AUTHENTICATED", "ACCEPTED", "ACTIVATED"}]
         /\ connection' \in [credential : Credentials, start : Numbers] \union {Nobody}
         /\ sweep' \in Numbers \union {Nobody}
<1> DEFINE Hellos == [credential : Credentials, start : Numbers,
                      step : {"ARRIVED", "AUTHENTICATED", "ACCEPTED", "ACTIVATED"}]
           Connections == [credential : Credentials, start : Numbers] \union {Nobody}
           Sweeps == Numbers \union {Nobody}
           Goal == hellos' \subseteq Hellos /\ connection' \in Connections /\ sweep' \in Sweeps
<1>1. /\ hellos \subseteq Hellos /\ connection \in Connections /\ Nobody \in Connections
      /\ creating \in Numbers /\ starts \in Numbers /\ sweep \in Sweeps /\ Nobody \in Sweeps
      /\ 0 \in Numbers /\ Credentials \subseteq Numbers /\ identity \in Credentials
  BY RowFacts DEF CredentialsInv, CredentialsTypeOK, Numbers, Credentials
<1>2. creating' \in Numbers
  <2>1. connection # Nobody => connection.credential \in Numbers
    BY <1>1
  <2> QED BY <1>1, <2>1, SourcesStep
<1> SUFFICES Goal
  BY <1>2
<1>3. UNCHANGED channelVars => Goal
  BY <1>1 DEF channelVars
<1>4. CASE Connect
  BY <1>1, <1>4 DEF Connect
<1>5. CASE \E h \in hellos : Authenticate(h) \/ Accept(h) \/ Activate(h) \/ Abandon(h)
  <2>1. PICK h \in hellos : Authenticate(h) \/ Accept(h) \/ Activate(h) \/ Abandon(h)
    BY <1>5
  <2>2. h \in Hellos
    BY <1>1
  <2>3. /\ UNCHANGED <<connection, sweep>>
        /\ \/ hellos' \subseteq hellos \union {[h EXCEPT !.start = 0]}
           \/ \E to \in {"AUTHENTICATED", "ACCEPTED", "ACTIVATED"} :
                hellos' \subseteq hellos \union {[h EXCEPT !.step = to]}
    BY <2>1 DEF Authenticate, Accept, Activate, Proceeds, Abandon
  <2> QED BY <1>1, <2>2, <2>3
<1>6. CASE \E h \in hellos : Connected(h)
  BY <1>1, <1>6 DEF Connected
<1>7. CASE \/ (\E e \in ending : Disconnects(e)) \/ Ends \/ SweepCloses \/ LoseConnection
           \/ RestartBackend
  BY <1>1, <1>7 DEF Disconnects, Ends, SweepCloses, LoseConnection, RestartBackend
<1>10. CASE SweepReads
  <2>1. UNCHANGED <<hellos, connection>> /\ sweep' \in {0} \union {connection.credential}
        /\ (connection = Nobody => sweep' = 0)
    BY <1>10 DEF SweepReads
  <2>2. connection # Nobody => connection.credential \in Numbers
    BY <1>1
  <2> QED BY <1>1, <2>1, <2>2
<1>8. CASE \/ CreateRotation \/ (\E r \in Credentials : EndRotation(r)) \/ Disable \/ Enable
           \/ CreateSees \/ Retire \/ (\E c \in Credentials : RevokeCredential(c)) \/ Inserts
           \/ Reads \/ RotateFails \/ Replace \/ RotationFails \/ Unlock \/ RemoveLock
  BY <1>3, <1>8 DEF CreateRotation, EndRotation, Disable, Enable, CreateSees, Retire,
     RevokeCredential, Inserts, Reads, RollBack, RotateFails, Replace, RotationFails, Unlock,
     RemoveLock
<1>9. CASE \/ (\E e \in ending : Checks(e)) \/ (\E q \in asked : Claim(q))
           \/ (\E token \in Numbers : Start(token))
  BY <1>3, <1>9 DEF Checks, Claim, Start
<1> HIDE DEF Goal
<1> QED BY <1>4, <1>5, <1>6, <1>7, <1>8, <1>9, <1>10 DEF CredentialsNext

\* All of it together.
LEMMA TypeStep ==
  ASSUME CredentialsInv, CredentialsAssumption, CredentialsNext
  PROVE  CredentialsTypeOK'
<1>1. /\ credentials' \in Seq({"ACTIVE", "REVOKED", "ROTATED"})
      /\ rotations' \in Seq([status : {"ACTIVE", "CONSUMED", "REVOKED"},
                             replaces : Credentials, issued : Numbers])
      /\ Cardinality({r \in DOMAIN rotations' : rotations'[r].status = "ACTIVE"}) <= 1
  BY RowsStep DEF Fades, Unfolds, Statuses, RotationRows, StillOpen
<1>2. asked' \subseteq Requests
  BY AskedStep
<1>3. claim' \in [step : {"CLAIMED", "READ"}, request : Requests] \union {Nobody}
  BY ClaimStep
<1>4. /\ Len(rotations) \in Nat /\ Len(rotations') \in Nat /\ Len(rotations') >= Len(rotations)
      /\ DOMAIN credentials \subseteq DOMAIN credentials'
  BY RowFacts, RowsStep, LenProperties DEF Fades, Unfolds
<1>5. identity' \in DOMAIN credentials'
  BY <1>4, IdentityStep
<1>6. usedToken' \in 0 .. Len(rotations')
  <2>1. usedToken \in 0 .. Len(rotations) /\ process.token \in 0 .. Len(rotations)
    BY <1>4 DEF CredentialsInv, CredentialsTypeOK, IdentityAgrees, Numbers
  <2> QED BY <1>4, <2>1, ProcessStep
<1>7. starts' \in Numbers
  <2>1. starts' \in Nat /\ creating' \in Nat /\ MaxBegun \in Nat
    BY RowFacts, ProcessStep, ChannelTypeStep DEF Numbers
  <2> QED BY <1>4, <2>1, BoundsStep DEF Numbers
<1> QED BY <1>1, <1>2, <1>3, <1>5, <1>6, <1>7, ProcessStep, IssuedStep, AdminTypeStep,
   ChannelTypeStep DEF CredentialsTypeOK, Consumed, Endings

-----------------------------------------------------------------------------
(* The theorems.                                                           *)

\* A Worker begins with the credential it enrolled with.
LEMMA CredentialsInitInv ==
  ASSUME CredentialsInit, CredentialsAssumption
  PROVE  CredentialsInv
<1>1. /\ <<"ACTIVE">> \in Seq(Statuses) /\ Len(credentials) = 1 /\ DOMAIN credentials = {1}
      /\ rotations = <<>> /\ Len(rotations) = 0 /\ DOMAIN rotations = {}
      /\ credentials = <<"ACTIVE">> /\ credentials[1] = "ACTIVE"
  BY DEF CredentialsInit, Statuses
<1>2. rotations \in Seq(RotationRows)
  BY <1>1
<1>3. Consumed = {} /\ StillOpen(rotations) = {}
  BY <1>1 DEF Consumed, StillOpen
<1>4. Cardinality(Consumed) = 0 /\ Cardinality(StillOpen(rotations)) = 0
  BY <1>3, FS_EmptySet
<1>5. {rotations[r].issued : r \in Consumed} = 2 .. Len(credentials)
  BY <1>1, <1>3
<1>6. MaxBegun \in Nat \ {0} /\ MaxFailures \in Nat
  BY DEF CredentialsAssumption
<1>7. CredentialsTypeOK
  <2>1. /\ credentials \in Seq({"ACTIVE", "REVOKED", "ROTATED"})
        /\ rotations \in Seq([status : {"ACTIVE", "CONSUMED", "REVOKED"},
                              replaces : Credentials, issued : Numbers])
        /\ Cardinality({r \in DOMAIN rotations : rotations[r].status = "ACTIVE"}) <= 1
    BY <1>1, <1>2, <1>4 DEF Statuses, RotationRows, StillOpen
  <2>2. /\ 0 \in Numbers
        /\ process \in [step : {"DOWN", "WAITING", "ANSWERED", "REPLACED", "FAILED", "UP", "CLOSED"},
                        token : Numbers, answer : Numbers]
    BY <1>6 DEF CredentialsInit, Down, Numbers
  <2>3. /\ usedToken \in 0 .. Len(rotations) /\ failures \in 0 .. MaxFailures
        /\ identity \in DOMAIN credentials
    BY <1>1, <1>6 DEF CredentialsInit
  <2>4. Cardinality(Consumed) = Len(credentials) - 1
    BY <1>1, <1>4
  <2> QED BY <1>5, <2>1, <2>2, <2>3, <2>4 DEF CredentialsInit, CredentialsTypeOK
<1>8. WithinBounds /\ RequestsAgree
  BY <1>1, <1>3, <1>6 DEF CredentialsInit, WithinBounds, RequestsAgree
<1>9. IdentityAgrees
  BY <1>1 DEF CredentialsInit, IdentityAgrees, Down
<1>10. SuccessionAgrees
  BY <1>1, <1>3 DEF CredentialsInit, SuccessionAgrees
<1> QED BY <1>7, <1>8, <1>9, <1>10 DEF CredentialsInv

\* Nothing changes when nothing happens.
LEMMA CredentialsInvStutter ==
  ASSUME CredentialsInv, UNCHANGED credentialVars
  PROVE  CredentialsInv'
<1> USE DEF credentialVars, adminVars, rowVars, requestVars, identityVars, channelVars, CredentialsInv
<1>1. CredentialsTypeOK'
  BY DEF CredentialsTypeOK, Consumed
<1>2. WithinBounds'
  BY DEF WithinBounds, Consumed
<1>5. RequestsAgree'
  BY DEF RequestsAgree, Usable
<1>3. IdentityAgrees'
  BY DEF IdentityAgrees
<1>4. SuccessionAgrees'
  BY DEF SuccessionAgrees, Settled, Predecessors, Consumed, Active
<1> QED BY <1>1, <1>2, <1>3, <1>4, <1>5

\* Only what exists is asked for, identities only go up, and a credential is replaced by one that is
\* issued after it has connected.
THEOREM CredentialsInvTheorem == CredentialsSpec => []CredentialsInv
<1>1. CredentialsInit => CredentialsInv
  BY CredentialsAssumption, CredentialsInitInv
<1>2. CredentialsInv /\ [CredentialsNext]_credentialVars => CredentialsInv'
  BY CredentialsAssumption, CredentialsInvStutter, TypeStep, WithinBoundsStep, RequestsAgreeStep,
     IdentityAgreesStep, SuccessionStep DEF CredentialsInv
<1> QED BY <1>1, <1>2, PTL DEF CredentialsSpec

\* However many rotations, processes and failures there are, at most one rotation is open, and every
\* credential after the first was issued by one rotation of its own.
THEOREM CredentialsTypeTheorem == CredentialsSpec => []CredentialsTypeOK
BY CredentialsInvTheorem, PTL DEF CredentialsInv

\* The last active credential of an enabled Worker goes in a handshake with a revoked one only.
LEMMA LastCredentialStep ==
  ASSUME CredentialsInv, CredentialsAssumption, CredentialsNext,
         worker = "ENABLED", Active # {}, Active' = {}
  PROVE  \E h \in hellos : h.step = "ACCEPTED" /\ credentials[h.credential] = "REVOKED"
<1>1. UNCHANGED credentials => FALSE
  BY DEF Active
<1>2. ~ Inserts
  <2>1. ASSUME Inserts PROVE FALSE
    <3>1. /\ Len(credentials') = Len(credentials) + 1 /\ credentials'[Len(credentials) + 1] = "ACTIVE"
          /\ DOMAIN credentials' = 1 .. Len(credentials') /\ Len(credentials) \in Nat
      BY <2>1, Issues, RowFacts, LenProperties DEF Fades
    <3> QED BY <3>1 DEF Active
  <2> QED BY <2>1
<1>3. ~ Retire
  BY DEF Retire
<1>4. ASSUME NEW k \in Credentials, RevokeCredential(k)
      PROVE  FALSE
  <2>1. PICK c \in Active : c # k
    BY <1>4 DEF RevokeCredential
  <2>2. /\ credentials'[c] = "ACTIVE" /\ c \in DOMAIN credentials'
    BY <1>4, <2>1 DEF RevokeCredential, Active
  <2> QED BY <2>2 DEF Active
<1>5. CASE \E h \in hellos : Activate(h)
  <2>1. PICK h \in hellos : Activate(h)
    BY <1>5
  <2> DEFINE k == h.credential
  <2>2. /\ \A c \in Active : c \in Predecessors(k)
    <3>1. DOMAIN credentials' = DOMAIN credentials
      BY <2>1, Activates, RowFacts, LenProperties DEF Fades
    <3> QED BY <2>1, <3>1, Activates DEF Active
  <2>3. k \in DOMAIN credentials
    <3>1. k \in Nat \ {0} /\ k <= identity /\ identity \in 1 .. Len(credentials)
      BY RowFacts DEF CredentialsInv, CredentialsTypeOK, IdentityAgrees, Credentials
    <3> QED BY <3>1, RowFacts
  <2>4. credentials[k] \in Statuses
    BY <2>3, RowFacts
  <2>5. credentials[k] # "ACTIVE"
    <3>1. ASSUME k \in Active PROVE FALSE
      <4>1. PICK r \in Consumed : rotations[r].issued = k /\ rotations[r].replaces = k
        BY <2>2, <3>1 DEF Predecessors
      <4>2. k < k /\ k \in Nat
        BY <2>3, <4>1, RowFacts DEF CredentialsInv, SuccessionAgrees
      <4> QED BY <4>2
    <3> QED BY <2>3, <3>1 DEF Active
  <2>6. credentials[k] # "ROTATED"
    <3>1. ASSUME credentials[k] = "ROTATED" PROVE Settled(k)
      BY <2>3, <3>1 DEF CredentialsInv, SuccessionAgrees
    <3>2. ~ Settled(k)
      BY <2>2 DEF Settled
    <3> QED BY <3>1, <3>2
  <2>7. h.step = "ACCEPTED"
    BY <2>1 DEF Activate, Proceeds
  <2> QED BY <2>4, <2>5, <2>6, <2>7 DEF Statuses
<1>6. CASE \/ CreateRotation \/ (\E r \in Credentials : EndRotation(r)) \/ Disable \/ Enable
           \/ CreateSees \/ Reads \/ RotateFails \/ Replace \/ RotationFails \/ Unlock \/ Ends
           \/ RemoveLock
  BY <1>1, <1>6 DEF CreateRotation, EndRotation, Disable, Enable, CreateSees, Reads, RollBack,
     RotateFails, Replace, RotationFails, Unlock, Ends, RemoveLock, rowVars
<1>7. CASE \/ (\E e \in ending : Checks(e) \/ Disconnects(e)) \/ (\E q \in asked : Claim(q))
           \/ (\E token \in Numbers : Start(token)) \/ Connect
           \/ (\E h \in hellos : Abandon(h) \/ Authenticate(h) \/ Accept(h) \/ Connected(h))
           \/ SweepReads \/ SweepCloses \/ LoseConnection \/ RestartBackend
  BY <1>1, <1>7 DEF Checks, Disconnects, Claim, Start, Connect, Abandon, Authenticate, Accept,
     Proceeds, Connected, SweepReads, SweepCloses, LoseConnection, RestartBackend, rowVars
<1> QED BY <1>2, <1>3, <1>4, <1>5, <1>6, <1>7 DEF CredentialsNext

\* Rotation never takes away the credential a Worker starts from, and an enabled Worker only loses
\* its last active credential when the one that was to replace it was revoked in its handshake.
THEOREM CredentialIsLeftTheorem == CredentialsSpec => CredentialIsLeft
<1> DEFINE Left ==
      /\ credentials'[identity'] # "ROTATED"
      /\ worker = "ENABLED" /\ Active # {} /\ Active' = {} =>
           \E h \in hellos : h.step = "ACCEPTED" /\ credentials[h.credential] = "REVOKED"
<1>1. ASSUME CredentialsInv, CredentialsNext PROVE Left
  <2>1. identity' \in Nat /\ identity' \in DOMAIN credentials'
    BY <1>1, CredentialsAssumption, RowFacts, TypeStep, IdentityStep DEF CredentialsTypeOK
  <2>2. credentials'[identity'] = "ROTATED" => identity' < identity'
    BY <1>1, <2>1, CredentialsAssumption, IdentityAgreesStep DEF IdentityAgrees
  <2> QED BY <1>1, <2>1, <2>2, CredentialsAssumption, LastCredentialStep
<1>2. CredentialsInv /\ [CredentialsNext]_credentialVars => [Left]_credentialVars
  BY <1>1
<1> QED BY <1>2, CredentialsInvTheorem, PTL DEF CredentialsSpec, CredentialIsLeft
=============================================================================
