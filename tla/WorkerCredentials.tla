-------------------------- MODULE WorkerCredentials --------------------------
(***************************************************************************)
(* The credentials of one Worker: rotation by a token that is used once,   *)
(* revocation and retirement in the Backend's transactions, the handshake  *)
(* of the control channel with its awaits, the sweep that looks for        *)
(* connections whose credential is gone, and the Worker's client with the  *)
(* identity file it starts from.                                           *)
(*                                                                         *)
(* A credential and a rotation are known by their number.  Certificates do *)
(* not run out here; rotations do, at any moment.  The transactions that   *)
(* lock the Worker's row are steps.  rotate() holds its rotation's row and *)
(* takes the Worker's only to insert.  #activateRotatedCredential does not *)
(* lock it either and is a step: when it commits between the count and the *)
(* update of revokeCredential, the rows are as if it had come after both.  *)
(*                                                                         *)
(* An operator named Faulty... is not part of the model: it is a mistake   *)
(* one could make in the operator that follows it, substituted for that    *)
(* operator to see that a property notices.                                *)
(***************************************************************************)
EXTENDS Naturals, Sequences, FiniteSetsExt

CONSTANTS
  MaxBegun,       \* bound: processes of the Worker and rotations, together
  MaxFailures,      \* bound: crashes, lost answers and connections, failed transactions
  Nobody

ASSUME CredentialsAssumption ==
  MaxBegun \in Nat \ {0} /\ MaxFailures \in Nat

VARIABLES
  worker,        \* ENABLED, DISABLED, RETIRED
  credentials,   \* status of each credential
  rotations,
  creating,      \* createRotation: the credential it saw connected
  asked,         \* rotation requests on their way to the Backend
  claim,         \* rotate(): the open transaction
  identity,      \* worker-identity.json: its credential
  usedToken,     \* worker-identity.json: the rotation of lastRotationTokenDigest
  lock,          \* .credential-rotation-lock
  process,       \* the Worker's process and the rotation token it was given; CLOSED is a client
                 \* that does not connect again
  starts,
  hellos,        \* #handleHello: handshakes under way; a start of 0 is a socket given up
  connection,    \* #connections
  sweep,         \* #sweepOfflineWorkers: which connected credential it has found active, or 0
  ending,        \* what services still do after their transaction has committed
  failures

adminVars == <<worker, creating, ending>>
rowVars == <<credentials, rotations>>
requestVars == <<asked, claim>>
identityVars == <<identity, usedToken, lock, process, starts>>
channelVars == <<hellos, connection, sweep>>
credentialVars == <<adminVars, rowVars, requestVars, identityVars, channelVars, failures>>

Credentials == 1 .. MaxBegun
Numbers == 0 .. MaxBegun
Requests == [rotation : Credentials, current : Credentials, start : Numbers]
Active == {c \in DOMAIN credentials : credentials[c] = "ACTIVE"}
Consumed == {r \in DOMAIN rotations : rotations[r].status = "CONSUMED"}

\* Besides types: one rotation is open at most, and every credential but the one enrolled with is
\* the only one its rotation issued.
CredentialsTypeOK ==
  /\ worker \in {"ENABLED", "DISABLED", "RETIRED"}
  /\ credentials \in Seq({"ACTIVE", "REVOKED", "ROTATED"})
  /\ rotations \in Seq([status : {"ACTIVE", "CONSUMED", "REVOKED"},
                        replaces : Credentials, issued : Numbers])
  /\ creating \in Numbers
  /\ asked \subseteq Requests
  /\ claim \in [step : {"CLAIMED", "READ"}, request : Requests] \union {Nobody}
  /\ identity \in DOMAIN credentials /\ usedToken \in 0 .. Len(rotations) /\ lock \in BOOLEAN
  /\ process \in [step : {"DOWN", "WAITING", "ANSWERED", "REPLACED", "FAILED", "UP", "CLOSED"},
                  token : Numbers, answer : Numbers]
  /\ starts \in Numbers
  /\ hellos \subseteq [credential : Credentials, start : Numbers,
                       step : {"ARRIVED", "AUTHENTICATED", "ACCEPTED", "ACTIVATED"}]
  /\ connection \in [credential : Credentials, start : Numbers] \union {Nobody}
  /\ sweep \in Numbers \union {Nobody}
  /\ ending \subseteq [step : {"CHECK", "DISABLED", "CREDENTIAL_REVOKED", "RETIRED"},
                       credential : Numbers]
  /\ failures \in 0 .. MaxFailures
  /\ Cardinality({r \in DOMAIN rotations : rotations[r].status = "ACTIVE"}) <= 1
  /\ {rotations[r].issued : r \in Consumed} = 2 .. Len(credentials)
  /\ Cardinality(Consumed) = Len(credentials) - 1

Down == [step |-> "DOWN", token |-> 0, answer |-> 0]
Up == [Down EXCEPT !.step = "UP"]
Closed == [Down EXCEPT !.step = "CLOSED"]

CredentialsInit ==
  /\ worker = "ENABLED" /\ creating = 0 /\ ending = {}
  /\ credentials = <<"ACTIVE">> /\ rotations = <<>>
  /\ asked = {} /\ claim = Nobody
  /\ identity = 1 /\ usedToken = 0 /\ lock = FALSE
  /\ process = Down /\ starts = 0
  /\ hellos = {} /\ connection = Nobody /\ sweep = Nobody
  /\ failures = 0

MayBegin == starts + Len(rotations) + (IF creating = 0 THEN 0 ELSE 1) < MaxBegun
Failure == failures < MaxFailures /\ failures' = failures + 1

-----------------------------------------------------------------------------
(* What administrators ask of the Backend                                  *)

\* The socket of a process that has ended is closed.
Open == connection # Nobody /\ connection.start = starts /\ process.step = "UP"

\* The Backend closes a connection.  A client that has come through the handshake stops for good
\* when the code is final (4001, 4012), if it gets to see it; one that has not tries again.
Closes(final) == process' \in {process} \union (IF Open /\ final THEN {Closed} ELSE {})

\* createRotation: the connected credential is read before its transaction.
CreateSees ==
  /\ creating = 0 /\ MayBegin
  /\ Open
  /\ creating' = connection.credential
  /\ UNCHANGED <<worker, ending, rowVars, requestVars, identityVars, channelVars, failures>>

Revoked(status) == IF status = "ACTIVE" THEN "REVOKED" ELSE status
RevokedRotations == [r \in DOMAIN rotations |-> [rotations[r] EXCEPT !.status = Revoked(@)]]

\* It waits for the row of a rotation that is being used.
CreateRotation ==
  /\ creating # 0
  /\ IF worker = "ENABLED" /\ creating \in Active
     THEN /\ claim = Nobody
          /\ rotations' = Append(RevokedRotations,
                                 [status |-> "ACTIVE", replaces |-> creating, issued |-> 0])
     ELSE UNCHANGED rotations
  /\ creating' = 0
  /\ UNCHANGED <<worker, ending, credentials, requestVars, identityVars, channelVars, failures>>

\* revokeRotation, or its time is over (EXPIRED counts as REVOKED here).
EndRotation(r) ==
  /\ r \in DOMAIN rotations /\ rotations[r].status = "ACTIVE"
  /\ claim # Nobody => claim.request.rotation # r
  /\ rotations' = [rotations EXCEPT ![r].status = "REVOKED"]
  /\ UNCHANGED <<adminVars, credentials, requestVars, identityVars, channelVars, failures>>

After(step, credential) == ending \union {[step |-> step, credential |-> credential]}

\* revokeCredential counts the other active credentials under the lock of the Worker's row.
RevokeCredential(c) ==
  /\ worker # "RETIRED" /\ c \in Active
  /\ Active \ {c} # {} \/ worker = "DISABLED"
  /\ credentials' = [credentials EXCEPT ![c] = "REVOKED"]
  /\ ending' = After("CHECK", c)
  /\ UNCHANGED <<worker, creating, rotations, requestVars, identityVars, channelVars, failures>>

\* setState.
Disable ==
  /\ worker = "ENABLED" /\ worker' = "DISABLED"
  /\ ending' = After("DISABLED", 0)
  /\ UNCHANGED <<creating, rowVars, requestVars, identityVars, channelVars, failures>>

Enable ==
  /\ worker = "DISABLED" /\ worker' = "ENABLED"
  /\ UNCHANGED <<creating, ending, rowVars, requestVars, identityVars, channelVars, failures>>

\* retire waits for a rotation that is being used, which it would revoke.
Retire ==
  /\ worker = "DISABLED" /\ worker' = "RETIRED"
  /\ claim = Nobody
  /\ credentials' = [c \in DOMAIN credentials |-> Revoked(credentials[c])]
  /\ rotations' = RevokedRotations
  /\ ending' = After("RETIRED", 0)
  /\ UNCHANGED <<creating, requestVars, identityVars, channelVars, failures>>

\* After the commit: revokeCredential looks whether its credential is the connected one, writes
\* the Worker's status and disconnects whoever is connected then.
Checks(e) ==
  /\ e \in ending /\ e.step = "CHECK"
  /\ ending' = (ending \ {e}) \union
       (IF Open /\ connection.credential = e.credential
        THEN {[step |-> "CREDENTIAL_REVOKED", credential |-> 0]} ELSE {})
  /\ UNCHANGED <<worker, creating, rowVars, requestVars, identityVars, channelVars, failures>>

Disconnects(e) ==
  /\ e \in ending /\ e.step # "CHECK"
  /\ ending' = ending \ {e}
  /\ connection' = Nobody
  /\ Closes(e.step # "DISABLED")
  /\ UNCHANGED <<worker, creating, rowVars, requestVars, identity, usedToken, lock, starts, hellos,
                 sweep, failures>>

-----------------------------------------------------------------------------
(* rotate                                                                  *)

\* The answer reaches the process that still waits for it.
Answered(q, credential) ==
  process' = IF process.step = "WAITING" /\ q.start = starts
             THEN [process EXCEPT !.step = IF credential = 0 THEN "FAILED" ELSE "ANSWERED",
                                  !.answer = credential]
             ELSE process

FaultyUsable(q) == rotations[q.rotation].replaces = q.current
Usable(q) == rotations[q.rotation].status = "ACTIVE" /\ rotations[q.rotation].replaces = q.current

\* The conditional update of the rotation.
Claim(q) ==
  /\ q \in asked /\ claim = Nobody
  /\ asked' = asked \ {q}
  /\ IF Usable(q)
     THEN claim' = [step |-> "CLAIMED", request |-> q] /\ UNCHANGED process
     ELSE Answered(q, 0) /\ UNCHANGED claim
  /\ UNCHANGED <<adminVars, rowVars, identity, usedToken, lock, starts, channelVars, failures>>

RollBack ==
  /\ claim' = Nobody
  /\ Answered(claim.request, 0)
  /\ UNCHANGED <<adminVars, rowVars, asked, identity, usedToken, lock, starts, channelVars>>

\* Worker and replaced credential are read without locks.
Reads ==
  /\ claim # Nobody /\ claim.step = "CLAIMED"
  /\ IF worker = "ENABLED" /\ claim.request.current \in Active
     THEN /\ claim' = [claim EXCEPT !.step = "READ"]
          /\ UNCHANGED <<adminVars, rowVars, asked, identityVars, channelVars>>
     ELSE RollBack
  /\ UNCHANGED failures

\* The replaced credential stays active until the new one has connected.
FaultyIssued(current) == Append([credentials EXCEPT ![current] = "ROTATED"], "ACTIVE")
Issued(current) == Append(credentials, "ACTIVE")

Inserts ==
  LET q == claim.request IN
  /\ claim # Nobody /\ claim.step = "READ"
  /\ credentials' = Issued(q.current)
  /\ rotations' = [rotations EXCEPT ![q.rotation].status = "CONSUMED",
                                    ![q.rotation].issued = Len(credentials) + 1]
  /\ claim' = Nobody
  /\ Answered(q, Len(credentials) + 1)
  /\ UNCHANGED <<adminVars, asked, identity, usedToken, lock, starts, channelVars, failures>>

\* The database gives the transaction up, because of a deadlock or for another reason.
RotateFails == claim # Nobody /\ Failure /\ RollBack

-----------------------------------------------------------------------------
(* The Worker                                                              *)

\* ensureWorkerIdentity: a rotation token that is not the last one used starts a rotation, which
\* the lock directory of another makes fail.
Start(token) ==
  LET rotates == token \notin {0, usedToken} IN
  /\ process.step = "DOWN" /\ MayBegin
  /\ token \in 0 .. Len(rotations)
  /\ rotates => ~ lock
  /\ starts' = starts + 1
  /\ process' = IF rotates THEN [step |-> "WAITING", token |-> token, answer |-> 0] ELSE Up
  /\ lock' = (lock \/ rotates)
  /\ asked' = asked \union
       (IF rotates THEN {[rotation |-> token, current |-> identity, start |-> starts + 1]} ELSE {})
  /\ UNCHANGED <<adminVars, rowVars, claim, identity, usedToken, channelVars, failures>>

\* replaceWorkerIdentity renames the new file over the old one.
Replace ==
  /\ process.step = "ANSWERED"
  /\ identity' = process.answer /\ usedToken' = process.token
  /\ process' = [process EXCEPT !.step = "REPLACED", !.answer = 0]
  /\ UNCHANGED <<adminVars, rowVars, requestVars, lock, starts, channelVars, failures>>

\* A request that times out, an answer that gets lost, a file that cannot be written.
RotationFails ==
  /\ process.step \in {"WAITING", "ANSWERED"}
  /\ Failure
  /\ process' = [process EXCEPT !.step = "FAILED", !.answer = 0]
  /\ UNCHANGED <<adminVars, rowVars, requestVars, identity, usedToken, lock, starts, channelVars>>

Unlock ==
  /\ process.step \in {"REPLACED", "FAILED"}
  /\ lock' = FALSE
  /\ process' = IF process.step = "REPLACED" THEN Up ELSE Down
  /\ UNCHANGED <<adminVars, rowVars, requestVars, identity, usedToken, starts, channelVars, failures>>

\* The process ends.  Its handshakes go on in the Backend, which may register a dead socket: that
\* has neither a close event nor heartbeats to expire and stays until another takes its place.
Ends ==
  /\ process.step # "DOWN"
  /\ process' = Down
  /\ connection' = IF Open THEN Nobody ELSE connection
  /\ UNCHANGED <<adminVars, rowVars, requestVars, identity, usedToken, lock, starts, hellos,
                 sweep, failures>>

\* An operator removes the lock that a process has left behind.
RemoveLock ==
  /\ lock /\ process.step = "DOWN"
  /\ lock' = FALSE
  /\ UNCHANGED <<adminVars, rowVars, requestVars, identity, usedToken, process, starts, channelVars,
                 failures>>

-----------------------------------------------------------------------------
(* The control channel                                                     *)

Connect ==
  /\ process.step = "UP" /\ ~ Open
  /\ \A h \in hellos : h.start # starts
  /\ hellos' = hellos \union {[credential |-> identity, start |-> starts, step |-> "ARRIVED"]}
  /\ UNCHANGED <<adminVars, rowVars, requestVars, identityVars, connection, sweep, failures>>

\* The client's time for a handshake is over; it closes the socket, and the Backend goes on.
Abandon(h) ==
  /\ process.step = "UP" /\ h.start = starts
  /\ Failure
  /\ hellos' = (hellos \ {h}) \union {[h EXCEPT !.start = 0]}
  /\ UNCHANGED <<adminVars, rowVars, requestVars, identityVars, connection, sweep>>

\* One step of #handleHello; a handshake that is not allowed to go on ends.
Proceeds(h, from, to, allowed) ==
  /\ h \in hellos /\ h.step = from
  /\ hellos' = (hellos \ {h}) \union (IF allowed THEN {[h EXCEPT !.step = to]} ELSE {})
  /\ UNCHANGED <<adminVars, rotations, requestVars, identityVars, connection, sweep, failures>>

Authenticate(h) ==
  /\ Proceeds(h, "ARRIVED", "AUTHENTICATED", worker = "ENABLED" /\ h.credential \in Active)
  /\ UNCHANGED credentials

\* The update of the Worker's row.
Accept(h) ==
  /\ Proceeds(h, "AUTHENTICATED", "ACCEPTED", worker = "ENABLED")
  /\ UNCHANGED credentials

\* #activateRotatedCredential.
Activate(h) ==
  LET replaced == {rotations[r].replaces : r \in {x \in Consumed : rotations[x].issued = h.credential}}
  IN
  /\ Proceeds(h, "ACCEPTED", "ACTIVATED", TRUE)
  /\ credentials' = [c \in DOMAIN credentials |->
                       IF c \in replaced \intersect Active THEN "ROTATED" ELSE credentials[c]]

\* It takes the place of whoever is connected, be its own socket open or not.
Connected(h) ==
  /\ h \in hellos /\ h.step = "ACTIVATED"
  /\ hellos' = hellos \ {h}
  /\ connection' = [credential |-> h.credential, start |-> h.start]
  /\ Closes(TRUE)
  /\ UNCHANGED <<adminVars, rowVars, requestVars, identity, usedToken, lock, starts, sweep, failures>>

\* #sweepOfflineWorkers asks which of the credentials connected now are active; other Workers are
\* connected too.
SweepReads ==
  /\ sweep = Nobody
  /\ sweep' = IF connection # Nobody /\ connection.credential \in Active
              THEN connection.credential ELSE 0
  /\ UNCHANGED <<adminVars, rowVars, requestVars, identityVars, hellos, connection, failures>>

\* With the answer it closes whoever is connected by then with another credential.
FaultySwept == {}
Swept == {connection.credential} \ {sweep}

SweepCloses ==
  /\ sweep # Nobody
  /\ sweep' = Nobody
  /\ IF connection # Nobody /\ Swept # {}
     THEN connection' = Nobody /\ Closes(TRUE)
     ELSE UNCHANGED <<connection, process>>
  /\ UNCHANGED <<adminVars, rowVars, requestVars, identity, usedToken, lock, starts, hellos, failures>>

LoseConnection ==
  /\ Open /\ Failure
  /\ connection' = Nobody
  /\ UNCHANGED <<adminVars, rowVars, requestVars, identityVars, hellos, sweep>>

\* A new Backend process only has the rows; the database rolls back what was open.
RestartBackend ==
  /\ Failure
  /\ creating' = 0 /\ ending' = {} /\ asked' = {} /\ claim' = Nobody
  /\ hellos' = {} /\ connection' = Nobody /\ sweep' = Nobody
  /\ process' = IF process.step = "WAITING" THEN [process EXCEPT !.step = "FAILED"] ELSE process
  /\ UNCHANGED <<worker, rowVars, identity, usedToken, lock, starts>>

CredentialsNext ==
  \/ CreateSees \/ CreateRotation \/ Disable \/ Enable \/ Retire
  \/ \E r \in Credentials : EndRotation(r)
  \/ \E c \in Credentials : RevokeCredential(c)
  \/ \E e \in ending : Checks(e) \/ Disconnects(e)
  \/ \E q \in asked : Claim(q)
  \/ Reads \/ Inserts \/ RotateFails
  \/ \E token \in Numbers : Start(token)
  \/ Replace \/ RotationFails \/ Unlock \/ Ends \/ RemoveLock
  \/ Connect
  \/ \E h \in hellos : Abandon(h) \/ Authenticate(h) \/ Accept(h) \/ Activate(h) \/ Connected(h)
  \/ SweepReads \/ SweepCloses \/ LoseConnection \/ RestartBackend

CredentialsProgress ==
  /\ WF_credentialVars(Connect)
  /\ WF_credentialVars(\E h \in hellos : Authenticate(h) \/ Accept(h) \/ Activate(h) \/ Connected(h))
  /\ WF_credentialVars(SweepReads \/ SweepCloses)

CredentialsSpec == CredentialsInit /\ [][CredentialsNext]_credentialVars /\ CredentialsProgress

-----------------------------------------------------------------------------
(* Properties                                                              *)

\* Whatever is lost between the Backend's commit and the rename of the identity file, rotation
\* never takes away the credential the Worker starts from; and an enabled Worker's last active
\* credential only goes if the new one was revoked while a handshake with it was under way, which
\* then rotates the old one away (revokeCredential still counted that one).
CredentialIsLeft ==
  [][/\ credentials'[identity'] # "ROTATED"
     /\ worker = "ENABLED" /\ Active # {} /\ Active' = {} =>
          \E h \in hellos : h.step = "ACCEPTED" /\ credentials[h.credential] = "REVOKED"]_credentialVars

\* Connections follow credentials: one whose credential was revoked, rotated or retired while its
\* handshake was under way is closed, and a Worker that may connect gets through in the end, unless
\* its client was closed for good.
ConnectionsFollow ==
  []<>(/\ connection # Nobody => connection.credential \in Active
       /\ process.step = "UP" /\ worker = "ENABLED" /\ identity \in Active => Open)

=============================================================================
