------------------------- MODULE MCWorkerCredentials -------------------------
(* A small instance of WorkerCredentials for TLC.                          *)
EXTENDS WorkerCredentials

\* A sweep can only close a connection whose credential is not active when it reads, or one that
\* comes between its steps: any other sweep leaves everything as it was, and one that begins
\* earlier closes what one that begins just before such a connection comes closes too.
SweepMatters ==
  \/ connection # Nobody /\ connection.credential \notin Active
  \/ \E h \in hellos : h.step = "ACTIVATED"

\* What happens at once in a state: at most two handshakes, and together with the processes and
\* rotations begun, the failures and the services that have committed they are six at most.
Short ==
  LET busy == starts + Len(rotations) + failures + Cardinality(ending) IN
  busy <= 5 /\ Cardinality(hellos) <= 2 /\ busy + Cardinality(hellos) <= 6

SweptNext == CredentialsNext /\ Short' /\ (sweep = Nobody /\ sweep' # Nobody => SweepMatters)

SweptProgress ==
  /\ WF_credentialVars(Connect)
  /\ WF_credentialVars(\E h \in hellos : Authenticate(h) \/ Accept(h) \/ Activate(h) \/ Connected(h))
  /\ WF_credentialVars((SweepMatters /\ SweepReads) \/ SweepCloses)

SweptSpec == CredentialsInit /\ [][SweptNext]_credentialVars /\ SweptProgress
=============================================================================
