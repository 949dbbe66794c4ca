-------------------------- MODULE MCSessionViewers --------------------------
(* Instances of SessionViewers for TLC: all constants are numbers. *)
EXTENDS SessionViewers

\* All requests are over and no ticket or Viewer is left, or the Session is over on both sides and
\* nobody waits for it.
Settled ==
  \/ /\ \A g \in Generations : connect[g] \in {"RETURNED", "REFUSED", "LOST"}
     /\ \A g \in Generations : ticket[g].status # "ACTIVE"
     /\ pairing = 0 /\ claims = {}
  \/ /\ session.status \in {"CLOSED", "FAILED"}
     /\ worker.state \in {"ENDED", "GONE"}
     /\ \A g \in Generations : connect[g] \notin Unfinished
     /\ pairing = 0 /\ claims = {}

\* What happens after that is of no interest.
Unsettled == ~ Settled

\* Outages are tried with one request.  Punctual behaviours have all of them, and no Viewer joins:
\* neither the Gateway nor its tickets play a part in the renewal of a lease.
Tried ==
  IF punctual THEN bound' = 0 /\ claims' = {} ELSE session'.viewerGeneration <= 1

LeaseSpec == Init /\ [][Next /\ Tried]_vars /\ Fairness
=============================================================================
