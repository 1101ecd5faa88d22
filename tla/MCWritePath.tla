----------------------------- MODULE MCWritePath -----------------------------
(* Two processes and two writes to three URIs: u1, whose file a foreign program *)
(* writes to as well, u2, and u3, which the backend does not read.              *)
EXTENDS WritePath

CONSTANTS w1, w2, p1, p2, u1, u2, u3

MCIncluded == {u1, u2}

\* The processes are interchangeable under flock, and so are the writes.  A liveness
\* property rules out SYMMETRY, so one of each set of equivalent starts is taken.
MCInit ==
  /\ Init
  /\ home[w1] = p1
  /\ uri[w1] = u2 => uri[w2] # u1
  /\ uri[w1] = u3 => uri[w2] = u3

MCSpec == MCInit /\ [][Next]_vars /\ Fairness
=============================================================================
