---- MODULE MCTaskManager ----
(* Model values for TaskManager. *)
EXTENDS TaskManager, TLC

CONSTANTS t1, t2, t3, c1, c2, k1, k2

MCTask == {t1, t2, t3}
MCTaskPair == {t1, t2}
MCOneTask == {t1}
MCNone == {}
MCClient == {c1}
MCClients == {c1, c2}
MCCloser == {k1, k2}
MCOneCloser == {k1}

\* Tasks are interchangeable, and so are the callers of Close.
MCSymmetry == Permutations(Task) \union Permutations(Closer)
====
