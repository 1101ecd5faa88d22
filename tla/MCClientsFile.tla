---- MODULE MCClientsFile ----
(* Model values for ClientsFile. *)
EXTENDS ClientsFile, TLC

CONSTANTS a, b, r1, r2, p1

\* Registrations are interchangeable.
MCSymmetry == Permutations(Registration)
====
