----------------------------- MODULE MCDelegation -----------------------------
(* Model values for Delegation. *)
EXTENDS Delegation

CONSTANTS a1, a2, a3

\* Agent a1 is on two backends, a2 on one and a3 on none.
MCBackends ==
  <<[kind |-> "filesystem"],
    [kind |-> "cli", agents |-> <<a1>>],
    [kind |-> "http", agents |-> <<a1, a2>>]>>

=============================================================================
