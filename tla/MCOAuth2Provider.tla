---- MODULE MCOAuth2Provider ----
(* Model values for OAuth2Provider: two confidential clients and a public one. *)
EXTENDS OAuth2Provider, TLC

CONSTANTS alice, bob, claude, u1, mcp, sa, sb, v1

MCAliceRecord == [secret |-> sa, redirects |-> {u1}, scopes |-> {}]
MCBobRecord == [secret |-> sb, redirects |-> {u1}, scopes |-> {mcp}]
MCPublicRecord == [secret |-> NoSecret, redirects |-> {u1}, scopes |-> {mcp}]

\* The file as it is, and without alice.
MCAll == (alice :> MCAliceRecord) @@ (bob :> MCBobRecord) @@ (claude :> MCPublicRecord)
MCFile == {MCAll, (bob :> MCBobRecord) @@ (claude :> MCPublicRecord)}

\* Two exchanges race, in either order.
MCSymmetry == Permutations(Exchange)

\* A code is asked for with v1.
MCAuthorizations ==
  {a \in Authorization : /\ a.verifier = v1 /\ a.scopes = {}
                         /\ a.flaw # "none" => a.action = "get"}

\* It is redeemed with another redirect URI, another verifier or foreign credentials.
MCProper(r) == r.creds \in {None, [id |-> alice, secret |-> sa], [id |-> bob, secret |-> sb]}
MCRequests ==
  {r \in Request : \/ r.redirect = u1 /\ r.verifier = v1
                   \/ (r.redirect = u1) # (r.verifier = v1) /\ MCProper(r)}

\* Two exchanges race while the clients stay as they are; or one of a proper request runs
\* beside a grant, a reader and the removal of alice, twice, or of claude.
MCWorkload ==
  \/ /\ \A c \in Client : removals[c] = 0
     /\ \A g \in Grant : pc[g] = "new"
     /\ \A a \in Reader : reading[a] = None
  \/ /\ Cardinality({e \in Exchange : pc[e] # "new"}) <= 1
     /\ \A e \in Exchange : req[e] # None => MCProper(req[e]) /\ req[e].redirect = u1 /\ req[e].verifier = v1
     /\ removals[bob] = 0 /\ removals[claude] <= 1 /\ removals[alice] + removals[claude] <= 2
====
