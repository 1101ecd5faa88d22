----------------------------- MODULE MCRetrieval -----------------------------
(* A filesystem backend with four files, one of them excluded and one with dots in *)
(* its name, and a web search that knows a URI which is nobody's and those of the  *)
(* filesystem.                                                                     *)
EXTENDS Retrieval

CONSTANTS fs, web, u1, u2, u3, u4, w1, pub, priv

MCName == {fs, web}
MCBackends == <<web, fs>>
MCKind == [b \in MCName |-> IF b = fs THEN "filesystem" ELSE "http"]
MCURI == {u1, u2, u3, u4, w1, NoURI}
MCOwner == [u \in MCURI |-> IF u \in {u1, u2, u3, u4} THEN fs ELSE NoName]
MCWalk == [b \in MCName |-> IF b = fs THEN <<u1, u2, u3, u4>> ELSE <<>>]
MCExclude == {u3}
MCDotted == {u4}
MCAutoTag == {<<{u1, u2}, pub>>, <<{u2}, priv>>}

File(text) == [at |-> "file", large |-> FALSE, text |-> text]
MCSecret == File(<<"head", "tail", "hit">>)
MCOnDisk ==
  {MCSecret, File(<<"long", "hit">>), [MCSecret EXCEPT !.at = "outside"],
   [MCSecret EXCEPT !.at = "dirlink"], [MCSecret EXCEPT !.at = "absent"]}

NoFilter == [enabled |-> FALSE, allow |-> {}, deny |-> {u1}, tagAllow |-> {}, tagDeny |-> {},
             redact |-> TRUE]
MCFilters ==
  {NoFilter,
   [NoFilter EXCEPT !.enabled = TRUE, !.tagDeny = {priv}, !.deny = {}],
   [NoFilter EXCEPT !.enabled = TRUE, !.deny = {w1}, !.redact = FALSE]}

\* u1 and u2, u1 once more, and a URI that the backend does not own.
MCSources == <<<<fs, u1>>, <<fs, u2>>, <<fs, u1>>, <<web, w1>>>>
MCContexts ==
  [c \in {-1, 1, 9, 16} |->
     [sources |-> MCSources, format |-> IF c < 0 THEN "markdown" ELSE "json", maxSize |-> c]]

Good(u, tags) == [wellFormed |-> TRUE, uri |-> u, tags |-> tags]
Bad == [Good(NoURI, {}) EXCEPT !.wellFormed = FALSE]
MCReply == {<<>>, <<Good(w1, {priv}), Good(u2, {}), Good(NoURI, {})>>, <<Bad, Good(u1, {pub})>>}

MCSlice == {<<0, 0>>, <<2, 2>>, <<2, 9>>, <<3, 1>>}
MCAsked == {<<>>, <<fs, fs>>}
MCLimit == {0, 3}

\* u1 is anything, u2 a file or missing, u3 a file that no glob lets through and u4 one
\* that relPathFromURI refuses.
MCInit ==
  /\ Init
  /\ \A u \in URI : Owner[u] = NoName => files[u].at = "absent"
  /\ files[u2].at \in {"file", "absent"} /\ files[u3] = MCSecret /\ files[u4] = MCSecret
MCSpec == MCInit /\ [][Next]_vars /\ Fairness
=============================================================================
