------------------------- MODULE OAuth2ProviderProofs -------------------------
(***************************************************************************)
(* The safety of OAuth2Provider for every set of clients, codes, exchanges *)
(* and grants, every clients file and every lifetime.  What a handler reads *)
(* under one lock is compared with what it stores under the next through    *)
(* facts about its program counter.                                        *)
(***************************************************************************)
EXTENDS OAuth2Provider, FiniteSetTheorems, TLAPS

-----------------------------------------------------------------------------
(* The inductive invariant *)

\* A record in memory is one that some clients file holds.
FromFile == \E f \in File : \A c \in DOMAIN clients : c \in DOMAIN f /\ clients[c] = f[c]

RegisteredSomewhere(c, uri) == \E f \in File : c \in DOMAIN f /\ uri \in f[c].redirects

\* What a call has built follows from where it is.
CodesMatchControl ==
  \A k \in Code :
    /\ pc[k] \in {"new", "approved", "built", "stored", "refused"}
    /\ pc[k] \in {"new", "approved", "built"} => sent[k] = None
    /\ pc[k] \in {"approved", "built"} =>
         asked[k] # None /\ RegisteredSomewhere(asked[k].client, asked[k].redirect)
    /\ ac[k] # None <=> pc[k] \in {"built", "stored"}
    /\ k \in authCodes \/ spentBy[k] # {} => pc[k] = "stored"

TokensMatchControl ==
  \A t \in Token :
    /\ tok[t] # None <=> pc[t] \in {"built", "stored"}
    /\ t \in issued => pc[t] = "stored"

RequestsMatchControl ==
  \A e \in Exchange :
    /\ pc[e] \in {"checking", "admitted", "spent", "built", "stored"} => req[e] # None
    /\ pc[e] = "checking" => req[e].creds # None
    /\ pc[e] \in {"new", "checking", "admitted"} => \A k \in Code : e \notin spentBy[k]

\* A code that was spent is not spendable again, and one exchange has spent it.
SpentByOne ==
  \A k \in Code : spentBy[k] # {} =>
    ~ Spendable(k) /\ \E e \in Exchange : spentBy[k] = {e}

\* An exchange that got past the checks is the one the code was spent by.
SpentMatches ==
  \A e \in Exchange : pc[e] = "spent" =>
    spentBy[req[e].code] = {e} /\ BoundTo(ac[req[e].code], req[e])

\* The client of e is public in some file, or its secret came with the request.
Guarded(e) ==
  LET c == req[e].client
  IN  (\A f \in File : c \in DOMAIN f => f[c].secret # NoSecret)
        => /\ req[e].creds # None
           /\ req[e].creds.id = c
           /\ \E f \in File : c \in DOMAIN f /\ f[c].secret = req[e].creds.secret

AdmittedAreGuarded ==
  \A e \in Exchange : (pc[e] = "admitted" \/ \E k \in Code : e \in spentBy[k]) => Guarded(e)

Control ==
  /\ CodesMatchControl
  /\ TokensMatchControl
  /\ RequestsMatchControl

IInv ==
  /\ TypeOK
  /\ Control
  /\ FromFile
  /\ RedirectsAreRegistered
  /\ SpentByOne
  /\ SpentMatches
  /\ TokensMatchCodes
  /\ AdmittedAreGuarded
  /\ CutOff

-----------------------------------------------------------------------------
(* Lemmas on what the steps build *)

LEMMA ClientMapTyped ==
  ASSUME NEW f \in ClientMap
  PROVE  /\ DOMAIN f \subseteq Client
         /\ \A c \in DOMAIN f : f[c] \in Record
BY DEF ClientMap

LEMMA ClientMapMade ==
  ASSUME NEW S \in SUBSET Client, NEW f \in [S -> Record]
  PROVE  f \in ClientMap
BY DEF ClientMap

LEMMA EffectiveTyped ==
  ASSUME NEW rec \in Record, NEW wanted \in SUBSET Scope
  PROVE  Effective(rec, wanted) \in SUBSET Scope
BY ParameterAssumption DEF Effective, Allowed, Record

\* A request stays one when its credentials are dropped.
LEMMA RequestMade ==
  ASSUME NEW r \in Requests
  PROVE  r \in Request /\ [r EXCEPT !.creds = None] \in Request
BY WorkloadAssumption DEF Request

\* computeExpiresIn answers the least number of whole seconds that covers what remains of
\* a token, and never less than one, whatever instant the response is written at.
THEOREM ExpiresInRoundsUp ==
  ASSUME NEW remaining \in Int
  PROVE  /\ ExpiresIn(remaining) \in Nat /\ ExpiresIn(remaining) >= 1
         /\ ExpiresIn(remaining) * Second >= remaining
         /\ remaining > 0 => (ExpiresIn(remaining) - 1) * Second < remaining
BY DEF ExpiresIn, Second

-----------------------------------------------------------------------------
(* Types *)

LEMMA InitTyped == Init => TypeOK
<1> SUFFICES ASSUME Init PROVE TypeOK
  OBVIOUS
<1>1. clients \in ClientMap
  BY FileAssumption DEF Init
<1>2. 0 \in 0..MaxTime /\ 0 \in 0..MaxRemovals
  BY ParameterAssumption
<1>3. QED
  BY <1>1, <1>2 DEF Init, TypeOK

LEMMA BuiltCodeTyped ==
  ASSUME TypeOK, Control, NEW k \in Code, BuildCode(k)
  PROVE  ac'[k] \in CodeRec
<1> DEFINE a == asked[k]
<1>1. a \in Authorization
  BY DEF BuildCode, Control, CodesMatchControl, TypeOK
<1>2. clients[a.client] \in Record /\ a.scopes \in SUBSET Scope
  BY <1>1, ClientMapTyped DEF BuildCode, Registered, Authorization, TypeOK
<1>3. Effective(clients[a.client], a.scopes) \in SUBSET Scope
  BY <1>2, EffectiveTyped
<1>4. now + CodeTTL \in Nat
  BY ParameterAssumption DEF TypeOK
<1>5. [client |-> a.client, redirect |-> a.redirect,
       scopes |-> Effective(clients[a.client], a.scopes),
       challenge |-> S256(a.verifier), expires |-> now + CodeTTL] \in CodeRec
  BY <1>1, <1>3, <1>4 DEF Authorization, CodeRec
<1>6. QED
  BY <1>5 DEF BuildCode, TypeOK

LEMMA AuthorizationTyped ==
  ASSUME TypeOK, Control, NEW k \in Code,
         \/ \E a \in Authorizations : Approve(k, a) \/ RedirectError(k, a) \/ RefuseAuthorization(k, a)
         \/ BuildCode(k) \/ RefuseCode(k) \/ StoreCode(k)
  PROVE  TypeOK'
<1> USE DEF TypeOK, maps, handler
<1>1. ASSUME NEW a \in Authorizations, Approve(k, a) PROVE TypeOK'
  BY <1>1, WorkloadAssumption DEF Approve
<1>2. ASSUME NEW a \in Authorizations, RedirectError(k, a) PROVE TypeOK'
  <2>1. a \in Authorization /\ a.redirect \in Redirect
    BY WorkloadAssumption DEF Authorization
  <2>2. QED
    BY <1>2, <2>1 DEF RedirectError, Refuse
<1>3. ASSUME NEW a \in Authorizations, RefuseAuthorization(k, a) PROVE TypeOK'
  BY <1>3 DEF RefuseAuthorization, Refuse
<1>4. CASE BuildCode(k)
  <2>1. ac'[k] \in CodeRec /\ ac' \in [Code -> CodeRec \union {None}]
    BY <1>4, BuiltCodeTyped DEF BuildCode
  <2>2. authCodes' \subseteq {j \in Code : ac'[j] # None}
    BY <1>4, <2>1, NoneAssumption DEF BuildCode
  <2>3. QED
    BY <1>4, <2>1, <2>2 DEF BuildCode
<1>5. CASE RefuseCode(k)
  BY <1>5 DEF RefuseCode, Refuse
<1>6. CASE StoreCode(k)
  <2>1. asked[k] \in Authorization /\ ac[k] # None
    BY <1>6 DEF StoreCode, Control, CodesMatchControl
  <2>2. asked[k].redirect \in Redirect
    BY <2>1 DEF Authorization
  <2>3. LiveCodes \subseteq authCodes /\ LiveTokens \subseteq issued
    BY DEF LiveCodes, LiveTokens
  <2>4. QED
    BY <1>6, <2>1, <2>2, <2>3 DEF StoreCode
<1>7. QED
  BY <1>1, <1>2, <1>3, <1>4, <1>5, <1>6

\* The record behind a client that a request names.
LEMMA KnownRecord ==
  ASSUME TypeOK, NEW c \in DOMAIN clients
  PROVE  c \in Client /\ clients[c] \in Record
BY ClientMapTyped DEF TypeOK

LEMMA BuiltTokenTyped ==
  ASSUME TypeOK, Control, SpentMatches, NEW e \in Exchange, BuildFromCode(e)
  PROVE  tok'[e] \in TokenRec
<1> DEFINE code == ac[req[e].code]
           c == req[e].client
<1>1. req[e] \in Request
  BY DEF BuildFromCode, Control, RequestsMatchControl, TypeOK
<1>2. c \in Client /\ code \in CodeRec
  BY <1>1 DEF BuildFromCode, Request, SpentMatches, Control, CodesMatchControl, TypeOK
<1>3. now + TokenTTL \in Nat
  BY ParameterAssumption DEF TypeOK
<1>4. [client |-> c, scopes |-> code.scopes, expires |-> now + TokenTTL] \in TokenRec
  BY <1>2, <1>3 DEF CodeRec, TokenRec
<1>5. QED
  BY <1>4 DEF BuildFromCode, TypeOK, Token

LEMMA ExchangeTyped ==
  ASSUME TypeOK, Control, SpentMatches, NEW e \in Exchange,
         \/ \E r \in Requests : Present(e, r) \/ RefuseRequest(e, r)
         \/ CheckSecret(e) \/ RefuseSpent(e) \/ Spend(e) \/ BuildFromCode(e) \/ RefuseGone(e)
  PROVE  TypeOK'
<1>0. e \in Token
  BY DEF Token
<1> USE <1>0 DEF TypeOK, maps, handler
<1>1. ASSUME NEW r \in Requests, Present(e, r) PROVE TypeOK'
  <2>1. r \in Request /\ [r EXCEPT !.creds = None] \in Request
    BY RequestMade
  <2>2. QED
    BY <1>1, <2>1 DEF Present
<1>2. ASSUME NEW r \in Requests, RefuseRequest(e, r) PROVE TypeOK'
  BY <1>2 DEF RefuseRequest, Refuse
<1>3. CASE CheckSecret(e)
  <2>1. req[e] \in Request /\ req[e].creds \in Credentials
    BY <1>3 DEF CheckSecret, Control, RequestsMatchControl, Request
  <2>2. [req[e] EXCEPT !.client = req[e].creds.id] \in Request
    BY <2>1 DEF Request, Credentials
  <2>3. QED
    BY <1>3, <2>2 DEF CheckSecret, Refuse
<1>4. CASE RefuseSpent(e)
  BY <1>4 DEF RefuseSpent, Refuse
<1>5. CASE Spend(e)
  <2>1. req[e].code \in authCodes
    BY <1>5 DEF Spend, Spendable
  <2>2. spentBy' \in [Code -> SUBSET Exchange]
    BY <1>5 DEF Spend
  <2>3. QED
    BY <1>5, <2>1, <2>2 DEF Spend
<1>6. CASE BuildFromCode(e)
  BY <1>6, BuiltTokenTyped, NoneAssumption DEF BuildFromCode
<1>7. CASE RefuseGone(e)
  BY <1>7 DEF RefuseGone, Refuse
<1>8. QED
  BY <1>1, <1>2, <1>3, <1>4, <1>5, <1>6, <1>7

LEMMA GrantedTokenTyped ==
  ASSUME TypeOK, NEW g \in Grant, NEW creds \in Credentials, NEW wanted \in SUBSET Scope,
         BuildFromSecret(g, creds, wanted)
  PROVE  tok'[g] \in TokenRec
<1>1. creds.id \in Client /\ clients[creds.id] \in Record
  BY KnownRecord DEF BuildFromSecret, SecretMatches
<1>2. Effective(clients[creds.id], wanted) \in SUBSET Scope
  BY <1>1, EffectiveTyped
<1>3. now + TokenTTL \in Nat
  BY ParameterAssumption DEF TypeOK
<1>4. [client |-> creds.id, scopes |-> Effective(clients[creds.id], wanted),
       expires |-> now + TokenTTL] \in TokenRec
  BY <1>1, <1>2, <1>3 DEF TokenRec
<1>5. QED
  BY <1>4 DEF BuildFromSecret, TypeOK, Token

LEMMA GrantTyped ==
  ASSUME TypeOK, NEW g \in Grant,
         \/ \E creds \in Credentials, wanted \in SUBSET Scope : BuildFromSecret(g, creds, wanted)
         \/ RefuseGrant(g)
  PROVE  TypeOK'
<1>0. g \in Token
  BY DEF Token
<1> USE <1>0 DEF TypeOK, maps, handler
<1>1. ASSUME NEW creds \in Credentials, NEW wanted \in SUBSET Scope, BuildFromSecret(g, creds, wanted)
      PROVE  TypeOK'
  BY <1>1, GrantedTokenTyped, NoneAssumption DEF BuildFromSecret
<1>2. CASE RefuseGrant(g)
  BY <1>2 DEF RefuseGrant, Refuse
<1>3. QED
  BY <1>1, <1>2

LEMMA StoreTokenTyped ==
  ASSUME TypeOK, Control, NEW t \in Token, StoreToken(t)
  PROVE  TypeOK'
<1> USE DEF TypeOK, maps, handler
<1>1. tok[t] # None /\ tok[t] \in TokenRec
  BY DEF StoreToken, Control, TokensMatchControl
<1>2. removals[tok[t].client] \in 0..MaxRemovals
  BY <1>1 DEF TokenRec
<1>3. LiveCodes \subseteq authCodes /\ LiveTokens \subseteq issued
  BY DEF LiveCodes, LiveTokens
<1>4. QED
  BY <1>1, <1>2, <1>3 DEF StoreToken

LEMMA RemovalTyped ==
  ASSUME TypeOK,
         (\E f \in File : Reload(f)) \/ (\E c \in Client : Revoke(c))
  PROVE  TypeOK'
<1> USE DEF TypeOK, maps, handler
<1>1. ASSUME NEW S \in SUBSET Client, CountRemoved(S)
      PROVE  removals' \in [Client -> 0..MaxRemovals]
  BY <1>1, ParameterAssumption DEF CountRemoved
<1>2. ASSUME NEW f \in File, Reload(f) PROVE TypeOK'
  <2>1. DOMAIN clients \ DOMAIN f \in SUBSET Client
    BY ClientMapTyped
  <2>2. removals' \in [Client -> 0..MaxRemovals]
    BY <1>1, <1>2, <2>1 DEF Reload
  <2>3. QED
    BY <1>2, <2>2, FileAssumption DEF Reload
<1>3. ASSUME NEW c \in Client, Revoke(c) PROVE TypeOK'
  <2>1. {c} \intersect DOMAIN clients \in SUBSET Client
    OBVIOUS
  <2>2. removals' \in [Client -> 0..MaxRemovals]
    BY <1>1, <1>3, <2>1 DEF Revoke
  <2>3. DOMAIN clients \ {c} \in SUBSET Client
        /\ [d \in DOMAIN clients \ {c} |-> clients[d]] \in [DOMAIN clients \ {c} -> Record]
    BY ClientMapTyped
  <2>4. clients' \in ClientMap
    BY <1>3, <2>3, ClientMapMade DEF Revoke
  <2>5. QED
    BY <1>3, <2>2, <2>4 DEF Revoke
<1>4. QED
  BY <1>2, <1>3

LEMMA StepTyped ==
  ASSUME TypeOK, Control, SpentMatches, [Next]_vars
  PROVE  TypeOK'
<1>1. ASSUME NEW a \in Reader, NEW t \in Token, FindExpired(a, t) PROVE TypeOK'
  BY <1>1 DEF FindExpired, TypeOK, maps, handler
<1>2. ASSUME NEW a \in Reader, DeleteExpired(a) PROVE TypeOK'
  BY <1>2 DEF DeleteExpired, TypeOK, handler
<1>3. CASE Tick
  BY <1>3, ParameterAssumption DEF Tick, TypeOK, maps, handler
<1>4. CASE UNCHANGED vars
  BY <1>4 DEF vars, TypeOK, maps, handler
<1>5. QED
  BY <1>1, <1>2, <1>3, <1>4, AuthorizationTyped, ExchangeTyped, GrantTyped, StoreTokenTyped,
     RemovalTyped DEF Next

-----------------------------------------------------------------------------
(* Control, and where the clients come from *)

LEMMA InitControlled ==
  ASSUME Init
  PROVE  Control /\ FromFile
<1>1. CodesMatchControl
  BY DEF Init, CodesMatchControl
<1>2. TokensMatchControl
  BY DEF Init, TokensMatchControl, Token
<1>3. RequestsMatchControl
  BY DEF Init, RequestsMatchControl, Token
<1>4. FromFile
  BY DEF Init, FromFile
<1>5. QED
  BY <1>1, <1>2, <1>3, <1>4 DEF Control

\* What Registered finds is in some file.
LEMMA RegisteredIsSomewhere ==
  ASSUME FromFile, NEW c, NEW uri, Registered(c, uri)
  PROVE  RegisteredSomewhere(c, uri)
BY DEF FromFile, Registered, RegisteredSomewhere

LEMMA FromFileKept ==
  ASSUME TypeOK, FromFile, [Next]_vars
  PROVE  FromFile'
<1>1. ASSUME NEW f \in File, Reload(f) PROVE FromFile'
  BY <1>1 DEF Reload, FromFile
<1>2. ASSUME NEW c \in Client, Revoke(c) PROVE FromFile'
  BY <1>2 DEF Revoke, FromFile
<1>3. CASE UNCHANGED clients
  BY <1>3 DEF FromFile
<1>4. ASSUME NEW k \in Code, BuildCode(k) \/ RefuseCode(k) \/ StoreCode(k) PROVE UNCHANGED clients
  BY <1>4 DEF BuildCode, RefuseCode, StoreCode, maps
<1>5. ASSUME NEW k \in Code, NEW a \in Authorizations,
             Approve(k, a) \/ RedirectError(k, a) \/ RefuseAuthorization(k, a)
      PROVE  UNCHANGED clients
  BY <1>5 DEF Approve, RedirectError, RefuseAuthorization, maps
<1>6. ASSUME NEW e \in Exchange,
             \/ \E r \in Requests : Present(e, r) \/ RefuseRequest(e, r)
             \/ CheckSecret(e) \/ RefuseSpent(e) \/ Spend(e) \/ BuildFromCode(e) \/ RefuseGone(e)
      PROVE  UNCHANGED clients
  BY <1>6 DEF Present, RefuseRequest, CheckSecret, RefuseSpent, Spend, BuildFromCode, RefuseGone, maps
<1>7. ASSUME NEW t \in Token,
             \/ \E creds \in Credentials, wanted \in SUBSET Scope : BuildFromSecret(t, creds, wanted)
             \/ RefuseGrant(t) \/ StoreToken(t)
      PROVE  UNCHANGED clients
  BY <1>7 DEF BuildFromSecret, RefuseGrant, StoreToken, maps
<1>8. CASE (\E a \in Reader, t \in Token : FindExpired(a, t)) \/ (\E a \in Reader : DeleteExpired(a)) \/ Tick
  BY <1>8, <1>3 DEF FindExpired, DeleteExpired, Tick, maps
<1>9. QED
  BY <1>1, <1>2, <1>3, <1>4, <1>5, <1>6, <1>7, <1>8 DEF Next, vars, maps, Token

LEMMA CodesKept ==
  ASSUME TypeOK, TypeOK', Control, FromFile, [Next]_vars
  PROVE  CodesMatchControl'
<1> USE DEF Control, CodesMatchControl, maps, handler
<1> USE ParameterAssumption DEF Token
<1>1. ASSUME NEW k \in Code, NEW a \in Authorizations, Approve(k, a) PROVE CodesMatchControl'
  <2>1. RegisteredSomewhere(a.client, a.redirect)
    BY <1>1, RegisteredIsSomewhere DEF Approve
  <2>2. a # None
    BY WorkloadAssumption, NoneAssumption
  <2>3. QED
    BY <1>1, <2>1, <2>2 DEF Approve, TypeOK, RegisteredSomewhere
<1>2. ASSUME NEW k \in Code, NEW a \in Authorizations, RedirectError(k, a) PROVE CodesMatchControl'
  BY <1>2 DEF RedirectError, Refuse, TypeOK, RegisteredSomewhere
<1>3. ASSUME NEW k \in Code, NEW a \in Authorizations, RefuseAuthorization(k, a)
      PROVE  CodesMatchControl'
  BY <1>3 DEF RefuseAuthorization, Refuse, TypeOK, RegisteredSomewhere
<1>4. ASSUME NEW k \in Code, BuildCode(k) PROVE CodesMatchControl'
  <2>1. ac'[k] # None
    BY <1>4, BuiltCodeTyped, NoneAssumption
  <2>2. QED
    BY <1>4, <2>1 DEF BuildCode, TypeOK, RegisteredSomewhere
<1>5. ASSUME NEW k \in Code, RefuseCode(k) PROVE CodesMatchControl'
  BY <1>5 DEF RefuseCode, Refuse, TypeOK, RegisteredSomewhere
<1>6. ASSUME NEW k \in Code, StoreCode(k) PROVE CodesMatchControl'
  BY <1>6 DEF StoreCode, LiveCodes, TypeOK, RegisteredSomewhere
<1>7. CASE /\ \A k \in Code : pc'[k] = pc[k]
           /\ UNCHANGED <<asked, sent, ac>>
           /\ authCodes' \subseteq authCodes
           /\ \A k \in Code : spentBy'[k] # spentBy[k] => k \in authCodes
  BY <1>7 DEF RegisteredSomewhere
<1>8. ASSUME NEW e \in Exchange, Spend(e) PROVE CodesMatchControl'
  BY <1>8, <1>7 DEF Spend, Spendable, TypeOK
<1>9. ASSUME NEW t \in Token, StoreToken(t) PROVE CodesMatchControl'
  BY <1>9, <1>7 DEF StoreToken, LiveCodes, TypeOK
<1>10. ASSUME NEW t \in Token,
              \/ \E r \in Requests : Present(t, r) \/ RefuseRequest(t, r)
              \/ CheckSecret(t) \/ RefuseSpent(t) \/ BuildFromCode(t) \/ RefuseGone(t)
              \/ \E creds \in Credentials, wanted \in SUBSET Scope : BuildFromSecret(t, creds, wanted)
              \/ RefuseGrant(t)
       PROVE  CodesMatchControl'
  BY <1>10, <1>7 DEF Present, RefuseRequest, CheckSecret, RefuseSpent, BuildFromCode, RefuseGone,
     BuildFromSecret, RefuseGrant, Refuse, TypeOK
<1>11. CASE UNCHANGED <<authCodes, pc, asked, sent, ac, spentBy>>
  BY <1>11, <1>7
<1>12. QED
  BY <1>1, <1>2, <1>3, <1>4, <1>5, <1>6, <1>8, <1>9, <1>10, <1>11
     DEF Next, vars, FindExpired, DeleteExpired, Reload, Revoke, Tick

\* A step of a code is no step of a token, and the other way round.
LEMMA CodeStepsApart ==
  ASSUME TypeOK, NEW k \in Code,
         \/ \E a \in Authorizations : Approve(k, a) \/ RedirectError(k, a) \/ RefuseAuthorization(k, a)
         \/ BuildCode(k) \/ RefuseCode(k) \/ StoreCode(k)
  PROVE  /\ \A t \in Token : pc'[t] = pc[t]
         /\ UNCHANGED <<tok, req, storedAt, removals, spentBy>>
         /\ issued' \subseteq issued
<1> USE ParameterAssumption DEF TypeOK, Token, maps
<1>1. ASSUME NEW a \in Authorizations, Approve(k, a) \/ RedirectError(k, a) \/ RefuseAuthorization(k, a)
      PROVE  /\ \A t \in Token : pc'[t] = pc[t]
             /\ UNCHANGED <<tok, req, storedAt, removals, spentBy, issued>>
  BY <1>1 DEF Approve, RedirectError, RefuseAuthorization, Refuse
<1>2. CASE BuildCode(k) \/ RefuseCode(k)
  BY <1>2 DEF BuildCode, RefuseCode, Refuse
<1>3. CASE StoreCode(k)
  BY <1>3 DEF StoreCode, LiveTokens
<1>4. QED
  BY <1>1, <1>2, <1>3

\* A removal and the clock leave what calls have built alone.
LEMMA OutsideStepsApart ==
  ASSUME \/ \E f \in File : Reload(f)
         \/ \E c \in Client : Revoke(c)
         \/ \E a \in Reader, t \in Token : FindExpired(a, t)
         \/ \E a \in Reader : DeleteExpired(a)
         \/ Tick \/ UNCHANGED vars
  PROVE  /\ UNCHANGED <<pc, asked, sent, ac, tok, req, storedAt, spentBy, authCodes, consumed>>
         /\ issued' \subseteq issued
BY DEF Reload, Revoke, FindExpired, DeleteExpired, Tick, vars, maps, handler

LEMMA TokensStayControlled ==
  ASSUME TypeOK, TypeOK', Control, SpentMatches, [Next]_vars
  PROVE  TokensMatchControl'
<1> USE DEF Control, TokensMatchControl, TypeOK, maps
<1>1. ASSUME NEW k \in Code,
             \/ \E a \in Authorizations : Approve(k, a) \/ RedirectError(k, a) \/ RefuseAuthorization(k, a)
             \/ BuildCode(k) \/ RefuseCode(k) \/ StoreCode(k)
      PROVE  TokensMatchControl'
  BY <1>1, CodeStepsApart
<1>2. ASSUME NEW e \in Exchange,
             \/ \E r \in Requests : Present(e, r) \/ RefuseRequest(e, r)
             \/ CheckSecret(e) \/ RefuseSpent(e) \/ Spend(e) \/ RefuseGone(e)
      PROVE  TokensMatchControl'
  <2>1. e \in Token
    BY DEF Token
  <2>2. ASSUME NEW r \in Requests, Present(e, r) \/ RefuseRequest(e, r)
        PROVE  TokensMatchControl'
    BY <2>1, <2>2 DEF Present, RefuseRequest, Refuse
  <2>3. CASE CheckSecret(e)
    BY <2>1, <2>3 DEF CheckSecret, Refuse
  <2>4. CASE Spend(e)
    BY <2>1, <2>4 DEF Spend
  <2>5. CASE RefuseSpent(e) \/ RefuseGone(e)
    BY <2>1, <2>5 DEF RefuseSpent, RefuseGone, Refuse
  <2>6. QED
    BY <1>2, <2>2, <2>3, <2>4, <2>5
<1>3. ASSUME NEW e \in Exchange, BuildFromCode(e) PROVE TokensMatchControl'
  <2>1. e \in Token /\ tok'[e] \in TokenRec
    BY <1>3, BuiltTokenTyped DEF Token
  <2>2. QED
    BY <1>3, <2>1, NoneAssumption DEF BuildFromCode
<1>4. ASSUME NEW g \in Grant, NEW creds \in Credentials, NEW wanted \in SUBSET Scope,
             BuildFromSecret(g, creds, wanted)
      PROVE  TokensMatchControl'
  <2>1. g \in Token /\ tok'[g] \in TokenRec
    BY <1>4, GrantedTokenTyped DEF Token
  <2>2. QED
    BY <1>4, <2>1, NoneAssumption DEF BuildFromSecret
<1>5. ASSUME NEW g \in Grant, RefuseGrant(g) PROVE TokensMatchControl'
  BY <1>5 DEF RefuseGrant, Refuse, Token
<1>6. ASSUME NEW t \in Token, StoreToken(t) PROVE TokensMatchControl'
  BY <1>6 DEF StoreToken, LiveTokens
<1>7. CASE /\ UNCHANGED <<pc, tok>>
           /\ issued' \subseteq issued
  BY <1>7
<1>8. QED
  BY <1>1, <1>2, <1>3, <1>4, <1>5, <1>6, <1>7, OutsideStepsApart DEF Next

LEMMA RequestsStayControlled ==
  ASSUME TypeOK, TypeOK', Control, [Next]_vars
  PROVE  RequestsMatchControl'
<1> USE DEF Control, RequestsMatchControl, TypeOK, maps, Token
<1>1. ASSUME NEW k \in Code,
             \/ \E a \in Authorizations : Approve(k, a) \/ RedirectError(k, a) \/ RefuseAuthorization(k, a)
             \/ BuildCode(k) \/ RefuseCode(k) \/ StoreCode(k)
      PROVE  RequestsMatchControl'
  BY <1>1, CodeStepsApart
<1>2. ASSUME NEW e \in Exchange, NEW r \in Requests, Present(e, r) PROVE RequestsMatchControl'
  <2>1. r \in Request /\ [r EXCEPT !.creds = None] \in Request
    BY RequestMade
  <2>2. req'[e] # None
    BY <1>2, <2>1, NoneAssumption DEF Present
  <2>3. pc'[e] = "checking" => req'[e] = r /\ r.creds # None
    BY <1>2 DEF Present
  <2>4. QED
    BY <1>2, <2>2, <2>3 DEF Present
<1>3. ASSUME NEW e \in Exchange, CheckSecret(e) PROVE RequestsMatchControl'
  <2>1. req[e] \in Request /\ req[e].creds \in Credentials
    BY <1>3 DEF CheckSecret, Request
  <2>2. [req[e] EXCEPT !.client = req[e].creds.id] \in Request
    BY <2>1 DEF Request, Credentials
  <2>3. QED
    BY <1>3, <2>2, NoneAssumption DEF CheckSecret, Refuse
<1>4. ASSUME NEW e \in Exchange, Spend(e) PROVE RequestsMatchControl'
  BY <1>4 DEF Spend
<1>5. ASSUME NEW e \in Exchange,
             \/ \E r \in Requests : RefuseRequest(e, r)
             \/ RefuseSpent(e) \/ RefuseGone(e) \/ BuildFromCode(e)
      PROVE  RequestsMatchControl'
  BY <1>5 DEF RefuseRequest, RefuseSpent, RefuseGone, BuildFromCode, Refuse
<1>6. ASSUME NEW g \in Grant,
             \/ \E creds \in Credentials, wanted \in SUBSET Scope : BuildFromSecret(g, creds, wanted)
             \/ RefuseGrant(g)
      PROVE  RequestsMatchControl'
  BY <1>6, ParameterAssumption DEF BuildFromSecret, RefuseGrant, Refuse
<1>7. ASSUME NEW t \in Token, StoreToken(t) PROVE RequestsMatchControl'
  BY <1>7 DEF StoreToken
<1>8. CASE UNCHANGED <<pc, req, spentBy>>
  BY <1>8
<1>9. QED
  BY <1>1, <1>2, <1>3, <1>4, <1>5, <1>6, <1>7, <1>8, OutsideStepsApart DEF Next

\* A step of a token leaves what codes have built alone.
LEMMA TokenStepsApart ==
  ASSUME TypeOK, NEW t \in Token,
         \/ \E r \in Requests : Present(t, r) \/ RefuseRequest(t, r)
         \/ CheckSecret(t) \/ RefuseSpent(t) \/ Spend(t) \/ BuildFromCode(t) \/ RefuseGone(t)
         \/ \E creds \in Credentials, wanted \in SUBSET Scope : BuildFromSecret(t, creds, wanted)
         \/ RefuseGrant(t) \/ StoreToken(t)
  PROVE  UNCHANGED <<asked, sent, ac>>
BY DEF Present, RefuseRequest, CheckSecret, RefuseSpent, Spend, BuildFromCode, RefuseGone,
   BuildFromSecret, RefuseGrant, StoreToken, handler

-----------------------------------------------------------------------------
(* The parts of the invariant that the properties rest on *)

LEMMA RedirectsKept ==
  ASSUME TypeOK, Control, FromFile, RedirectsAreRegistered, [Next]_vars
  PROVE  RedirectsAreRegistered'
<1> USE DEF RedirectsAreRegistered, TypeOK
<1>1. ASSUME NEW k \in Code, NEW a \in Authorizations, Approve(k, a)
      PROVE  RedirectsAreRegistered'
  <2>1. sent[k] = None
    BY <1>1 DEF Approve, Control, CodesMatchControl
  <2>2. QED
    BY <1>1, <2>1 DEF Approve
<1>2. ASSUME NEW k \in Code, NEW a \in Authorizations, RedirectError(k, a)
      PROVE  RedirectsAreRegistered'
  <2>1. RegisteredSomewhere(a.client, a.redirect)
    BY <1>2, RegisteredIsSomewhere DEF RedirectError
  <2>2. QED
    BY <1>2, <2>1 DEF RedirectError, RegisteredSomewhere
<1>3. ASSUME NEW k \in Code, StoreCode(k) PROVE RedirectsAreRegistered'
  <2>1. RegisteredSomewhere(asked[k].client, asked[k].redirect)
    BY <1>3 DEF StoreCode, Control, CodesMatchControl
  <2>2. QED
    BY <1>3, <2>1 DEF StoreCode, RegisteredSomewhere
<1>4. CASE UNCHANGED <<asked, sent>>
  BY <1>4
<1>5. ASSUME NEW k \in Code,
             \/ \E a \in Authorizations : RefuseAuthorization(k, a)
             \/ BuildCode(k) \/ RefuseCode(k)
      PROVE  UNCHANGED <<asked, sent>>
  BY <1>5 DEF RefuseAuthorization, BuildCode, RefuseCode, handler
<1>6. QED
  BY <1>1, <1>2, <1>3, <1>4, <1>5, TokenStepsApart, OutsideStepsApart DEF Next, Token

LEMMA SpentByOneKept ==
  ASSUME TypeOK, Control, SpentByOne, [Next]_vars
  PROVE  SpentByOne'
<1> USE DEF SpentByOne, Spendable, TypeOK
<1>1. ASSUME NEW k \in Code, StoreCode(k) PROVE SpentByOne'
  <2>1. spentBy[k] = {}
    BY <1>1 DEF StoreCode, Control, CodesMatchControl
  <2>2. QED
    BY <1>1, <2>1 DEF StoreCode, LiveCodes
<1>2. ASSUME NEW e \in Exchange, Spend(e) PROVE SpentByOne'
  <2> DEFINE k == req[e].code
  <2>1. k \in Code /\ spentBy[k] = {}
    BY <1>2 DEF Spend
  <2>2. spentBy'[k] = {e} /\ k \in consumed'
    BY <1>2, <2>1 DEF Spend
  <2>3. \A j \in Code \ {k} : spentBy'[j] = spentBy[j]
    BY <1>2 DEF Spend
  <2>4. authCodes' = authCodes /\ consumed \subseteq consumed'
    BY <1>2 DEF Spend
  <2> HIDE DEF k
  <2>5. ASSUME NEW j \in Code \ {k}, spentBy'[j] # {}
        PROVE  j \notin authCodes' \ consumed' /\ \E d \in Exchange : spentBy'[j] = {d}
    BY <2>3, <2>4, <2>5
  <2>6. k \notin authCodes' \ consumed' /\ \E d \in Exchange : spentBy'[k] = {d}
    BY <2>2
  <2>7. QED
    BY <2>5, <2>6
<1>3. ASSUME NEW t \in Token, StoreToken(t) PROVE SpentByOne'
  BY <1>3 DEF StoreToken, LiveCodes
<1>4. CASE UNCHANGED <<authCodes, consumed, spentBy>>
  BY <1>4
<1>5. ASSUME NEW k \in Code,
             \/ \E a \in Authorizations : Approve(k, a) \/ RedirectError(k, a) \/ RefuseAuthorization(k, a)
             \/ BuildCode(k) \/ RefuseCode(k)
      PROVE  UNCHANGED <<authCodes, consumed, spentBy>>
  BY <1>5 DEF Approve, RedirectError, RefuseAuthorization, BuildCode, RefuseCode, maps
<1>6. ASSUME NEW t \in Token,
             \/ \E r \in Requests : Present(t, r) \/ RefuseRequest(t, r)
             \/ CheckSecret(t) \/ RefuseSpent(t) \/ BuildFromCode(t) \/ RefuseGone(t)
             \/ \E creds \in Credentials, wanted \in SUBSET Scope : BuildFromSecret(t, creds, wanted)
             \/ RefuseGrant(t)
      PROVE  UNCHANGED <<authCodes, consumed, spentBy>>
  BY <1>6 DEF Present, RefuseRequest, CheckSecret, RefuseSpent, BuildFromCode, RefuseGone,
     BuildFromSecret, RefuseGrant, maps
<1>7. QED
  BY <1>1, <1>2, <1>3, <1>4, <1>5, <1>6, OutsideStepsApart DEF Next, Token

\* Of the steps, BuildCode alone changes a code, and one that nobody has spent.
LEMMA SpentCodesFixed ==
  ASSUME TypeOK, Control, [Next]_vars, NEW k \in Code, spentBy[k] # {}
  PROVE  ac'[k] = ac[k]
<1>1. pc[k] = "stored"
  BY DEF Control, CodesMatchControl
<1>2. ASSUME NEW j \in Code, BuildCode(j) PROVE ac'[k] = ac[k]
  BY <1>1, <1>2 DEF BuildCode, TypeOK
<1>3. ASSUME NEW j \in Code,
             \/ \E a \in Authorizations : Approve(j, a) \/ RedirectError(j, a) \/ RefuseAuthorization(j, a)
             \/ RefuseCode(j) \/ StoreCode(j)
      PROVE  UNCHANGED ac
  BY <1>3 DEF Approve, RedirectError, RefuseAuthorization, RefuseCode, StoreCode
<1>4. QED
  BY <1>2, <1>3, TokenStepsApart, OutsideStepsApart DEF Next, Token

\* A step of one token leaves the others where they are.
LEMMA SpentMatchesKept ==
  ASSUME TypeOK, Control, SpentByOne, SpentMatches, [Next]_vars
  PROVE  SpentMatches'
<1>1. ASSUME NEW e \in Exchange, pc[e] = "spent" PROVE ac'[req[e].code] = ac[req[e].code]
  <2>1. req[e] \in Request /\ spentBy[req[e].code] = {e}
    BY <1>1 DEF SpentMatches, Control, RequestsMatchControl, TypeOK
  <2>2. req[e].code \in Code
    BY <2>1 DEF Request
  <2>3. QED
    BY <2>1, <2>2, SpentCodesFixed
<1>2. CASE /\ \A e \in Exchange : pc'[e] = "spent" => pc[e] = "spent" /\ req'[e] = req[e]
           /\ UNCHANGED spentBy
  BY <1>1, <1>2 DEF SpentMatches, BoundTo
<1>3. ASSUME NEW e \in Exchange, Spend(e) PROVE SpentMatches'
  <2> DEFINE k == req[e].code
  <2>1. k \in Code /\ spentBy[k] = {} /\ spentBy'[k] = {e}
    BY <1>3 DEF Spend, Spendable, SpentByOne, TypeOK
  <2>2. pc'[e] = "spent" => BoundTo(ac'[k], req'[e])
    BY <1>3 DEF Spend, TypeOK, Token, BoundTo
  <2>3. \A j \in Code \ {k} : spentBy'[j] = spentBy[j]
    BY <1>3 DEF Spend, TypeOK
  <2>4. ASSUME NEW d \in Exchange \ {e}, pc'[d] = "spent"
        PROVE  spentBy'[req'[d].code] = {d} /\ BoundTo(ac'[req'[d].code], req'[d])
    <3>1. pc[d] = "spent" /\ req'[d] = req[d]
      BY <1>3, <2>4 DEF Spend, TypeOK, Token
    <3>2. req[d] \in Request /\ spentBy[req[d].code] = {d}
      BY <3>1 DEF SpentMatches, Control, RequestsMatchControl, TypeOK
    <3>3. req[d].code \in Code \ {k}
      BY <2>1, <3>2 DEF Request
    <3>4. QED
      BY <1>1, <2>3, <3>1, <3>2, <3>3 DEF SpentMatches, BoundTo
  <2>5. req'[e] = req[e]
    BY <1>3 DEF Spend
  <2>6. QED
    BY <2>1, <2>2, <2>4, <2>5 DEF SpentMatches
<1>4. ASSUME NEW k \in Code,
             \/ \E a \in Authorizations : Approve(k, a) \/ RedirectError(k, a) \/ RefuseAuthorization(k, a)
             \/ BuildCode(k) \/ RefuseCode(k) \/ StoreCode(k)
      PROVE  SpentMatches'
  BY <1>2, <1>4, CodeStepsApart DEF Token
<1>5. ASSUME NEW e \in Exchange, NEW r \in Requests, Present(e, r) \/ RefuseRequest(e, r)
      PROVE  SpentMatches'
  BY <1>2, <1>5 DEF Present, RefuseRequest, Refuse, TypeOK, Token
<1>6. ASSUME NEW e \in Exchange, CheckSecret(e) PROVE SpentMatches'
  BY <1>2, <1>6 DEF CheckSecret, Refuse, TypeOK, Token
<1>7. ASSUME NEW e \in Exchange, RefuseSpent(e) \/ BuildFromCode(e) \/ RefuseGone(e)
      PROVE  SpentMatches'
  BY <1>2, <1>7 DEF RefuseSpent, BuildFromCode, RefuseGone, Refuse, TypeOK, Token
<1>8. ASSUME NEW t \in Token,
             \/ \E creds \in Credentials, wanted \in SUBSET Scope : BuildFromSecret(t, creds, wanted)
             \/ RefuseGrant(t) \/ StoreToken(t)
      PROVE  SpentMatches'
  BY <1>2, <1>8 DEF BuildFromSecret, RefuseGrant, StoreToken, Refuse, TypeOK, Token
<1>9. CASE UNCHANGED <<pc, req, spentBy>>
  BY <1>2, <1>9
<1>10. QED
  BY <1>3, <1>4, <1>5, <1>6, <1>7, <1>8, <1>9, OutsideStepsApart DEF Next, Token

\* Nothing else changes a built token, and its request and code stay as they were.
LEMMA TokenMatchesCode ==
  ASSUME TypeOK, Control, TokensMatchCodes, [Next]_vars,
         NEW e \in Exchange, tok[e] # None, tok'[e] = tok[e], req'[e] = req[e],
         \A k \in Code : spentBy[k] # {} => spentBy'[k] = spentBy[k]
  PROVE  LET code == ac'[req'[e].code]
         IN  /\ spentBy'[req'[e].code] = {e}
             /\ BoundTo(code, req'[e])
             /\ tok'[e].client = code.client /\ tok'[e].scopes = code.scopes
<1>1. e \in Token /\ pc[e] \in {"built", "stored"}
  BY DEF Token, Control, TokensMatchControl
<1>2. req[e].code \in Code
  BY <1>1 DEF Control, RequestsMatchControl, TypeOK, Request
<1>3. spentBy[req[e].code] = {e}
  BY DEF TokensMatchCodes
<1>4. ac'[req[e].code] = ac[req[e].code] /\ spentBy'[req[e].code] = spentBy[req[e].code]
  BY <1>2, <1>3, SpentCodesFixed
<1>5. QED
  BY <1>4 DEF TokensMatchCodes, BoundTo

LEMMA TokensMatchCodesKept ==
  ASSUME TypeOK, Control, SpentByOne, SpentMatches, TokensMatchCodes, [Next]_vars
  PROVE  TokensMatchCodes'
<1>1. CASE /\ \A e \in Exchange : tok'[e] # None => tok'[e] = tok[e] /\ req'[e] = req[e]
           /\ \A k \in Code : spentBy[k] # {} => spentBy'[k] = spentBy[k]
  BY <1>1, TokenMatchesCode DEF TokensMatchCodes, BoundTo
<1>2. ASSUME NEW k \in Code,
             \/ \E a \in Authorizations : Approve(k, a) \/ RedirectError(k, a) \/ RefuseAuthorization(k, a)
             \/ BuildCode(k) \/ RefuseCode(k) \/ StoreCode(k)
      PROVE  TokensMatchCodes'
  BY <1>1, <1>2, CodeStepsApart
<1>3. ASSUME NEW e \in Exchange, pc[e] \in {"new", "checking"} PROVE tok[e] = None
  BY <1>3 DEF Token, Control, TokensMatchControl
<1>4. ASSUME NEW e \in Exchange, NEW r \in Requests, Present(e, r) PROVE TokensMatchCodes'
  BY <1>1, <1>3, <1>4 DEF Present, TypeOK
<1>5. ASSUME NEW e \in Exchange, CheckSecret(e) PROVE TokensMatchCodes'
  BY <1>1, <1>3, <1>5 DEF CheckSecret, TypeOK
<1>6. ASSUME NEW e \in Exchange, Spend(e) PROVE TokensMatchCodes'
  <2>1. spentBy[req[e].code] = {}
    BY <1>6 DEF Spend, Spendable, SpentByOne, TypeOK
  <2>2. UNCHANGED <<tok, req>> /\ \A k \in Code : spentBy[k] # {} => spentBy'[k] = spentBy[k]
    BY <1>6, <2>1 DEF Spend, TypeOK
  <2>3. QED
    BY <1>1, <2>2
<1>7. ASSUME NEW e \in Exchange, BuildFromCode(e) PROVE TokensMatchCodes'
  <2>1. UNCHANGED <<req, ac, spentBy>>
    BY <1>7 DEF BuildFromCode
  <2>2. /\ tok'[e].client = req[e].client
        /\ tok'[e].scopes = ac[req[e].code].scopes
        /\ \A d \in Exchange \ {e} : tok'[d] = tok[d]
    BY <1>7 DEF BuildFromCode, TypeOK, Token
  <2>3. spentBy[req[e].code] = {e} /\ BoundTo(ac[req[e].code], req[e])
    BY <1>7 DEF BuildFromCode, SpentMatches
  <2>4. QED
    BY <2>1, <2>2, <2>3 DEF TokensMatchCodes, BoundTo
<1>8. ASSUME NEW g \in Grant, NEW creds \in Credentials, NEW wanted \in SUBSET Scope,
             BuildFromSecret(g, creds, wanted)
      PROVE  TokensMatchCodes'
  <2>1. \A e \in Exchange : tok'[e] = tok[e]
    BY <1>8, ParameterAssumption DEF BuildFromSecret, TypeOK, Token
  <2>2. UNCHANGED <<req, spentBy>>
    BY <1>8 DEF BuildFromSecret
  <2>3. QED
    BY <1>1, <2>1, <2>2
<1>9. ASSUME NEW t \in Token,
             \/ \E r \in Requests : RefuseRequest(t, r)
             \/ RefuseSpent(t) \/ RefuseGone(t) \/ RefuseGrant(t) \/ StoreToken(t)
      PROVE  TokensMatchCodes'
  BY <1>1, <1>9 DEF RefuseRequest, RefuseSpent, RefuseGone, RefuseGrant, StoreToken
<1>10. CASE UNCHANGED <<tok, req, spentBy>>
  BY <1>1, <1>10
<1>11. QED
  BY <1>2, <1>4, <1>5, <1>6, <1>7, <1>8, <1>9, <1>10, OutsideStepsApart DEF Next, Token

LEMMA AdmittedGuardedKept ==
  ASSUME TypeOK, Control, FromFile, AdmittedAreGuarded, [Next]_vars
  PROVE  AdmittedAreGuarded'
<1>1. CASE \A e \in Exchange :
             /\ pc'[e] = "admitted" => pc[e] = "admitted"
             /\ \A k \in Code : e \in spentBy'[k] => e \in spentBy[k] \/ pc[e] = "admitted"
             /\ req'[e] # req[e] => pc'[e] # "admitted" /\ \A k \in Code : e \notin spentBy'[k]
  BY <1>1 DEF AdmittedAreGuarded, Guarded
<1>2. ASSUME NEW e \in Exchange, pc[e] \in {"new", "checking"}, UNCHANGED spentBy,
             \A d \in Exchange \ {e} : pc'[d] = pc[d] /\ req'[d] = req[d],
             pc'[e] = "admitted" => Guarded(e)'
      PROVE  AdmittedAreGuarded'
  <2>1. \A k \in Code : e \notin spentBy'[k]
    BY <1>2 DEF Control, RequestsMatchControl
  <2>2. ASSUME NEW d \in Exchange \ {e}, pc'[d] = "admitted" \/ \E k \in Code : d \in spentBy'[k]
        PROVE  Guarded(d)'
    BY <1>2, <2>2 DEF AdmittedAreGuarded, Guarded
  <2>3. QED
    BY <1>2, <2>1, <2>2 DEF AdmittedAreGuarded
<1>3. ASSUME NEW e \in Exchange, NEW r \in Requests, Present(e, r) PROVE AdmittedAreGuarded'
  <2>1. /\ pc[e] = "new" /\ UNCHANGED spentBy
        /\ \A d \in Exchange \ {e} : pc'[d] = pc[d] /\ req'[d] = req[d]
    BY <1>3 DEF Present, TypeOK, Token
  <2>2. ASSUME pc'[e] = "admitted" PROVE Guarded(e)'
    <3>1. clients[r.client].secret = NoSecret /\ req'[e] = [r EXCEPT !.creds = None]
      BY <1>3, <2>2 DEF Present, TypeOK, Token
    <3>2. req'[e].client = r.client
      BY <3>1, RequestMade DEF Request
    <3>3. PICK f \in File : r.client \in DOMAIN f /\ f[r.client].secret = NoSecret
      BY <1>3, <3>1 DEF FromFile, Present
    <3>4. QED
      BY <3>2, <3>3 DEF Guarded
  <2>3. QED
    BY <1>2, <2>1, <2>2
<1>4. ASSUME NEW e \in Exchange, CheckSecret(e) PROVE AdmittedAreGuarded'
  <2>1. /\ pc[e] = "checking" /\ UNCHANGED spentBy
        /\ \A d \in Exchange \ {e} : pc'[d] = pc[d] /\ req'[d] = req[d]
    BY <1>4 DEF CheckSecret, Refuse, TypeOK, Token
  <2>2. ASSUME pc'[e] = "admitted" PROVE Guarded(e)'
    <3> DEFINE creds == req[e].creds
    <3>1. req[e] \in Request /\ creds # None /\ creds \in Credentials
      BY <2>1 DEF Control, RequestsMatchControl, TypeOK, Request
    <3>2. SecretMatches(creds) /\ req'[e] = [req[e] EXCEPT !.client = creds.id]
      BY <1>4, <2>2 DEF CheckSecret, Refuse, TypeOK, Token
    <3>3. req'[e].client = creds.id /\ req'[e].creds = creds
      BY <3>1, <3>2 DEF Request
    <3>4. PICK f \in File : creds.id \in DOMAIN f /\ f[creds.id].secret = creds.secret
      BY <3>2 DEF FromFile, SecretMatches
    <3>5. QED
      BY <3>1, <3>3, <3>4 DEF Guarded
  <2>3. QED
    BY <1>2, <2>1, <2>2
<1>5. ASSUME NEW e \in Exchange, Spend(e) PROVE AdmittedAreGuarded'
  BY <1>1, <1>5 DEF Spend, TypeOK, Token
<1>6. ASSUME NEW k \in Code,
             \/ \E a \in Authorizations : Approve(k, a) \/ RedirectError(k, a) \/ RefuseAuthorization(k, a)
             \/ BuildCode(k) \/ RefuseCode(k) \/ StoreCode(k)
      PROVE  AdmittedAreGuarded'
  BY <1>1, <1>6, CodeStepsApart DEF Token
<1>7. ASSUME NEW e \in Exchange,
             \/ \E r \in Requests : RefuseRequest(e, r)
             \/ RefuseSpent(e) \/ RefuseGone(e) \/ BuildFromCode(e)
      PROVE  AdmittedAreGuarded'
  BY <1>1, <1>7 DEF RefuseRequest, RefuseSpent, RefuseGone, BuildFromCode, Refuse, TypeOK, Token
<1>8. ASSUME NEW t \in Token,
             \/ \E creds \in Credentials, wanted \in SUBSET Scope : BuildFromSecret(t, creds, wanted)
             \/ RefuseGrant(t) \/ StoreToken(t)
      PROVE  AdmittedAreGuarded'
  BY <1>1, <1>8 DEF BuildFromSecret, RefuseGrant, StoreToken, Refuse, TypeOK, Token
<1>9. CASE UNCHANGED <<pc, req, spentBy>>
  BY <1>1, <1>9
<1>10. QED
  BY <1>3, <1>4, <1>5, <1>6, <1>7, <1>8, <1>9, OutsideStepsApart DEF Next, Token

LEMMA CutOffKept ==
  ASSUME TypeOK, Control, CutOff, [Next]_vars
  PROVE  CutOff'
<1> USE DEF CutOff, TypeOK, maps, handler
<1>1. CASE /\ issued' \subseteq issued
           /\ \A t \in issued : tok'[t] = tok[t]
           /\ UNCHANGED <<removals, storedAt>>
  BY <1>1
<1>2. ASSUME NEW t \in Token, pc[t] # "stored" PROVE t \notin issued
  BY <1>2 DEF Control, TokensMatchControl
<1>3. ASSUME NEW e \in Exchange, BuildFromCode(e) PROVE CutOff'
  BY <1>1, <1>2, <1>3 DEF BuildFromCode, Token
<1>4. ASSUME NEW g \in Grant, NEW creds \in Credentials, NEW wanted \in SUBSET Scope,
             BuildFromSecret(g, creds, wanted)
      PROVE  CutOff'
  BY <1>1, <1>2, <1>4 DEF BuildFromSecret, Token
<1>5. ASSUME NEW t \in Token, StoreToken(t) PROVE CutOff'
  <2>1. t \notin issued
    BY <1>2, <1>5 DEF StoreToken
  <2>2. storedAt'[t] = removals'[tok'[t].client]
    BY <1>5 DEF StoreToken
  <2>3. \A u \in issued' \ {t} : u \in issued /\ storedAt'[u] = storedAt[u]
    BY <1>5 DEF StoreToken, LiveTokens
  <2>4. UNCHANGED <<tok, removals>>
    BY <1>5 DEF StoreToken
  <2>5. QED
    BY <2>2, <2>3, <2>4
<1>6. ASSUME NEW S \in SUBSET Client, CountRemoved(S), UNCHANGED <<tok, storedAt>>,
             issued' \subseteq issued, \A t \in issued' : tok[t].client \notin S
      PROVE  CutOff'
  <2>1. ASSUME NEW t \in issued' PROVE storedAt'[t] = removals'[tok'[t].client]
    <3>1. tok[t].client \in Client
      BY <1>6, <2>1 DEF TokenRec
    <3>2. QED
      BY <1>6, <2>1, <3>1 DEF CountRemoved
  <2>2. QED
    BY <2>1
<1>7. ASSUME NEW f \in File, Reload(f) PROVE CutOff'
  <2>1. DOMAIN clients \ DOMAIN f \in SUBSET Client
    BY ClientMapTyped
  <2>2. \A t \in issued' : t \in issued /\ tok[t].client \notin Client \ DOMAIN f
    BY <1>7 DEF Reload, TokensOf
  <2>3. \A t \in issued' : tok[t].client \notin DOMAIN clients \ DOMAIN f
    BY <2>1, <2>2
  <2>4. QED
    BY <1>6, <1>7, <2>1, <2>2, <2>3 DEF Reload
<1>8. ASSUME NEW c \in Client, Revoke(c) PROVE CutOff'
  <2>1. \A t \in issued' : t \in issued /\ tok[t].client # c
    BY <1>8 DEF Revoke, TokensOf
  <2>2. {c} \intersect DOMAIN clients \in SUBSET Client
    OBVIOUS
  <2>3. QED
    BY <1>6, <1>8, <2>1, <2>2 DEF Revoke
<1>9. ASSUME NEW k \in Code,
             \/ \E a \in Authorizations : Approve(k, a) \/ RedirectError(k, a) \/ RefuseAuthorization(k, a)
             \/ BuildCode(k) \/ RefuseCode(k) \/ StoreCode(k)
      PROVE  CutOff'
  BY <1>1, <1>9, CodeStepsApart
<1>10. ASSUME NEW t \in Token,
              \/ \E r \in Requests : Present(t, r) \/ RefuseRequest(t, r)
              \/ CheckSecret(t) \/ RefuseSpent(t) \/ Spend(t) \/ RefuseGone(t) \/ RefuseGrant(t)
       PROVE  CutOff'
  BY <1>1, <1>10 DEF Present, RefuseRequest, CheckSecret, RefuseSpent, Spend, RefuseGone, RefuseGrant
<1>11. CASE (\E a \in Reader, t \in Token : FindExpired(a, t)) \/ (\E a \in Reader : DeleteExpired(a))
            \/ Tick \/ UNCHANGED vars
  BY <1>1, <1>11 DEF FindExpired, DeleteExpired, Tick, vars
<1>12. QED
  BY <1>3, <1>4, <1>5, <1>7, <1>8, <1>9, <1>10, <1>11 DEF Next, Token

-----------------------------------------------------------------------------
(* The invariant, and what follows from it *)

LEMMA InitInvariant == Init => IInv
<1> SUFFICES ASSUME Init PROVE IInv
  OBVIOUS
<1>1. RedirectsAreRegistered
  BY DEF Init, RedirectsAreRegistered
<1>2. SpentByOne
  BY DEF Init, SpentByOne
<1>3. SpentMatches
  BY DEF Init, SpentMatches, Token
<1>4. TokensMatchCodes
  BY DEF Init, TokensMatchCodes, Token
<1>5. AdmittedAreGuarded
  BY DEF Init, AdmittedAreGuarded, Token
<1>6. CutOff
  BY DEF Init, CutOff
<1>7. QED
  BY <1>1, <1>2, <1>3, <1>4, <1>5, <1>6, InitTyped, InitControlled DEF IInv

LEMMA StepInvariant == IInv /\ [Next]_vars => IInv'
<1> SUFFICES ASSUME IInv, [Next]_vars PROVE IInv'
  OBVIOUS
<1> USE DEF IInv
<1>1. TypeOK'
  BY StepTyped
<1>2. FromFile'
  BY FromFileKept
<1>3. Control'
  BY <1>1, CodesKept, TokensStayControlled, RequestsStayControlled DEF Control
<1>4. QED
  BY <1>1, <1>2, <1>3, RedirectsKept, SpentByOneKept, SpentMatchesKept, TokensMatchCodesKept,
     AdmittedGuardedKept, CutOffKept

\* Whatever the interleaving of handlers, reloads, revocations and sweeps, the invariant holds.
THEOREM Invariant == Spec => []IInv
<1>1. QED
  BY InitInvariant, StepInvariant, PTL DEF Spec

\* The provider's maps hold records of the types they are declared with, and an entry only
\* for a code or token that some call built.
THEOREM TypeCorrect == Spec => []TypeOK
<1>1. IInv => TypeOK
  BY DEF IInv
<1>2. QED
  BY <1>1, Invariant, PTL

\* The Consumed flag, with the sweep that forgets it, lets one exchange at a code, however
\* many race: no code is spendable again once it was spent.
THEOREM CodesAreSpentOnce == Spec => []CodeSpentOnce
<1>1. IInv => CodeSpentOnce
  <2> SUFFICES ASSUME IInv, NEW k \in Code PROVE Cardinality(spentBy[k]) <= 1
    BY DEF CodeSpentOnce
  <2>1. CASE spentBy[k] = {}
    BY <2>1, FS_EmptySet
  <2>2. CASE spentBy[k] # {}
    <3>1. PICK e \in Exchange : spentBy[k] = {e}
      BY <2>2 DEF IInv, SpentByOne
    <3>2. QED
      BY <3>1, FS_Singleton
  <2>3. QED
    BY <2>1, <2>2
<1>2. QED
  BY <1>1, Invariant, PTL

\* A browser is sent only to a redirect URI that some clients file had for the client named,
\* although the file may be read again between the two lookups of the authorize endpoint.
THEOREM RedirectsGoToRegistered == Spec => []RedirectsAreRegistered
<1>1. IInv => RedirectsAreRegistered
  BY DEF IInv
<1>2. QED
  BY <1>1, Invariant, PTL

\* A token from a code has the client and scopes of that code, and the exchange that built
\* it is the one that spent the code with its redirect URI and verifier.
THEOREM TokensMatchTheirCodes == Spec => []TokensMatchCodes
<1>1. IInv => TokensMatchCodes
  BY DEF IInv
<1>2. QED
  BY <1>1, Invariant, PTL

\* No exchange spends a code for a confidential client without that client's own secret.
THEOREM SecretsGuardCodes == Spec => []SecretGuardsCode
<1>1. IInv => SecretGuardsCode
  <2> SUFFICES ASSUME IInv, NEW k \in Code, NEW e \in spentBy[k] PROVE Guarded(e)
    BY DEF SecretGuardsCode, Guarded
  <2>1. e \in Exchange
    BY DEF IInv, TypeOK
  <2>2. QED
    BY <2>1 DEF IInv, AdmittedAreGuarded
<1>2. QED
  BY <1>1, Invariant, PTL

\* A reload or a revocation that takes a client away takes every token stored for it by then.
THEOREM RemovalsCutOff == Spec => []CutOff
<1>1. IInv => CutOff
  BY DEF IInv
<1>2. QED
  BY <1>1, Invariant, PTL

\* A token leaves the store only once it has expired, or when its client has left the map.
THEOREM TokensAreKept == Spec => TokensKept
<1>1. ASSUME [Next]_vars, NEW u \in issued \ issued'
      PROVE  now > tok[u].expires \/ tok[u].client \notin DOMAIN clients'
  <2> DEFINE Kept == now > tok[u].expires \/ tok[u].client \notin DOMAIN clients'
  <2>1. ASSUME NEW k \in Code, StoreCode(k) PROVE Kept
    BY <1>1, <2>1 DEF StoreCode, LiveTokens, Expired
  <2>2. ASSUME NEW t \in Token, StoreToken(t) PROVE Kept
    BY <1>1, <2>2 DEF StoreToken, LiveTokens, Expired
  <2>3. ASSUME NEW a \in Reader, DeleteExpired(a) PROVE Kept
    BY <1>1, <2>3 DEF DeleteExpired, Expired
  <2>4. ASSUME NEW f \in File, Reload(f) PROVE Kept
    BY <1>1, <2>4 DEF Reload, TokensOf
  <2>5. ASSUME NEW c \in Client, Revoke(c) PROVE Kept
    BY <1>1, <2>5 DEF Revoke, TokensOf
  <2>6. ASSUME NEW k \in Code,
               \/ \E a \in Authorizations :
                    Approve(k, a) \/ RedirectError(k, a) \/ RefuseAuthorization(k, a)
               \/ BuildCode(k) \/ RefuseCode(k)
        PROVE  FALSE
    BY <1>1, <2>6 DEF Approve, RedirectError, RefuseAuthorization, BuildCode, RefuseCode, maps
  <2>7. ASSUME NEW t \in Token,
               \/ \E r \in Requests : Present(t, r) \/ RefuseRequest(t, r)
               \/ CheckSecret(t) \/ RefuseSpent(t) \/ Spend(t) \/ BuildFromCode(t) \/ RefuseGone(t)
               \/ \E creds \in Credentials, wanted \in SUBSET Scope : BuildFromSecret(t, creds, wanted)
               \/ RefuseGrant(t)
        PROVE  FALSE
    BY <1>1, <2>7 DEF Present, RefuseRequest, CheckSecret, RefuseSpent, Spend, BuildFromCode,
       RefuseGone, BuildFromSecret, RefuseGrant, maps
  <2>8. CASE (\E a \in Reader, t \in Token : FindExpired(a, t)) \/ Tick \/ UNCHANGED vars
    BY <1>1, <2>8 DEF FindExpired, Tick, vars, maps
  <2>9. QED
    BY <1>1, <2>1, <2>2, <2>3, <2>4, <2>5, <2>6, <2>7, <2>8 DEF Next, Token
<1>2. [Next]_vars => [\A t \in issued \ issued' :
                        now > tok[t].expires \/ tok[t].client \notin DOMAIN clients']_vars
  BY <1>1
<1>3. QED
  BY <1>2, PTL DEF Spec, TokensKept
=============================================================================
