--------------------------- MODULE OAuth2Provider ---------------------------
(***************************************************************************)
(* internal/auth/oauth2.go and the token handlers of                       *)
(* internal/server/oauth2.go: authorization codes, access tokens and the   *)
(* clients they belong to, under concurrent handlers.                      *)
(*                                                                         *)
(* The provider takes its mutex once to look a client up and again to      *)
(* store what it built from that record.  Each critical section is one     *)
(* step, and the work on local values between two of them belongs to the   *)
(* first.  ReloadClients and RevokeClient may run at any time.             *)
(*                                                                         *)
(* Codes and tokens are 256 random bits, taken to be unique: a code is     *)
(* named by the call of IssueAuthorizationCode that builds it, a token by  *)
(* the call of ExchangeAuthorizationCode or IssueToken.  Labels, state     *)
(* parameters and response bodies are left out.                            *)
(***************************************************************************)
EXTENDS Integers, FiniteSets

CONSTANTS
  Client,         \* client ids
  Redirect,       \* redirect URIs
  Scope,
  Secret,         \* client secrets; a record holds the hash of one
  NoSecret,       \* SecretHash of a public client
  Verifier,       \* PKCE code verifiers
  DefaultScopes,  \* OAuth2Provider.defaultScopes
  File,           \* the client maps that a read of the clients file may yield
  Code,           \* the calls of IssueAuthorizationCode
  Exchange,       \* the authorization_code requests on the token endpoint
  Grant,          \* the calls of IssueToken
  Reader,         \* the requests that carry an access token
  None,           \* nothing built yet
  Authorizations, \* the authorization requests that may come, of those that Authorization names
  Requests,       \* the authorization_code requests that may come, of those in Request
  AutoApprove,    \* auto_approve: no consent page
  CodeTTL,        \* authCodeTTL
  TokenTTL,       \* ttl
  MaxTime,        \* bound: the clock stops here
  MaxRemovals     \* bound: how often one client is removed

Record == [secret : Secret \union {NoSecret}, redirects : SUBSET Redirect,
           scopes : SUBSET Scope]

ClientMap == UNION {[S -> Record] : S \in SUBSET Client}

\* ReloadClients refuses a record that is neither confidential nor public.
ASSUME FileAssumption ==
  /\ File \subseteq ClientMap /\ File # {}
  /\ \A f \in File, c \in Client :
       c \in DOMAIN f => f[c].secret # NoSecret \/ f[c].redirects # {}

ASSUME ParameterAssumption ==
  /\ NoSecret \notin Secret
  /\ Exchange \intersect Grant = {} /\ Code \intersect (Exchange \union Grant) = {}
  /\ DefaultScopes \subseteq Scope
  /\ AutoApprove \in BOOLEAN
  /\ CodeTTL \in Nat /\ TokenTTL \in Nat /\ MaxTime \in Nat /\ MaxRemovals \in Nat

Token == Exchange \union Grant

VARIABLES
  now,            \* the clock
  clients,        \* OAuth2Provider.clients
  authCodes,      \* the keys of OAuth2Provider.authCodes
  consumed,       \* those of them with Consumed set
  issued,         \* the keys of OAuth2Provider.issued
  pc,             \* pc[x]: where the call x is
  asked,          \* asked[k]: the authorization request of k, once its redirect URI was found
  sent,           \* sent[k]: where the browser was sent with a code or an error
  ac,             \* ac[k]: the AuthorizationCode that call k built
  req,            \* req[e]: the request of exchange e, once its client was found
  tok,            \* tok[t]: the IssuedToken that call t built
  reading,        \* reading[a]: the token a found expired, until a deletes it
  removals,       \* history: how often each client left the map
  storedAt,       \* history: removals[c] when the token of client c was stored
  spentBy         \* history: the exchanges that set Consumed on a code

maps == <<clients, authCodes, consumed, issued>>

handler == <<asked, sent>>

vars == <<now, maps, pc, handler, ac, req, tok, reading, removals, storedAt, spentBy>>

-----------------------------------------------------------------------------
\* BASE64URL(SHA256(v)): distinct verifiers have distinct challenges.
S256(v) == [s256 |-> v]

Allowed(rec) == IF rec.scopes = {} THEN DefaultScopes ELSE rec.scopes

\* No requested scope stands for every allowed one.
Effective(rec, wanted) == IF wanted = {} THEN Allowed(rec) ELSE wanted \intersect Allowed(rec)

CodeRec == [client : Client, redirect : Redirect, scopes : SUBSET Scope,
            challenge : {S256(v) : v \in Verifier}, expires : Nat]

TokenRec == [client : Client, scopes : SUBSET Scope, expires : Nat]

\* A client_id and client_secret pair, in the Basic header or in the form.
Credentials == [id : Client, secret : Secret]

\* The parameters of an authorization request: what of them is amiss apart from the client
\* and the redirect URI, and what the form says that was posted, if it was.
Authorization ==
  [client : Client, redirect : Redirect, scopes : SUBSET Scope, verifier : Verifier,
   flaw : {"none", "no state", "unsupported"}, action : {"get", "allow", "deny"}]

Request == [code : Code, client : Client, creds : Credentials \union {None},
            redirect : Redirect, verifier : Verifier]

ASSUME WorkloadAssumption == Authorizations \subseteq Authorization /\ Requests \subseteq Request

ASSUME NoneAssumption ==
  None \notin Authorization \union Redirect \union CodeRec \union TokenRec \union Request
                \union Credentials \union Token

\* computeExpiresIn, in nanoseconds: whole seconds, rounded up, and at least one.
Second == 1000000000
ExpiresIn(remaining) ==
  IF remaining <= 0 THEN 1 ELSE (remaining + Second - 1) \div Second

\* Mutation: a code or token is swept in its last instant.
ExpiredEarly(x) == now >= x.expires

\* time.Now().After(ExpiresAt)
Expired(x) == now > x.expires

\* What sweepExpiredLocked leaves.
LiveCodes == {k \in authCodes : ~ Expired(ac[k])}
LiveTokens == {t \in issued : ~ Expired(tok[t])}

TypeOK ==
  /\ now \in 0..MaxTime
  /\ clients \in ClientMap
  /\ authCodes \subseteq {k \in Code : ac[k] # None}
  /\ consumed \subseteq authCodes
  /\ issued \subseteq {t \in Token : tok[t] # None}
  /\ pc \in [Code \union Token ->
               {"new", "approved", "checking", "admitted", "spent", "built", "stored", "refused"}]
  /\ asked \in [Code -> Authorization \union {None}]
  /\ sent \in [Code -> Redirect \union {None}]
  /\ ac \in [Code -> CodeRec \union {None}]
  /\ req \in [Exchange -> Request \union {None}]
  /\ tok \in [Token -> TokenRec \union {None}]
  /\ reading \in [Reader -> Token \union {None}]
  /\ removals \in [Client -> 0..MaxRemovals]
  /\ storedAt \in [Token -> 0..MaxRemovals]
  /\ spentBy \in [Code -> SUBSET Exchange]

Init ==
  /\ now = 0
  /\ clients \in File
  /\ authCodes = {}
  /\ consumed = {}
  /\ issued = {}
  /\ pc = [x \in Code \union Token |-> "new"]
  /\ asked = [k \in Code |-> None]
  /\ sent = [k \in Code |-> None]
  /\ ac = [k \in Code |-> None]
  /\ req = [e \in Exchange |-> None]
  /\ tok = [t \in Token |-> None]
  /\ reading = [a \in Reader |-> None]
  /\ removals = [c \in Client |-> 0]
  /\ storedAt = [t \in Token |-> 0]
  /\ spentBy = [k \in Code |-> {}]

Refuse(x) == pc' = [pc EXCEPT ![x] = "refused"]

-----------------------------------------------------------------------------
(* The authorization endpoint: handleOAuthAuthorize and IssueAuthorizationCode *)

\* The client and the redirect URI, as one lookup finds them.
Registered(c, uri) == c \in DOMAIN clients /\ uri \in clients[c].redirects

\* What the user decides; with auto_approve nobody is asked.
Approved(a) == AutoApprove \/ a.action = "allow"

Approve(k, a) ==
  /\ pc[k] = "new"
  /\ Registered(a.client, a.redirect) /\ a.flaw = "none" /\ Approved(a)
  /\ pc' = [pc EXCEPT ![k] = "approved"]
  /\ asked' = [asked EXCEPT ![k] = a]
  /\ UNCHANGED <<now, maps, sent, ac, req, tok, reading, removals, storedAt, spentBy>>

\* Mutation: the response type is looked at before the client's redirect URIs.
RedirectErrorEarly(k, a) ==
  /\ pc[k] = "new"
  /\ a.client \in DOMAIN clients
  /\ \/ a.flaw = "unsupported"
     \/ Registered(a.client, a.redirect) /\ a.flaw = "none" /\ ~ Approved(a) /\ a.action = "deny"
  /\ Refuse(k)
  /\ asked' = [asked EXCEPT ![k] = a] /\ sent' = [sent EXCEPT ![k] = a.redirect]
  /\ UNCHANGED <<now, maps, ac, req, tok, reading, removals, storedAt, spentBy>>

\* authorizeError: only once the redirect URI is known to be the client's.
RedirectError(k, a) ==
  /\ pc[k] = "new"
  /\ Registered(a.client, a.redirect)
  /\ \/ a.flaw = "unsupported"
     \/ a.flaw = "none" /\ ~ Approved(a) /\ a.action = "deny"
  /\ Refuse(k)
  /\ asked' = [asked EXCEPT ![k] = a] /\ sent' = [sent EXCEPT ![k] = a.redirect]
  /\ UNCHANGED <<now, maps, ac, req, tok, reading, removals, storedAt, spentBy>>

\* An error of the server's own; a consent page too leads nowhere by itself, as the
\* form posted from it is another request.
RefuseAuthorization(k, a) ==
  /\ pc[k] = "new"
  /\ \/ ~ Registered(a.client, a.redirect) \/ a.flaw = "no state"
     \/ a.flaw = "none" /\ ~ Approved(a) /\ a.action = "get"
  /\ Refuse(k)
  /\ UNCHANGED <<now, maps, ac, req, tok, reading, removals, storedAt, spentBy, handler>>

\* IssueAuthorizationCode looks client and redirect URI up again, and picks the scopes.
BuildCode(k) ==
  LET a == asked[k]
  IN  /\ pc[k] = "approved"
      /\ Registered(a.client, a.redirect)
      /\ pc' = [pc EXCEPT ![k] = "built"]
      /\ ac' = [ac EXCEPT ![k] = [client |-> a.client, redirect |-> a.redirect,
                                  scopes |-> Effective(clients[a.client], a.scopes),
                                  challenge |-> S256(a.verifier), expires |-> now + CodeTTL]]
      /\ UNCHANGED <<now, maps, req, tok, reading, removals, storedAt, spentBy, handler>>

RefuseCode(k) ==
  /\ pc[k] = "approved"
  /\ ~ Registered(asked[k].client, asked[k].redirect)
  /\ Refuse(k)
  /\ UNCHANGED <<now, maps, ac, req, tok, reading, removals, storedAt, spentBy, handler>>

\* The second critical section: sweep, then store the code.  The browser takes it along.
StoreCode(k) ==
  /\ pc[k] = "built"
  /\ pc' = [pc EXCEPT ![k] = "stored"]
  /\ authCodes' = LiveCodes \union {k}
  /\ consumed' = consumed \intersect LiveCodes
  /\ issued' = LiveTokens
  /\ sent' = [sent EXCEPT ![k] = asked[k].redirect]
  /\ UNCHANGED <<now, clients, asked, ac, req, tok, reading, removals, storedAt, spentBy>>

-----------------------------------------------------------------------------
(* The authorization_code grant *)

\* handleAuthorizationCodeGrant looks the client up: a public one goes straight
\* to the exchange, a confidential one that sent credentials has them checked.
Present(e, r) ==
  /\ pc[e] = "new"
  /\ r.client \in DOMAIN clients
  /\ clients[r.client].secret # NoSecret => r.creds # None
  /\ LET public == clients[r.client].secret = NoSecret
     IN  /\ pc' = [pc EXCEPT ![e] = IF public THEN "admitted" ELSE "checking"]
         /\ req' = [req EXCEPT ![e] = IF public THEN [r EXCEPT !.creds = None] ELSE r]
  /\ UNCHANGED <<now, maps, ac, tok, reading, removals, storedAt, spentBy, handler>>

RefuseRequest(e, r) ==
  /\ pc[e] = "new"
  /\ r.client \in DOMAIN clients => clients[r.client].secret # NoSecret /\ r.creds = None
  /\ Refuse(e)
  /\ UNCHANGED <<now, maps, ac, req, tok, reading, removals, storedAt, spentBy, handler>>

\* ValidateClientSecret, on a second lookup.
SecretMatches(creds) ==
  /\ creds.id \in DOMAIN clients
  /\ clients[creds.id].secret = creds.secret

\* Mutation: the id of the credentials is checked and the id of the form is kept.
CheckSecretKeepsFormId(e) ==
  /\ pc[e] = "checking"
  /\ IF SecretMatches(req[e].creds)
       THEN pc' = [pc EXCEPT ![e] = "admitted"]
       ELSE Refuse(e)
  /\ UNCHANGED <<now, maps, ac, req, tok, reading, removals, storedAt, spentBy, handler>>

\* The id that came with the secret is the one the exchange is made for.
CheckSecret(e) ==
  /\ pc[e] = "checking"
  /\ IF SecretMatches(req[e].creds)
       THEN /\ pc' = [pc EXCEPT ![e] = "admitted"]
            /\ req' = [req EXCEPT ![e].client = req[e].creds.id]
       ELSE /\ Refuse(e)
            /\ UNCHANGED req
  /\ UNCHANGED <<now, maps, ac, tok, reading, removals, storedAt, spentBy, handler>>

\* Mutation: any client may redeem the code.
BoundToAnyClient(code, r) ==
  /\ code.redirect = r.redirect
  /\ code.challenge = S256(r.verifier)

\* The checks on the local copy of the code.
BoundTo(code, r) ==
  /\ code.client = r.client
  /\ code.redirect = r.redirect
  /\ code.challenge = S256(r.verifier)

Spendable(k) == k \in authCodes \ consumed

RefuseSpent(e) ==
  /\ pc[e] = "admitted"
  /\ ~ Spendable(req[e].code)
  /\ Refuse(e)
  /\ UNCHANGED <<now, maps, ac, req, tok, reading, removals, storedAt, spentBy, handler>>

\* Mutation: Consumed is set only if the checks pass.
SpendIfBound(e) ==
  LET k == req[e].code
      ok == ~ Expired(ac[k]) /\ BoundTo(ac[k], req[e])
  IN  /\ pc[e] = "admitted"
      /\ Spendable(k)
      /\ consumed' = IF ok THEN consumed \union {k} ELSE consumed
      /\ spentBy' = [spentBy EXCEPT ![k] = @ \union {e}]
      /\ pc' = [pc EXCEPT ![e] = IF ok THEN "spent" ELSE "refused"]
      /\ UNCHANGED <<now, clients, authCodes, issued, ac, req, tok, reading, removals, storedAt, handler>>

\* The critical section of ExchangeAuthorizationCode: Consumed is set whatever the
\* checks that follow say.
Spend(e) ==
  LET k == req[e].code
      ok == ~ Expired(ac[k]) /\ BoundTo(ac[k], req[e])
  IN  /\ pc[e] = "admitted"
      /\ Spendable(k)
      /\ consumed' = consumed \union {k}
      /\ spentBy' = [spentBy EXCEPT ![k] = @ \union {e}]
      /\ pc' = [pc EXCEPT ![e] = IF ok THEN "spent" ELSE "refused"]
      /\ UNCHANGED <<now, clients, authCodes, issued, ac, req, tok, reading, removals, storedAt, handler>>

\* The lookup that precedes the token, and the token built from the code.
BuildFromCode(e) ==
  LET code == ac[req[e].code]
      c == req[e].client
  IN  /\ pc[e] = "spent"
      /\ c \in DOMAIN clients
      /\ pc' = [pc EXCEPT ![e] = "built"]
      /\ tok' = [tok EXCEPT ![e] = [client |-> c, scopes |-> code.scopes,
                                    expires |-> now + TokenTTL]]
      /\ UNCHANGED <<now, maps, ac, req, reading, removals, storedAt, spentBy, handler>>

RefuseGone(e) ==
  /\ pc[e] = "spent"
  /\ req[e].client \notin DOMAIN clients
  /\ Refuse(e)
  /\ UNCHANGED <<now, maps, ac, req, tok, reading, removals, storedAt, spentBy, handler>>

-----------------------------------------------------------------------------
(* The client_credentials grant *)

\* IssueToken: the lookup, bcrypt on the record read, the scopes, the token.
BuildFromSecret(g, creds, wanted) ==
  /\ pc[g] = "new"
  /\ SecretMatches(creds)
  /\ pc' = [pc EXCEPT ![g] = "built"]
  /\ tok' = [tok EXCEPT ![g] = [client |-> creds.id,
                                scopes |-> Effective(clients[creds.id], wanted),
                                expires |-> now + TokenTTL]]
  /\ UNCHANGED <<now, maps, ac, req, reading, removals, storedAt, spentBy, handler>>

\* A wrong pair, or a request whose context is over by the end of bcrypt.
RefuseGrant(g) ==
  /\ pc[g] = "new"
  /\ Refuse(g)
  /\ UNCHANGED <<now, maps, ac, req, tok, reading, removals, storedAt, spentBy, handler>>

\* The last critical section of both grants: sweep, then store the token.
StoreToken(t) ==
  /\ pc[t] = "built"
  /\ pc' = [pc EXCEPT ![t] = "stored"]
  /\ authCodes' = LiveCodes
  /\ consumed' = consumed \intersect LiveCodes
  /\ issued' = LiveTokens \union {t}
  /\ storedAt' = [storedAt EXCEPT ![t] = removals[tok[t].client]]
  /\ UNCHANGED <<now, clients, ac, req, tok, reading, removals, spentBy, handler>>

-----------------------------------------------------------------------------
(* Authenticate.  A lookup that finds a live token changes nothing. *)

FindExpired(a, t) ==
  /\ reading[a] = None
  /\ t \in issued
  /\ Expired(tok[t])
  /\ reading' = [reading EXCEPT ![a] = t]
  /\ UNCHANGED <<now, maps, pc, ac, req, tok, removals, storedAt, spentBy, handler>>

\* Under the write lock, with the entry checked again.
DeleteExpired(a) ==
  /\ reading[a] # None
  /\ issued' = IF Expired(tok[reading[a]]) THEN issued \ {reading[a]} ELSE issued
  /\ reading' = [reading EXCEPT ![a] = None]
  /\ UNCHANGED <<now, clients, authCodes, consumed, pc, ac, req, tok, removals, storedAt, spentBy, handler>>

-----------------------------------------------------------------------------
(* ReloadClients and RevokeClient *)

TokensOf(S) == {t \in issued : tok[t].client \in S}

CountRemoved(S) ==
  /\ \A c \in S : removals[c] < MaxRemovals
  /\ removals' = [c \in Client |-> IF c \in S THEN removals[c] + 1 ELSE removals[c]]

\* Mutation: the new map is installed and the tokens are left alone.
ReloadKeepsTokens(f) ==
  /\ clients' = f
  /\ CountRemoved(DOMAIN clients \ DOMAIN f)
  /\ UNCHANGED <<now, authCodes, consumed, issued, pc, ac, req, tok, reading, storedAt, spentBy, handler>>

\* The critical section of ReloadClients: the new map, and no token of a client
\* that is not in it.
Reload(f) ==
  /\ clients' = f
  /\ CountRemoved(DOMAIN clients \ DOMAIN f)
  /\ issued' = issued \ TokensOf(Client \ DOMAIN f)
  /\ UNCHANGED <<now, authCodes, consumed, pc, ac, req, tok, reading, storedAt, spentBy, handler>>

Revoke(c) ==
  /\ clients' = [d \in DOMAIN clients \ {c} |-> clients[d]]
  /\ CountRemoved({c} \intersect DOMAIN clients)
  /\ issued' = issued \ TokensOf({c})
  /\ UNCHANGED <<now, authCodes, consumed, pc, ac, req, tok, reading, storedAt, spentBy, handler>>

-----------------------------------------------------------------------------
Tick ==
  /\ now < MaxTime
  /\ now' = now + 1
  /\ UNCHANGED <<maps, pc, ac, req, tok, reading, removals, storedAt, spentBy, handler>>

Next ==
  \/ \E k \in Code, a \in Authorizations :
       Approve(k, a) \/ RedirectError(k, a) \/ RefuseAuthorization(k, a)
  \/ \E k \in Code : BuildCode(k) \/ RefuseCode(k) \/ StoreCode(k)
  \/ \E e \in Exchange, r \in Requests : Present(e, r) \/ RefuseRequest(e, r)
  \/ \E e \in Exchange :
       CheckSecret(e) \/ RefuseSpent(e) \/ Spend(e) \/ BuildFromCode(e) \/ RefuseGone(e)
  \/ \E g \in Grant, creds \in Credentials, wanted \in SUBSET Scope :
       BuildFromSecret(g, creds, wanted)
  \/ \E g \in Grant : RefuseGrant(g)
  \/ \E t \in Token : StoreToken(t)
  \/ \E a \in Reader, t \in Token : FindExpired(a, t)
  \/ \E a \in Reader : DeleteExpired(a)
  \/ \E f \in File : Reload(f)
  \/ \E c \in Client : Revoke(c)
  \/ Tick

Spec == Init /\ [][Next]_vars

-----------------------------------------------------------------------------
(* Properties *)

\* A code is good for one attempt: of any number of racing exchanges at most one
\* gets past the Consumed flag, whether or not its own checks then fail, and the
\* sweep that forgets the flag never makes the code usable again.
CodeSpentOnce == \A k \in Code : Cardinality(spentBy[k]) <= 1

\* A browser is sent, with a code or with an error, only to a redirect URI that was
\* registered for the client that the request names (handleOAuthAuthorize: "client_id and
\* redirect_uri MUST be validated [...] BEFORE any error can trigger a redirect").
RedirectsAreRegistered ==
  \A k \in Code : sent[k] # None =>
    \E f \in File : asked[k].client \in DOMAIN f /\ sent[k] \in f[asked[k].client].redirects

\* A token that came from a code has the client and the scopes of that code, and
\* only the one exchange that spent it, with its redirect URI and verifier, built it.
TokensMatchCodes ==
  \A e \in Exchange : tok[e] # None =>
    LET code == ac[req[e].code]
    IN  /\ spentBy[req[e].code] = {e}
        /\ BoundTo(code, req[e])
        /\ tok[e].client = code.client /\ tok[e].scopes = code.scopes

\* No exchange spends a code in the name of a confidential client without this
\* client's own secret, in whichever of the two places it came, and although the
\* record may change between the two lookups.
SecretGuardsCode ==
  \A k \in Code : \A e \in spentBy[k] :
    LET c == req[e].client
    IN  (\A f \in File : c \in DOMAIN f => f[c].secret # NoSecret)
          => /\ req[e].creds # None
             /\ req[e].creds.id = c
             /\ \E f \in File : c \in DOMAIN f /\ f[c].secret = req[e].creds.secret

\* A removal of a client cuts off every token stored by then, also one stored
\* after an earlier removal: no live token has seen its client leave since.
CutOff == \A t \in issued : storedAt[t] = removals[tok[t].client]

\* Nothing else takes a token from its holder: a token leaves the store only once
\* it has expired, or with its client, whoever sweeps.
TokensKept ==
  [][\A t \in issued \ issued' :
       now > tok[t].expires \/ tok[t].client \notin DOMAIN clients']_vars

=============================================================================
