------------------------------ MODULE RateLimit ------------------------------
(***************************************************************************)
(* internal/server/ratelimit.go: a token bucket for each caller, asked by  *)
(* concurrent requests.  A request that finds no token reserves one to     *)
(* learn how long it would wait, and gives the reservation back.           *)
(*                                                                         *)
(* golang.org/x/time/rate is external.  Its limiter works in real numbers; *)
(* here a tick of the clock puts one unit into a bucket and a request      *)
(* takes Cost of them.  It reads the clock just before it locks, and the   *)
(* two are one step.                                                       *)
(***************************************************************************)
EXTENDS Integers, FiniteSets

CONSTANTS
  Caller,     \* caller ids
  NoCaller,   \* a request that is not authenticated, or not yet
  Anonymous,  \* the id of those that have none
  Request,
  Cost,       \* ticks it takes to refill one token
  Burst,      \* tokens a full bucket holds
  Second,     \* ticks in a second
  MaxTime     \* bound: the clock stops here

\* What applyDefaults makes sure of: rps and burst are positive.
ASSUME RateAssumption ==
  /\ Anonymous \in Caller /\ NoCaller \notin Caller
  /\ Cost \in Nat \ {0} /\ Burst \in Nat \ {0} /\ Second \in Nat \ {0} /\ MaxTime \in Nat

VARIABLES
  now,        \* the clock
  buckets,    \* rateLimiter.buckets, of the callers seen so far
  at,         \* at[r]: where the request is
  caller,     \* caller[r]: whom the auth middleware found
  act,        \* act[r]: when its reservation could act
  retry,      \* retry[r]: the Retry-After it is answered with, 0 if none
  paid        \* the requests that Allow has taken a token for; no action asks

rateVars == <<now, buckets, at, caller, act, retry, paid>>

Full == Burst * Cost

\* rate.Limiter: tokens, last and lastEvent.
Bucket == [level : Int, last : Nat, event : Nat]

Fresh == [level |-> Full, last |-> 0, event |-> 0]

Most(a, b) == IF a > b THEN a ELSE b
Least(a, b) == IF a < b THEN a ELSE b

RateInit ==
  /\ now = 0
  /\ buckets = [c \in {} |-> Fresh]
  /\ at = [r \in Request |-> "new"]
  /\ caller = [r \in Request |-> NoCaller]
  /\ act = [r \in Request |-> 0]
  /\ retry = [r \in Request |-> 0]
  /\ paid = {}

\* CallerFromContext: without a caller the request is anonymous.
Id(r) == IF caller[r] = NoCaller THEN Anonymous ELSE caller[r]

\* What limiterFor hands to r.
Mine(r) == buckets[Id(r)]

Go(r, place) == at' = [at EXCEPT ![r] = place]

Store(r, b) == buckets' = [buckets EXCEPT ![Id(r)] = b]

Tick ==
  /\ now < MaxTime /\ now' = now + 1
  /\ UNCHANGED <<buckets, at, caller, act, retry, paid>>

\* Mutation: a bucket is built for every request.
LimiterForAnew(r) ==
  /\ at[r] = "limiter"
  /\ buckets' = [c \in DOMAIN buckets \union {Id(r)} |->
                   IF c = Id(r) THEN Fresh ELSE buckets[c]]
  /\ Go(r, "asking")
  /\ UNCHANGED <<now, caller, act, retry, paid>>

\* A caller's bucket is built when it is first seen, full.
LimiterFor(r) ==
  /\ at[r] = "limiter"
  /\ buckets' = [c \in DOMAIN buckets \union {Id(r)} |->
                   IF c \in DOMAIN buckets THEN buckets[c] ELSE Fresh]
  /\ Go(r, "asking")
  /\ UNCHANGED <<now, caller, act, retry, paid>>

\* Limiter.advance: the level at this moment.
Level(b) == Least(Full, b.level + now - b.last)

\* Limiter.reserveN for one token: what is left, and how long until that is not a debt.
Left(b) == Level(b) - Cost
Wait(b) == Most(0, - Left(b))

Taken(b) == [level |-> Left(b), last |-> now, event |-> now + Wait(b)]

\* Allow: only what need not wait is taken.
Admit(r) ==
  /\ at[r] = "asking" /\ Wait(Mine(r)) = 0
  /\ Store(r, Taken(Mine(r)))
  /\ Go(r, "admitted")
  /\ paid' = paid \union {r}
  /\ UNCHANGED <<now, caller, act, retry>>

TurnAway(r) ==
  /\ at[r] = "asking" /\ Wait(Mine(r)) > 0
  /\ Go(r, "refused")
  /\ UNCHANGED <<now, buckets, caller, act, retry, paid>>

\* Seconds to the nearest, and at least one.
Seconds(wait) == Most(1, (2 * wait + Second) \div (2 * Second))

\* retryAfterSeconds: ReserveN is granted whatever the wait.
Reserve(r) ==
  /\ at[r] = "refused"
  /\ Store(r, Taken(Mine(r)))
  /\ act' = [act EXCEPT ![r] = now + Wait(Mine(r))]
  /\ retry' = [retry EXCEPT ![r] = Seconds(Wait(Mine(r)))]
  /\ Go(r, "reserved")
  /\ UNCHANGED <<now, caller, paid>>

\* Reservation.CancelAt: what of the token was not promised to later ones goes back.
Restored(r) == Cost - (Mine(r).event - act[r])

\* The deferred Cancel.  One that could have acted already gives nothing back.
Cancel(r) ==
  /\ at[r] = "reserved"
  /\ LET b == Mine(r)
         before == act[r] - Cost
     IN  Store(r, IF act[r] < now \/ Restored(r) <= 0 THEN b
                  ELSE [level |-> Least(Full, Level(b) + Restored(r)),
                        last |-> now,
                        event |-> IF act[r] = b.event /\ before >= now THEN before ELSE b.event])
  /\ Go(r, "limited")
  /\ UNCHANGED <<now, caller, act, retry, paid>>

RateStep(r) == LimiterFor(r) \/ Admit(r) \/ TurnAway(r) \/ Reserve(r) \/ Cancel(r)


=============================================================================
