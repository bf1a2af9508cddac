----------------------------- MODULE RateLimit ------------------------------
(***************************************************************************)
(* check_rate_limit (backend/api/main.py) for one user of a tenant: a      *)
(* counter in Redis that expires, and when Redis cannot be asked the       *)
(* replica's own InMemoryRateLimiter.  The handlers that ask are           *)
(* coroutines which do not yield in between: a question is one step.       *)
(***************************************************************************)
EXTENDS Integers, Sequences, FiniteSets

CONSTANTS
  Replicas,    \* API replicas
  Limit,       \* rate_limit_per_minute
  Window,      \* 60, in ticks of the clock
  MaxTime,     \* bound on the clock
  MaxAsks,     \* bound on the messages
  MaxFailures  \* bound on the failures of Redis

ASSUME RateAssumption ==
  /\ IsFiniteSet(Replicas)
  /\ {Limit, MaxTime, MaxAsks, MaxFailures} \subseteq Nat
  /\ Window \in Nat \ {0}

VARIABLES
  configured, \* whether REDIS_URL is set
  now,     \* the clock
  count,   \* the key's value in Redis
  expires, \* when the key expires
  bucket,  \* buckets[key] of each replica's memory_rate_limiter: its stamps
           \* are those of these elements of passed
  passed,  \* history: when messages passed
  asked,   \* history: when they were asked about
  answer,  \* the last answer
  failures

rateVars == <<configured, now, count, expires, bucket, passed, asked, answer, failures>>

(***************************************************************************)
(* The two limiters                                                        *)
(***************************************************************************)
(* What INCR finds.                                                        *)
Live == IF now < expires THEN count ELSE 0

(* Mutant of CountedInRedis: the key expires a window after it was made.   *)
CountedOnce ==
  /\ count' = Live + 1
  /\ expires' = IF Live = 0 THEN now + Window ELSE expires

(* INCR and EXPIRE, in one transaction.                                    *)
CountedInRedis ==
  /\ count' = Live + 1
  /\ expires' = now + Window

Decided(pass) ==
  /\ Len(asked) < MaxAsks
  /\ asked' = Append(asked, now)
  /\ passed' = IF pass THEN Append(passed, now) ELSE passed
  /\ answer' = IF pass THEN "pass" ELSE "deny"

(* Mutant of Recent: a window that is one tick short.                      *)
RecentShort(r) == {i \in bucket[r] : now - passed[i] < Window - 1}

(* The stamps of the last minute.  (Their order in the list is never       *)
(* looked at.)                                                             *)
Recent(r) == {i \in bucket[r] : now - passed[i] < Window}

(* InMemoryRateLimiter.allow                                               *)
AllowInMemory(r) ==
  LET pass == Cardinality(Recent(r)) < Limit
  IN /\ bucket' = [bucket EXCEPT ![r] =
                     Recent(r) \cup (IF pass THEN {Len(passed) + 1} ELSE {})]
     /\ Decided(pass)

(***************************************************************************)
(* check_rate_limit                                                        *)
(***************************************************************************)
AskRedis ==
  /\ configured
  /\ CountedInRedis
  /\ Decided(Live + 1 <= Limit)
  /\ UNCHANGED <<configured, now, bucket, failures>>

(* The pipeline raises, with its commands executed or not.                 *)
AskFails(r) ==
  /\ configured
  /\ failures < MaxFailures
  /\ failures' = failures + 1
  /\ CountedInRedis \/ UNCHANGED <<count, expires>>
  /\ AllowInMemory(r)
  /\ UNCHANGED <<configured, now>>

AskMemory(r) ==
  /\ ~configured
  /\ AllowInMemory(r)
  /\ UNCHANGED <<configured, now, count, expires, failures>>

Pause ==
  /\ now < MaxTime
  /\ now' = now + 1
  /\ UNCHANGED <<configured, count, expires, bucket, passed, asked, answer,
                 failures>>

RateInit ==
  /\ configured \in BOOLEAN
  /\ now = 0
  /\ count = 0
  /\ expires = 0
  /\ bucket = [r \in Replicas |-> {}]
  /\ passed = <<>>
  /\ asked = <<>>
  /\ answer = "none"
  /\ failures = 0

RateNext ==
  \/ AskRedis
  \/ \E r \in Replicas : AskFails(r) \/ AskMemory(r)
  \/ Pause

RateSpec == RateInit /\ [][RateNext]_rateVars

(***************************************************************************)
(* Properties                                                              *)
(***************************************************************************)
(* A sliding window; one that may deny for other reasons; and one whose    *)
(* limit is that of Redis and the replicas together.                       *)
Exactly == INSTANCE SlidingWindow WITH Exact <- TRUE, time <- now, passes <- passed
Safely == INSTANCE SlidingWindow WITH Exact <- FALSE, time <- now, passes <- passed
Jointly == INSTANCE SlidingWindow
             WITH Exact <- FALSE, time <- now, passes <- passed,
                  Limit <- Limit * (Cardinality(Replicas) + 1)

windowVars == <<now, passed, answer>>

(* Without Redis, a single replica passes and denies exactly as a sliding  *)
(* window does.                                                            *)
MemoryIsExact ==
  /\ Exactly!WindowInit
  /\ [][~configured /\ Cardinality(Replicas) = 1 => Exactly!WindowNext]_windowVars

(* Until Redis fails, its counter never lets more than Limit through in    *)
(* any window, however the windows overlap its expiry.                     *)
RedisIsSafe ==
  /\ Safely!WindowInit
  /\ [][configured /\ failures' = 0 => Safely!WindowNext]_windowVars

(* While Redis comes and goes each replica adds a limit of its own.        *)
FallbackIsBounded == Jointly!WindowSpec

(* A message is denied only when it is one too many: Limit others came in  *)
(* the window before it, denied ones included.                             *)
DeniedOnlyOverRate ==
  [][Len(asked') > Len(asked) /\ answer' = "deny" =>
       Cardinality({i \in DOMAIN asked : now - asked[i] < Window}) >= Limit]_rateVars
=============================================================================
