------------------------------- MODULE LoginGuard -----------------------------
(***************************************************************************)
(* Two counters with a window, in a Redis that comes and goes: the failed  *)
(* logins of one identifier, which lock it, and the requests of one        *)
(* address, counted in each process's memory when Redis is away.           *)
(***************************************************************************)
EXTENDS Integers, FiniteSets

CONSTANTS
    MaxFailedLogins,   \* LOGIN_MAX_FAILED_ATTEMPTS
    MaxAttemptRows,    \* bound: failed LoginAttempt rows within the window, and the counter
    MaxCounted,        \* bound: requests of the address counted at one place
    Instances,         \* processes of the API
    LoginRequests      \* logins in flight together

ASSUME GuardConstantsOK ==
    /\ MaxFailedLogins \in Nat \ {0} /\ MaxAttemptRows \in Nat /\ MaxCounted \in Nat
    /\ IsFiniteSet(LoginRequests)

VARIABLES
    failedRows,        \* failed LoginAttempt rows younger than the window
    lockCounter,       \* loginlock:<identifier>
    guardReq,          \* the logins in flight
    guardRedisUp,
    expiryLost,        \* history: an INCR to 1 was never followed by its PEXPIRE
    guardOutage,       \* history: Redis was away, or a failure did not reach it
    rateCounter,       \* ratelimit:<prefix>:<address>
    memoryBucket       \* the Map entry of each process: its count, 0 once resetAt is past

guardVars ==
    <<failedRows, lockCounter, guardReq, guardRedisUp, expiryLost, guardOutage, rateCounter, memoryBucket>>
-------------------------------------------------------------------------------
NoCounter == [count |-> 0, expires |-> FALSE]

GuardInit ==
    /\ failedRows = 0
    /\ lockCounter = NoCounter /\ rateCounter = NoCounter
    /\ guardReq = [h \in LoginRequests |-> "idle"]
    /\ guardRedisUp = TRUE
    /\ expiryLost = FALSE /\ guardOutage = FALSE
    /\ memoryBucket = [i \in Instances |-> 0]

\* assertNotLockedOut: the counter, or a COUNT of the rows when Redis is away.
FailedCount == IF guardRedisUp THEN lockCounter.count ELSE failedRows

AssertNotLockedOut(h) ==
    /\ guardReq[h] = "idle"
    /\ FailedCount < MaxFailedLogins
    /\ guardReq' = [guardReq EXCEPT ![h] = "compare"]
    /\ UNCHANGED <<failedRows, lockCounter, guardRedisUp, expiryLost, guardOutage, rateCounter, memoryBucket>>

\* recordLoginAttempt of a success leaves both counts alone.
LoginSucceeds(h) ==
    /\ guardReq[h] = "compare"
    /\ guardReq' = [guardReq EXCEPT ![h] = "idle"]
    /\ UNCHANGED <<failedRows, lockCounter, guardRedisUp, expiryLost, guardOutage, rateCounter, memoryBucket>>

\* recordLoginAttempt of a failure: the row ...
RecordFailure(h) ==
    /\ guardReq[h] = "compare"
    /\ failedRows < MaxAttemptRows
    /\ failedRows' = failedRows + 1
    /\ guardReq' = [guardReq EXCEPT ![h] = "incr"]
    /\ UNCHANGED <<lockCounter, guardRedisUp, expiryLost, guardOutage, rateCounter, memoryBucket>>

\* Faulty: the window is set for the second failure.
OpensWindowLate(count) == count = 2

OpensWindow(count) == count = 1

\* ... INCR ...
CountFailure(h) ==
    /\ guardReq[h] = "incr"
    /\ lockCounter.count < MaxAttemptRows
    /\ IF guardRedisUp
       THEN /\ lockCounter' = [lockCounter EXCEPT !.count = @ + 1]
            /\ guardReq' = [guardReq EXCEPT ![h] =
                    IF OpensWindow(lockCounter.count + 1) THEN "pexpire" ELSE "idle"]
       ELSE /\ guardReq' = [guardReq EXCEPT ![h] = "idle"]
            /\ UNCHANGED lockCounter
    /\ UNCHANGED <<failedRows, guardRedisUp, expiryLost, guardOutage, rateCounter, memoryBucket>>

\* ... and PEXPIRE, lost when Redis goes away in between.
ExpireCounter(h) ==
    /\ guardReq[h] = "pexpire"
    /\ IF guardRedisUp
       THEN /\ lockCounter' = [lockCounter EXCEPT !.expires = (lockCounter.count > 0)]
            /\ UNCHANGED expiryLost
       ELSE /\ expiryLost' = TRUE
            /\ UNCHANGED lockCounter
    /\ guardReq' = [guardReq EXCEPT ![h] = "idle"]
    /\ UNCHANGED <<failedRows, guardRedisUp, guardOutage, rateCounter, memoryBucket>>

\* The process ends.
GuardRestarts ==
    /\ guardReq' = [h \in LoginRequests |-> "idle"]
    /\ expiryLost' = (expiryLost \/ \E h \in LoginRequests : guardReq[h] = "pexpire")
    /\ memoryBucket' = [i \in Instances |-> 0]
    /\ UNCHANGED <<failedRows, lockCounter, guardRedisUp, guardOutage, rateCounter>>

\* The script of the limiter: INCR and PEXPIRE in one step.
Counted(counter) ==
    [count |-> counter.count + 1, expires |-> counter.expires \/ counter.count = 0]

\* rateLimiter counts every request, the ones beyond max that it refuses included: in
\* Redis, in memory when Redis is away or the call fails, and in both when only the
\* answer of the script is lost.
RateLimiter(i) ==
    /\ \E inRedis, inMemory \in BOOLEAN :
          /\ inRedis \/ inMemory
          /\ inRedis => guardRedisUp
          /\ inRedis => rateCounter.count < MaxCounted                    \* bound
          /\ inMemory => memoryBucket[i] < MaxCounted                     \* bound
          /\ rateCounter' = IF inRedis THEN Counted(rateCounter) ELSE rateCounter
          /\ memoryBucket' = [memoryBucket EXCEPT ![i] = IF inMemory THEN @ + 1 ELSE @]
    /\ UNCHANGED <<failedRows, lockCounter, guardReq, guardRedisUp, expiryLost, guardOutage>>

\* Time: a window in Redis ends, a bucket's resetAt is past, a row gets too old.
WindowPasses ==
    /\ \/ /\ lockCounter.expires
          /\ lockCounter' = NoCounter
          /\ UNCHANGED <<failedRows, rateCounter, memoryBucket>>
       \/ /\ rateCounter.expires
          /\ rateCounter' = NoCounter
          /\ UNCHANGED <<failedRows, lockCounter, memoryBucket>>
       \/ /\ \E i \in Instances : memoryBucket' = [memoryBucket EXCEPT ![i] = 0]
          /\ UNCHANGED <<failedRows, lockCounter, rateCounter>>
       \/ /\ failedRows > 0 /\ failedRows' = failedRows - 1
          /\ UNCHANGED <<lockCounter, rateCounter, memoryBucket>>
    /\ UNCHANGED <<guardReq, guardRedisUp, expiryLost, guardOutage>>

GuardRedisComesAndGoes ==
    /\ guardRedisUp' = ~guardRedisUp
    /\ guardOutage' = TRUE
    /\ UNCHANGED <<failedRows, lockCounter, guardReq, expiryLost, rateCounter, memoryBucket>>

GuardNext ==
    \/ \E h \in LoginRequests :
          \/ AssertNotLockedOut(h) \/ LoginSucceeds(h) \/ RecordFailure(h)
          \/ CountFailure(h) \/ ExpireCounter(h)
    \/ \E i \in Instances : RateLimiter(i)
    \/ GuardRestarts \/ WindowPasses \/ GuardRedisComesAndGoes
-------------------------------------------------------------------------------
GuardTypeOK ==
    /\ failedRows \in Nat /\ lockCounter.count \in Nat /\ rateCounter.count \in Nat
    /\ \A i \in Instances : memoryBucket[i] \in Nat

\* Neither a locked identifier nor a limited address stays so: a counter of Redis above
\* zero has an expiry, and without an outage the lock's counter holds at most the limit
\* and the logins in flight with the last one.  Only the lock's INCR and PEXPIRE, two
\* calls, may be cut apart by an outage or a restart, and then the lock does not end
\* (login-guard.service.ts 33-86, rateLimiter.ts 20-38).
WindowsEnd ==
    /\ rateCounter.count > 0 => rateCounter.expires
    /\ lockCounter.count > 0 =>
          lockCounter.expires \/ expiryLost \/ \E h \in LoginRequests : guardReq[h] = "pexpire"
    /\ guardOutage \/ lockCounter.count < MaxFailedLogins + Cardinality(LoginRequests)
===============================================================================
