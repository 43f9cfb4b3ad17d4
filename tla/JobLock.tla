-------------------------------- MODULE JobLock -------------------------------
(***************************************************************************)
(* One scheduled job on the instances of the server: setInterval starts a  *)
(* round whether or not the last one has ended, withLock takes a key with  *)
(* a random token in Redis, which may expire, or runs the job without it.  *)
(***************************************************************************)
EXTENDS Integers, FiniteSets

CONSTANTS
    Rounds,            \* runAllJobs calls in flight, of all instances
    MaxTokens,         \* bound: randomUUID calls
    NoToken

ASSUME LockConstantsOK == MaxTokens \in Nat /\ NoToken \notin 1 .. MaxTokens

VARIABLES
    lock,              \* lock:job:<name>
    round,             \* where each round is with the job
    tokens,            \* bound: tokens drawn
    lockRedisUp,
    heldTooLong,       \* rounds whose key expired under them
    unlocked           \* rounds that run without a key

lockVars == <<lock, round, tokens, lockRedisUp, heldTooLong, unlocked>>
-------------------------------------------------------------------------------
IdleRound == [phase |-> "idle", token |-> NoToken]

LockInit ==
    /\ lock = NoToken /\ tokens = 0
    /\ round = [r \in Rounds |-> IdleRound]
    /\ lockRedisUp \in BOOLEAN
    /\ heldTooLong = {} /\ unlocked = {}

\* withLock without Redis, or on an error of the SET: the job runs.
RunWithoutLock(r) ==
    /\ round[r].phase = "idle"
    /\ ~lockRedisUp
    /\ round' = [round EXCEPT ![r].phase = "run"]
    /\ unlocked' = unlocked \cup {r}
    /\ UNCHANGED <<lock, tokens, lockRedisUp, heldTooLong>>

\* SET NX PX: taken, or left to the round that has it.
AcquireLock(r) ==
    /\ round[r].phase = "idle"
    /\ lockRedisUp
    /\ lock = NoToken /\ tokens < MaxTokens
    /\ tokens' = tokens + 1
    /\ lock' = tokens'
    /\ round' = [round EXCEPT ![r] = [phase |-> "run", token |-> tokens']]
    /\ UNCHANGED <<lockRedisUp, heldTooLong, unlocked>>

\* The job ends, well or not; without a key the round is over.
JobEnds(r) ==
    /\ round[r].phase = "run"
    /\ round' = [round EXCEPT ![r] = IF @.token = NoToken THEN IdleRound ELSE [@ EXCEPT !.phase = "release"]]
    /\ unlocked' = unlocked \ {r}
    /\ UNCHANGED <<lock, tokens, lockRedisUp, heldTooLong>>

\* Faulty: DEL without a look at the token.
ReleasedByAny(token) == NoToken

\* RELEASE_IF_OWNER_SCRIPT.
ReleasedByOwner(token) == IF lock = token THEN NoToken ELSE lock

ReleaseLock(r) ==
    /\ round[r].phase = "release"
    /\ lock' = IF lockRedisUp THEN ReleasedByOwner(round[r].token) ELSE lock
    /\ round' = [round EXCEPT ![r] = IdleRound]
    /\ heldTooLong' = heldTooLong \ {r}
    /\ UNCHANGED <<tokens, lockRedisUp, unlocked>>

\* 90 % of the interval are over.
LockExpires ==
    /\ lock # NoToken
    /\ lock' = NoToken
    /\ heldTooLong' = heldTooLong \cup {r \in Rounds : round[r].token = lock}
    /\ UNCHANGED <<round, tokens, lockRedisUp, unlocked>>

\* The process of a round ends; its key stays until it expires.
RoundLost(r) ==
    /\ round[r].phase # "idle"
    /\ round' = [round EXCEPT ![r] = IdleRound]
    /\ heldTooLong' = heldTooLong \ {r}
    /\ unlocked' = unlocked \ {r}
    /\ UNCHANGED <<lock, tokens, lockRedisUp>>

LockRedisComesAndGoes ==
    /\ lockRedisUp' = ~lockRedisUp
    /\ UNCHANGED <<lock, round, tokens, heldTooLong, unlocked>>

LockNext ==
    \/ \E r \in Rounds :
          RunWithoutLock(r) \/ AcquireLock(r) \/ JobEnds(r) \/ ReleaseLock(r) \/ RoundLost(r)
    \/ LockExpires \/ LockRedisComesAndGoes
-------------------------------------------------------------------------------
LockTypeOK ==
    /\ lock \in 1 .. tokens \cup {NoToken} /\ tokens <= MaxTokens
    /\ \A r \in unlocked : round[r].phase = "run" /\ round[r].token = NoToken

\* Of the rounds that run the job at once at most one has been neither without Redis when
\* it began nor longer than its key lasts, and it has the key: a round that ends late
\* never gives away the key of its successor, on which the overlap of a third would rest
\* (distributedLock.ts 14-55, scheduler.ts 35-66).
JobsExcluded ==
    LET guarded == {r \in Rounds : round[r].phase = "run"} \ (heldTooLong \cup unlocked)
    IN  /\ Cardinality(guarded) <= 1
        /\ \A r \in guarded : lock = round[r].token
===============================================================================
