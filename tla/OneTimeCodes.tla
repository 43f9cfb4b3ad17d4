------------------------------ MODULE OneTimeCodes ----------------------------
(***************************************************************************)
(* The one-time codes of one identifier and purpose: the cooldown between  *)
(* two codes, kept in Redis or read from the table, and the verification,  *)
(* which reads a row and later writes it.                                  *)
(***************************************************************************)
EXTENDS Integers, Sequences, FiniteSets, FiniteSetsExt

CONSTANTS
    MaxVerifyAttempts, \* OTP_MAX_VERIFY_ATTEMPTS
    MaxCodes,          \* bound: rows created, in order of createdAt
    OtpRequests        \* requests in flight together

ASSUME OtpConstantsOK ==
    MaxVerifyAttempts \in Nat \ {0} /\ MaxCodes \in Nat /\ IsFiniteSet(OtpRequests)

VARIABLES
    otp,               \* the OtpCode rows
    lastIsRecent,      \* the newest row is younger than the cooldown
    cooldownKey,       \* otpcooldown:... is in Redis
    otpRedisUp,
    otpReq,            \* the handlers in flight
    accepted,          \* history: how often each code was accepted
    verificationsCrossed \* history: codes whose row changed between a read and a write

otpVars == <<otp, lastIsRecent, cooldownKey, otpRedisUp, otpReq, accepted, verificationsCrossed>>
-------------------------------------------------------------------------------
IdleOtp == [phase |-> "idle", id |-> 0]

OtpInit ==
    /\ otp = <<>> /\ accepted = <<>>
    /\ lastIsRecent = FALSE /\ cooldownKey = FALSE
    /\ otpRedisUp \in BOOLEAN
    /\ otpReq = [h \in OtpRequests |-> IdleOtp]
    /\ verificationsCrossed = {}

\* assertNotInCooldown: the key, or the newest row when Redis does not answer.
InCooldown == IF otpRedisUp THEN cooldownKey ELSE lastIsRecent

Unused == {o \in DOMAIN otp : ~otp[o].isUsed /\ ~otp[o].deleted}

\* Faulty: the newest code, used or not.
NewestOfAll == Max({o \in DOMAIN otp : ~otp[o].deleted})

\* findFirst(isUsed false, orderBy createdAt desc).
NewestUnused == Max(Unused)

\* Faulty: one wrong code too many is weighed.
OneMoreAttempt(attempts) == attempts <= MaxVerifyAttempts

AttemptsLeft(attempts) == attempts < MaxVerifyAttempts
-------------------------------------------------------------------------------
\* issueOtp: the check of the cooldown ...
StartIssue(h) ==
    /\ otpReq[h].phase = "idle"
    /\ ~InCooldown
    /\ otpReq' = [otpReq EXCEPT ![h].phase = "issue"]
    /\ UNCHANGED <<otp, lastIsRecent, cooldownKey, otpRedisUp, accepted, verificationsCrossed>>

\* ... the row ...
CreateCode(h) ==
    /\ otpReq[h].phase = "issue"
    /\ Len(otp) < MaxCodes
    /\ otp' = Append(otp, [isUsed |-> FALSE, attempts |-> 0, expired |-> FALSE, deleted |-> FALSE])
    /\ accepted' = Append(accepted, 0)
    /\ lastIsRecent' = TRUE
    /\ otpReq' = [otpReq EXCEPT ![h].phase = "cool"]
    /\ UNCHANGED <<cooldownKey, otpRedisUp, verificationsCrossed>>

\* ... and the key, unless Redis is away; then the code is sent, or not.
StartResendCooldown(h) ==
    /\ otpReq[h].phase = "cool"
    /\ cooldownKey' = (cooldownKey \/ otpRedisUp)
    /\ otpReq' = [otpReq EXCEPT ![h] = IdleOtp]
    /\ UNCHANGED <<otp, lastIsRecent, otpRedisUp, accepted, verificationsCrossed>>

\* verifyOtp reads the newest unused row; it must not be expired nor out of attempts.
ReadCode(h, right) ==
    /\ otpReq[h].phase = "idle"
    /\ Unused # {}
    /\ LET o == NewestUnused
       IN  /\ ~otp[o].expired
           /\ AttemptsLeft(otp[o].attempts)
           /\ otpReq' = [otpReq EXCEPT ![h] = [phase |-> IF right THEN "accept" ELSE "count",
                                               id |-> o]]
    /\ UNCHANGED <<otp, lastIsRecent, cooldownKey, otpRedisUp, accepted, verificationsCrossed>>

\* A request has read the row of o and is still to write it.
Overtaken(h, o) ==
    IF \E g \in OtpRequests \ {h} : otpReq[g].id = o THEN {o} ELSE {}

\* A wrong code: attempts { increment: 1 }; on a row cleaned up meanwhile it fails.
CountAttempt(h) ==
    LET o == otpReq[h].id
    IN  /\ otpReq[h].phase = "count"
        /\ otp' = IF otp[o].deleted THEN otp ELSE [otp EXCEPT ![o].attempts = @ + 1]
        /\ otpReq' = [otpReq EXCEPT ![h] = IdleOtp]
        /\ verificationsCrossed' = verificationsCrossed \cup Overtaken(h, o)
        /\ UNCHANGED <<lastIsRecent, cooldownKey, otpRedisUp, accepted>>

\* The right code: isUsed, whatever it is now.
AcceptCode(h) ==
    LET o == otpReq[h].id
    IN  /\ otpReq[h].phase = "accept"
        /\ IF otp[o].deleted THEN UNCHANGED <<otp, accepted>>
           ELSE /\ otp' = [otp EXCEPT ![o].isUsed = TRUE]
                /\ accepted' = [accepted EXCEPT ![o] = @ + 1]
        /\ otpReq' = [otpReq EXCEPT ![h] = IdleOtp]
        /\ verificationsCrossed' = verificationsCrossed \cup Overtaken(h, o)
        /\ UNCHANGED <<lastIsRecent, cooldownKey, otpRedisUp>>

\* runCleanupOtpJob: used or expired rows older than the retention.
CleanupOtp ==
    /\ \E o \in DOMAIN otp :
          /\ ~otp[o].deleted /\ (otp[o].isUsed \/ otp[o].expired)
          /\ o = Len(otp) => ~lastIsRecent
          /\ otp' = [otp EXCEPT ![o].deleted = TRUE]
    /\ UNCHANGED <<lastIsRecent, cooldownKey, otpRedisUp, otpReq, accepted, verificationsCrossed>>

\* OTP_EXPIRES_IN_MINUTES pass for the oldest code that is still valid ...
CodeExpires ==
    /\ \E o \in DOMAIN otp :
          /\ ~otp[o].expired /\ \A p \in 1 .. o - 1 : otp[p].expired
          /\ otp' = [otp EXCEPT ![o].expired = TRUE]
    /\ UNCHANGED <<lastIsRecent, cooldownKey, otpRedisUp, otpReq, accepted, verificationsCrossed>>

\* ... OTP_RESEND_COOLDOWN_SECONDS since the newest row, and since the key.
CooldownPasses ==
    /\ \/ lastIsRecent' = FALSE /\ UNCHANGED cooldownKey
       \/ cooldownKey' = FALSE /\ ~lastIsRecent /\ UNCHANGED lastIsRecent
    /\ UNCHANGED <<otp, otpRedisUp, otpReq, accepted, verificationsCrossed>>

OtpRedisComesAndGoes ==
    /\ otpRedisUp' = ~otpRedisUp
    /\ UNCHANGED <<otp, lastIsRecent, cooldownKey, otpReq, accepted, verificationsCrossed>>

OtpNext ==
    \/ \E h \in OtpRequests :
          \/ StartIssue(h) \/ CreateCode(h) \/ StartResendCooldown(h)
          \/ \E right \in BOOLEAN : ReadCode(h, right)
          \/ CountAttempt(h) \/ AcceptCode(h)
    \/ CleanupOtp \/ CodeExpires \/ CooldownPasses \/ OtpRedisComesAndGoes
-------------------------------------------------------------------------------
OtpTypeOK ==
    /\ Len(otp) <= MaxCodes /\ DOMAIN accepted = DOMAIN otp
    /\ \A h \in OtpRequests : otpReq[h].id \in DOMAIN otp \cup {0}
    /\ \A o \in DOMAIN otp : otp[o].attempts <= MaxVerifyAttempts + Cardinality(OtpRequests) - 1

\* A code is accepted once, and no more than OTP_MAX_VERIFY_ATTEMPTS wrong ones are
\* weighed against it, through any order of new codes, expiries, clean-ups and Redis
\* outages; only verifications of the same row in flight together go beyond, each by
\* one (otp.service.ts 120-148).
CodeAcceptedOnce ==
    \A o \in DOMAIN otp \ verificationsCrossed :
        /\ accepted[o] <= 1
        /\ otp[o].attempts <= MaxVerifyAttempts
        /\ accepted[o] = 1 => otp[o].isUsed
===============================================================================
