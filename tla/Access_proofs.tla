----------------------------- MODULE Access_proofs ----------------------------
(*****************************************************************************)
(* Proofs about sessions, one-time codes and the login guard, for any limits,*)
(* numbers of requests, codes and passwords.                                 *)
(*****************************************************************************)
EXTENDS Sessions, OneTimeCodes, LoginGuard, Sums_proofs, SequenceTheorems

(* One-time codes: a request that is to write a row finds it as it read it, *)
(* unless another wrote it in between.                                      *)

OtpSpec == OtpInit /\ [][OtpNext]_otpVars

OtpRow == [isUsed : BOOLEAN, attempts : Nat, expired : BOOLEAN, deleted : BOOLEAN]

OtpRows ==
    /\ otp \in Seq(OtpRow) /\ accepted \in Seq(Nat) /\ Len(accepted) = Len(otp)
    /\ otpReq \in [OtpRequests -> [phase : {"idle", "issue", "cool", "accept", "count"}, id : Nat]]
    /\ \A h \in OtpRequests :
          IF otpReq[h].phase \in {"accept", "count"} THEN otpReq[h].id \in 1 .. Len(otp)
                                                    ELSE otpReq[h].id = 0

\* o has been accepted as often as its row says, and who is to write it may do so.
CodeOK(o) ==
    /\ accepted[o] = IF otp[o].isUsed THEN 1 ELSE 0
    /\ otp[o].attempts <= MaxVerifyAttempts
    /\ \A h \in OtpRequests : otpReq[h].id = o =>
          ~otp[o].isUsed /\ otp[o].attempts < MaxVerifyAttempts

OtpInv == OtpRows /\ \A o \in 1 .. Len(otp) : o \in verificationsCrossed \/ CodeOK(o)

\* A wrong code is counted in its row.
LEMMA AttemptCounted ==
  ASSUME NEW r \in OtpRow
  PROVE  /\ [r EXCEPT !.attempts = @ + 1] \in OtpRow
         /\ [r EXCEPT !.attempts = @ + 1].attempts = r.attempts + 1
         /\ [r EXCEPT !.attempts = @ + 1].isUsed = r.isUsed
  <1>1. r.attempts + 1 \in Nat
    BY DEF OtpRow
  <1> DEFINE a == r.attempts + 1
  <1> HIDE DEF a
  <1>2. /\ [r EXCEPT !.attempts = a] \in OtpRow
        /\ [r EXCEPT !.attempts = a].attempts = a
        /\ [r EXCEPT !.attempts = a].isUsed = r.isUsed
    BY <1>1 DEF OtpRow, a
  <1> QED
    BY <1>2 DEF a

LEMMA OtpInvInit == OtpInit => OtpInv
  BY DEF OtpInit, OtpInv, OtpRows, IdleOtp

\* Of the unused rows there is a newest one.
LEMMA NewestIsUnused ==
  ASSUME OtpInv, Unused # {}
  PROVE  NewestUnused \in 1 .. Len(otp) /\ ~otp[NewestUnused].isUsed
  <1>1. Len(otp) \in Nat /\ Unused \in SUBSET (1 .. Len(otp))
    BY DEF OtpInv, OtpRows, Unused
  <1>2. NewestUnused \in Unused
    BY <1>1, MaxIsGreatest DEF NewestUnused
  <1> QED
    BY <1>1, <1>2 DEF Unused

\* Requests that have read no row move, or what is in no row changes.
LEMMA RowsStay ==
  ASSUME OtpInv, UNCHANGED <<otp, accepted, verificationsCrossed>>,
         \/ UNCHANGED otpReq
         \/ \E h \in OtpRequests, p \in {"idle", "issue", "cool"} :
               otpReq' = [otpReq EXCEPT ![h] = [phase |-> p, id |-> 0]]
  PROVE  OtpInv'
  <1>1. CASE UNCHANGED otpReq
    BY <1>1 DEF OtpInv, OtpRows, CodeOK
  <1>2. ASSUME NEW h \in OtpRequests, NEW p \in {"idle", "issue", "cool"},
               otpReq' = [otpReq EXCEPT ![h] = [phase |-> p, id |-> 0]]
        PROVE  OtpInv'
    <2>1. OtpRows'
      BY <1>2 DEF OtpInv, OtpRows
    <2>2. \A g \in OtpRequests : otpReq'[g].id \in {0, otpReq[g].id}
      BY <1>2 DEF OtpInv, OtpRows
    <2>3. ASSUME NEW o \in 1 .. Len(otp), CodeOK(o) PROVE CodeOK(o)'
      BY <2>2, <2>3 DEF CodeOK
    <2> QED
      BY <2>1, <2>3 DEF OtpInv
  <1> QED
    BY <1>1, <1>2

\* A row changes in what CodeOK says nothing about.
LEMMA RowsAge ==
  ASSUME OtpInv, UNCHANGED <<otpReq, accepted, verificationsCrossed>>,
         otp' \in Seq(OtpRow), Len(otp') = Len(otp),
         \A o \in 1 .. Len(otp) : /\ otp'[o].isUsed = otp[o].isUsed
                                  /\ otp'[o].attempts = otp[o].attempts
  PROVE  OtpInv'
  BY DEF OtpInv, OtpRows, CodeOK

\* A request writes the row n it had read: it counts a wrong code, accepts the right one
\* or finds the row deleted.
LEMMA CodeWritten ==
  ASSUME OtpInv, NEW h \in OtpRequests, NEW n, n = otpReq[h].id,
         otpReq[h].phase \in {"count", "accept"},
         otp' \in Seq(OtpRow), accepted' \in Seq(Nat),
         Len(otp') = Len(otp), Len(accepted') = Len(otp),
         \A o \in 1 .. Len(otp) : o # n => otp'[o] = otp[o] /\ accepted'[o] = accepted[o],
         otp'[n].attempts <= otp[n].attempts + 1,
         \/ accepted'[n] = accepted[n] /\ otp'[n].isUsed = otp[n].isUsed
         \/ accepted'[n] = accepted[n] + 1 /\ otp'[n].isUsed = TRUE,
         otpReq' = [otpReq EXCEPT ![h] = IdleOtp],
         verificationsCrossed' = verificationsCrossed \cup Overtaken(h, n)
  PROVE  OtpInv'
  <1>1. n \in 1 .. Len(otp) /\ Len(otp) \in Nat /\ otp[n] \in OtpRow /\ otp'[n] \in OtpRow
    BY DEF OtpInv, OtpRows
  <1>2. /\ otpReq'[h] = IdleOtp /\ \A g \in OtpRequests \ {h} : otpReq'[g] = otpReq[g]
        /\ otpReq' \in [OtpRequests -> [phase : {"idle", "issue", "cool", "accept", "count"}, id : Nat]]
    BY DEF OtpInv, OtpRows, IdleOtp
  <1>3. OtpRows'
    BY <1>2 DEF OtpInv, OtpRows, IdleOtp
  <1>4. ASSUME NEW o \in 1 .. Len(otp), o \notin verificationsCrossed', o # n PROVE CodeOK(o)'
    BY <1>2, <1>4 DEF OtpInv, CodeOK, IdleOtp
  <1>5. ASSUME n \notin verificationsCrossed' PROVE CodeOK(n)'
    <2>1. n \notin verificationsCrossed /\ \A g \in OtpRequests \ {h} : otpReq[g].id # n
      BY <1>5 DEF Overtaken
    <2>2. CodeOK(n) /\ ~otp[n].isUsed /\ otp[n].attempts < MaxVerifyAttempts /\ accepted[n] = 0
      BY <2>1, <1>1 DEF OtpInv, CodeOK
    <2>3. \A g \in OtpRequests : otpReq'[g].id # n
      BY <2>1, <1>1, <1>2 DEF IdleOtp
    <2>4. accepted'[n] = IF otp'[n].isUsed THEN 1 ELSE 0
      BY <2>2
    <2>5. otp'[n].attempts <= MaxVerifyAttempts
      BY <1>1, <2>2, OtpConstantsOK DEF OtpRow
    <2> QED
      BY <2>3, <2>4, <2>5 DEF CodeOK
  <1> QED
    BY <1>3, <1>4, <1>5 DEF OtpInv

LEMMA OtpInvStep == OtpInv /\ [OtpNext]_otpVars => OtpInv'
  <1> SUFFICES ASSUME OtpInv, [OtpNext]_otpVars PROVE OtpInv'
    OBVIOUS
  <1>0. /\ otp \in Seq(OtpRow) /\ accepted \in Seq(Nat) /\ Len(accepted) = Len(otp)
        /\ Len(otp) \in Nat /\ DOMAIN otp = 1 .. Len(otp)
        /\ \A o \in 1 .. Len(otp) : otp[o] \in OtpRow /\ accepted[o] \in Nat
    BY DEF OtpInv, OtpRows
  <1>1. ASSUME NEW h \in OtpRequests, NEW p \in {"idle", "issue", "cool"},
               otpReq[h].phase \in {"idle", "issue", "cool"}
        PROVE  [otpReq EXCEPT ![h].phase = p] = [otpReq EXCEPT ![h] = [phase |-> p, id |-> 0]]
    <2>1. otpReq[h] = [phase |-> otpReq[h].phase, id |-> 0]
      BY <1>1 DEF OtpInv, OtpRows
    <2>2. [otpReq[h] EXCEPT !.phase = p] = [phase |-> p, id |-> 0]
      BY <2>1
    <2> QED
      BY <2>2 DEF OtpInv, OtpRows
  <1>2. ASSUME NEW h \in OtpRequests, StartIssue(h) PROVE OtpInv'
    <2>1. otpReq' = [otpReq EXCEPT ![h] = [phase |-> "issue", id |-> 0]]
      BY <1>1, <1>2 DEF StartIssue
    <2> QED
      BY <1>2, <2>1, RowsStay DEF StartIssue
  <1>3. ASSUME NEW h \in OtpRequests, CreateCode(h) PROVE OtpInv'
    <2> DEFINE row == [isUsed |-> FALSE, attempts |-> 0, expired |-> FALSE, deleted |-> FALSE]
    <2>1. /\ otp' = Append(otp, row) /\ accepted' = Append(accepted, 0) /\ row \in OtpRow
          /\ verificationsCrossed' = verificationsCrossed
          /\ otpReq' = [otpReq EXCEPT ![h] = [phase |-> "cool", id |-> 0]]
      BY <1>1, <1>3 DEF CreateCode, OtpRow
    <2>2. /\ otp' \in Seq(OtpRow) /\ accepted' \in Seq(Nat)
          /\ Len(otp') = Len(otp) + 1 /\ Len(accepted') = Len(otp) + 1
          /\ otp'[Len(otp) + 1] = row /\ accepted'[Len(otp) + 1] = 0
          /\ \A o \in 1 .. Len(otp) : otp'[o] = otp[o] /\ accepted'[o] = accepted[o]
      <3> HIDE DEF row
      <3> QED
        BY <1>0, <2>1
    <2>3. OtpRows'
      BY <2>1, <2>2 DEF OtpInv, OtpRows
    <2>4. \A g \in OtpRequests : otpReq[g].id # Len(otp) + 1 /\ otpReq'[g].id \in {0, otpReq[g].id}
      BY <1>0, <2>1 DEF OtpInv, OtpRows
    <2>5. ASSUME NEW o \in 1 .. Len(otp) + 1, o \notin verificationsCrossed PROVE CodeOK(o)'
      <3>1. CASE o \in 1 .. Len(otp)
        <4>1. CodeOK(o) /\ otp'[o] = otp[o] /\ accepted'[o] = accepted[o]
          BY <2>2, <2>5, <3>1 DEF OtpInv
        <4> QED
          BY <2>4, <3>1, <4>1 DEF CodeOK
      <3>2. CASE o = Len(otp) + 1
        <4>1. \A g \in OtpRequests : otpReq'[g].id # o
          BY <1>0, <2>4, <3>2
        <4>2. otp'[o] = row /\ accepted'[o] = 0
          BY <2>2, <3>2
        <4> QED
          BY <4>1, <4>2, OtpConstantsOK DEF CodeOK
      <3> QED
        BY <1>0, <3>1, <3>2
    <2> QED
      BY <2>1, <2>2, <2>3, <2>5 DEF OtpInv
  <1>4. ASSUME NEW h \in OtpRequests, StartResendCooldown(h) PROVE OtpInv'
    BY <1>4, RowsStay DEF StartResendCooldown, IdleOtp
  <1>5. ASSUME NEW h \in OtpRequests, NEW right \in BOOLEAN, ReadCode(h, right) PROVE OtpInv'
    <2> DEFINE n == NewestUnused
    <2>1. n \in 1 .. Len(otp) /\ ~otp[n].isUsed
      BY <1>5, NewestIsUnused DEF ReadCode
    <2>2. /\ otp[n].attempts < MaxVerifyAttempts
          /\ otpReq' = [otpReq EXCEPT ![h] = [phase |-> IF right THEN "accept" ELSE "count", id |-> n]]
          /\ UNCHANGED <<otp, accepted, verificationsCrossed>>
      BY <1>5 DEF ReadCode, AttemptsLeft
    <2> HIDE DEF n
    <2>3. OtpRows'
      BY <1>0, <2>1, <2>2 DEF OtpInv, OtpRows
    <2>4. ASSUME NEW o \in 1 .. Len(otp), o \notin verificationsCrossed PROVE CodeOK(o)'
      BY <1>0, <2>1, <2>2, <2>4 DEF OtpInv, OtpRows, CodeOK
    <2> QED
      BY <2>2, <2>3, <2>4 DEF OtpInv
  <1>6. ASSUME NEW h \in OtpRequests, CountAttempt(h) PROVE OtpInv'
    <2> DEFINE n == otpReq[h].id
    <2>1. n \in 1 .. Len(otp) /\ otpReq[h].phase = "count"
      BY <1>6 DEF OtpInv, OtpRows, CountAttempt
    <2>2. /\ otp' \in Seq(OtpRow) /\ Len(otp') = Len(otp)
          /\ \A o \in 1 .. Len(otp) : o # n => otp'[o] = otp[o]
          /\ otp'[n].attempts <= otp[n].attempts + 1 /\ otp'[n].isUsed = otp[n].isUsed
      <3> DEFINE row == [otp[n] EXCEPT !.attempts = @ + 1]
      <3>1. row \in OtpRow /\ row.attempts = otp[n].attempts + 1 /\ row.isUsed = otp[n].isUsed
        <4>1. otp[n] \in OtpRow
          BY <1>0, <2>1
        <4> QED
          BY <4>1, AttemptCounted
      <3>2. otp' = otp \/ otp' = [otp EXCEPT ![n] = row]
        BY <1>6 DEF CountAttempt
      <3>3. otp[n].attempts \in Nat
        BY <1>0, <2>1 DEF OtpRow
      <3> HIDE DEF row
      <3>4. otp \in Seq(OtpRow) /\ otp[n].attempts <= otp[n].attempts + 1
        BY <1>0, <3>3
      <3>5. CASE otp' = otp
        BY <3>4, <3>5
      <3>6. CASE otp' = [otp EXCEPT ![n] = row]
        <4>1. /\ otp' \in Seq(OtpRow) /\ Len(otp') = Len(otp) /\ otp'[n] = row
              /\ \A o \in 1 .. Len(otp) : o # n => otp'[o] = otp[o]
          BY <2>1, <3>1, <3>4, <3>6, ExceptSeq
        <4>2. row.attempts <= otp[n].attempts + 1
          BY <3>1, <3>3
        <4> QED
          BY <3>1, <4>1, <4>2
      <3> QED
        BY <3>2, <3>5, <3>6
    <2> QED
      BY <1>0, <1>6, <2>1, <2>2, CodeWritten DEF CountAttempt
  <1>7. ASSUME NEW h \in OtpRequests, AcceptCode(h) PROVE OtpInv'
    <2> DEFINE n == otpReq[h].id
    <2>1. n \in 1 .. Len(otp) /\ otpReq[h].phase = "accept"
      BY <1>7 DEF OtpInv, OtpRows, AcceptCode
    <2>2. /\ otp' \in Seq(OtpRow) /\ Len(otp') = Len(otp)
          /\ accepted' \in Seq(Nat) /\ Len(accepted') = Len(otp)
          /\ \A o \in 1 .. Len(otp) : o # n => otp'[o] = otp[o] /\ accepted'[o] = accepted[o]
          /\ otp'[n].attempts <= otp[n].attempts + 1
          /\ \/ accepted'[n] = accepted[n] /\ otp'[n].isUsed = otp[n].isUsed
             \/ accepted'[n] = accepted[n] + 1 /\ otp'[n].isUsed = TRUE
      <3>1. CASE otp[n].deleted
        <4>1. UNCHANGED <<otp, accepted>>
          BY <1>7, <3>1 DEF AcceptCode
        <4>2. otp[n].attempts <= otp[n].attempts + 1
          <5>1. otp[n].attempts \in Nat
            BY <1>0, <2>1 DEF OtpRow
          <5> QED
            BY <5>1
        <4> QED
          BY <1>0, <4>1, <4>2
      <3>2. CASE ~otp[n].deleted
        <4>1. otp' = [otp EXCEPT ![n].isUsed = TRUE] /\ accepted' = [accepted EXCEPT ![n] = @ + 1]
          BY <1>7, <3>2 DEF AcceptCode
        <4> QED
          <5> DEFINE row == [otp[n] EXCEPT !.isUsed = TRUE]
          <5>1. row \in OtpRow /\ row.attempts = otp[n].attempts /\ row.isUsed = TRUE
            BY <1>0, <2>1 DEF OtpRow
          <5>2. otp' = [otp EXCEPT ![n] = row] /\ accepted[n] \in Nat /\ otp[n].attempts \in Nat
            BY <1>0, <2>1, <4>1 DEF OtpRow
          <5>3. /\ accepted' \in Seq(Nat) /\ Len(accepted') = Len(otp) /\ accepted'[n] = accepted[n] + 1
                /\ \A o \in 1 .. Len(otp) : o # n => accepted'[o] = accepted[o]
            BY <1>0, <2>1, <4>1, <5>2, ExceptSeq
          <5> HIDE DEF row
          <5>4. /\ otp' \in Seq(OtpRow) /\ Len(otp') = Len(otp) /\ otp'[n] = row
                /\ \A o \in 1 .. Len(otp) : o # n => otp'[o] = otp[o]
            BY <1>0, <2>1, <5>1, <5>2, ExceptSeq
          <5> QED
            BY <5>1, <5>2, <5>3, <5>4
      <3> QED
        BY <3>1, <3>2
    <2> QED
      BY <1>7, <2>1, <2>2, CodeWritten DEF AcceptCode
  <1>8. CASE CleanupOtp
    <2>1. PICK o \in 1 .. Len(otp) : otp' = [otp EXCEPT ![o].deleted = TRUE]
      BY <1>8, <1>0 DEF CleanupOtp
    <2>2. /\ otp' \in Seq(OtpRow) /\ Len(otp') = Len(otp)
          /\ \A p \in 1 .. Len(otp) : otp'[p].isUsed = otp[p].isUsed /\ otp'[p].attempts = otp[p].attempts
      <3> DEFINE row == [otp[o] EXCEPT !.deleted = TRUE]
      <3>1. row \in OtpRow /\ row.attempts = otp[o].attempts /\ row.isUsed = otp[o].isUsed
        BY <1>0 DEF OtpRow
      <3>2. otp' = [otp EXCEPT ![o] = row]
        BY <2>1
      <3> HIDE DEF row
      <3> QED
        BY <1>0, <3>1, <3>2, ExceptSeq
    <2> QED
      BY <1>8, <2>2, RowsAge DEF CleanupOtp
  <1>9. CASE CodeExpires
    <2>1. PICK o \in 1 .. Len(otp) : otp' = [otp EXCEPT ![o].expired = TRUE]
      BY <1>9, <1>0 DEF CodeExpires
    <2>2. /\ otp' \in Seq(OtpRow) /\ Len(otp') = Len(otp)
          /\ \A p \in 1 .. Len(otp) : otp'[p].isUsed = otp[p].isUsed /\ otp'[p].attempts = otp[p].attempts
      <3> DEFINE row == [otp[o] EXCEPT !.expired = TRUE]
      <3>1. row \in OtpRow /\ row.attempts = otp[o].attempts /\ row.isUsed = otp[o].isUsed
        BY <1>0 DEF OtpRow
      <3>2. otp' = [otp EXCEPT ![o] = row]
        BY <2>1
      <3> HIDE DEF row
      <3> QED
        BY <1>0, <3>1, <3>2, ExceptSeq
    <2> QED
      BY <1>9, <2>2, RowsAge DEF CodeExpires
  <1>10. CASE CooldownPasses
    BY <1>10, RowsStay DEF CooldownPasses
  <1>11. CASE OtpRedisComesAndGoes
    BY <1>11, RowsStay DEF OtpRedisComesAndGoes
  <1>12. CASE UNCHANGED otpVars
    BY <1>12, RowsStay DEF otpVars
  <1> QED
    BY <1>2, <1>3, <1>4, <1>5, <1>6, <1>7, <1>8, <1>9, <1>10, <1>11, <1>12 DEF OtpNext

\* A code no two requests weighed at the same time is accepted once and after few wrong
\* ones, for any number of codes and requests and every limit (otp.service.ts 120-148).
THEOREM CodesAreAcceptedOnce == OtpSpec => []CodeAcceptedOnce
  <1>1. OtpInv => CodeAcceptedOnce
    BY DEF OtpInv, OtpRows, CodeOK, CodeAcceptedOnce
  <1>2. OtpSpec => []OtpInv
    BY OtpInvInit, OtpInvStep, PTL DEF OtpSpec
  <1> QED
    BY <1>1, <1>2, PTL
-------------------------------------------------------------------------------
(* The login guard: what may still be counted while Redis is there.          *)

GuardSpec == GuardInit /\ [][GuardNext]_guardVars

\* The logins that may still count a failure.
Failing == {h \in LoginRequests : guardReq[h] \in {"compare", "incr"}}

GuardTypes ==
    /\ failedRows \in Nat
    /\ \A counter \in {lockCounter, rateCounter} :
          counter.count \in Nat /\ DOMAIN counter = {"count", "expires"}
    /\ guardReq \in [LoginRequests -> {"idle", "compare", "incr", "pexpire"}]

CountersOK ==
    /\ rateCounter.count > 0 => rateCounter.expires
    /\ lockCounter.count > 0 =>
          lockCounter.expires \/ expiryLost \/ \E h \in LoginRequests : guardReq[h] = "pexpire"

\* What has been counted and what may still be, while Redis is there.
FailuresBounded ==
    guardOutage \/ /\ guardRedisUp
                   /\ lockCounter.count + Cardinality(Failing)
                         < MaxFailedLogins + Cardinality(LoginRequests)

GuardInv == GuardTypes /\ CountersOK /\ FailuresBounded

LEMMA FailingFinite == IsFiniteSet(Failing) /\ Cardinality(Failing) \in Nat
                          /\ Cardinality(Failing) <= Cardinality(LoginRequests)
                          /\ Cardinality(LoginRequests) \in Nat
  <1>1. Failing \subseteq LoginRequests /\ IsFiniteSet(LoginRequests)
    BY GuardConstantsOK DEF Failing
  <1> QED
    BY <1>1, FS_Subset, FS_CardinalityType

LEMMA GuardInvInit == GuardInit => GuardInv
  <1> SUFFICES ASSUME GuardInit PROVE GuardInv
    OBVIOUS
  <1>1. GuardTypes /\ CountersOK
    BY DEF GuardInit, GuardTypes, CountersOK, NoCounter
  <1>2. Failing = {}
    BY DEF GuardInit, Failing
  <1>3. Cardinality(Failing) = 0
    BY <1>2, FS_EmptySet
  <1>4. FailuresBounded
    BY <1>3, FailingFinite, GuardConstantsOK DEF GuardInit, FailuresBounded, NoCounter
  <1> QED
    BY <1>1, <1>4 DEF GuardInv

LEMMA GuardTypesStep == GuardInv /\ GuardNext => GuardTypes' /\ CountersOK'
  <1> SUFFICES ASSUME GuardInv, GuardNext PROVE GuardTypes' /\ CountersOK'
    OBVIOUS
  <1> USE DEF GuardInv, GuardTypes, CountersOK
  <1>1. ASSUME NEW h \in LoginRequests,
               AssertNotLockedOut(h) \/ LoginSucceeds(h) \/ RecordFailure(h)
        PROVE  GuardTypes' /\ CountersOK'
    BY <1>1 DEF AssertNotLockedOut, LoginSucceeds, RecordFailure
  <1>2. ASSUME NEW h \in LoginRequests, CountFailure(h)
        PROVE  GuardTypes' /\ CountersOK'
    BY <1>2 DEF CountFailure, OpensWindow
  <1>3. ASSUME NEW h \in LoginRequests, ExpireCounter(h)
        PROVE  GuardTypes' /\ CountersOK'
    BY <1>3 DEF ExpireCounter
  <1>4. ASSUME NEW i \in Instances, RateLimiter(i)
        PROVE  GuardTypes' /\ CountersOK'
    <2>1. CountersOK'
      <3>0. rateCounter' \in {rateCounter, Counted(rateCounter)}
        BY <1>4 DEF RateLimiter
      <3>1. CASE rateCounter' = rateCounter
        BY <1>4, <3>1 DEF RateLimiter
      <3>2. CASE rateCounter' = Counted(rateCounter)
        <4>1. rateCounter.count = 0 \/ rateCounter.expires
          OBVIOUS
        <4>2. (rateCounter.expires \/ rateCounter.count = 0) = TRUE
          BY <4>1, Zenon
        <4>3. rateCounter'.expires = TRUE
          BY <3>2, <4>2 DEF Counted
        <4> QED
          BY <1>4, <4>3 DEF RateLimiter
      <3> QED
        BY <3>0, <3>1, <3>2
    <2>2. GuardTypes'
      <3>1. rateCounter' \in {rateCounter, Counted(rateCounter)}
        BY <1>4 DEF RateLimiter
      <3>2. rateCounter'.count \in Nat /\ DOMAIN rateCounter' = {"count", "expires"}
        BY <3>1 DEF Counted
      <3> QED
        BY <1>4, <3>2 DEF RateLimiter
    <2> QED
      BY <2>1, <2>2
  <1>5. CASE GuardRestarts
    BY <1>5 DEF GuardRestarts
  <1>6. CASE WindowPasses
    BY <1>6 DEF WindowPasses, NoCounter
  <1>7. CASE GuardRedisComesAndGoes
    BY <1>7 DEF GuardRedisComesAndGoes
  <1> QED
    BY <1>1, <1>2, <1>3, <1>4, <1>5, <1>6, <1>7 DEF GuardNext

LEMMA FailuresStep == GuardInv /\ GuardNext => FailuresBounded'
  <1> SUFFICES ASSUME GuardInv, GuardNext, ~guardOutage' PROVE FailuresBounded'
    BY DEF FailuresBounded
  <1>0. ~guardOutage /\ guardRedisUp /\ guardRedisUp'
    BY DEF GuardNext, AssertNotLockedOut, LoginSucceeds, RecordFailure, CountFailure,
           ExpireCounter, RateLimiter, GuardRestarts, WindowPasses, GuardRedisComesAndGoes,
           GuardInv, FailuresBounded
  <1> DEFINE n == Cardinality(Failing)
             all == Cardinality(LoginRequests)
  <1>1. /\ IsFiniteSet(Failing) /\ n \in Nat /\ n <= all /\ all \in Nat
        /\ lockCounter.count \in Nat /\ lockCounter.count + n < MaxFailedLogins + all
    BY <1>0, FailingFinite DEF GuardInv, GuardTypes, FailuresBounded
  <1>2. /\ IsFiniteSet(Failing') /\ n' \in Nat /\ n' <= all
    BY <1>1, FailingFinite, GuardConstantsOK, FS_Subset, FS_CardinalityType DEF Failing
  <1>3. MaxFailedLogins \in Nat /\ MaxFailedLogins > 0
    BY GuardConstantsOK
  <1> SUFFICES lockCounter'.count + n' < MaxFailedLogins + all
    BY <1>0 DEF FailuresBounded
  <1>4. ASSUME Failing' \subseteq Failing PROVE n' <= n
    BY <1>1, <1>4, FS_Subset
  <1> USE DEF GuardInv, GuardTypes
  <1>5. ASSUME NEW h \in LoginRequests, AssertNotLockedOut(h)
        PROVE  lockCounter'.count + n' < MaxFailedLogins + all
    <2>1. lockCounter'.count = lockCounter.count /\ lockCounter.count < MaxFailedLogins
      BY <1>0, <1>5 DEF AssertNotLockedOut, FailedCount
    <2> HIDE DEF n, all
    <2> QED
      BY <2>1, <1>1, <1>2, <1>3
  <1>6. ASSUME NEW h \in LoginRequests, LoginSucceeds(h) \/ RecordFailure(h) \/ ExpireCounter(h)
        PROVE  lockCounter'.count + n' < MaxFailedLogins + all
    <2>1. lockCounter'.count = lockCounter.count
      BY <1>6 DEF LoginSucceeds, RecordFailure, ExpireCounter
    <2>2. Failing' \subseteq Failing
      BY <1>6 DEF LoginSucceeds, RecordFailure, ExpireCounter, Failing
    <2>3. n' <= n
      BY <1>4, <2>2
    <2> HIDE DEF n, all
    <2> QED
      BY <2>1, <2>3, <1>1, <1>2, <1>3
  <1>7. ASSUME NEW h \in LoginRequests, CountFailure(h)
        PROVE  lockCounter'.count + n' < MaxFailedLogins + all
    <2>1. lockCounter'.count = lockCounter.count + 1
      BY <1>0, <1>7 DEF CountFailure
    <2>2. Failing' = Failing \ {h} /\ h \in Failing
      BY <1>0, <1>7 DEF CountFailure, Failing
    <2>3. n' = n - 1
      BY <1>1, <2>2, FS_RemoveElement
    <2> HIDE DEF n, all
    <2> QED
      BY <2>1, <2>3, <1>1, <1>2, <1>3
  <1>8. ASSUME GuardRestarts \/ \E i \in Instances : RateLimiter(i)
        PROVE  lockCounter'.count + n' < MaxFailedLogins + all
    <2>1. lockCounter'.count = lockCounter.count /\ Failing' \subseteq Failing
      BY <1>8 DEF GuardRestarts, RateLimiter, Failing
    <2>3. n' <= n
      BY <1>4, <2>1
    <2> HIDE DEF n, all
    <2> QED
      BY <2>1, <2>3, <1>1, <1>2, <1>3
  <1>9. CASE WindowPasses
    <2>1. lockCounter'.count <= lockCounter.count /\ lockCounter'.count \in Nat
      BY <1>9 DEF WindowPasses, NoCounter
    <2>2. Failing' \subseteq Failing
      BY <1>9 DEF WindowPasses, Failing
    <2>3. n' <= n
      BY <1>4, <2>2
    <2> HIDE DEF n, all
    <2> QED
      BY <2>1, <2>3, <1>1, <1>2, <1>3
  <1>10. CASE GuardRedisComesAndGoes
    BY <1>10 DEF GuardRedisComesAndGoes
  <1> QED
    BY <1>5, <1>6, <1>7, <1>8, <1>9, <1>10 DEF GuardNext

\* Neither a lock on an identifier nor the limit of an address lasts, for every limit and
\* number of requests, unless an outage or a restart cut INCR and PEXPIRE apart; and the
\* lock's counter ends less than the logins in flight above its limit
\* (login-guard.service.ts 33-86, rateLimiter.ts 20-38).
THEOREM LocksEnd == GuardSpec => []WindowsEnd
  <1>1. GuardInv /\ UNCHANGED guardVars => GuardInv'
    BY DEF GuardInv, GuardTypes, CountersOK, FailuresBounded, Failing, guardVars
  <1>2. GuardInv /\ [GuardNext]_guardVars => GuardInv'
    BY <1>1, GuardTypesStep, FailuresStep DEF GuardInv
  <1>3. GuardInv => WindowsEnd
    <2> SUFFICES ASSUME GuardInv PROVE WindowsEnd
      OBVIOUS
    <2>1. guardOutage \/ lockCounter.count < MaxFailedLogins + Cardinality(LoginRequests)
      <3> DEFINE n == Cardinality(Failing)
                 all == Cardinality(LoginRequests)
      <3>1. n \in Nat /\ all \in Nat /\ MaxFailedLogins \in Nat /\ lockCounter.count \in Nat
        BY FailingFinite, GuardConstantsOK DEF GuardInv, GuardTypes
      <3>2. guardOutage \/ lockCounter.count + n < MaxFailedLogins + all
        BY DEF GuardInv, FailuresBounded
      <3> HIDE DEF n
      <3> QED
        BY <3>1, <3>2
    <2> QED
      BY <2>1 DEF GuardInv, CountersOK, WindowsEnd
  <1> QED
    BY GuardInvInit, <1>2, <1>3, PTL DEF GuardSpec
-------------------------------------------------------------------------------
(* Sessions: room for the logins in flight, the passwords that are followed. *)

\* Of things with a number one has the smallest.
LEMMA FirstByRank ==
  ASSUME NEW B, B # {}, NEW f, \A x \in B : f[x] \in Nat
  PROVE  \E b \in B : \A x \in B : f[b] <= f[x]
  <1> DEFINE T == {f[x] : x \in B}
             R == OpToRel(<, Nat)
  <1>1. T \subseteq Nat /\ T # {}
    OBVIOUS
  <1>2. IsWellFoundedOn(R, Nat)
    BY NatLessThanWellFounded
  <1>3. \A a, b \in Nat : a < b => <<a, b>> \in R
    BY DEF OpToRel
  <1>4. PICK m \in T : \A y \in T : ~(<<y, m>> \in R)
    <2> HIDE DEF T, R
    <2> QED
      BY <1>1, <1>2, WFMin
  <1>5. PICK b \in B : f[b] = m
    OBVIOUS
  <1>6. ASSUME NEW x \in B PROVE f[b] <= f[x]
    <2>1. f[x] \in T /\ f[x] \in Nat /\ f[b] \in Nat
      OBVIOUS
    <2>2. ~(f[x] < f[b])
      BY <1>3, <1>4, <1>5, <2>1
    <2> QED
      BY <2>1, <2>2
  <1> QED
    BY <1>6

\* Without those whose place is among the first |A| - m, at most m are left.
LEMMA FewAreLeft ==
  ASSUME NEW A, IsFiniteSet(A), NEW f, \A x \in A : f[x] \in Nat,
         \A x, y \in A : f[x] = f[y] => x = y, NEW m \in Nat
  PROVE  Cardinality(A \ {s \in A : Cardinality({t \in A : f[t] <= f[s]}) <= Cardinality(A) - m}) <= m
  <1> DEFINE Before(s) == {t \in A : f[t] <= f[s]}
             O == {s \in A : Cardinality(Before(s)) <= Cardinality(A) - m}
             B == A \ O
  <1> SUFFICES Cardinality(B) <= m
    OBVIOUS
  <1>1. /\ IsFiniteSet(B) /\ IsFiniteSet(O) /\ Cardinality(A) \in Nat
        /\ Cardinality(B) \in Nat /\ Cardinality(O) \in Nat
    BY FS_Subset, FS_CardinalityType
  <1>2. Cardinality(A) = Cardinality(B) + Cardinality(O)
    <2>1. A = B \cup O /\ B \cap O = {}
      OBVIOUS
    <2> HIDE DEF B, O
    <2>2. Cardinality(B \cup O) = Cardinality(B) + Cardinality(O) - Cardinality(B \cap O)
      BY <1>1, FS_Union
    <2>3. Cardinality(B \cap O) = 0
      BY <2>1, FS_EmptySet
    <2> QED
      BY <1>1, <2>1, <2>2, <2>3
  <1>3. CASE B = {}
    <2>1. Cardinality({}) = 0
      BY FS_EmptySet
    <2> HIDE DEF B
    <2> QED
      BY <1>3, <2>1
  <1>4. CASE B # {}
    <2>1. PICK b \in B : \A x \in B : f[b] <= f[x]
      BY <1>4, FirstByRank
    <2>2. Before(b) \subseteq O \cup {b}
      <3> SUFFICES ASSUME NEW t \in A, f[t] <= f[b], t \notin O PROVE t = b
        OBVIOUS
      <3>1. f[b] <= f[t] /\ f[t] \in Nat /\ f[b] \in Nat /\ b \in A
        BY <2>1
      <3> QED
        BY <3>1
    <2>3. Cardinality(Before(b)) <= Cardinality(O) + 1 /\ Cardinality(Before(b)) \in Nat
      <3>1. b \notin O
        OBVIOUS
      <3> HIDE DEF Before, O
      <3>2. IsFiniteSet(O \cup {b}) /\ Cardinality(O \cup {b}) = Cardinality(O) + 1
        BY <1>1, <3>1, FS_AddElement
      <3> QED
        BY <2>2, <3>2, FS_Subset, FS_CardinalityType
    <2>4. ~(Cardinality(Before(b)) <= Cardinality(A) - m)
      OBVIOUS
    <2> HIDE DEF Before, B, O
    <2> QED
      BY <1>1, <1>2, <2>3, <2>4
  <1> QED
    BY <1>3, <1>4
-------------------------------------------------------------------------------
(* The sessions of a user.  Their rows change in one of three ways: some    *)
(* are deactivated, one is added, or one gets another token or password.   *)

SessionsSpec == SessionsInit /\ [][SessionsNext]_sessionsVars

Rows == [isActive : BOOLEAN, token : {Pending, Signed}, under : Nat]

SessionsTyped ==
    /\ session \in Seq(Rows) /\ Len(session) <= MaxSessions
    /\ password \in 0 .. MaxPasswords /\ \A s \in 1 .. Len(session) : session[s].under <= password
    /\ outlived \subseteq 1 .. Len(session)
    /\ authReq = [h \in SessionRequests |-> authReq[h]]
    /\ \A h \in SessionRequests :
          /\ DOMAIN authReq[h] = {"phase", "overflow", "id", "under", "overtaken"}
          /\ authReq[h].id \in 0 .. Len(session) /\ authReq[h].under \in -1 .. password
          /\ authReq[h].phase \in {"sign", "rotate"} => authReq[h].id # 0
          /\ authReq[h].overflow \subseteq 1 .. Len(session)

\* The places are those of a list.
PlacesAreRanks ==
    /\ activity \in Seq(Nat) /\ Len(activity) = Len(session)
    /\ \A s \in 1 .. Len(session) : activity[s] \in 1 .. Len(session)
    /\ \A s, t \in 1 .. Len(session) : activity[s] = activity[t] => s = t
    /\ \A k \in 1 .. Len(session) : \E s \in 1 .. Len(session) : activity[s] = k

\* The session goes on under the new password, if at all.
GoesOn(h) ==
    \/ authReq[h].id = 0 \/ authReq[h].id \notin ActiveSessions \/ authReq[h].id \in outlived
    \/ session[authReq[h].id].under = password

\* Of the changes to be followed by a revocation, the last one is there, and the session it
\* was made in goes on under its password.
PasswordsFollowed ==
    /\ SessionsFollowPassword
    /\ RevocationPending => \E h \in SessionRequests : authReq[h].phase = "revoke" /\ GoesOn(h)

Creating == {h \in SessionRequests : authReq[h].phase = "create"}

MostSessions == MaxActiveSessions - 1 + Cardinality(SessionRequests)

\* The logins in flight have room for what they are to create: each on its own, when no
\* other one came between, and together, whatever order those that make room come in.
RoomIsMade ==
    /\ Cardinality(ActiveSessions) + Cardinality(Creating) <= MostSessions
    /\ \A T \in SUBSET SessionRequests :
          T # {} /\ (\A h \in T : authReq[h].phase = "evict") =>
            \E h \in T : Cardinality(ActiveSessions \ authReq[h].overflow) + Cardinality(Creating)
                             + Cardinality(T) <= MostSessions
    /\ ~loginsCrossed => Cardinality(ActiveSessions) <= MaxActiveSessions
    /\ \A h \in SessionRequests : ~authReq[h].overtaken =>
          /\ authReq[h].phase = "create" => Cardinality(ActiveSessions) <= MaxActiveSessions - 1
          /\ authReq[h].phase = "evict" =>
                Cardinality(ActiveSessions \ authReq[h].overflow) <= MaxActiveSessions - 1

SessionsInv ==
    SessionsTyped /\ PlacesAreRanks /\ PlaceholderIsTransient /\ PasswordsFollowed /\ RoomIsMade

LEMMA RowsAre ==
  ASSUME session \in Seq(Rows)
  PROVE  /\ Len(session) \in Nat /\ SessionIds = 1 .. Len(session)
         /\ ActiveSessions \subseteq 1 .. Len(session)
         /\ \A s \in SessionIds : session[s] \in Rows
         /\ session = [s \in 1 .. Len(session) |-> session[s]]
  BY DEF SessionIds, ActiveSessions

LEMMA RowsDeactivated ==
  ASSUME session \in Seq(Rows), NEW ids, session' = Deactivated(ids)
  PROVE  /\ session' \in Seq(Rows) /\ Len(session') = Len(session)
         /\ ActiveSessions' = ActiveSessions \ ids
         /\ \A s \in 1 .. Len(session) : session'[s].token = session[s].token /\ session'[s].under = session[s].under
  <1>0. Len(session) \in Nat /\ SessionIds = 1 .. Len(session) /\ \A s \in SessionIds : session[s] \in Rows
    BY RowsAre
  <1>1. session' = [s \in 1 .. Len(session) |-> [session[s] EXCEPT !.isActive = session[s].isActive /\ s \notin ids]]
    BY <1>0 DEF Deactivated
  <1>2. ASSUME NEW s \in 1 .. Len(session)
        PROVE  /\ session'[s] \in Rows
               /\ session'[s].token = session[s].token /\ session'[s].under = session[s].under
               /\ session'[s].isActive = (session[s].isActive /\ s \notin ids)
    <2> PICK b \in BOOLEAN : b = (session[s].isActive /\ s \notin ids)
      OBVIOUS
    <2>1. PICK r \in Rows : r = session[s]
      BY <1>0
    <2>2. session'[s] = [r EXCEPT !.isActive = b]
      BY <1>1, <2>1
    <2>3. /\ [r EXCEPT !.isActive = b] \in Rows
          /\ [r EXCEPT !.isActive = b].token = r.token /\ [r EXCEPT !.isActive = b].under = r.under
          /\ [r EXCEPT !.isActive = b].isActive = b
      BY DEF Rows
    <2> QED
      BY <2>1, <2>2, <2>3, Zenon
  <1>3. session' \in Seq(Rows) /\ Len(session') = Len(session)
    BY <1>0, <1>1, <1>2
  <1>4. SessionIds' = 1 .. Len(session)
    BY <1>0, <1>3 DEF SessionIds
  <1>5. \A s \in 1 .. Len(session) : session'[s].isActive <=> (session[s].isActive /\ s \notin ids)
    BY <1>2, Zenon
  <1>6. ActiveSessions' = ActiveSessions \ ids
    BY <1>0, <1>4, <1>5 DEF ActiveSessions
  <1> QED
    BY <1>2, <1>3, <1>6

LEMMA RowAdded ==
  ASSUME session \in Seq(Rows), NEW under \in Nat,
         session' = Append(session, [isActive |-> TRUE, token |-> Pending, under |-> under])
  PROVE  /\ session' \in Seq(Rows) /\ Len(session') = Len(session) + 1
         /\ ActiveSessions' = ActiveSessions \cup {Len(session) + 1}
         /\ session'[Len(session) + 1].token = Pending /\ session'[Len(session) + 1].under = under
         /\ \A s \in 1 .. Len(session) : session'[s].token = session[s].token /\ session'[s].under = session[s].under
  <1>0. Len(session) \in Nat /\ SessionIds = 1 .. Len(session)
    BY RowsAre
  <1>1. PICK r : r = [isActive |-> TRUE, token |-> Pending, under |-> under]
    OBVIOUS
  <1>2. r \in Rows /\ r.isActive = TRUE /\ r.token = Pending /\ r.under = under
    BY <1>1 DEF Rows
  <1>3. session' = Append(session, r)
    BY <1>1
  <1>4. /\ session' \in Seq(Rows) /\ Len(session') = Len(session) + 1
        /\ session'[Len(session) + 1] = r /\ \A s \in 1 .. Len(session) : session'[s] = session[s]
    BY <1>0, <1>2, <1>3
  <1>5. SessionIds' = 1 .. Len(session) + 1
    BY <1>0, <1>4 DEF SessionIds
  <1>6. ActiveSessions' = ActiveSessions \cup {Len(session) + 1}
    BY <1>0, <1>2, <1>4, <1>5 DEF ActiveSessions
  <1> QED
    BY <1>2, <1>4, <1>6

\* A field other than isActive is written.
LEMMA RowWritten ==
  ASSUME session \in Seq(Rows), NEW s \in 1 .. Len(session), NEW r \in Rows,
         r.isActive = session[s].isActive, session' = [session EXCEPT ![s] = r]
  PROVE  /\ session' \in Seq(Rows) /\ Len(session') = Len(session)
         /\ ActiveSessions' = ActiveSessions
         /\ session'[s] = r /\ \A t \in 1 .. Len(session) : t # s => session'[t] = session[t]
  <1>0. Len(session) \in Nat /\ SessionIds = 1 .. Len(session)
    BY RowsAre
  <1>1. /\ session' \in Seq(Rows) /\ Len(session') = Len(session)
        /\ session'[s] = r /\ \A t \in 1 .. Len(session) : t # s => session'[t] = session[t]
    BY <1>0
  <1>2. SessionIds' = SessionIds
    BY <1>0, <1>1 DEF SessionIds
  <1>3. \A t \in 1 .. Len(session) : session'[t].isActive = session[t].isActive
    BY <1>1, Zenon
  <1>4. ActiveSessions' = ActiveSessions
    BY <1>0, <1>2, <1>3, Zenon DEF ActiveSessions
  <1> QED
    BY <1>1, <1>4
-------------------------------------------------------------------------------
(* What a step keeps when it does not touch what an invariant is about.    *)

LEMMA PlaceholderKept ==
  ASSUME SessionsTyped, PlaceholderIsTransient, SessionIds' = SessionIds, leftPending' = leftPending,
         \A s \in SessionIds : session'[s].token \in {Signed, session[s].token},
         \A h \in SessionRequests : authReq[h].phase = "sign" =>
             authReq'[h].phase = "sign" /\ authReq'[h].id = authReq[h].id
  PROVE  PlaceholderIsTransient'
  BY DEF PlaceholderIsTransient, Pending, Signed

LEMMA PasswordsKept ==
  ASSUME SessionsTyped, PasswordsFollowed, ActiveSessions' \subseteq ActiveSessions, password' = password,
         outlived \subseteq outlived', \A s \in ActiveSessions : session'[s].under = session[s].under,
         \A h \in SessionRequests : /\ authReq'[h].phase = "revoke" <=> authReq[h].phase = "revoke"
                                    /\ authReq[h].phase = "revoke" => authReq'[h].id = authReq[h].id
  PROVE  PasswordsFollowed'
  <1>1. RevocationPending' <=> RevocationPending
    BY DEF RevocationPending
  <1>2. SessionsFollowPassword'
    BY <1>1 DEF PasswordsFollowed, SessionsFollowPassword
  <1>3. ASSUME RevocationPending PROVE \E h \in SessionRequests : authReq'[h].phase = "revoke" /\ GoesOn(h)'
    <2>1. PICK h \in SessionRequests : authReq[h].phase = "revoke" /\ GoesOn(h)
      BY <1>3 DEF PasswordsFollowed
    <2>2. authReq'[h].phase = "revoke" /\ authReq'[h].id = authReq[h].id
      BY <2>1
    <2>3. GoesOn(h)'
      BY <2>1, <2>2 DEF GoesOn
    <2> QED
      BY <2>2, <2>3
  <1> QED
    BY <1>1, <1>2, <1>3 DEF PasswordsFollowed

LEMMA CountsAre ==
  ASSUME SessionsTyped
  PROVE  /\ IsFiniteSet(ActiveSessions) /\ IsFiniteSet(Creating) /\ Cardinality(SessionRequests) \in Nat
         /\ Cardinality(ActiveSessions) \in Nat /\ Cardinality(Creating) \in Nat
         /\ Cardinality(Creating) <= Cardinality(SessionRequests)
         /\ \A T \in SUBSET SessionRequests : /\ IsFiniteSet(T) /\ Cardinality(T) \in Nat
                                              /\ Cardinality(T) <= Cardinality(SessionRequests)
         /\ \A S \in SUBSET ActiveSessions : /\ IsFiniteSet(S) /\ Cardinality(S) \in Nat
                                             /\ Cardinality(S) <= Cardinality(ActiveSessions)
         /\ MostSessions \in Nat /\ MaxActiveSessions \in Nat \ {0}
  <1>1. ActiveSessions \subseteq 1 .. Len(session) /\ Len(session) \in Nat
    BY RowsAre DEF SessionsTyped
  <1>2. IsFiniteSet(1 .. Len(session))
    BY <1>1, FS_Interval
  <1>3. IsFiniteSet(ActiveSessions) /\ IsFiniteSet(SessionRequests) /\ Creating \subseteq SessionRequests
    BY <1>1, <1>2, FS_Subset, SessionConstantsOK DEF Creating
  <1>4. \A T \in SUBSET SessionRequests : /\ IsFiniteSet(T) /\ Cardinality(T) \in Nat
                                          /\ Cardinality(T) <= Cardinality(SessionRequests)
    BY <1>3, FS_Subset, FS_CardinalityType
  <1>5. \A S \in SUBSET ActiveSessions : /\ IsFiniteSet(S) /\ Cardinality(S) \in Nat
                                         /\ Cardinality(S) <= Cardinality(ActiveSessions)
    BY <1>3, FS_Subset, FS_CardinalityType
  <1>6. Cardinality(ActiveSessions) \in Nat /\ Cardinality(SessionRequests) \in Nat
    BY <1>3, FS_CardinalityType
  <1>7. MostSessions \in Nat /\ MaxActiveSessions \in Nat \ {0}
    BY <1>6, SessionConstantsOK DEF MostSessions
  <1> QED
    BY <1>3, <1>4, <1>5, <1>6, <1>7

LEMMA RoomIsKept ==
  ASSUME SessionsTyped, RoomIsMade, ActiveSessions' \subseteq ActiveSessions, loginsCrossed' = loginsCrossed,
         \A h \in SessionRequests : \/ authReq'[h] = authReq[h]
                                    \/ authReq'[h].phase \notin {"evict", "create"}
  PROVE  RoomIsMade'
  <1> DEFINE A == ActiveSessions
  <1>1. Creating' \subseteq Creating
    BY DEF Creating
  <1>2. /\ Cardinality(A') \in Nat /\ Cardinality(A') <= Cardinality(A) /\ Cardinality(A) \in Nat
        /\ Cardinality(Creating') \in Nat /\ Cardinality(Creating') <= Cardinality(Creating)
        /\ Cardinality(Creating) \in Nat /\ MostSessions \in Nat /\ MaxActiveSessions \in Nat
    <2>1. Cardinality(Creating') \in Nat /\ Cardinality(Creating') <= Cardinality(Creating)
      BY <1>1, CountsAre, FS_Subset, FS_CardinalityType
    <2> QED
      BY <2>1, CountsAre
  <1>3. \A O : /\ Cardinality(A' \ O) \in Nat /\ Cardinality(A' \ O) <= Cardinality(A \ O)
               /\ Cardinality(A \ O) \in Nat
    <2> SUFFICES ASSUME NEW O PROVE /\ Cardinality(A' \ O) \in Nat /\ Cardinality(A' \ O) <= Cardinality(A \ O)
                                    /\ Cardinality(A \ O) \in Nat
      OBVIOUS
    <2>1. IsFiniteSet(A \ O) /\ A' \ O \subseteq A \ O
      BY CountsAre, FS_Subset
    <2> QED
      BY <2>1, FS_Subset, FS_CardinalityType
  <1>4. \A h \in SessionRequests : authReq'[h].phase \in {"evict", "create"} => authReq'[h] = authReq[h]
    OBVIOUS
  <1> HIDE DEF A
  <1>5. Cardinality(A') + Cardinality(Creating') <= MostSessions
    BY <1>2 DEF RoomIsMade, A
  <1>6. ASSUME NEW T \in SUBSET SessionRequests, T # {}, \A h \in T : authReq'[h].phase = "evict"
        PROVE  \E h \in T : Cardinality(A' \ authReq'[h].overflow) + Cardinality(Creating')
                              + Cardinality(T) <= MostSessions
    <2>1. \A h \in T : authReq'[h] = authReq[h]
      BY <1>4, <1>6
    <2>2. PICK h \in T : Cardinality(A \ authReq[h].overflow) + Cardinality(Creating)
                              + Cardinality(T) <= MostSessions
      BY <1>6, <2>1 DEF RoomIsMade, A
    <2>3. Cardinality(T) \in Nat /\ authReq'[h].overflow = authReq[h].overflow
      BY <2>1, CountsAre
    <2> DEFINE O == authReq[h].overflow
    <2> HIDE DEF O
    <2>4. Cardinality(A' \ O) + Cardinality(Creating') + Cardinality(T) <= MostSessions
      <3>1. Cardinality(A \ O) + Cardinality(Creating) + Cardinality(T) <= MostSessions
        BY <2>2 DEF O
      <3>2. Cardinality(A' \ O) \in Nat /\ Cardinality(A' \ O) <= Cardinality(A \ O) /\ Cardinality(A \ O) \in Nat
        BY <1>3
      <3> QED
        BY <1>2, <2>3, <3>1, <3>2
    <2> USE DEF O
    <2> QED
      BY <1>6, <2>1, <2>4, Zenon
  <1>7. ~loginsCrossed' => Cardinality(A') <= MaxActiveSessions
    BY <1>2 DEF RoomIsMade, A
  <1>8. ASSUME NEW h \in SessionRequests, ~authReq'[h].overtaken
        PROVE  /\ authReq'[h].phase = "create" => Cardinality(A') <= MaxActiveSessions - 1
               /\ authReq'[h].phase = "evict" =>
                     Cardinality(A' \ authReq'[h].overflow) <= MaxActiveSessions - 1
    <2>1. CASE authReq'[h].phase \in {"evict", "create"}
      <3>1. authReq'[h] = authReq[h]
        BY <1>4, <2>1
      <3>2. ~authReq[h].overtaken
        BY <1>8, <3>1, Zenon
      <3>3. /\ authReq[h].phase = "create" => Cardinality(A) <= MaxActiveSessions - 1
            /\ authReq[h].phase = "evict" => Cardinality(A \ authReq[h].overflow) <= MaxActiveSessions - 1
        BY <3>2, Zenon DEF RoomIsMade, A
      <3> DEFINE O == authReq[h].overflow
                 m == MaxActiveSessions - 1
      <3>4. Cardinality(A' \ O) \in Nat /\ Cardinality(A' \ O) <= Cardinality(A \ O) /\ Cardinality(A \ O) \in Nat
        BY <1>3
      <3>5. m \in Int
        BY <1>2
      <3>6. /\ authReq[h].phase = "create" => Cardinality(A') <= m
            /\ authReq[h].phase = "evict" => Cardinality(A' \ O) <= m
        <4>1. /\ authReq[h].phase = "create" => Cardinality(A) <= m
              /\ authReq[h].phase = "evict" => Cardinality(A \ O) <= m
          BY <3>3
        <4> HIDE DEF O, m
        <4> QED
          BY <1>2, <3>4, <3>5, <4>1
      <3> QED
        BY <3>1, <3>6
    <2>2. CASE authReq'[h].phase \notin {"evict", "create"}
      BY <2>2
    <2> QED
      BY <2>1, <2>2
  <1>9. MostSessions' = MostSessions
    BY DEF MostSessions
  <1> QED
    BY <1>5, <1>6, <1>7, <1>8, <1>9 DEF RoomIsMade, A
-------------------------------------------------------------------------------
(* The steps.                                                              *)

LEMMA SessionsInvInit == SessionsInit => SessionsInv
  <1> SUFFICES ASSUME SessionsInit PROVE SessionsInv
    OBVIOUS
  <1>1. /\ session = <<>> /\ activity = <<>> /\ password = 0 /\ outlived = {} /\ leftPending = FALSE
        /\ authReq = [h \in SessionRequests |-> IdleAuth] /\ loginsCrossed = FALSE
    BY DEF SessionsInit
  <1>2. Len(session) = 0 /\ session \in Seq(Rows) /\ SessionIds = {} /\ ActiveSessions = {}
    BY <1>1 DEF SessionIds, ActiveSessions
  <1>3. /\ DOMAIN IdleAuth = {"phase", "overflow", "id", "under", "overtaken"}
        /\ IdleAuth.phase = "idle" /\ IdleAuth.overflow = {} /\ IdleAuth.id = 0 /\ IdleAuth.under = -1
    BY DEF IdleAuth, NoPassword
  <1>4. SessionsTyped
    <2>1. password \in 0 .. MaxPasswords /\ Len(session) <= MaxSessions
      BY <1>1, <1>2, SessionConstantsOK
    <2> QED
      BY <1>1, <1>2, <1>3, <2>1 DEF SessionsTyped
  <1>5. PlacesAreRanks
    BY <1>1, <1>2 DEF PlacesAreRanks
  <1>6. PlaceholderIsTransient
    BY <1>2 DEF PlaceholderIsTransient
  <1>7. PasswordsFollowed
    <2>1. ~RevocationPending
      BY <1>1, <1>3 DEF RevocationPending
    <2> QED
      BY <1>2, <2>1 DEF PasswordsFollowed, SessionsFollowPassword
  <1>8. RoomIsMade
    <2>1. Creating = {} /\ Cardinality({}) = 0
      BY <1>1, <1>3, FS_EmptySet DEF Creating
    <2>2. MostSessions \in Nat /\ MaxActiveSessions \in Nat \ {0}
      BY <1>4, CountsAre
    <2>3. \A h \in SessionRequests : authReq[h].phase = "idle"
      BY <1>1, <1>3
    <2>4. Cardinality(ActiveSessions) = 0 /\ Cardinality(Creating) = 0
      BY <1>2, <2>1
    <2> QED
      BY <2>2, <2>3, <2>4 DEF RoomIsMade
  <1> QED
    BY <1>4, <1>5, <1>6, <1>7, <1>8 DEF SessionsInv

\* A request goes on: what it carries is of the rows.
LEMMA RequestWritten ==
  ASSUME SessionsTyped, NEW h \in SessionRequests, NEW r, authReq' = [authReq EXCEPT ![h] = r]
  PROVE  /\ authReq'[h] = r /\ \A g \in SessionRequests : g # h => authReq'[g] = authReq[g]
         /\ authReq' = [g \in SessionRequests |-> authReq'[g]]
  BY DEF SessionsTyped

\* The rows are the same, or fewer are active.
LEMMA TypedStays ==
  ASSUME SessionsTyped, NEW h \in SessionRequests, NEW r, authReq' = [authReq EXCEPT ![h] = r],
         session' \in Seq(Rows), Len(session') = Len(session), password' = password, outlived' = outlived,
         \A s \in 1 .. Len(session) : session'[s].under = session[s].under,
         DOMAIN r = {"phase", "overflow", "id", "under", "overtaken"},
         r.id \in 0 .. Len(session), r.under \in -1 .. password,
         r.phase \in {"sign", "rotate"} => r.id # 0, r.overflow \subseteq 1 .. Len(session)
  PROVE  SessionsTyped'
  <1>1. /\ authReq'[h] = r /\ \A g \in SessionRequests : g # h => authReq'[g] = authReq[g]
        /\ authReq' = [g \in SessionRequests |-> authReq'[g]]
    BY RequestWritten
  <1> QED
    BY <1>1 DEF SessionsTyped

LEMMA IdleIsTyped ==
  ASSUME SessionsTyped
  PROVE  /\ DOMAIN IdleAuth = {"phase", "overflow", "id", "under", "overtaken"}
         /\ IdleAuth.phase = "idle" /\ IdleAuth.overflow = {} /\ IdleAuth.id = 0 /\ IdleAuth.under = -1
         /\ 0 \in 0 .. Len(session) /\ -1 \in -1 .. password /\ IdleAuth.overflow \subseteq 1 .. Len(session)
         /\ Len(session) \in Nat /\ password \in Nat
  BY RowsAre, SessionConstantsOK DEF SessionsTyped, IdleAuth, NoPassword

LEMMA StartLoginKeeps ==
  ASSUME SessionsInv, NEW h \in SessionRequests, NEW how \in {"password", "code", "register"}, StartLogin(h, how)
  PROVE  SessionsInv'
  <1> DEFINE phase == IF Overflow = {} THEN "create" ELSE "evict"
             under == IF how = "password" THEN password ELSE NoPassword
  <1>0. SessionsTyped
    BY DEF SessionsInv
  <1>1. PICK r : r = [IdleAuth EXCEPT !.phase = phase, !.overflow = Overflow, !.under = under]
    OBVIOUS
  <1>2. /\ DOMAIN r = {"phase", "overflow", "id", "under", "overtaken"}
        /\ r.phase = phase /\ r.overflow = Overflow /\ r.id = 0 /\ r.under = under
    <2> HIDE DEF phase, under
    <2> QED
      BY <1>1 DEF IdleAuth
  <1>3. /\ authReq' = [authReq EXCEPT ![h] = r] /\ authReq[h].phase = "idle"
        /\ UNCHANGED <<session, activity, isBlocked, password, revoking, loginsCrossed, leftPending, outlived>>
    BY <1>1 DEF StartLogin
  <1>4. /\ authReq'[h] = r /\ \A g \in SessionRequests : g # h => authReq'[g] = authReq[g]
    BY <1>0, <1>3, RequestWritten
  <1>5. Overflow \subseteq ActiveSessions /\ ActiveSessions \subseteq 1 .. Len(session)
    BY <1>0, RowsAre DEF Overflow, Oldest, SessionsTyped
  <1>6. SessionIds' = SessionIds /\ ActiveSessions' = ActiveSessions
    BY <1>3 DEF SessionIds, ActiveSessions
  <1>7. SessionsTyped'
    <2>1. under \in -1 .. password /\ password \in Nat /\ Len(session) \in Nat /\ 0 \in 0 .. Len(session)
      BY <1>0, IdleIsTyped DEF NoPassword
    <2>2. phase \notin {"sign", "rotate"} /\ session \in Seq(Rows)
      BY <1>0 DEF SessionsTyped
    <2> HIDE DEF phase, under
    <2> QED
      BY <1>0, <1>2, <1>3, <1>5, <2>1, <2>2, TypedStays
  <1>8. PlacesAreRanks'
    BY <1>3 DEF SessionsInv, PlacesAreRanks
  <1>9. PlaceholderIsTransient'
    BY <1>0, <1>3, <1>4, <1>6, PlaceholderKept DEF SessionsInv
  <1>10. PasswordsFollowed'
    BY <1>0, <1>2, <1>3, <1>4, <1>6, PasswordsKept DEF SessionsInv
  <1>11. Cardinality(ActiveSessions \ Overflow) <= MaxActiveSessions - 1
    <2>1. activity \in Seq(Nat) /\ \A s \in ActiveSessions : activity[s] \in Nat
      BY <1>5 DEF SessionsInv, PlacesAreRanks
    <2>2. \A s, t \in ActiveSessions : activity[s] = activity[t] => s = t
      BY <1>5 DEF SessionsInv, PlacesAreRanks
    <2>3. MaxActiveSessions - 1 \in Nat /\ IsFiniteSet(ActiveSessions)
      BY <1>0, CountsAre
    <2> DEFINE m == MaxActiveSessions - 1
    <2>4. Cardinality(ActiveSessions) - m = Cardinality(ActiveSessions) - MaxActiveSessions + 1
      BY <1>0, CountsAre
    <2>5. Overflow = {s \in ActiveSessions : Cardinality({t \in ActiveSessions : activity[t] <= activity[s]})
                                               <= Cardinality(ActiveSessions) - m}
      <3> HIDE DEF m
      <3> QED
        BY <2>4 DEF Overflow, Oldest
    <2>6. m \in Nat
      BY <2>3
    <2> HIDE DEF m
    <2>7. Cardinality(ActiveSessions \ Overflow) <= m
      BY <2>1, <2>2, <2>3, <2>5, <2>6, FewAreLeft
    <2> QED
      BY <2>7 DEF m
  <1>12. RoomIsMade'
    <2> DEFINE A == ActiveSessions
               R == Cardinality(SessionRequests)
    <2>1. /\ Cardinality(A) \in Nat /\ R \in Nat /\ MostSessions = MaxActiveSessions - 1 + R
          /\ MaxActiveSessions \in Nat /\ MostSessions' = MostSessions
      BY <1>0, CountsAre DEF MostSessions
    <2>2. Creating' = IF Overflow = {} THEN Creating \cup {h} ELSE Creating
      <3>1. phase = "create" <=> Overflow = {}
        OBVIOUS
      <3> HIDE DEF phase
      <3> QED
        BY <1>2, <1>3, <1>4, <3>1 DEF Creating
    <2>3. IsFiniteSet(Creating') /\ Cardinality(Creating') \in Nat
      BY <1>7, SessionConstantsOK, FS_Subset, FS_CardinalityType DEF Creating
    <2>4. Overflow = {} => Cardinality(A) <= MaxActiveSessions - 1
      BY <1>11
    <2>5. \A T \in SUBSET SessionRequests : T \cap Creating' = {} => Cardinality(T) + Cardinality(Creating') <= R
      <3> SUFFICES ASSUME NEW T \in SUBSET SessionRequests, T \cap Creating' = {}
                   PROVE  Cardinality(T) + Cardinality(Creating') <= R
        OBVIOUS
      <3>1. IsFiniteSet(T) /\ Cardinality(T) \in Nat
        BY <1>0, CountsAre
      <3>2. Cardinality(T \cup Creating') = Cardinality(T) + Cardinality(Creating') - Cardinality(T \cap Creating')
        BY <2>3, <3>1, FS_Union
      <3>3. Cardinality(T \cap Creating') = 0
        BY FS_EmptySet
      <3>4. T \cup Creating' \in SUBSET SessionRequests
        BY DEF Creating
      <3>5. Cardinality(T \cup Creating') <= R
        BY <1>0, <3>4, CountsAre
      <3> QED
        BY <2>3, <3>1, <3>2, <3>3, <3>5
    <2>6. Cardinality(A) + Cardinality(Creating') <= MostSessions
      <3>1. CASE Overflow = {}
        <4>1. Cardinality({}) = 0 /\ Cardinality({}) + Cardinality(Creating') <= R
          BY <2>5, FS_EmptySet
        <4> HIDE DEF A, R
        <4> QED
          BY <2>1, <2>3, <2>4, <3>1, <4>1
      <3>2. CASE Overflow # {}
        <4>1. Cardinality(A) + Cardinality(Creating) <= MostSessions
          BY DEF SessionsInv, RoomIsMade
        <4>2. Creating' = Creating
          BY <2>2, <3>2
        <4> QED
          BY <4>1, <4>2
      <3> QED
        BY <3>1, <3>2
    <2>7. ASSUME NEW T \in SUBSET SessionRequests, T # {}, \A g \in T : authReq'[g].phase = "evict"
          PROVE  \E g \in T : Cardinality(A \ authReq'[g].overflow) + Cardinality(Creating')
                                + Cardinality(T) <= MostSessions
      <3>1. T \cap Creating' = {} /\ Cardinality(T) \in Nat
        BY <1>0, <2>7, CountsAre DEF Creating
      <3>2. Cardinality(T) + Cardinality(Creating') <= R
        BY <2>5, <3>1
      <3>3. \A O : Cardinality(A \ O) \in Nat /\ Cardinality(A \ O) <= Cardinality(A)
        BY <1>0, CountsAre
      <3>4. CASE Overflow = {}
        <4>1. PICK g \in T : TRUE
          BY <2>7
        <4> DEFINE O == authReq'[g].overflow
        <4>2. Cardinality(A \ O) \in Nat /\ Cardinality(A \ O) <= Cardinality(A)
          BY <3>3
        <4>3. Cardinality(A) <= MaxActiveSessions - 1
          BY <2>4, <3>4
        <4>4. Cardinality(A \ O) + Cardinality(Creating') + Cardinality(T) <= MostSessions
          <5> HIDE DEF A, O, R
          <5> QED
            BY <2>1, <2>3, <3>1, <3>2, <4>2, <4>3
        <4> QED
          BY <4>4
      <3>5. CASE Overflow # {} /\ h \in T
        <4>1. Cardinality(A \ Overflow) \in Nat /\ Cardinality(A \ Overflow) <= MaxActiveSessions - 1
          BY <1>11, <3>3
        <4>2. Cardinality(A \ Overflow) + Cardinality(Creating') + Cardinality(T) <= MostSessions
          <5> HIDE DEF A, R
          <5> QED
            BY <2>1, <2>3, <3>1, <3>2, <4>1
        <4>3. authReq'[h].overflow = Overflow
          BY <1>2, <1>4
        <4> QED
          BY <3>5, <4>2, <4>3
      <3>6. CASE Overflow # {} /\ h \notin T
        <4>1. \A g \in T : authReq'[g] = authReq[g]
          BY <1>4, <3>6
        <4>2. \E g \in T : Cardinality(A \ authReq[g].overflow) + Cardinality(Creating) + Cardinality(T) <= MostSessions
          BY <2>7, <4>1 DEF SessionsInv, RoomIsMade
        <4>3. Creating' = Creating
          BY <2>2, <3>6
        <4> QED
          BY <4>1, <4>2, <4>3
      <3> QED
        BY <3>4, <3>5, <3>6
    <2>8. ~loginsCrossed' => Cardinality(A) <= MaxActiveSessions
      BY <1>3 DEF SessionsInv, RoomIsMade
    <2>9. ASSUME NEW g \in SessionRequests, ~authReq'[g].overtaken
          PROVE  /\ authReq'[g].phase = "create" => Cardinality(A) <= MaxActiveSessions - 1
                 /\ authReq'[g].phase = "evict" => Cardinality(A \ authReq'[g].overflow) <= MaxActiveSessions - 1
      <3>1. CASE g = h
        <4>1. authReq'[g].phase = phase /\ authReq'[g].overflow = Overflow
          BY <1>2, <1>4, <3>1
        <4>2. phase = "create" => Overflow = {}
          OBVIOUS
        <4> HIDE DEF phase
        <4> QED
          BY <1>11, <2>4, <4>1, <4>2
      <3>2. CASE g # h
        <4>1. authReq'[g] = authReq[g]
          BY <1>4, <3>2
        <4>2. ~authReq[g].overtaken
          BY <2>9, <4>1, Zenon
        <4>3. /\ authReq[g].phase = "create" => Cardinality(A) <= MaxActiveSessions - 1
              /\ authReq[g].phase = "evict" => Cardinality(A \ authReq[g].overflow) <= MaxActiveSessions - 1
          BY <4>2, Zenon DEF SessionsInv, RoomIsMade
        <4> QED
          BY <4>1, <4>3
      <3> QED
        BY <3>1, <3>2
    <2> QED
      BY <1>6, <2>1, <2>6, <2>7, <2>8, <2>9, Zenon DEF RoomIsMade
  <1> QED
    BY <1>7, <1>8, <1>9, <1>10, <1>12 DEF SessionsInv

LEMMA EvictOldestKeeps ==
  ASSUME SessionsInv, NEW h \in SessionRequests, EvictOldest(h)
  PROVE  SessionsInv'
  <1>0. SessionsTyped
    BY DEF SessionsInv
  <1> DEFINE O == authReq[h].overflow
  <1>1. PICK r : r = [authReq[h] EXCEPT !.phase = "create"]
    OBVIOUS
  <1>2. /\ DOMAIN r = {"phase", "overflow", "id", "under", "overtaken"}
        /\ r.phase = "create" /\ r.overflow = authReq[h].overflow /\ r.id = authReq[h].id
        /\ r.under = authReq[h].under /\ r.overtaken = authReq[h].overtaken
    <2>1. DOMAIN authReq[h] = {"phase", "overflow", "id", "under", "overtaken"}
      BY <1>0 DEF SessionsTyped
    <2> QED
      BY <1>1, <2>1
  <1>3. /\ authReq' = [authReq EXCEPT ![h] = r] /\ authReq[h].phase = "evict" /\ session' = Deactivated(O)
        /\ UNCHANGED <<activity, isBlocked, password, revoking, loginsCrossed, leftPending, outlived>>
    BY <1>0, <1>1 DEF EvictOldest, SessionsTyped
  <1>4. /\ authReq'[h] = r /\ \A g \in SessionRequests : g # h => authReq'[g] = authReq[g]
    BY <1>0, <1>3, RequestWritten
  <1>5. /\ session' \in Seq(Rows) /\ Len(session') = Len(session) /\ ActiveSessions' = ActiveSessions \ O
        /\ \A s \in 1 .. Len(session) : session'[s].token = session[s].token /\ session'[s].under = session[s].under
    BY <1>0, <1>3, RowsDeactivated DEF SessionsTyped
  <1>6. SessionIds' = SessionIds /\ SessionIds = 1 .. Len(session) /\ ActiveSessions \subseteq SessionIds
    BY <1>0, <1>5, RowsAre DEF SessionsTyped, SessionIds
  <1>7. SessionsTyped'
    <2>1. r.id \in 0 .. Len(session) /\ r.under \in -1 .. password /\ r.overflow \subseteq 1 .. Len(session)
      BY <1>0, <1>2 DEF SessionsTyped
    <2> QED
      BY <1>0, <1>2, <1>3, <1>5, <2>1, TypedStays
  <1>8. PlacesAreRanks'
    BY <1>3, <1>5 DEF SessionsInv, PlacesAreRanks
  <1>9. PlaceholderIsTransient'
    BY <1>0, <1>3, <1>4, <1>5, <1>6, PlaceholderKept DEF SessionsInv
  <1>10. PasswordsFollowed'
    BY <1>0, <1>2, <1>3, <1>4, <1>5, <1>6, PasswordsKept DEF SessionsInv
  <1>11. RoomIsMade'
    <2> DEFINE A == ActiveSessions
               C == Cardinality(Creating)
    <2>1. /\ Cardinality(A) \in Nat /\ C \in Nat /\ MostSessions \in Nat
          /\ MaxActiveSessions \in Nat /\ MostSessions' = MostSessions
      BY <1>0, CountsAre DEF MostSessions
    <2>2. Cardinality(Creating') = C + 1
      <3>1. Creating' = Creating \cup {h} /\ h \notin Creating
        BY <1>2, <1>3, <1>4 DEF Creating
      <3>2. IsFiniteSet(Creating)
        BY <1>0, CountsAre
      <3> QED
        BY <3>1, <3>2, FS_AddElement
    <2>3. \A P \in SUBSET A : \A Q \in SUBSET P :
              Cardinality(P) \in Nat /\ Cardinality(Q) \in Nat /\ Cardinality(Q) <= Cardinality(P)
      <3> SUFFICES ASSUME NEW P \in SUBSET A, NEW Q \in SUBSET P
                   PROVE  Cardinality(P) \in Nat /\ Cardinality(Q) \in Nat /\ Cardinality(Q) <= Cardinality(P)
        OBVIOUS
      <3>1. IsFiniteSet(P)
        BY <1>0, CountsAre
      <3> QED
        BY <3>1, FS_Subset, FS_CardinalityType
    <2>4. IsFiniteSet({h}) /\ Cardinality({h}) = 1
      BY FS_Singleton
    <2>5. Cardinality(A \ O) + C + 1 <= MostSessions
      <3>1. \E g \in {h} : Cardinality(A \ authReq[g].overflow) + Cardinality(Creating)
                             + Cardinality({h}) <= MostSessions
        BY <1>3 DEF SessionsInv, RoomIsMade
      <3> QED
        BY <2>4, <3>1
    <2>6. ASSUME NEW T \in SUBSET SessionRequests, T # {}, \A g \in T : authReq'[g].phase = "evict"
          PROVE  \E g \in T : Cardinality((A \ O) \ authReq'[g].overflow) + Cardinality(Creating')
                                + Cardinality(T) <= MostSessions
      <3>1. h \notin T /\ \A g \in T : authReq'[g] = authReq[g] /\ authReq[g].phase = "evict"
        BY <1>2, <1>4, <2>6
      <3>2. Cardinality(T \cup {h}) = Cardinality(T) + 1 /\ Cardinality(T) \in Nat
        BY <1>0, <3>1, CountsAre, FS_AddElement
      <3>3. PICK k \in T \cup {h} : Cardinality(A \ authReq[k].overflow) + Cardinality(Creating)
                                       + Cardinality(T \cup {h}) <= MostSessions
        <4>1. T \cup {h} \in SUBSET SessionRequests /\ T \cup {h} # {}
              /\ \A g \in T \cup {h} : authReq[g].phase = "evict"
          BY <1>3, <3>1
        <4> QED
          BY <4>1 DEF SessionsInv, RoomIsMade
      <3>4. PICK g \in T : g = k \/ k = h
        BY <2>6, <3>3
      <3> DEFINE B == (A \ O) \ authReq'[g].overflow
                 D == A \ authReq[k].overflow
      <3>5. B \subseteq D /\ D \subseteq A
        BY <3>1, <3>4
      <3>6. Cardinality(B) \in Nat /\ Cardinality(D) \in Nat /\ Cardinality(B) <= Cardinality(D)
        <4> HIDE DEF B, D, A
        <4> QED
          BY <2>3, <3>5
      <3>7. Cardinality(D) + C + Cardinality(T) + 1 <= MostSessions
        <4>1. Cardinality(D) + C + Cardinality(T \cup {h}) <= MostSessions
          BY <3>3
        <4> HIDE DEF D, C
        <4> QED
          BY <2>1, <3>2, <3>6, <4>1
      <3>8. Cardinality(B) + Cardinality(Creating') + Cardinality(T) <= MostSessions
        <4> HIDE DEF B, D, C
        <4> QED
          BY <2>1, <2>2, <3>2, <3>6, <3>7
      <3> QED
        BY <3>8
    <2>7. Cardinality(A \ O) + Cardinality(Creating') <= MostSessions
      <3>1. Cardinality(A \ O) \in Nat
        BY <2>3
      <3> HIDE DEF A, O, C
      <3> QED
        BY <2>1, <2>2, <2>5, <3>1
    <2>8. ~loginsCrossed' => Cardinality(A \ O) <= MaxActiveSessions
      <3>1. ~loginsCrossed => Cardinality(A) <= MaxActiveSessions
        BY DEF SessionsInv, RoomIsMade
      <3>2. Cardinality(A \ O) \in Nat /\ Cardinality(A \ O) <= Cardinality(A)
        BY <2>3
      <3> HIDE DEF A, O
      <3> QED
        BY <1>3, <2>1, <3>1, <3>2
    <2>9. ASSUME NEW g \in SessionRequests, ~authReq'[g].overtaken
          PROVE  /\ authReq'[g].phase = "create" => Cardinality(A \ O) <= MaxActiveSessions - 1
                 /\ authReq'[g].phase = "evict" => Cardinality((A \ O) \ authReq'[g].overflow) <= MaxActiveSessions - 1
      <3>1. ~authReq[g].overtaken
        <4>1. authReq'[g].overtaken = authReq[g].overtaken
          BY <1>2, <1>4
        <4> QED
          BY <2>9, <4>1, Zenon
      <3>2. /\ authReq[g].phase = "create" => Cardinality(A) <= MaxActiveSessions - 1
            /\ authReq[g].phase = "evict" => Cardinality(A \ authReq[g].overflow) <= MaxActiveSessions - 1
        BY <3>1, Zenon DEF SessionsInv, RoomIsMade
      <3>3. CASE g = h
        <4>1. authReq'[g].phase = "create" /\ authReq[g].phase = "evict" /\ authReq[g].overflow = O
          BY <1>2, <1>3, <1>4, <3>3
        <4> QED
          BY <3>2, <4>1
      <3>4. CASE g # h
        <4> DEFINE Q == authReq[g].overflow
                   m == MaxActiveSessions - 1
        <4>1. /\ Cardinality(A \ O) \in Nat /\ Cardinality(A \ O) <= Cardinality(A)
              /\ Cardinality((A \ O) \ Q) \in Nat /\ Cardinality((A \ O) \ Q) <= Cardinality(A \ Q)
              /\ Cardinality(A \ Q) \in Nat
          <5>1. (A \ O) \ Q \in SUBSET (A \ Q) /\ A \ Q \in SUBSET A /\ A \ O \in SUBSET A /\ A \in SUBSET A
            OBVIOUS
          <5> HIDE DEF A, O, Q
          <5> QED
            BY <2>3, <5>1
        <4>2. authReq'[g] = authReq[g] /\ m \in Int
          BY <1>4, <2>1, <3>4
        <4>3. /\ authReq[g].phase = "create" => Cardinality(A \ O) <= m
              /\ authReq[g].phase = "evict" => Cardinality((A \ O) \ Q) <= m
          <5>1. /\ authReq[g].phase = "create" => Cardinality(A) <= m
                /\ authReq[g].phase = "evict" => Cardinality(A \ Q) <= m
            BY <3>2
          <5> HIDE DEF A, O, Q, m
          <5> QED
            BY <2>1, <4>1, <4>2, <5>1
        <4> QED
          BY <4>2, <4>3
      <3> QED
        BY <3>3, <3>4
    <2> QED
      BY <1>5, <2>1, <2>6, <2>7, <2>8, <2>9, Zenon DEF RoomIsMade
  <1> QED
    BY <1>7, <1>8, <1>9, <1>10, <1>11 DEF SessionsInv

\* Fewer sessions are active, tokens are signed, requests begin or end that the invariants
\* say nothing of.
LEMMA StepKeeps ==
  ASSUME SessionsInv, SessionsTyped', PlacesAreRanks', ActiveSessions' \subseteq ActiveSessions,
         Len(session') = Len(session),
         \A s \in 1 .. Len(session) : /\ session'[s].token \in {Signed, session[s].token}
                                      /\ session'[s].under = session[s].under,
         UNCHANGED <<password, outlived, loginsCrossed, leftPending>>,
         \A h \in SessionRequests : \/ authReq'[h] = authReq[h]
                                    \/ /\ authReq[h].phase \notin {"sign", "revoke"}
                                       /\ authReq'[h].phase \notin {"evict", "create", "revoke"}
  PROVE  SessionsInv'
  <1>0. SessionsTyped /\ PlaceholderIsTransient /\ PasswordsFollowed /\ RoomIsMade
    BY DEF SessionsInv
  <1>1. SessionIds = 1 .. Len(session) /\ SessionIds' = SessionIds /\ ActiveSessions \subseteq SessionIds
    <2>1. session \in Seq(Rows) /\ session' \in Seq(Rows)
      BY <1>0 DEF SessionsTyped
    <2> QED
      BY <2>1, RowsAre DEF SessionIds
  <1>2. PlaceholderIsTransient'
    BY <1>0, <1>1, PlaceholderKept
  <1>3. PasswordsFollowed'
    BY <1>0, <1>1, PasswordsKept
  <1>4. RoomIsMade'
    BY <1>0, RoomIsKept
  <1> QED
    BY <1>2, <1>3, <1>4 DEF SessionsInv

LEMMA SameRows ==
  ASSUME SessionsTyped, session' = session
  PROVE  /\ session' \in Seq(Rows) /\ Len(session') = Len(session) /\ ActiveSessions' = ActiveSessions
         /\ SessionIds' = SessionIds
         /\ \A s \in 1 .. Len(session) : session'[s].token = session[s].token /\ session'[s].under = session[s].under
  BY DEF SessionsTyped, ActiveSessions, SessionIds

LEMMA SameRequests ==
  ASSUME SessionsTyped, authReq' = authReq, session' \in Seq(Rows), Len(session') = Len(session),
         password' = password, outlived' = outlived,
         \A s \in 1 .. Len(session) : session'[s].under = session[s].under
  PROVE  SessionsTyped'
  BY DEF SessionsTyped

\* A session is used: it becomes the last, and those after it move up.
LEMMA TouchedIsRanked ==
  ASSUME SessionsTyped, PlacesAreRanks, NEW s \in 1 .. Len(session), activity' = Touched(s),
         Len(session') = Len(session)
  PROVE  PlacesAreRanks'
  <1> DEFINE n == Len(session)
  <1>0. n \in Nat /\ SessionIds = 1 .. n /\ activity \in Seq(Nat) /\ Len(activity) = n
    BY RowsAre DEF SessionsTyped, PlacesAreRanks
  <1>1. \A t \in 1 .. n : activity[t] \in 1 .. n
    BY DEF PlacesAreRanks
  <1>2. activity' = [t \in 1 .. n |-> IF t = s THEN n ELSE IF activity[t] > activity[s] THEN activity[t] - 1
                                      ELSE activity[t]]
    BY <1>0 DEF Touched
  <1>3. \A a, b \in 1 .. n : activity[a] = activity[b] => a = b
    BY DEF PlacesAreRanks
  <1>4. \A k \in 1 .. n : \E a \in 1 .. n : activity[a] = k
    BY DEF PlacesAreRanks
  <1>5. s \in 1 .. n /\ Len(session') = n
    OBVIOUS
  <1> HIDE DEF n
  <1>6. ASSUME NEW t \in 1 .. n PROVE activity'[t] \in 1 .. n
    <2>1. activity[t] \in 1 .. n /\ activity[s] \in 1 .. n
      BY <1>1, <1>5
    <2>2. activity'[t] = IF t = s THEN n ELSE IF activity[t] > activity[s] THEN activity[t] - 1 ELSE activity[t]
      BY <1>2
    <2> QED
      BY <1>0, <2>1, <2>2
  <1>7. activity' \in Seq(Nat) /\ Len(activity') = n
    BY <1>0, <1>2, <1>6
  <1>8. ASSUME NEW a \in 1 .. n, NEW b \in 1 .. n, activity'[a] = activity'[b] PROVE a = b
    <2>1. a # s /\ b # s => activity[a] # activity[s] /\ activity[b] # activity[s]
      BY <1>3, <1>5
    <2>2. activity[a] \in 1 .. n /\ activity[b] \in 1 .. n /\ activity[s] \in 1 .. n
      BY <1>1, <1>5
    <2>3. a # s => activity'[a] < n
      BY <1>0, <1>2, <1>3, <1>5, <2>2
    <2>4. b # s => activity'[b] < n
      BY <1>0, <1>2, <1>3, <1>5, <2>2
    <2>5. activity'[s] = n
      BY <1>2, <1>5
    <2>6. CASE a # s /\ b # s
      <3>1. activity[a] = activity[b]
        BY <1>0, <1>2, <1>8, <2>1, <2>2, <2>6
      <3> QED
        BY <1>3, <3>1
    <2> QED
      BY <1>0, <1>8, <2>3, <2>4, <2>5, <2>6
  <1>9. ASSUME NEW k \in 1 .. n PROVE \E a \in 1 .. n : activity'[a] = k
    <2>1. CASE k = n
      BY <1>2, <1>5, <2>1
    <2>2. CASE k # n /\ k < activity[s]
      <3>1. PICK a \in 1 .. n : activity[a] = k
        BY <1>4
      <3>2. activity[s] \in 1 .. n
        BY <1>1, <1>5
      <3> QED
        BY <1>0, <1>2, <2>2, <3>1, <3>2
    <2>3. CASE k # n /\ k >= activity[s]
      <3>1. k + 1 \in 1 .. n
        BY <1>0, <2>3
      <3>2. PICK a \in 1 .. n : activity[a] = k + 1
        BY <1>4, <3>1
      <3>3. activity[s] \in 1 .. n
        BY <1>1, <1>5
      <3>4. a # s /\ activity[a] > activity[s]
        BY <1>0, <2>3, <3>2, <3>3
      <3> QED
        BY <1>0, <1>2, <3>2, <3>4
    <2> QED
      BY <1>0, <1>1, <1>5, <2>1, <2>2, <2>3
  <1> QED
    BY <1>5, <1>6, <1>7, <1>8, <1>9 DEF PlacesAreRanks

LEMMA SamePlaces ==
  ASSUME PlacesAreRanks, activity' = activity, Len(session') = Len(session)
  PROVE  PlacesAreRanks'
  BY DEF PlacesAreRanks

\* Without a request: another use of a session, the end of some, and blocks.
LEMMA RowsAloneKeep ==
  ASSUME SessionsInv,
         UNCHANGED <<password, outlived, loginsCrossed, leftPending, authReq>>,
         \/ UNCHANGED <<session, activity>>
         \/ session' = session /\ \E s \in ActiveSessions : activity' = Touched(s)
         \/ activity' = activity /\ \E ids : session' = Deactivated(ids)
  PROVE  SessionsInv'
  <1>0. SessionsTyped /\ PlacesAreRanks
    BY DEF SessionsInv
  <1>1. ActiveSessions \subseteq 1 .. Len(session) /\ session \in Seq(Rows)
    BY <1>0, RowsAre DEF SessionsTyped
  <1>2. /\ session' \in Seq(Rows) /\ Len(session') = Len(session) /\ ActiveSessions' \subseteq ActiveSessions
        /\ \A s \in 1 .. Len(session) : session'[s].token = session[s].token /\ session'[s].under = session[s].under
    BY <1>0, <1>1, SameRows, RowsDeactivated
  <1>3. SessionsTyped'
    BY <1>0, <1>2, SameRequests
  <1>4. PlacesAreRanks'
    BY <1>0, <1>1, <1>2, SamePlaces, TouchedIsRanked
  <1> QED
    BY <1>2, <1>3, <1>4, StepKeeps

LEMMA RotateKeeps ==
  ASSUME SessionsInv, NEW h \in SessionRequests, RotateToken(h)
  PROVE  SessionsInv'
  <1>0. SessionsTyped /\ PlacesAreRanks
    BY DEF SessionsInv
  <1>1. PICK s : s = authReq[h].id
    OBVIOUS
  <1>2. /\ authReq[h].phase = "rotate" /\ session' = NewToken(s) /\ activity' = Touched(s)
        /\ authReq' = [authReq EXCEPT ![h] = IdleAuth]
        /\ UNCHANGED <<password, loginsCrossed, leftPending, outlived>>
    BY <1>1 DEF RotateToken
  <1>3. s \in 1 .. Len(session) /\ session \in Seq(Rows)
    BY <1>0, <1>1, <1>2, RowsAre DEF SessionsTyped
  <1>4. PICK r : r = [session[s] EXCEPT !.token = Signed]
    OBVIOUS
  <1>5. r \in Rows /\ r.isActive = session[s].isActive /\ r.token = Signed /\ r.under = session[s].under
    <2>1. PICK x \in Rows : x = session[s]
      BY <1>3
    <2> QED
      BY <1>4, <2>1 DEF Rows
  <1>6. session' = [session EXCEPT ![s] = r]
    BY <1>2, <1>3, <1>4 DEF NewToken
  <1>7. /\ session' \in Seq(Rows) /\ Len(session') = Len(session) /\ ActiveSessions' = ActiveSessions
        /\ session'[s] = r /\ \A t \in 1 .. Len(session) : t # s => session'[t] = session[t]
    BY <1>3, <1>5, <1>6, RowWritten
  <1>8. \A t \in 1 .. Len(session) : session'[t].token \in {Signed, session[t].token} /\ session'[t].under = session[t].under
    BY <1>5, <1>7
  <1>9. SessionsTyped'
    BY <1>0, <1>2, <1>7, <1>8, IdleIsTyped, TypedStays
  <1>10. PlacesAreRanks'
    BY <1>0, <1>2, <1>3, <1>7, TouchedIsRanked
  <1>11. authReq'[h] = IdleAuth /\ \A g \in SessionRequests : g # h => authReq'[g] = authReq[g]
    BY <1>0, <1>2, RequestWritten
  <1> QED
    BY <1>0, <1>2, <1>7, <1>8, <1>9, <1>10, <1>11, IdleIsTyped, StepKeeps

LEMMA StartOthersKeep ==
  ASSUME SessionsInv, NEW h \in SessionRequests,
         \/ \E s \in 1 .. MaxSessions : StartRefresh(h, s)
         \/ \E s \in 0 .. MaxSessions : StartPasswordChange(h, s)
  PROVE  SessionsInv'
  <1>0. SessionsTyped /\ PlacesAreRanks
    BY DEF SessionsInv
  <1>1. PICK phase \in {"rotate", "change"}, s \in 0 .. Len(session) :
           /\ phase = "rotate" => s # 0
           /\ authReq[h].phase = "idle"
           /\ authReq' = [authReq EXCEPT ![h] = [IdleAuth EXCEPT !.phase = phase, !.id = s]]
           /\ UNCHANGED <<session, activity, password, loginsCrossed, leftPending, outlived>>
    <2>1. ActiveSessions \subseteq 1 .. Len(session) /\ Len(session) \in Nat
      BY <1>0, RowsAre DEF SessionsTyped
    <2>2. ASSUME NEW s \in 1 .. MaxSessions, StartRefresh(h, s)
          PROVE  /\ s \in 1 .. Len(session) /\ authReq[h].phase = "idle"
                 /\ authReq' = [authReq EXCEPT ![h] = [IdleAuth EXCEPT !.phase = "rotate", !.id = s]]
                 /\ UNCHANGED <<session, activity, password, loginsCrossed, leftPending, outlived>>
      BY <2>1, <2>2 DEF StartRefresh
    <2>3. ASSUME NEW s \in 0 .. MaxSessions, StartPasswordChange(h, s)
          PROVE  /\ s \in 0 .. Len(session) /\ authReq[h].phase = "idle"
                 /\ authReq' = [authReq EXCEPT ![h] = [IdleAuth EXCEPT !.phase = "change", !.id = s]]
                 /\ UNCHANGED <<session, activity, password, loginsCrossed, leftPending, outlived>>
      <3>1. s # 0 => s \in ActiveSessions
        BY <2>3 DEF StartPasswordChange
      <3>2. s \in 0 .. Len(session)
        BY <2>1, <3>1
      <3>3. /\ authReq[h].phase = "idle"
            /\ authReq' = [authReq EXCEPT ![h] = [IdleAuth EXCEPT !.phase = "change", !.id = s]]
            /\ UNCHANGED <<session, activity, password, loginsCrossed, leftPending, outlived>>
        BY <2>3 DEF StartPasswordChange
      <3> QED
        BY <3>2, <3>3
    <2>4. CASE \E s \in 1 .. MaxSessions : StartRefresh(h, s)
      <3>1. PICK s \in 1 .. MaxSessions : StartRefresh(h, s)
        BY <2>4
      <3>2. s \in 0 .. Len(session) /\ s # 0
        <4>1. s \in 1 .. Len(session)
          BY <2>2, <3>1
        <4> QED
          BY <2>1, <4>1
      <3> QED
        BY <2>2, <3>1, <3>2
    <2>5. CASE \E s \in 0 .. MaxSessions : StartPasswordChange(h, s)
      BY <2>3, <2>5
    <2> QED
      BY <2>4, <2>5
  <1>2. PICK r : r = [IdleAuth EXCEPT !.phase = phase, !.id = s]
    OBVIOUS
  <1>3. /\ DOMAIN r = {"phase", "overflow", "id", "under", "overtaken"}
        /\ r.phase = phase /\ r.overflow = {} /\ r.id = s /\ r.under = -1
    BY <1>2 DEF IdleAuth, NoPassword
  <1>4. /\ authReq' = [authReq EXCEPT ![h] = r]
    BY <1>1, <1>2
  <1>5. authReq'[h] = r /\ \A g \in SessionRequests : g # h => authReq'[g] = authReq[g]
    BY <1>0, <1>4, RequestWritten
  <1>6. /\ session' \in Seq(Rows) /\ Len(session') = Len(session) /\ ActiveSessions' = ActiveSessions
        /\ \A t \in 1 .. Len(session) : session'[t].token = session[t].token /\ session'[t].under = session[t].under
    BY <1>0, <1>1, SameRows
  <1>7. SessionsTyped'
    <2>1. r.under \in -1 .. password /\ r.overflow \subseteq 1 .. Len(session)
      BY <1>0, <1>3, IdleIsTyped
    <2>2. r.id \in 0 .. Len(session) /\ (r.phase \in {"sign", "rotate"} => r.id # 0)
      BY <1>1, <1>3
    <2>3. password' = password /\ outlived' = outlived
      BY <1>1
    <2> QED
      BY <1>0, <1>3, <1>4, <1>6, <2>1, <2>2, <2>3, TypedStays
  <1>8. PlacesAreRanks'
    BY <1>0, <1>1, <1>6, SamePlaces
  <1>9. \A g \in SessionRequests : \/ authReq'[g] = authReq[g]
                                   \/ /\ authReq[g].phase \notin {"sign", "revoke"}
                                      /\ authReq'[g].phase \notin {"evict", "create", "revoke"}
    BY <1>1, <1>3, <1>5
  <1> QED
    BY <1>0, <1>1, <1>6, <1>7, <1>8, <1>9, StepKeeps

LEMMA SignKeeps ==
  ASSUME SessionsInv, NEW h \in SessionRequests, SignTokens(h)
  PROVE  SessionsInv'
  <1>0. SessionsTyped /\ PlacesAreRanks /\ PlaceholderIsTransient /\ PasswordsFollowed /\ RoomIsMade
    BY DEF SessionsInv
  <1>1. PICK s : s = authReq[h].id
    OBVIOUS
  <1>2. /\ authReq[h].phase = "sign" /\ session' = NewToken(s) /\ activity' = activity
        /\ authReq' = [authReq EXCEPT ![h] = IdleAuth]
        /\ UNCHANGED <<password, loginsCrossed, leftPending, outlived>>
    BY <1>1 DEF SignTokens
  <1>3. s \in 1 .. Len(session) /\ session \in Seq(Rows)
    BY <1>0, <1>1, <1>2, RowsAre DEF SessionsTyped
  <1>4. PICK r : r = [session[s] EXCEPT !.token = Signed]
    OBVIOUS
  <1>5. r \in Rows /\ r.isActive = session[s].isActive /\ r.token = Signed /\ r.under = session[s].under
    <2>1. PICK x \in Rows : x = session[s]
      BY <1>3
    <2> QED
      BY <1>4, <2>1 DEF Rows
  <1>6. session' = [session EXCEPT ![s] = r]
    BY <1>2, <1>3, <1>4 DEF NewToken
  <1>7. /\ session' \in Seq(Rows) /\ Len(session') = Len(session) /\ ActiveSessions' = ActiveSessions
        /\ session'[s] = r /\ \A t \in 1 .. Len(session) : t # s => session'[t] = session[t]
    BY <1>3, <1>5, <1>6, RowWritten
  <1>8. \A t \in 1 .. Len(session) : session'[t].token \in {Signed, session[t].token} /\ session'[t].under = session[t].under
    BY <1>5, <1>7
  <1>9. SessionsTyped'
    BY <1>0, <1>2, <1>7, <1>8, IdleIsTyped, TypedStays
  <1>10. PlacesAreRanks'
    BY <1>0, <1>2, <1>7, SamePlaces
  <1>11. authReq'[h] = IdleAuth /\ \A g \in SessionRequests : g # h => authReq'[g] = authReq[g]
    BY <1>0, <1>2, RequestWritten
  <1>12. SessionIds = 1 .. Len(session) /\ SessionIds' = SessionIds /\ ActiveSessions \subseteq SessionIds
    BY <1>3, <1>7, RowsAre DEF SessionIds
  <1>13. PlaceholderIsTransient'
    <2>1. ASSUME ~leftPending, NEW t \in SessionIds, session'[t].token = Pending
          PROVE  \E g \in SessionRequests : authReq'[g].phase = "sign" /\ authReq'[g].id = t
      <3>1. t # s
        BY <1>5, <1>7, <2>1 DEF Pending, Signed
      <3>2. session[t].token = Pending
        BY <1>7, <1>12, <2>1, <3>1
      <3>3. PICK g \in SessionRequests : authReq[g].phase = "sign" /\ authReq[g].id = t
        BY <1>0, <2>1, <3>2 DEF PlaceholderIsTransient
      <3>4. g # h
        BY <1>1, <3>1, <3>3
      <3> QED
        BY <1>11, <3>3, <3>4
    <2> QED
      BY <1>2, <1>12, <2>1 DEF PlaceholderIsTransient
  <1>14. PasswordsFollowed'
    BY <1>0, <1>2, <1>7, <1>8, <1>11, <1>12, IdleIsTyped, PasswordsKept
  <1>15. RoomIsMade'
    BY <1>0, <1>2, <1>7, <1>11, IdleIsTyped, RoomIsKept
  <1> QED
    BY <1>9, <1>10, <1>13, <1>14, <1>15 DEF SessionsInv

LEMMA RevokeKeeps ==
  ASSUME SessionsInv, NEW h \in SessionRequests, RevokeOthers(h)
  PROVE  SessionsInv'
  <1>0. SessionsTyped /\ PlacesAreRanks /\ PlaceholderIsTransient /\ PasswordsFollowed /\ RoomIsMade
    BY DEF SessionsInv
  <1>1. PICK s : s = authReq[h].id
    OBVIOUS
  <1>2. /\ authReq[h].phase = "revoke" /\ session' = Deactivated(SessionIds \ {s}) /\ activity' = activity
        /\ authReq' = [authReq EXCEPT ![h] = IdleAuth]
        /\ UNCHANGED <<password, loginsCrossed, leftPending, outlived>>
    BY <1>1 DEF RevokeOthers, Others
  <1>3. /\ session' \in Seq(Rows) /\ Len(session') = Len(session)
        /\ ActiveSessions' = ActiveSessions \ (SessionIds \ {s})
        /\ \A t \in 1 .. Len(session) : session'[t].token = session[t].token /\ session'[t].under = session[t].under
    BY <1>0, <1>2, RowsDeactivated DEF SessionsTyped
  <1>4. SessionsTyped'
    BY <1>0, <1>2, <1>3, IdleIsTyped, TypedStays
  <1>5. PlacesAreRanks'
    BY <1>0, <1>2, <1>3, SamePlaces
  <1>6. authReq'[h] = IdleAuth /\ \A g \in SessionRequests : g # h => authReq'[g] = authReq[g]
    BY <1>0, <1>2, RequestWritten
  <1>7. SessionIds = 1 .. Len(session) /\ SessionIds' = SessionIds /\ ActiveSessions \subseteq SessionIds
    BY <1>0, <1>3, RowsAre DEF SessionIds, SessionsTyped
  <1>8. PlaceholderIsTransient'
    BY <1>0, <1>2, <1>3, <1>6, <1>7, PlaceholderKept
  <1>9. RoomIsMade'
    BY <1>0, <1>2, <1>3, <1>6, IdleIsTyped, RoomIsKept
  <1>10. PasswordsFollowed'
    <2>1. ActiveSessions' \subseteq {s} /\ ActiveSessions' \subseteq ActiveSessions
      BY <1>3, <1>7
    <2>2. PICK g \in SessionRequests : authReq[g].phase = "revoke" /\ GoesOn(g)
      BY <1>0, <1>2 DEF PasswordsFollowed, RevocationPending
    <2>3. \A k \in SessionRequests : GoesOn(k) /\ authReq'[k].id = authReq[k].id => GoesOn(k)'
      <3> SUFFICES ASSUME NEW k \in SessionRequests, GoesOn(k), authReq'[k].id = authReq[k].id PROVE GoesOn(k)'
        OBVIOUS
      <3>1. authReq[k].id \in ActiveSessions => session'[authReq[k].id].under = session[authReq[k].id].under
        BY <1>3, <1>7
      <3> QED
        BY <1>2, <2>1, <3>1 DEF GoesOn
    <2>4. CASE g # h
      <3>1. authReq'[g] = authReq[g] /\ GoesOn(g)'
        BY <1>6, <2>2, <2>3, <2>4
      <3> QED
        BY <2>2, <3>1 DEF PasswordsFollowed, SessionsFollowPassword, RevocationPending
    <2>5. CASE g = h
      <3>1. \A t \in ActiveSessions' : session'[t].under = password \/ t \in outlived
        <4> SUFFICES ASSUME NEW t \in ActiveSessions' PROVE session'[t].under = password \/ t \in outlived
          OBVIOUS
        <4>1. t = s /\ t \in ActiveSessions /\ t \in 1 .. Len(session)
          BY <1>7, <2>1
        <4>2. t # 0
          BY <4>1
        <4> QED
          BY <1>1, <1>3, <2>2, <2>5, <4>1, <4>2 DEF GoesOn
      <3>2. \A k \in SessionRequests : authReq'[k].phase = "revoke" => GoesOn(k)'
        <4> SUFFICES ASSUME NEW k \in SessionRequests PROVE GoesOn(k)'
          OBVIOUS
        <4> QED
          BY <1>2, <3>1 DEF GoesOn
      <3> QED
        BY <1>2, <3>1, <3>2 DEF PasswordsFollowed, SessionsFollowPassword, RevocationPending
    <2> QED
      BY <2>4, <2>5
  <1> QED
    BY <1>4, <1>5, <1>8, <1>9, <1>10 DEF SessionsInv

LEMMA CreateSessionKeeps ==
  ASSUME SessionsInv, NEW h \in SessionRequests, CreateSession(h)
  PROVE  SessionsInv'
  <1>0. SessionsTyped /\ PlacesAreRanks /\ PlaceholderIsTransient /\ PasswordsFollowed /\ RoomIsMade
    BY DEF SessionsInv
  <1> DEFINE n == Len(session)
             id == n + 1
  <1>1. n \in Nat /\ SessionIds = 1 .. n /\ ActiveSessions \subseteq 1 .. n /\ session \in Seq(Rows)
    BY <1>0, RowsAre DEF SessionsTyped
  <1>2. authReq[h].phase = "create" /\ UNCHANGED <<password, leftPending>>
    BY DEF CreateSession
  <1>3. CASE \E s \in SessionIds : session[s].token = Pending
    <2>1. authReq' = [authReq EXCEPT ![h] = IdleAuth] /\ UNCHANGED <<session, activity, loginsCrossed, outlived>>
      BY <1>3 DEF CreateSession
    <2>2. authReq'[h] = IdleAuth /\ \A g \in SessionRequests : g # h => authReq'[g] = authReq[g]
      BY <1>0, <2>1, RequestWritten
    <2>3. /\ session' \in Seq(Rows) /\ Len(session') = Len(session) /\ ActiveSessions' = ActiveSessions
          /\ \A t \in 1 .. Len(session) : session'[t].token = session[t].token /\ session'[t].under = session[t].under
      BY <1>0, <2>1, SameRows
    <2>4. SessionsTyped'
      BY <1>0, <1>2, <2>1, <2>3, IdleIsTyped, TypedStays
    <2>5. PlacesAreRanks'
      BY <1>0, <2>1, <2>3, SamePlaces
    <2> QED
      BY <1>0, <1>2, <2>1, <2>2, <2>3, <2>4, <2>5, IdleIsTyped, StepKeeps
  <1>4. CASE ~ \E s \in SessionIds : session[s].token = Pending
    <2> DEFINE under == IF authReq[h].under = NoPassword THEN password ELSE authReq[h].under
               phases == {"evict", "create"}
    <2>1. /\ id <= MaxSessions
          /\ session' = Append(session, [isActive |-> TRUE, token |-> Pending, under |-> under])
          /\ activity' = Append(activity, id)
          /\ loginsCrossed' = authReq[h].overtaken
          /\ outlived' = outlived \cup (IF under = password \/ RevocationPending THEN {} ELSE {id})
          /\ authReq' = [g \in SessionRequests |->
                IF g = h THEN [IdleAuth EXCEPT !.phase = "sign", !.id = id]
                ELSE [authReq[g] EXCEPT !.overtaken = authReq[g].phase \in phases]]
      BY <1>4 DEF CreateSession
    <2>2. under \in 0 .. password
      BY <1>0, SessionConstantsOK DEF SessionsTyped, NoPassword
    <2>3. /\ session' \in Seq(Rows) /\ Len(session') = id
          /\ ActiveSessions' = ActiveSessions \cup {id}
          /\ session'[id].token = Pending /\ session'[id].under = under
          /\ \A s \in 1 .. n : session'[s].token = session[s].token /\ session'[s].under = session[s].under
      <3>1. under \in Nat
        BY <1>0, <2>2, SessionConstantsOK DEF SessionsTyped
      <3> HIDE DEF under
      <3> QED
        BY <1>1, <2>1, <3>1, RowAdded
    <2>4. /\ authReq'[h].phase = "sign" /\ authReq'[h].id = id /\ authReq'[h].overflow = {} /\ authReq'[h].under = -1
          /\ DOMAIN authReq'[h] = {"phase", "overflow", "id", "under", "overtaken"}
      BY <2>1 DEF IdleAuth, NoPassword
    <2>5. ASSUME NEW g \in SessionRequests, g # h
          PROVE  /\ authReq'[g].phase = authReq[g].phase /\ authReq'[g].id = authReq[g].id
                 /\ authReq'[g].overflow = authReq[g].overflow /\ authReq'[g].under = authReq[g].under
                 /\ DOMAIN authReq'[g] = {"phase", "overflow", "id", "under", "overtaken"}
                 /\ authReq'[g].overtaken = (authReq[g].phase \in phases)
      <3>1. PICK r : r = authReq[g]
        OBVIOUS
      <3>2. DOMAIN r = {"phase", "overflow", "id", "under", "overtaken"}
        BY <1>0, <3>1 DEF SessionsTyped
      <3>3. PICK b : b = (authReq[g].phase \in phases)
        BY Zenon
      <3>4. authReq'[g] = [r EXCEPT !.overtaken = b]
        BY <2>1, <2>5, <3>1, <3>3
      <3>5. /\ [r EXCEPT !.overtaken = b].phase = r.phase /\ [r EXCEPT !.overtaken = b].id = r.id
            /\ [r EXCEPT !.overtaken = b].overflow = r.overflow /\ [r EXCEPT !.overtaken = b].under = r.under
            /\ DOMAIN [r EXCEPT !.overtaken = b] = {"phase", "overflow", "id", "under", "overtaken"}
            /\ [r EXCEPT !.overtaken = b].overtaken = b
        BY <3>2
      <3> QED
        BY <3>1, <3>3, <3>4, <3>5, Zenon
    <2>6. SessionIds' = 1 .. id /\ id \notin ActiveSessions /\ id \in Nat /\ id # 0
      BY <1>1, <2>3 DEF SessionIds
    <2>7. SessionsTyped'
      <3>1. \A s \in 1 .. id : session'[s].under <= password'
        BY <1>0, <1>1, <1>2, <2>2, <2>3, SessionConstantsOK DEF SessionsTyped
      <3>2. \A g \in SessionRequests :
              /\ DOMAIN authReq'[g] = {"phase", "overflow", "id", "under", "overtaken"}
              /\ authReq'[g].id \in 0 .. id /\ authReq'[g].under \in -1 .. password'
              /\ authReq'[g].phase \in {"sign", "rotate"} => authReq'[g].id # 0
              /\ authReq'[g].overflow \subseteq 1 .. id
        <4> SUFFICES ASSUME NEW g \in SessionRequests
                     PROVE  /\ DOMAIN authReq'[g] = {"phase", "overflow", "id", "under", "overtaken"}
                            /\ authReq'[g].id \in 0 .. id /\ authReq'[g].under \in -1 .. password'
                            /\ authReq'[g].phase \in {"sign", "rotate"} => authReq'[g].id # 0
                            /\ authReq'[g].overflow \subseteq 1 .. id
          OBVIOUS
        <4>1. CASE g = h
          BY <1>0, <1>2, <2>4, <2>6, <4>1, IdleIsTyped
        <4>2. CASE g # h
          <5>1. /\ authReq[g].id \in 0 .. n /\ authReq[g].under \in -1 .. password
                /\ authReq[g].phase \in {"sign", "rotate"} => authReq[g].id # 0
                /\ authReq[g].overflow \subseteq 1 .. n
            BY <1>0 DEF SessionsTyped
          <5> QED
            BY <1>1, <1>2, <2>5, <4>2, <5>1
        <4> QED
          BY <4>1, <4>2
      <3>3. outlived' \subseteq 1 .. id
        <4>1. outlived \subseteq 1 .. n /\ outlived' \subseteq outlived \cup {id}
          BY <1>0, <2>1 DEF SessionsTyped
        <4> QED
          BY <1>1, <4>1
      <3>4. authReq' = [g \in SessionRequests |-> authReq'[g]]
        BY <2>1
      <3>5. password' \in 0 .. MaxPasswords
        BY <1>0, <1>2 DEF SessionsTyped
      <3> HIDE DEF id
      <3> QED
        BY <2>1, <2>3, <3>1, <3>2, <3>3, <3>4, <3>5 DEF SessionsTyped
    <2>8. PlacesAreRanks'
      <3>1. /\ activity' \in Seq(Nat) /\ Len(activity') = id /\ activity'[id] = id
            /\ \A s \in 1 .. n : activity'[s] = activity[s]
        BY <1>0, <1>1, <2>1 DEF PlacesAreRanks
      <3>2. \A s \in 1 .. n : activity[s] \in 1 .. n
        BY <1>0 DEF PlacesAreRanks
      <3>3. \A s, t \in 1 .. n : activity[s] = activity[t] => s = t
        BY <1>0 DEF PlacesAreRanks
      <3>4. \A k \in 1 .. n : \E s \in 1 .. n : activity[s] = k
        BY <1>0 DEF PlacesAreRanks
      <3>5. \A s \in 1 .. id : s = id \/ s \in 1 .. n
        BY <1>1
      <3>6. \A s \in 1 .. id : activity'[s] \in 1 .. id
        BY <1>1, <3>1, <3>2, <3>5
      <3>7. ASSUME NEW s \in 1 .. id, NEW t \in 1 .. id, activity'[s] = activity'[t] PROVE s = t
        BY <1>1, <3>1, <3>2, <3>3, <3>5, <3>7
      <3>8. \A k \in 1 .. id : \E s \in 1 .. id : activity'[s] = k
        <4> SUFFICES ASSUME NEW k \in 1 .. id PROVE \E s \in 1 .. id : activity'[s] = k
          OBVIOUS
        <4>1. CASE k = id
          BY <1>1, <3>1, <4>1
        <4>2. CASE k \in 1 .. n
          <5>1. PICK s \in 1 .. n : activity[s] = k
            BY <3>4, <4>2
          <5>2. activity'[s] = k /\ s \in 1 .. id
            BY <1>1, <3>1, <5>1
          <5> QED
            BY <5>2
        <4> QED
          BY <3>5, <4>1, <4>2
      <3> HIDE DEF id
      <3> QED
        BY <2>3, <3>1, <3>6, <3>7, <3>8 DEF PlacesAreRanks
    <2>9. PlaceholderIsTransient'
      <3>1. ASSUME NEW t \in 1 .. id, session'[t].token = Pending PROVE t = id
        BY <1>1, <1>4, <2>3, <3>1
      <3> HIDE DEF id
      <3> QED
        BY <2>4, <2>6, <3>1 DEF PlaceholderIsTransient
    <2>10. PasswordsFollowed'
      <3>1. RevocationPending' <=> RevocationPending
        <4>1. \A g \in SessionRequests : authReq'[g].phase = "revoke" <=> authReq[g].phase = "revoke"
          BY <1>2, <2>4, <2>5
        <4> QED
          BY <4>1 DEF RevocationPending
      <3>2. ASSUME ~RevocationPending, NEW s \in ActiveSessions' PROVE session'[s].under = password \/ s \in outlived'
        <4>1. CASE s = id
          BY <2>1, <2>3, <3>2, <4>1
        <4>2. CASE s \in ActiveSessions
          <5>1. s \in 1 .. n /\ (session[s].under = password \/ s \in outlived)
            BY <1>0, <1>1, <3>2, <4>2 DEF PasswordsFollowed, SessionsFollowPassword
          <5> QED
            BY <2>1, <2>3, <5>1
        <4> QED
          BY <2>3, <4>1, <4>2
      <3>3. ASSUME RevocationPending PROVE \E g \in SessionRequests : authReq'[g].phase = "revoke" /\ GoesOn(g)'
        <4>1. PICK g \in SessionRequests : authReq[g].phase = "revoke" /\ GoesOn(g)
          BY <1>0, <3>3 DEF PasswordsFollowed
        <4>2. g # h /\ authReq'[g].phase = "revoke" /\ authReq'[g].id = authReq[g].id
          BY <1>2, <2>5, <4>1
        <4>3. authReq[g].id \in 0 .. n /\ authReq[g].id # id
          BY <1>0, <1>1 DEF SessionsTyped
        <4>4. GoesOn(g)'
          <5>1. outlived \subseteq outlived' /\ password' = password
            BY <1>2, <2>1
          <5>2. authReq[g].id # 0 => session'[authReq[g].id].under = session[authReq[g].id].under
            BY <1>1, <2>3, <4>3
          <5> HIDE DEF id
          <5> QED
            BY <2>3, <4>1, <4>2, <4>3, <5>1, <5>2 DEF GoesOn
        <4> QED
          BY <4>2, <4>4
      <3> QED
        BY <1>2, <3>1, <3>2, <3>3 DEF PasswordsFollowed, SessionsFollowPassword
    <2>11. RoomIsMade'
      <3> DEFINE A == Cardinality(ActiveSessions)
                 C == Cardinality(Creating)
                 m == MaxActiveSessions - 1
      <3>1. /\ A \in Nat /\ C \in Nat /\ MostSessions \in Nat /\ m \in Nat
            /\ MaxActiveSessions = m + 1 /\ MostSessions' = MostSessions
        BY <1>0, CountsAre DEF MostSessions
      <3>2. Cardinality(ActiveSessions') = A + 1
        BY <1>0, <2>3, <2>6, CountsAre, FS_AddElement
      <3>3. Cardinality(Creating') = C - 1
        <4>1. Creating' = Creating \ {h} /\ h \in Creating
          BY <1>2, <2>4, <2>5 DEF Creating
        <4> QED
          BY <1>0, <4>1, CountsAre, FS_RemoveElement
      <3>4. \A g \in SessionRequests : g # h =>
               /\ Cardinality(ActiveSessions' \ authReq'[g].overflow) = Cardinality(ActiveSessions \ authReq[g].overflow) + 1
               /\ Cardinality(ActiveSessions \ authReq[g].overflow) \in Nat
        <4> SUFFICES ASSUME NEW g \in SessionRequests, g # h
              PROVE /\ Cardinality(ActiveSessions' \ authReq'[g].overflow) = Cardinality(ActiveSessions \ authReq[g].overflow) + 1
                    /\ Cardinality(ActiveSessions \ authReq[g].overflow) \in Nat
          OBVIOUS
        <4>1. authReq'[g].overflow = authReq[g].overflow /\ authReq[g].overflow \subseteq 1 .. n
          BY <1>0, <2>5 DEF SessionsTyped
        <4> DEFINE B == ActiveSessions \ authReq[g].overflow
        <4>2. ActiveSessions' \ authReq'[g].overflow = B \cup {id} /\ id \notin B
          BY <1>1, <2>3, <2>6, <4>1
        <4>3. IsFiniteSet(B) /\ Cardinality(B) \in Nat
          BY <1>0, CountsAre
        <4> HIDE DEF B, id
        <4>4. Cardinality(B \cup {id}) = Cardinality(B) + 1
          BY <4>2, <4>3, FS_AddElement
        <4> QED
          BY <4>2, <4>3, <4>4 DEF B
      <3>5. Cardinality(ActiveSessions') + Cardinality(Creating') <= MostSessions
        <4>1. A + C <= MostSessions
          BY <1>0 DEF RoomIsMade
        <4> HIDE DEF A, C
        <4> QED
          BY <3>1, <3>2, <3>3, <4>1
      <3>6. ASSUME NEW T \in SUBSET SessionRequests, T # {}, \A g \in T : authReq'[g].phase = "evict"
            PROVE  \E g \in T : Cardinality(ActiveSessions' \ authReq'[g].overflow) + Cardinality(Creating')
                                  + Cardinality(T) <= MostSessions
        <4>1. \A g \in T : g # h /\ authReq[g].phase = "evict"
          BY <2>4, <2>5, <3>6
        <4>2. PICK g \in T : Cardinality(ActiveSessions \ authReq[g].overflow) + Cardinality(Creating)
                                + Cardinality(T) <= MostSessions
          BY <1>0, <3>6, <4>1 DEF RoomIsMade
        <4> DEFINE B == Cardinality(ActiveSessions \ authReq[g].overflow)
        <4>3. B \in Nat /\ Cardinality(ActiveSessions' \ authReq'[g].overflow) = B + 1 /\ B + C + Cardinality(T) <= MostSessions
          BY <3>4, <4>1, <4>2
        <4>4. Cardinality(T) \in Nat
          BY <1>0, CountsAre
        <4>5. Cardinality(ActiveSessions' \ authReq'[g].overflow) + Cardinality(Creating') + Cardinality(T) <= MostSessions
          <5> HIDE DEF B, C
          <5> QED
            BY <3>1, <3>3, <4>3, <4>4
        <4> QED
          BY <4>5
      <3>7. ~loginsCrossed' => Cardinality(ActiveSessions') <= MaxActiveSessions
        <4>1. ASSUME ~loginsCrossed' PROVE A <= m
          <5>1. ~authReq[h].overtaken
            BY <2>1, <4>1, Zenon
          <5> QED
            BY <1>0, <1>2, <5>1, Zenon DEF RoomIsMade
        <4> HIDE DEF A, m
        <4> QED
          BY <3>1, <3>2, <4>1
      <3>8. ASSUME NEW g \in SessionRequests, ~authReq'[g].overtaken
            PROVE  authReq'[g].phase \notin phases
        <4>1. CASE g = h
          BY <2>4, <4>1
        <4>2. CASE g # h
          <5>1. ~(authReq[g].phase \in phases)
            <6>1. authReq'[g].overtaken = (authReq[g].phase \in phases)
              BY <2>5, <4>2
            <6> QED
              BY <3>8, <6>1, Zenon
          <5> QED
            BY <2>5, <4>2, <5>1
        <4> QED
          BY <4>1, <4>2
      <3>9. \A g \in SessionRequests : ~authReq'[g].overtaken =>
              /\ authReq'[g].phase = "create" => Cardinality(ActiveSessions') <= MaxActiveSessions - 1
              /\ authReq'[g].phase = "evict" =>
                    Cardinality(ActiveSessions' \ authReq'[g].overflow) <= MaxActiveSessions - 1
        <4>1. \A g \in SessionRequests : ~authReq'[g].overtaken =>
                 authReq'[g].phase # "create" /\ authReq'[g].phase # "evict"
          BY <3>8
        <4> QED
          BY <4>1, Zenon
      <3> QED
        BY <3>1, <3>5, <3>6, <3>7, <3>9, Zenon DEF RoomIsMade
    <2> QED
      BY <2>7, <2>8, <2>9, <2>10, <2>11 DEF SessionsInv
  <1> QED
    BY <1>3, <1>4

LEMMA WriteKeeps ==
  ASSUME SessionsInv, NEW h \in SessionRequests, WritePassword(h)
  PROVE  SessionsInv'
  <1>0. SessionsTyped /\ PlacesAreRanks /\ PlaceholderIsTransient /\ PasswordsFollowed /\ RoomIsMade
    BY DEF SessionsInv
  <1>1. PICK s : s = authReq[h].id
    OBVIOUS
  <1>2. /\ authReq[h].phase = "change" /\ password' = password + 1 /\ password < MaxPasswords
        /\ session' = IF s = 0 THEN session ELSE [session EXCEPT ![s].under = password']
        /\ authReq' = [authReq EXCEPT ![h].phase = "revoke"]
        /\ UNCHANGED <<activity, loginsCrossed, leftPending, outlived>>
    BY <1>1 DEF WritePassword
  <1>3. s \in 0 .. Len(session) /\ session \in Seq(Rows) /\ Len(session) \in Nat /\ password \in Nat
    BY <1>0, <1>1, <1>2, RowsAre, IdleIsTyped DEF SessionsTyped
  <1>4. /\ session' \in Seq(Rows) /\ Len(session') = Len(session) /\ ActiveSessions' = ActiveSessions
        /\ \A t \in 1 .. Len(session) : /\ session'[t].token = session[t].token
                                        /\ session'[t].under = IF t = s THEN password' ELSE session[t].under
    <2>1. CASE s = 0
      BY <1>0, <1>2, <1>3, <2>1, SameRows
    <2>2. CASE s # 0
      <3>1. s \in 1 .. Len(session)
        BY <1>3, <2>2
      <3>2. PICK r : r = [session[s] EXCEPT !.under = password']
        OBVIOUS
      <3>3. r \in Rows /\ r.isActive = session[s].isActive /\ r.token = session[s].token /\ r.under = password'
        <4>1. PICK x \in Rows : x = session[s]
          BY <1>3, <3>1
        <4>2. password' \in Nat
          BY <1>2, <1>3
        <4> QED
          BY <3>2, <4>1, <4>2 DEF Rows
      <3>4. session' = [session EXCEPT ![s] = r]
        BY <1>2, <2>2, <3>2
      <3>5. /\ session' \in Seq(Rows) /\ Len(session') = Len(session) /\ ActiveSessions' = ActiveSessions
            /\ session'[s] = r /\ \A t \in 1 .. Len(session) : t # s => session'[t] = session[t]
        BY <1>3, <3>1, <3>3, <3>4, RowWritten
      <3> QED
        BY <3>3, <3>5
    <2> QED
      BY <2>1, <2>2
  <1>5. PICK r : r = [authReq[h] EXCEPT !.phase = "revoke"]
    OBVIOUS
  <1>6. /\ DOMAIN r = {"phase", "overflow", "id", "under", "overtaken"}
        /\ r.phase = "revoke" /\ r.overflow = authReq[h].overflow /\ r.id = s /\ r.under = authReq[h].under
    <2>1. DOMAIN authReq[h] = {"phase", "overflow", "id", "under", "overtaken"}
      BY <1>0 DEF SessionsTyped
    <2> QED
      BY <1>1, <1>5, <2>1
  <1>7. /\ authReq'[h] = r /\ \A g \in SessionRequests : g # h => authReq'[g] = authReq[g]
        /\ authReq' = [g \in SessionRequests |-> authReq'[g]]
    <2>1. authReq' = [authReq EXCEPT ![h] = r]
      BY <1>0, <1>2, <1>5 DEF SessionsTyped
    <2> QED
      BY <1>0, <2>1, RequestWritten
  <1>8. SessionIds = 1 .. Len(session) /\ SessionIds' = SessionIds /\ ActiveSessions \subseteq SessionIds
    BY <1>3, <1>4, RowsAre DEF SessionIds
  <1>9. SessionsTyped'
    <2>1. \A t \in 1 .. Len(session) : session'[t].under <= password'
      <3>1. \A t \in 1 .. Len(session) : session[t].under <= password /\ session[t].under \in Nat
        <4>1. \A t \in 1 .. Len(session) : session[t] \in Rows
          BY <1>3
        <4> QED
          BY <1>0, <4>1 DEF SessionsTyped, Rows
      <3> QED
        BY <1>2, <1>3, <1>4, <3>1
    <2>2. password' \in 0 .. MaxPasswords
      BY <1>2, <1>3, SessionConstantsOK
    <2>3. \A g \in SessionRequests :
             /\ DOMAIN authReq'[g] = {"phase", "overflow", "id", "under", "overtaken"}
             /\ authReq'[g].id \in 0 .. Len(session) /\ authReq'[g].under \in -1 .. password'
             /\ authReq'[g].phase \in {"sign", "rotate"} => authReq'[g].id # 0
             /\ authReq'[g].overflow \subseteq 1 .. Len(session)
      <3> SUFFICES ASSUME NEW g \in SessionRequests
             PROVE  /\ DOMAIN authReq'[g] = {"phase", "overflow", "id", "under", "overtaken"}
                    /\ authReq'[g].id \in 0 .. Len(session) /\ authReq'[g].under \in -1 .. password'
                    /\ authReq'[g].phase \in {"sign", "rotate"} => authReq'[g].id # 0
                    /\ authReq'[g].overflow \subseteq 1 .. Len(session)
        OBVIOUS
      <3>1. /\ DOMAIN authReq[g] = {"phase", "overflow", "id", "under", "overtaken"}
            /\ authReq[g].id \in 0 .. Len(session) /\ authReq[g].under \in -1 .. password
            /\ authReq[g].phase \in {"sign", "rotate"} => authReq[g].id # 0
            /\ authReq[g].overflow \subseteq 1 .. Len(session)
        BY <1>0 DEF SessionsTyped
      <3>2. authReq[g].under \in -1 .. password'
        BY <1>2, <1>3, <3>1
      <3>3. CASE g = h
        BY <1>3, <1>6, <1>7, <3>1, <3>2, <3>3
      <3>4. CASE g # h
        BY <1>7, <3>1, <3>2, <3>4
      <3> QED
        BY <3>3, <3>4
    <2>4. outlived' \subseteq 1 .. Len(session) /\ Len(session') <= MaxSessions
      BY <1>0, <1>2, <1>4 DEF SessionsTyped
    <2> QED
      BY <1>4, <1>7, <2>1, <2>2, <2>3, <2>4 DEF SessionsTyped
  <1>10. PlacesAreRanks'
    BY <1>0, <1>2, <1>4, SamePlaces
  <1>11. PlaceholderIsTransient'
    BY <1>0, <1>2, <1>4, <1>7, <1>8, PlaceholderKept
  <1>12. PasswordsFollowed'
    <2>1. authReq'[h].phase = "revoke" /\ authReq'[h].id = s
      BY <1>6, <1>7
    <2>2. GoesOn(h)'
      <3>1. s # 0 => session'[s].under = password'
        BY <1>3, <1>4
      <3> QED
        BY <2>1, <3>1 DEF GoesOn
    <2> QED
      BY <2>1, <2>2 DEF PasswordsFollowed, SessionsFollowPassword, RevocationPending
  <1>13. RoomIsMade'
    BY <1>0, <1>2, <1>4, <1>6, <1>7, RoomIsKept
  <1> QED
    BY <1>9, <1>10, <1>11, <1>12, <1>13 DEF SessionsInv

LEMMA RestartKeeps == SessionsInv /\ ServerRestarts => SessionsInv'
  <1> SUFFICES ASSUME SessionsInv, ServerRestarts PROVE SessionsInv'
    OBVIOUS
  <1>0. SessionsTyped /\ PlacesAreRanks /\ PlaceholderIsTransient /\ PasswordsFollowed /\ RoomIsMade
    BY DEF SessionsInv
  <1>1. /\ authReq' = [h \in SessionRequests |-> IdleAuth]
        /\ leftPending' = (leftPending \/ \E h \in SessionRequests : authReq[h].phase = "sign")
        /\ outlived' = outlived \cup
              (IF RevocationPending THEN {s \in ActiveSessions : session[s].under < password} ELSE {})
        /\ UNCHANGED <<session, activity, password, loginsCrossed>>
    BY DEF ServerRestarts
  <1>2. \A h \in SessionRequests : authReq'[h] = IdleAuth
    BY <1>1
  <1>3. /\ session' \in Seq(Rows) /\ Len(session') = Len(session) /\ ActiveSessions' = ActiveSessions
        /\ SessionIds' = SessionIds /\ ActiveSessions \subseteq 1 .. Len(session)
        /\ \A s \in 1 .. Len(session) : session'[s].token = session[s].token /\ session'[s].under = session[s].under
    BY <1>0, <1>1, SameRows, RowsAre DEF SessionsTyped
  <1>4. SessionsTyped'
    <2>1. outlived' \subseteq 1 .. Len(session)
      BY <1>0, <1>1, <1>3 DEF SessionsTyped
    <2> QED
      BY <1>0, <1>1, <1>2, <1>3, <2>1, IdleIsTyped DEF SessionsTyped
  <1>5. PlacesAreRanks'
    BY <1>0, <1>1, <1>3, SamePlaces
  <1>6. PlaceholderIsTransient'
    <2>1. ASSUME ~leftPending', NEW s \in SessionIds, session[s].token = Pending PROVE FALSE
      <3>1. ~leftPending /\ ~ \E h \in SessionRequests : authReq[h].phase = "sign"
        BY <1>1, <2>1, Zenon
      <3> QED
        BY <1>0, <2>1, <3>1 DEF PlaceholderIsTransient
    <2> QED
      BY <1>1, <1>3, <2>1 DEF PlaceholderIsTransient
  <1>7. PasswordsFollowed'
    <2>1. ~RevocationPending'
      BY <1>2, <1>0, IdleIsTyped DEF RevocationPending
    <2>2. ASSUME NEW s \in ActiveSessions PROVE session[s].under = password \/ s \in outlived'
      <3>1. session[s].under <= password /\ session[s].under \in Nat /\ password \in Nat
        <4>1. session[s] \in Rows /\ s \in 1 .. Len(session)
          BY <1>0, <1>3 DEF SessionsTyped
        <4> QED
          BY <1>0, <4>1, IdleIsTyped DEF SessionsTyped, Rows
      <3>2. CASE RevocationPending
        BY <1>1, <3>1, <3>2
      <3>3. CASE ~RevocationPending
        BY <1>0, <1>1, <3>3 DEF PasswordsFollowed, SessionsFollowPassword
      <3> QED
        BY <3>2, <3>3
    <2> QED
      BY <1>1, <1>3, <2>1, <2>2 DEF PasswordsFollowed, SessionsFollowPassword
  <1>8. RoomIsMade'
    <2>1. \A h \in SessionRequests : authReq'[h].phase \notin {"evict", "create"}
      BY <1>0, <1>2, IdleIsTyped
    <2> QED
      BY <1>0, <1>1, <1>3, <2>1, RoomIsKept
  <1> QED
    BY <1>4, <1>5, <1>6, <1>7, <1>8 DEF SessionsInv

LEMMA SessionsInvStep == SessionsInv /\ [SessionsNext]_sessionsVars => SessionsInv'
  <1> SUFFICES ASSUME SessionsInv, [SessionsNext]_sessionsVars PROVE SessionsInv'
    OBVIOUS
  <1>1. ASSUME NEW h \in SessionRequests, \E how \in {"password", "code", "register"} : StartLogin(h, how)
        PROVE  SessionsInv'
    BY <1>1, StartLoginKeeps
  <1>2. ASSUME NEW h \in SessionRequests, EvictOldest(h) PROVE SessionsInv'
    BY <1>2, EvictOldestKeeps
  <1>3. ASSUME NEW h \in SessionRequests, CreateSession(h) PROVE SessionsInv'
    BY <1>3, CreateSessionKeeps
  <1>4. ASSUME NEW h \in SessionRequests, SignTokens(h) PROVE SessionsInv'
    BY <1>4, SignKeeps
  <1>5. ASSUME NEW h \in SessionRequests, RotateToken(h) PROVE SessionsInv'
    BY <1>5, RotateKeeps
  <1>6. ASSUME NEW h \in SessionRequests, WritePassword(h) PROVE SessionsInv'
    BY <1>6, WriteKeeps
  <1>7. ASSUME NEW h \in SessionRequests, RevokeOthers(h) PROVE SessionsInv'
    BY <1>7, RevokeKeeps
  <1>8. ASSUME NEW h \in SessionRequests,
               \/ \E s \in 1 .. MaxSessions : StartRefresh(h, s)
               \/ \E s \in 0 .. MaxSessions : StartPasswordChange(h, s)
        PROVE  SessionsInv'
    BY <1>8, StartOthersKeep
  <1>9. ASSUME NEW s, Authenticate(s) PROVE SessionsInv'
    <2>1. /\ s \in ActiveSessions /\ activity' = Touched(s)
          /\ UNCHANGED <<session, password, authReq, loginsCrossed, leftPending, outlived>>
      BY <1>9 DEF Authenticate
    <2> QED
      BY <2>1, RowsAloneKeep
  <1>10. ASSUME NEW s, RevokeSession(s) \/ RevokeAllSessions(s) PROVE SessionsInv'
    <2>1. \E ids : session' = Deactivated(ids)
      BY <1>10 DEF RevokeSession, RevokeAllSessions
    <2>2. UNCHANGED <<activity, password, authReq, loginsCrossed, leftPending, outlived>>
      BY <1>10 DEF RevokeSession, RevokeAllSessions
    <2> QED
      BY <2>1, <2>2, RowsAloneKeep
  <1>11. CASE BlockUser \/ UnblockUser \/ UNCHANGED sessionsVars
    <2>1. UNCHANGED <<session, activity, password, authReq, loginsCrossed, leftPending, outlived>>
      BY <1>11 DEF BlockUser, UnblockUser, sessionsVars
    <2> QED
      BY <2>1, RowsAloneKeep
  <1>12. CASE RevokeBlocked
    <2>1. session' = Deactivated(SessionIds)
          /\ UNCHANGED <<activity, password, authReq, loginsCrossed, leftPending, outlived>>
      BY <1>12 DEF RevokeBlocked
    <2> QED
      BY <2>1, RowsAloneKeep
  <1>13. CASE ServerRestarts
    BY <1>13, RestartKeeps
  <1> QED
    BY <1>1, <1>2, <1>3, <1>4, <1>5, <1>6, <1>7, <1>8, <1>9, <1>10, <1>11, <1>12, <1>13 DEF SessionsNext

\* A token "pending" is there for as long as a login is between its writes, or stays once the
\* process ended there: for any limit, number of sessions, requests and passwords
\* (session.service.ts 21-37).
THEOREM PlaceholdersEnd == SessionsSpec => []PlaceholderIsTransient
  <1>1. SessionsInv => PlaceholderIsTransient
    BY DEF SessionsInv
  <1> QED
    BY <1>1, SessionsInvInit, SessionsInvStep, PTL DEF SessionsSpec

LEMMA SessionsInvHolds == SessionsInv => SessionsWithinLimit /\ SessionsFollowPassword
  <1> SUFFICES ASSUME SessionsInv PROVE SessionsWithinLimit /\ SessionsFollowPassword
    OBVIOUS
  <1>1. SessionsTyped /\ RoomIsMade /\ SessionsFollowPassword
    BY DEF SessionsInv, PasswordsFollowed
  <1> DEFINE A == Cardinality(ActiveSessions)
             R == Cardinality(SessionRequests)
  <1>2. /\ A \in Nat /\ R \in Nat /\ MaxActiveSessions \in Nat /\ Cardinality(Creating) \in Nat
        /\ MostSessions = MaxActiveSessions - 1 + R
    BY <1>1, CountsAre DEF MostSessions
  <1>3. A + Cardinality(Creating) <= MostSessions /\ (~loginsCrossed => A <= MaxActiveSessions)
    BY <1>1 DEF RoomIsMade
  <1>4. A <= MaxActiveSessions + (R - 1)
    <2> HIDE DEF A, R
    <2> QED
      BY <1>2, <1>3
  <1>5. SessionsWithinLimit
    <2>1. CASE loginsCrossed
      BY <1>4, <2>1 DEF SessionsWithinLimit
    <2>2. CASE ~loginsCrossed
      <3>1. A <= MaxActiveSessions + 0
        <4> HIDE DEF A
        <4> QED
          BY <1>2, <1>3, <2>2
      <3> QED
        BY <2>2, <3>1 DEF SessionsWithinLimit
    <2> QED
      BY <2>1, <2>2
  <1> QED
    BY <1>1, <1>5

\* A user has at most MAX_ACTIVE_SESSIONS sessions, or fewer beyond than there are requests when
\* logins crossed, and none of an old password but those known to outlive it: for every limit,
\* in whatever order logins, refreshes and revocations fall (session.service.ts 18-81,
\* auth.service.ts 212-238).
THEOREM SessionsStayLimited == SessionsSpec => [](SessionsWithinLimit /\ SessionsFollowPassword)
  BY SessionsInvInit, SessionsInvStep, SessionsInvHolds, PTL DEF SessionsSpec
-------------------------------------------------------------------------------
(* The types of these parts.                                                *)

\* A session's place, its id, and the ids that requests and passwords name.
THEOREM SessionsTypes == SessionsSpec => []SessionsTypeOK
  <1>1. SessionsInv => SessionsTypeOK
    <2> SUFFICES ASSUME SessionsInv PROVE SessionsTypeOK
      OBVIOUS
    <2>1. /\ session \in Seq(Rows) /\ Len(session) \in Nat /\ SessionIds = 1 .. Len(session)
          /\ activity \in Seq(Nat) /\ Len(activity) = Len(session) /\ DOMAIN activity = 1 .. Len(session)
      BY RowsAre DEF SessionsInv, SessionsTyped, PlacesAreRanks
    <2>2. Range(activity) = 1 .. Len(session)
      <3>1. \A v \in Range(activity) : \E s \in 1 .. Len(session) : activity[s] = v
        BY <2>1 DEF Range
      <3>2. \A s \in 1 .. Len(session) : activity[s] \in Range(activity)
        BY <2>1 DEF Range
      <3>3. Range(activity) \subseteq 1 .. Len(session)
        BY <3>1 DEF SessionsInv, PlacesAreRanks
      <3>4. \A k \in 1 .. Len(session) : \E s \in 1 .. Len(session) : activity[s] = k
        BY DEF SessionsInv, PlacesAreRanks
      <3>5. 1 .. Len(session) \subseteq Range(activity)
        BY <3>2, <3>4
      <3> QED
        BY <3>3, <3>5
    <2>3. \A h \in SessionRequests : authReq[h].id \in SessionIds \cup {0}
      BY <2>1 DEF SessionsInv, SessionsTyped
    <2> QED
      BY <2>1, <2>2, <2>3 DEF SessionsInv, SessionsTyped, SessionsTypeOK
  <1> QED
    BY <1>1, SessionsInvInit, SessionsInvStep, PTL DEF SessionsSpec

\* The requests that are to count a wrong code in row o.
Weighing(o) == {h \in OtpRequests : otpReq[h].phase = "count" /\ otpReq[h].id = o}

\* What has been counted in a row and what may still be.
AttemptsBounded ==
    \A o \in 1 .. Len(otp) :
        otp[o].attempts + Cardinality(Weighing(o)) < MaxVerifyAttempts + Cardinality(OtpRequests)

LEMMA WeighingFinite ==
  ASSUME NEW o
  PROVE  /\ IsFiniteSet(Weighing(o)) /\ Cardinality(Weighing(o)) \in Nat
         /\ Cardinality(Weighing(o)) <= Cardinality(OtpRequests) /\ Cardinality(OtpRequests) \in Nat
         /\ \A S \in SUBSET Weighing(o) : Cardinality(S) \in Nat /\ Cardinality(S) <= Cardinality(Weighing(o))
         /\ \A S \in SUBSET OtpRequests : Cardinality(S) \in Nat /\ Cardinality(S) <= Cardinality(OtpRequests)
  <1>1. Weighing(o) \subseteq OtpRequests /\ IsFiniteSet(OtpRequests)
    BY OtpConstantsOK DEF Weighing
  <1>2. IsFiniteSet(Weighing(o))
    BY <1>1, FS_Subset
  <1>3. ASSUME NEW S, NEW T, IsFiniteSet(T), S \subseteq T
        PROVE  Cardinality(S) \in Nat /\ Cardinality(S) <= Cardinality(T)
    BY <1>3, FS_Subset, FS_CardinalityType
  <1> QED
    BY <1>1, <1>2, <1>3, FS_CardinalityType

\* A row is as it was, and nobody more weighs it.
LEMMA AttemptStays ==
  ASSUME NEW o, otp'[o].attempts = otp[o].attempts, Weighing(o)' \subseteq Weighing(o),
         otp[o].attempts \in Nat,
         otp[o].attempts + Cardinality(Weighing(o)) < MaxVerifyAttempts + Cardinality(OtpRequests)
  PROVE  (otp[o].attempts + Cardinality(Weighing(o)) < MaxVerifyAttempts + Cardinality(OtpRequests))'
  <1>1. PICK n : n = Cardinality(Weighing(o))
    OBVIOUS
  <1>2. PICK m : m = Cardinality(Weighing(o)')
    OBVIOUS
  <1>3. PICK all : all = Cardinality(OtpRequests)
    OBVIOUS
  <1>4. n \in Nat /\ m \in Nat /\ m <= n /\ all \in Nat /\ MaxVerifyAttempts \in Nat
    BY <1>1, <1>2, <1>3, WeighingFinite, OtpConstantsOK
  <1>5. otp[o].attempts + m < MaxVerifyAttempts + all
    BY <1>1, <1>3, <1>4
  <1> QED
    BY <1>2, <1>3, <1>5

\* A row that is not at its limit.
LEMMA AttemptIsLeft ==
  ASSUME NEW o, otp'[o].attempts \in Nat, otp'[o].attempts < MaxVerifyAttempts
  PROVE  (otp[o].attempts + Cardinality(Weighing(o)) < MaxVerifyAttempts + Cardinality(OtpRequests))'
  <1>1. PICK m : m = Cardinality(Weighing(o)')
    OBVIOUS
  <1>2. PICK all : all = Cardinality(OtpRequests)
    OBVIOUS
  <1>3. Weighing(o)' \subseteq OtpRequests
    BY DEF Weighing
  <1>4. m \in Nat /\ m <= all /\ all \in Nat /\ MaxVerifyAttempts \in Nat
    BY <1>1, <1>2, <1>3, WeighingFinite, OtpConstantsOK
  <1>5. otp'[o].attempts + m < MaxVerifyAttempts + all
    BY <1>4
  <1> QED
    BY <1>1, <1>2, <1>5

CodesTyped == OtpInv /\ Len(otp) <= MaxCodes /\ AttemptsBounded

LEMMA CodesStep == CodesTyped /\ [OtpNext]_otpVars => (Len(otp) <= MaxCodes /\ AttemptsBounded)'
  <1> SUFFICES ASSUME CodesTyped, [OtpNext]_otpVars PROVE (Len(otp) <= MaxCodes /\ AttemptsBounded)'
    OBVIOUS
  <1>0. /\ otp \in Seq(OtpRow) /\ Len(otp) \in Nat /\ DOMAIN otp = 1 .. Len(otp)
        /\ \A o \in 1 .. Len(otp) : otp[o] \in OtpRow /\ otp[o].attempts \in Nat
        /\ otpReq = [g \in OtpRequests |-> otpReq[g]]
        /\ \A h \in OtpRequests : DOMAIN otpReq[h] = {"phase", "id"}
        /\ Len(otp) <= MaxCodes /\ AttemptsBounded
    <2>1. /\ otp \in Seq(OtpRow) /\ Len(otp) <= MaxCodes /\ AttemptsBounded
          /\ otpReq \in [OtpRequests -> [phase : {"idle", "issue", "cool", "accept", "count"}, id : Nat]]
      BY DEF CodesTyped, OtpInv, OtpRows
    <2>2. \A r \in OtpRow : r.attempts \in Nat
      BY DEF OtpRow
    <2> QED
      BY <2>1, <2>2
  <1>1. ASSUME Len(otp') = Len(otp), \A o \in 1 .. Len(otp) : otp'[o].attempts = otp[o].attempts,
               \A o \in 1 .. Len(otp) : Weighing(o)' \subseteq Weighing(o)
        PROVE  (Len(otp) <= MaxCodes /\ AttemptsBounded)'
    BY <1>0, <1>1, AttemptStays DEF AttemptsBounded
  <1>2. ASSUME NEW h \in OtpRequests, NEW q, otpReq' = [otpReq EXCEPT ![h] = q], q.phase # "count"
        PROVE  \A o : Weighing(o)' = Weighing(o) \ {h}
    <2>1. otpReq'[h] = q /\ \A g \in OtpRequests \ {h} : otpReq'[g] = otpReq[g]
      BY <1>0, <1>2
    <2> QED
      BY <1>2, <2>1 DEF Weighing
  <1>3. ASSUME NEW h \in OtpRequests, NEW p \in {"issue", "cool"}, otpReq' = [otpReq EXCEPT ![h].phase = p]
        PROVE  \A o : Weighing(o)' = Weighing(o) \ {h}
    <2>1. PICK q : q = [otpReq[h] EXCEPT !.phase = p]
      OBVIOUS
    <2>2. otpReq' = [otpReq EXCEPT ![h] = q] /\ q.phase = p
      BY <1>0, <1>3, <2>1
    <2> QED
      BY <1>2, <2>2
  <1>4. ASSUME NEW h \in OtpRequests, StartIssue(h) \/ StartResendCooldown(h)
        PROVE  (Len(otp) <= MaxCodes /\ AttemptsBounded)'
    <2>1. otp' = otp
      BY <1>4 DEF StartIssue, StartResendCooldown
    <2>2. \A o : Weighing(o)' = Weighing(o) \ {h}
      BY <1>2, <1>3, <1>4 DEF StartIssue, StartResendCooldown, IdleOtp
    <2> QED
      BY <1>1, <2>1, <2>2
  <1>5. ASSUME NEW h \in OtpRequests, CreateCode(h)
        PROVE  (Len(otp) <= MaxCodes /\ AttemptsBounded)'
    <2> DEFINE row == [isUsed |-> FALSE, attempts |-> 0, expired |-> FALSE, deleted |-> FALSE]
    <2>1. otp' = Append(otp, row) /\ Len(otp) < MaxCodes /\ row.attempts = 0
      BY <1>5 DEF CreateCode
    <2>2. \A o : Weighing(o)' = Weighing(o) \ {h}
      BY <1>3, <1>5 DEF CreateCode
    <2> HIDE DEF row
    <2>3. /\ Len(otp') = Len(otp) + 1 /\ otp'[Len(otp) + 1] = row
          /\ \A o \in 1 .. Len(otp) : otp'[o] = otp[o]
      BY <1>0, <2>1
    <2>4. ASSUME NEW o \in 1 .. Len(otp) + 1
          PROVE  (otp[o].attempts + Cardinality(Weighing(o)) < MaxVerifyAttempts + Cardinality(OtpRequests))'
      <3>1. CASE o \in 1 .. Len(otp)
        BY <1>0, <2>2, <2>3, <3>1, AttemptStays DEF AttemptsBounded
      <3>2. CASE o = Len(otp) + 1
        <4>1. otp'[o].attempts = 0
          BY <2>1, <2>3, <3>2
        <4> QED
          BY <4>1, AttemptIsLeft, OtpConstantsOK
      <3> QED
        BY <1>0, <3>1, <3>2
    <2>5. Len(otp') <= MaxCodes
      BY <1>0, <2>1, <2>3, OtpConstantsOK
    <2> QED
      BY <2>3, <2>4, <2>5 DEF AttemptsBounded
  <1>6. ASSUME NEW h \in OtpRequests, NEW right \in BOOLEAN, ReadCode(h, right)
        PROVE  (Len(otp) <= MaxCodes /\ AttemptsBounded)'
    <2> DEFINE n == NewestUnused
    <2>1. n \in 1 .. Len(otp)
      BY <1>6, NewestIsUnused DEF ReadCode, CodesTyped
    <2>2. PICK q : q = [phase |-> IF right THEN "accept" ELSE "count", id |-> n]
      OBVIOUS
    <2>3. /\ otp[n].attempts < MaxVerifyAttempts /\ otp' = otp /\ otpReq[h].phase = "idle"
          /\ otpReq' = [otpReq EXCEPT ![h] = q]
      BY <1>6, <2>2 DEF ReadCode, AttemptsLeft
    <2> HIDE DEF n
    <2>4. otpReq'[h] = q /\ q.id = n /\ \A g \in OtpRequests \ {h} : otpReq'[g] = otpReq[g]
      BY <1>0, <2>2, <2>3
    <2>5. ASSUME NEW o \in 1 .. Len(otp)
          PROVE  (otp[o].attempts + Cardinality(Weighing(o)) < MaxVerifyAttempts + Cardinality(OtpRequests))'
      <3>1. CASE o = n
        BY <1>0, <2>3, <3>1, AttemptIsLeft
      <3>2. CASE o # n
        <4>1. Weighing(o)' \subseteq Weighing(o)
          BY <2>4, <3>2 DEF Weighing
        <4> QED
          BY <1>0, <2>3, <4>1, AttemptStays DEF AttemptsBounded
      <3> QED
        BY <3>1, <3>2
    <2> QED
      BY <1>0, <2>3, <2>5 DEF AttemptsBounded
  <1>7. ASSUME NEW h \in OtpRequests, CountAttempt(h)
        PROVE  (Len(otp) <= MaxCodes /\ AttemptsBounded)'
    <2> DEFINE n == otpReq[h].id
    <2>1. n \in 1 .. Len(otp) /\ otpReq[h].phase = "count" /\ h \in Weighing(n)
      BY <1>7 DEF CodesTyped, OtpInv, OtpRows, CountAttempt, Weighing
    <2>2. \A o : Weighing(o)' = Weighing(o) \ {h}
      <3>1. otpReq' = [otpReq EXCEPT ![h] = IdleOtp] /\ IdleOtp.phase # "count"
        BY <1>7 DEF CountAttempt, IdleOtp
      <3> QED
        BY <1>2, <3>1
    <2>3. /\ Len(otp') = Len(otp) /\ \A o \in 1 .. Len(otp) : o # n => otp'[o] = otp[o]
          /\ otp'[n].attempts \in {otp[n].attempts, otp[n].attempts + 1}
      <3> DEFINE row == [otp[n] EXCEPT !.attempts = @ + 1]
      <3>1. row \in OtpRow /\ row.attempts = otp[n].attempts + 1
        <4>1. otp[n] \in OtpRow
          BY <1>0, <2>1
        <4> QED
          BY <4>1, AttemptCounted
      <3>2. otp' = otp \/ otp' = [otp EXCEPT ![n] = row]
        BY <1>7 DEF CountAttempt
      <3> HIDE DEF row
      <3>3. CASE otp' = otp
        BY <3>3
      <3>4. CASE otp' = [otp EXCEPT ![n] = row]
        <4>1. /\ Len(otp') = Len(otp) /\ otp'[n] = row
              /\ \A o \in 1 .. Len(otp) : o # n => otp'[o] = otp[o]
          BY <1>0, <2>1, <3>1, <3>4, ExceptSeq
        <4> QED
          BY <3>1, <4>1
      <3> QED
        BY <3>2, <3>3, <3>4
    <2> HIDE DEF n
    <2>4. ASSUME NEW o \in 1 .. Len(otp)
          PROVE  (otp[o].attempts + Cardinality(Weighing(o)) < MaxVerifyAttempts + Cardinality(OtpRequests))'
      <3>1. CASE o # n \/ otp'[o].attempts = otp[o].attempts
        BY <1>0, <2>2, <2>3, <3>1, AttemptStays DEF AttemptsBounded
      <3>2. CASE o = n /\ otp'[o].attempts = otp[o].attempts + 1
        <4>1. PICK k : k = Cardinality(Weighing(o))
          OBVIOUS
        <4>2. PICK all : all = Cardinality(OtpRequests)
          OBVIOUS
        <4>3. k \in Nat /\ all \in Nat /\ IsFiniteSet(Weighing(o)) /\ h \in Weighing(o)
          BY <2>1, <3>2, <4>1, <4>2, WeighingFinite
        <4>4. Cardinality(Weighing(o) \ {h}) = k - 1
          BY <4>1, <4>3, FS_RemoveElement
        <4>5. Cardinality(Weighing(o)') = k - 1
          BY <2>2, <4>4
        <4>6. otp[o].attempts \in Nat /\ otp[o].attempts + k < MaxVerifyAttempts + all
          BY <1>0, <4>1, <4>2 DEF AttemptsBounded
        <4>7. (otp[o].attempts + 1) + (k - 1) < MaxVerifyAttempts + all
          BY <4>3, <4>6, OtpConstantsOK
        <4> QED
          BY <3>2, <4>2, <4>5, <4>7
      <3> QED
        BY <2>3, <3>1, <3>2
    <2> QED
      BY <1>0, <2>3, <2>4 DEF AttemptsBounded
  <1>8. ASSUME NEW h \in OtpRequests, AcceptCode(h)
        PROVE  (Len(otp) <= MaxCodes /\ AttemptsBounded)'
    <2> DEFINE n == otpReq[h].id
    <2>1. n \in 1 .. Len(otp)
      BY <1>8 DEF CodesTyped, OtpInv, OtpRows, AcceptCode
    <2>2. \A o : Weighing(o)' = Weighing(o) \ {h}
      <3>1. otpReq' = [otpReq EXCEPT ![h] = IdleOtp] /\ IdleOtp.phase # "count"
        BY <1>8 DEF AcceptCode, IdleOtp
      <3> QED
        BY <1>2, <3>1
    <2>3. Len(otp') = Len(otp) /\ \A o \in 1 .. Len(otp) : otp'[o].attempts = otp[o].attempts
      <3> DEFINE row == [otp[n] EXCEPT !.isUsed = TRUE]
      <3>1. row \in OtpRow /\ row.attempts = otp[n].attempts
        BY <1>0, <2>1 DEF OtpRow
      <3>2. otp' = otp \/ otp' = [otp EXCEPT ![n] = row]
        BY <1>8 DEF AcceptCode
      <3> HIDE DEF row, n
      <3> QED
        BY <1>0, <2>1, <3>1, <3>2, ExceptSeq
    <2> QED
      BY <1>1, <2>2, <2>3
  <1>9. ASSUME CleanupOtp \/ CodeExpires
        PROVE  (Len(otp) <= MaxCodes /\ AttemptsBounded)'
    <2>1. PICK o \in 1 .. Len(otp) : otp' = [otp EXCEPT ![o].deleted = TRUE] \/ otp' = [otp EXCEPT ![o].expired = TRUE]
      BY <1>0, <1>9 DEF CleanupOtp, CodeExpires
    <2>2. PICK row : /\ row \in {[otp[o] EXCEPT !.deleted = TRUE], [otp[o] EXCEPT !.expired = TRUE]}
                     /\ otp' = [otp EXCEPT ![o] = row]
      BY <2>1
    <2>3. row \in OtpRow /\ row.attempts = otp[o].attempts
      BY <1>0, <2>2 DEF OtpRow
    <2>4. Len(otp') = Len(otp) /\ \A p \in 1 .. Len(otp) : otp'[p].attempts = otp[p].attempts
      BY <1>0, <2>2, <2>3, ExceptSeq
    <2>5. \A p : Weighing(p)' = Weighing(p)
      BY <1>9 DEF CleanupOtp, CodeExpires, Weighing
    <2> QED
      BY <1>1, <2>4, <2>5
  <1>10. ASSUME CooldownPasses \/ OtpRedisComesAndGoes \/ UNCHANGED otpVars
         PROVE  (Len(otp) <= MaxCodes /\ AttemptsBounded)'
    BY <1>0, <1>10 DEF CooldownPasses, OtpRedisComesAndGoes, otpVars, AttemptsBounded, Weighing
  <1> QED
    BY <1>4, <1>5, <1>6, <1>7, <1>8, <1>9, <1>10 DEF OtpNext

\* The rows of codes, and that no more wrong codes are counted in one than its limit and
\* the requests in flight together with the last allow.
THEOREM OtpTypes == OtpSpec => []OtpTypeOK
  <1>1. OtpInit => CodesTyped
    <2> SUFFICES ASSUME OtpInit PROVE Len(otp) <= MaxCodes /\ AttemptsBounded
      BY OtpInvInit DEF CodesTyped
    <2>1. otp = <<>> /\ Len(otp) = 0
      BY DEF OtpInit
    <2> QED
      BY <2>1, OtpConstantsOK DEF AttemptsBounded
  <1>2. CodesTyped /\ [OtpNext]_otpVars => CodesTyped'
    BY CodesStep, OtpInvStep DEF CodesTyped
  <1>3. CodesTyped => OtpTypeOK
    <2> SUFFICES ASSUME CodesTyped PROVE OtpTypeOK
      OBVIOUS
    <2>1. /\ DOMAIN otp = 1 .. Len(otp) /\ DOMAIN accepted = 1 .. Len(otp) /\ Len(otp) <= MaxCodes
          /\ \A o \in 1 .. Len(otp) : otp[o].attempts \in Nat
          /\ \A h \in OtpRequests : otpReq[h].id \in 1 .. Len(otp) \cup {0}
      <3>1. /\ otp \in Seq(OtpRow) /\ accepted \in Seq(Nat) /\ Len(accepted) = Len(otp) /\ Len(otp) <= MaxCodes
        BY DEF CodesTyped, OtpInv, OtpRows
      <3>2. \A h \in OtpRequests : otpReq[h].id \in 1 .. Len(otp) \cup {0}
        BY DEF CodesTyped, OtpInv, OtpRows
      <3>3. \A r \in OtpRow : r.attempts \in Nat
        BY DEF OtpRow
      <3> QED
        BY <3>1, <3>2, <3>3
    <2>2. ASSUME NEW o \in 1 .. Len(otp)
          PROVE  otp[o].attempts <= MaxVerifyAttempts + Cardinality(OtpRequests) - 1
      <3>1. PICK k : k = Cardinality(Weighing(o))
        OBVIOUS
      <3>2. PICK all : all = Cardinality(OtpRequests)
        OBVIOUS
      <3>3. k \in Nat /\ all \in Nat /\ MaxVerifyAttempts \in Nat
        BY <3>1, <3>2, WeighingFinite, OtpConstantsOK
      <3>4. otp[o].attempts + k < MaxVerifyAttempts + all
        BY <3>1, <3>2 DEF CodesTyped, AttemptsBounded
      <3> QED
        BY <2>1, <3>2, <3>3, <3>4
    <2> QED
      BY <2>1, <2>2 DEF OtpTypeOK
  <1> QED
    BY <1>1, <1>2, <1>3, PTL DEF OtpSpec

\* The counters of requests in memory.
BucketsTyped ==
    /\ memoryBucket = [i \in Instances |-> memoryBucket[i]]
    /\ \A i \in Instances : memoryBucket[i] \in Nat

LEMMA BucketsStep == BucketsTyped /\ [GuardNext]_guardVars => BucketsTyped'
  <1> SUFFICES ASSUME BucketsTyped, [GuardNext]_guardVars PROVE BucketsTyped'
    OBVIOUS
  <1> USE DEF BucketsTyped
  <1>1. ASSUME NEW i \in Instances, RateLimiter(i) PROVE BucketsTyped'
    <2>1. PICK more \in Nat : memoryBucket' = [memoryBucket EXCEPT ![i] = more]
      <3>1. \/ memoryBucket' = [memoryBucket EXCEPT ![i] = memoryBucket[i] + 1]
            \/ memoryBucket' = [memoryBucket EXCEPT ![i] = memoryBucket[i]]
        BY <1>1 DEF RateLimiter
      <3> QED
        BY <3>1
    <2> QED
      BY <2>1
  <1>2. CASE GuardRestarts \/ WindowPasses
    BY <1>2 DEF GuardRestarts, WindowPasses
  <1>3. ASSUME NEW h \in LoginRequests,
               \/ AssertNotLockedOut(h) \/ LoginSucceeds(h) \/ RecordFailure(h)
               \/ CountFailure(h) \/ ExpireCounter(h)
        PROVE  BucketsTyped'
    BY <1>3 DEF AssertNotLockedOut, LoginSucceeds, RecordFailure, CountFailure, ExpireCounter
  <1>4. CASE GuardRedisComesAndGoes \/ UNCHANGED guardVars
    BY <1>4 DEF GuardRedisComesAndGoes, guardVars
  <1> QED
    BY <1>1, <1>2, <1>3, <1>4 DEF GuardNext

\* The counters of failures and of requests, in Redis and in memory, are numbers whatever
\* outages and restarts come between them (login-guard.service.ts, rateLimiter.ts).
THEOREM GuardTypesOK == GuardSpec => []GuardTypeOK
  <1>1. GuardInit => BucketsTyped
    BY DEF GuardInit, BucketsTyped
  <1>2. GuardInv /\ UNCHANGED guardVars => GuardInv'
    BY DEF GuardInv, GuardTypes, CountersOK, FailuresBounded, Failing, guardVars
  <1>3. GuardInv /\ [GuardNext]_guardVars => GuardInv'
    BY <1>2, GuardTypesStep, FailuresStep DEF GuardInv
  <1>4. GuardInv /\ BucketsTyped => GuardTypeOK
    BY DEF GuardInv, GuardTypes, BucketsTyped, GuardTypeOK
  <1> QED
    BY GuardInvInit, <1>1, BucketsStep, <1>3, <1>4, PTL DEF GuardSpec
===============================================================================
