---------------------------- MODULE Platform_proofs ---------------------------
(***************************************************************************)
(* Proofs about the locks of the jobs, tickets, the media library, the     *)
(* tree of categories and the cached pages, for any number of handlers,    *)
(* rounds, messages and rows; and what they and the proofs about access    *)
(* and the chat say of the platform.                                       *)
(***************************************************************************)
EXTENDS Platform, Access_proofs, Chat_proofs, SequenceTheorems
-------------------------------------------------------------------------------
(* The lock of a job: a token has one round, and that round has the key.   *)

LockSpec == LockInit /\ [][LockNext]_lockVars

\* What a round carries: a token while it holds or held a key, none otherwise.
RoundOK(r) ==
    /\ round[r].phase \in {"idle", "run", "release"}
    /\ round[r].token \in 1 .. tokens \cup {NoToken}
    /\ round[r].phase = "idle" => round[r].token = NoToken
    /\ round[r].phase = "run" => (round[r].token = NoToken <=> r \in unlocked)
    /\ r \in unlocked => round[r].phase = "run"

\* A token has one round, and that round the key, unless the key expired under it.
KeyOK(r) ==
    /\ round[r].token # NoToken => round[r].token = lock \/ r \in heldTooLong
    /\ \A s \in Rounds : s # r /\ round[r].token # NoToken => round[s].token # round[r].token

LockInv ==
    /\ tokens \in 0 .. MaxTokens
    /\ lock \in 1 .. tokens \cup {NoToken}
    /\ round \in [Rounds -> [phase : {"idle", "run", "release"}, token : 1 .. MaxTokens \cup {NoToken}]]
    /\ unlocked \subseteq Rounds
    /\ \A r \in Rounds : RoundOK(r) /\ KeyOK(r)

LEMMA LockInvInit == LockInit => LockInv
  BY LockConstantsOK DEF LockInit, LockInv, RoundOK, KeyOK, IdleRound

LEMMA LockInvStep == LockInv /\ [LockNext]_lockVars => LockInv'
  <1> SUFFICES ASSUME LockInv, [LockNext]_lockVars PROVE LockInv'
    OBVIOUS
  <1> USE LockConstantsOK DEF LockInv, RoundOK, KeyOK, IdleRound
  <1>1. ASSUME NEW r \in Rounds, RunWithoutLock(r) PROVE LockInv'
    BY <1>1 DEF RunWithoutLock
  <1>2. ASSUME NEW r \in Rounds, AcquireLock(r) PROVE LockInv'
    BY <1>2 DEF AcquireLock
  <1>3. ASSUME NEW r \in Rounds, JobEnds(r) PROVE LockInv'
    BY <1>3 DEF JobEnds
  <1>4. ASSUME NEW r \in Rounds, ReleaseLock(r) PROVE LockInv'
    BY <1>4 DEF ReleaseLock, ReleasedByOwner
  <1>5. ASSUME NEW r \in Rounds, RoundLost(r) PROVE LockInv'
    BY <1>5 DEF RoundLost
  <1>6. CASE LockExpires
    BY <1>6 DEF LockExpires
  <1>7. CASE LockRedisComesAndGoes
    BY <1>7 DEF LockRedisComesAndGoes
  <1>8. CASE UNCHANGED lockVars
    BY <1>8 DEF lockVars
  <1> QED
    BY <1>1, <1>2, <1>3, <1>4, <1>5, <1>6, <1>7, <1>8 DEF LockNext

LEMMA LockInvExcludes == LockInv => JobsExcluded
  <1> SUFFICES ASSUME LockInv PROVE JobsExcluded
    OBVIOUS
  <1> DEFINE guarded == {r \in Rounds : round[r].phase = "run"} \ (heldTooLong \cup unlocked)
  <1>1. \A r \in guarded : round[r].token # NoToken /\ round[r].token = lock
    BY DEF LockInv, RoundOK, KeyOK
  <1>2. \A r, s \in guarded : r = s
    BY <1>1 DEF LockInv, KeyOK
  <1>3. Cardinality(guarded) <= 1
    <2>1. CASE guarded = {}
      BY <2>1, FS_EmptySet
    <2>2. CASE guarded # {}
      <3>1. PICK r : guarded = {r}
        BY <2>2, <1>2
      <3> HIDE DEF guarded
      <3>2. Cardinality({r}) = 1
        BY FS_Singleton
      <3> QED
        BY <3>1, <3>2
    <2> QED
      BY <2>1, <2>2
  <1> QED
    BY <1>1, <1>3 DEF JobsExcluded

\* At most one round runs the job on a key it still has, for any number of instances and
\* rounds, however they end, die, outlive their key or lose Redis (distributedLock.ts
\* 14-55).
THEOREM LockExcludesRounds == LockSpec => []JobsExcluded
  <1>1. LockSpec => []LockInv
    BY LockInvInit, LockInvStep, PTL DEF LockSpec
  <1> QED
    BY <1>1, LockInvExcludes, PTL
-------------------------------------------------------------------------------
(* Tickets: what a job that was not overtaken knows when it closes.         *)

TicketSpec == TicketsInit /\ [][TicketsNext]_ticketVars

Message == [by : {"USER", "ADMIN"}, old : BOOLEAN]

TicketRows ==
    /\ ticketMessages \in Seq(Message)
    /\ closing \in [CloseJobs -> [phase : {"idle", "last", "reply", "close"}, lastAdmin : Nat,
                                  overtaken : BOOLEAN]]
    /\ writer \in [Writers -> {"idle", "USER", "ADMIN"}]

\* Answers are never deleted; the one the job found is old and, while the job is not
\* overtaken, the last, and with the query for replies the last message.
JobOK(j) ==
    LET c == closing[j]
    IN  /\ c.phase = "last" => \E m \in 1 .. Len(ticketMessages) : ticketMessages[m].by = "ADMIN"
        /\ c.phase \in {"last", "reply", "close"} /\ ~c.overtaken => ticketStatus = "ANSWERED"
        /\ c.phase \in {"reply", "close"} =>
              /\ c.lastAdmin \in 1 .. Len(ticketMessages)
              /\ ticketMessages[c.lastAdmin] = [by |-> "ADMIN", old |-> TRUE]
              /\ ~c.overtaken => \A m \in 1 .. Len(ticketMessages) :
                                    m > c.lastAdmin => ticketMessages[m].by = "USER"
        /\ c.phase = "close" /\ ~c.overtaken => c.lastAdmin = Len(ticketMessages)

TicketInv == TicketRows /\ ClosedAfterAnswer /\ \A j \in CloseJobs : JobOK(j)

\* How a job's record moves.
LEMMA JobFields ==
  ASSUME NEW r \in [phase : {"idle", "last", "reply", "close"}, lastAdmin : Nat, overtaken : BOOLEAN],
         NEW p, NEW l
  PROVE  [r EXCEPT !.phase = p, !.lastAdmin = l] = [phase |-> p, lastAdmin |-> l, overtaken |-> r.overtaken]
  <1> DEFINE q == [r EXCEPT !.phase = p, !.lastAdmin = l]
             c == [phase |-> p, lastAdmin |-> l, overtaken |-> r.overtaken]
  <1>1. DOMAIN r = {"phase", "lastAdmin", "overtaken"}
    OBVIOUS
  <1>2. DOMAIN q = {"phase", "lastAdmin", "overtaken"} /\ DOMAIN c = {"phase", "lastAdmin", "overtaken"}
    BY <1>1
  <1>3. q.phase = c.phase /\ q.lastAdmin = c.lastAdmin /\ q.overtaken = c.overtaken
    BY <1>1
  <1> QED
    BY <1>2, <1>3

LEMMA JobPhase ==
  ASSUME NEW r \in [phase : {"idle", "last", "reply", "close"}, lastAdmin : Nat, overtaken : BOOLEAN],
         NEW p \in {"idle", "last", "reply", "close"}
  PROVE  [r EXCEPT !.phase = p] = [phase |-> p, lastAdmin |-> r.lastAdmin, overtaken |-> r.overtaken]
  OBVIOUS

LEMMA TicketInvInit == TicketsInit => TicketInv
  BY DEF TicketsInit, TicketInv, TicketRows, ClosedAfterAnswer, JobOK, IdleJob, Message

\* What a job knows stays true, or the job is overtaken: by another status, or by a
\* message that would count.
LEMMA JobsKeep ==
  ASSUME TicketInv, NEW phases, closing' = JobsOvertaken(phases), UNCHANGED closedOn,
         ticketStatus' = ticketStatus \/ {"last", "reply", "close"} \subseteq phases,
         writer' \in [Writers -> {"idle", "USER", "ADMIN"}],
         \/ UNCHANGED ticketMessages
         \/ \E by \in {"USER", "ADMIN"} :
               /\ ticketMessages' = Append(ticketMessages, [by |-> by, old |-> FALSE])
               /\ "close" \in phases /\ (by = "ADMIN" => "reply" \in phases)
  PROVE  TicketInv'
  <1> DEFINE L == Len(ticketMessages)
  <1>1. /\ ticketMessages \in Seq(Message) /\ L \in Nat
        /\ \A j \in CloseJobs : closing[j].overtaken \in BOOLEAN /\ closing[j].lastAdmin \in Nat
    BY DEF TicketInv, TicketRows
  <1>2. /\ ticketMessages' \in Seq(Message) /\ Len(ticketMessages)' \in {L, L + 1}
        /\ \A m \in 1 .. L : ticketMessages'[m] = ticketMessages[m]
        /\ Len(ticketMessages)' = L + 1 =>
              /\ "close" \in phases
              /\ "reply" \notin phases => ticketMessages'[L + 1].by = "USER"
    <2>1. CASE UNCHANGED ticketMessages
      BY <1>1, <2>1
    <2>2. ASSUME NEW by \in {"USER", "ADMIN"},
                 ticketMessages' = Append(ticketMessages, [by |-> by, old |-> FALSE]),
                 "close" \in phases, by = "ADMIN" => "reply" \in phases
          PROVE  <1>2
      <3> DEFINE new == [by |-> by, old |-> FALSE]
      <3>1. new \in Message /\ new.by = by
        BY DEF Message
      <3> HIDE DEF new
      <3>2. ticketMessages' = Append(ticketMessages, new)
        BY <2>2 DEF new
      <3> QED
        BY <1>1, <2>2, <3>1, <3>2, AppendProperties
    <2> QED
      BY <2>1, <2>2
  <1>3. /\ closing' \in [CloseJobs -> [phase : {"idle", "last", "reply", "close"}, lastAdmin : Nat,
                                       overtaken : BOOLEAN]]
        /\ \A j \in CloseJobs :
              /\ closing'[j].phase = closing[j].phase /\ closing'[j].lastAdmin = closing[j].lastAdmin
              /\ ~closing'[j].overtaken => ~closing[j].overtaken /\ closing[j].phase \notin phases
    BY DEF JobsOvertaken, TicketInv, TicketRows
  <1> HIDE DEF L
  <1>4. ASSUME NEW j \in CloseJobs PROVE JobOK(j)'
    <2>1. JobOK(j)
      BY DEF TicketInv
    <2>2. closing'[j].phase = "last" =>
            \E m \in 1 .. Len(ticketMessages') : ticketMessages'[m].by = "ADMIN"
      BY <1>1, <1>2, <1>3, <2>1 DEF JobOK, L
    <2>3. closing'[j].phase \in {"last", "reply", "close"} /\ ~closing'[j].overtaken => ticketStatus' = "ANSWERED"
      BY <1>3, <2>1 DEF JobOK
    <2>4. closing'[j].phase \in {"reply", "close"} =>
            /\ closing'[j].lastAdmin \in 1 .. Len(ticketMessages')
            /\ ticketMessages'[closing'[j].lastAdmin] = [by |-> "ADMIN", old |-> TRUE]
      BY <1>1, <1>2, <1>3, <2>1 DEF JobOK, L
    <2>5. ASSUME closing'[j].phase \in {"reply", "close"}, ~closing'[j].overtaken,
                 NEW m \in 1 .. Len(ticketMessages'), m > closing'[j].lastAdmin
          PROVE  ticketMessages'[m].by = "USER"
      BY <1>1, <1>2, <1>3, <2>1, <2>5 DEF JobOK, L
    <2>6. closing'[j].phase = "close" /\ ~closing'[j].overtaken => closing'[j].lastAdmin = Len(ticketMessages')
      BY <1>1, <1>2, <1>3, <2>1 DEF JobOK, L
    <2> QED
      BY <2>2, <2>3, <2>4, <2>5, <2>6 DEF JobOK
  <1>5. ClosedAfterAnswer'
    BY DEF TicketInv, ClosedAfterAnswer
  <1> QED
    BY <1>2, <1>3, <1>4, <1>5 DEF TicketInv, TicketRows

\* One job goes on, and the ticket stays as it is.
LEMMA JobMoves ==
  ASSUME TicketInv, NEW j \in CloseJobs,
         NEW c \in [phase : {"idle", "last", "reply", "close"}, lastAdmin : Nat, overtaken : BOOLEAN],
         closing' = [closing EXCEPT ![j] = c],
         UNCHANGED <<ticketStatus, ticketMessages, writer, closedOn>>,
         JobOK(j)'
  PROVE  TicketInv'
  <1>1. TicketRows'
    BY DEF TicketInv, TicketRows
  <1>2. ASSUME NEW k \in CloseJobs PROVE JobOK(k)'
    <2>1. CASE k = j
      BY <2>1
    <2>2. CASE k # j
      <3>1. JobOK(k) /\ closing'[k] = closing[k]
        BY <2>2 DEF TicketInv, TicketRows
      <3> QED
        BY <3>1 DEF JobOK
    <2> QED
      BY <2>1, <2>2
  <1>3. ClosedAfterAnswer'
    BY DEF TicketInv, ClosedAfterAnswer
  <1> QED
    BY <1>1, <1>2, <1>3 DEF TicketInv

LEMMA TicketInvStep == TicketInv /\ [TicketsNext]_ticketVars => TicketInv'
  <1> SUFFICES ASSUME TicketInv, [TicketsNext]_ticketVars PROVE TicketInv'
    OBVIOUS
  <1>0. /\ ticketMessages \in Seq(Message) /\ Len(ticketMessages) \in Nat
        /\ DOMAIN ticketMessages = 1 .. Len(ticketMessages)
        /\ \A m \in 1 .. Len(ticketMessages) : ticketMessages[m] \in Message
        /\ \A j \in CloseJobs : closing[j] \in [phase : {"idle", "last", "reply", "close"},
                                              lastAdmin : Nat, overtaken : BOOLEAN]
        /\ \A j \in CloseJobs : JobOK(j)
    BY DEF TicketInv, TicketRows
  <1>1. ASSUME NEW w \in Writers, NEW by \in {"USER", "ADMIN"}, WriteMessage(w, by) PROVE TicketInv'
    <2>1. writer' \in [Writers -> {"idle", "USER", "ADMIN"}]
      BY <1>1 DEF WriteMessage, TicketInv, TicketRows
    <2> DEFINE phases == IF by = "ADMIN" THEN {"reply", "close"} ELSE {"close"}
    <2>2. /\ closing' = JobsOvertaken(phases) /\ UNCHANGED <<closedOn, ticketStatus>>
          /\ ticketMessages' = Append(ticketMessages, [by |-> by, old |-> FALSE])
          /\ "close" \in phases /\ (by = "ADMIN" => "reply" \in phases)
      BY <1>1 DEF WriteMessage
    <2> HIDE DEF phases
    <2> QED
      BY <2>1, <2>2, JobsKeep
  <1>2. ASSUME NEW w \in Writers, SetStatusAfterMessage(w) PROVE TicketInv'
    <2>1. writer' \in [Writers -> {"idle", "USER", "ADMIN"}]
      BY <1>2 DEF SetStatusAfterMessage, TicketInv, TicketRows
    <2> QED
      BY <1>2, <2>1, JobsKeep DEF SetStatusAfterMessage, StatusOvertaken
  <1>3. ASSUME NEW status \in TicketStatuses, UpdateTicketMeta(status) PROVE TicketInv'
    <2>1. writer' \in [Writers -> {"idle", "USER", "ADMIN"}]
      BY <1>3 DEF UpdateTicketMeta, TicketInv, TicketRows
    <2> QED
      BY <1>3, <2>1, JobsKeep DEF UpdateTicketMeta, StatusOvertaken
  <1>4. ASSUME NEW j \in CloseJobs, FindTicket(j) PROVE TicketInv'
    <2> DEFINE c == [phase |-> "last", lastAdmin |-> 0, overtaken |-> FALSE]
    <2>1. closing' = [closing EXCEPT ![j] = c] /\ closing'[j] = c
      <3>1. [IdleJob EXCEPT !.phase = "last"] = c
        <4>1. IdleJob \in [phase : {"idle", "last", "reply", "close"}, lastAdmin : Nat, overtaken : BOOLEAN]
          BY DEF IdleJob
        <4>2. IdleJob.lastAdmin = 0 /\ IdleJob.overtaken = FALSE
          BY DEF IdleJob
        <4> QED
          BY <4>1, <4>2, JobPhase
      <3>2. closing' = [closing EXCEPT ![j] = [IdleJob EXCEPT !.phase = "last"]]
        BY <1>4 DEF FindTicket
      <3>3. DOMAIN closing = CloseJobs
        BY DEF TicketInv, TicketRows
      <3> HIDE DEF c
      <3>4. closing' = [closing EXCEPT ![j] = c]
        BY <3>1, <3>2
      <3> QED
        BY <3>3, <3>4
    <2>2. \E m \in 1 .. Len(ticketMessages) : ticketMessages[m].by = "ADMIN"
      BY <1>0, <1>4 DEF FindTicket, Answers
    <2>3. UNCHANGED <<ticketStatus, ticketMessages, writer, closedOn>> /\ ticketStatus = "ANSWERED"
      BY <1>4 DEF FindTicket
    <2>4. JobOK(j)'
      BY <2>1, <2>2, <2>3 DEF JobOK
    <2> QED
      BY <2>1, <2>3, <2>4, JobMoves
  <1>5. ASSUME NEW j \in CloseJobs, FindLastAnswer(j) PROVE TicketInv'
    <2> DEFINE last == Max(Answers)
    <2>1. Answers \in SUBSET (1 .. Len(ticketMessages)) /\ Answers # {}
      BY <1>0, <1>5 DEF FindLastAnswer, Answers, JobOK
    <2>2. last \in Answers /\ \A m \in Answers : last >= m
      BY <1>0, <2>1, MaxIsGreatest
    <2>3. /\ UNCHANGED <<ticketStatus, ticketMessages, writer, closedOn>>
          /\ closing' = [closing EXCEPT ![j] =
                IF ticketMessages[last].old THEN [closing[j] EXCEPT !.phase = "reply", !.lastAdmin = last]
                ELSE IdleJob]
          /\ closing[j].phase = "last"
      BY <1>5 DEF FindLastAnswer
    <2> HIDE DEF last
    <2>4. /\ last \in 1 .. Len(ticketMessages) /\ ticketMessages[last].by = "ADMIN"
          /\ \A m \in 1 .. Len(ticketMessages) : m > last => ticketMessages[m].by = "USER"
      BY <1>0, <2>1, <2>2 DEF Answers, Message
    <2>5. CASE ticketMessages[last].old
      <3> DEFINE c == [phase |-> "reply", lastAdmin |-> last, overtaken |-> closing[j].overtaken]
      <3>1. closing' = [closing EXCEPT ![j] = c] /\ closing'[j] = c
        <4>1. [closing[j] EXCEPT !.phase = "reply", !.lastAdmin = last] = c
          <5>1. closing[j] \in [phase : {"idle", "last", "reply", "close"}, lastAdmin : Nat, overtaken : BOOLEAN]
            BY DEF TicketInv, TicketRows
          <5> QED
            BY <5>1, JobFields
        <4>2. closing' = [closing EXCEPT ![j] = [closing[j] EXCEPT !.phase = "reply", !.lastAdmin = last]]
          BY <2>3, <2>5
        <4>3. DOMAIN closing = CloseJobs
          BY DEF TicketInv, TicketRows
        <4> HIDE DEF c
        <4>4. closing' = [closing EXCEPT ![j] = c]
          BY <4>1, <4>2
        <4> QED
          BY <4>3, <4>4
      <3>2. c \in [phase : {"idle", "last", "reply", "close"}, lastAdmin : Nat, overtaken : BOOLEAN]
        BY <1>0, <2>4
      <3>3. ticketMessages[last] = [by |-> "ADMIN", old |-> TRUE]
        BY <1>0, <2>4, <2>5 DEF Message
      <3>4. ~closing[j].overtaken => ticketStatus = "ANSWERED"
        BY <1>0, <2>3 DEF JobOK
      <3>5. JobOK(j)'
        BY <2>3, <2>4, <3>1, <3>3, <3>4 DEF JobOK
      <3> HIDE DEF c
      <3> QED
        BY <2>3, <3>1, <3>2, <3>5, JobMoves
    <2>6. CASE ~ticketMessages[last].old
      <3>1. closing' = [closing EXCEPT ![j] = IdleJob] /\ closing'[j] = IdleJob
        BY <2>3, <2>6 DEF TicketInv, TicketRows
      <3>2. JobOK(j)'
        BY <3>1 DEF JobOK, IdleJob
      <3> QED
        BY <2>3, <3>1, <3>2, JobMoves DEF IdleJob
    <2> QED
      BY <2>5, <2>6
  <1>6. ASSUME NEW j \in CloseJobs, FindReply(j) PROVE TicketInv'
    <2>1. /\ UNCHANGED <<ticketStatus, ticketMessages, writer, closedOn>> /\ closing[j].phase = "reply"
          /\ closing' = [closing EXCEPT ![j] =
                IF RepliedAfter(closing[j].lastAdmin) THEN IdleJob ELSE [closing[j] EXCEPT !.phase = "close"]]
      BY <1>6 DEF FindReply
    <2>2. CASE RepliedAfter(closing[j].lastAdmin)
      <3>1. closing' = [closing EXCEPT ![j] = IdleJob] /\ closing'[j] = IdleJob
        BY <2>1, <2>2 DEF TicketInv, TicketRows
      <3>2. JobOK(j)'
        BY <3>1 DEF JobOK, IdleJob
      <3> QED
        BY <2>1, <3>1, <3>2, JobMoves DEF IdleJob
    <2>3. CASE ~RepliedAfter(closing[j].lastAdmin)
      <3> DEFINE c == [phase |-> "close", lastAdmin |-> closing[j].lastAdmin, overtaken |-> closing[j].overtaken]
      <3>1. closing' = [closing EXCEPT ![j] = c] /\ closing'[j] = c
        <4>1. [closing[j] EXCEPT !.phase = "close"] = c
          BY DEF TicketInv, TicketRows
        <4>2. closing' = [closing EXCEPT ![j] = [closing[j] EXCEPT !.phase = "close"]]
          BY <2>1, <2>3
        <4>3. DOMAIN closing = CloseJobs
          BY DEF TicketInv, TicketRows
        <4> HIDE DEF c
        <4>4. closing' = [closing EXCEPT ![j] = c]
          BY <4>1, <4>2
        <4> QED
          BY <4>3, <4>4
      <3>2. c \in [phase : {"idle", "last", "reply", "close"}, lastAdmin : Nat, overtaken : BOOLEAN]
        BY <1>0
      <3>3. \A m \in 1 .. Len(ticketMessages) : m > closing[j].lastAdmin => ticketMessages[m].by # "USER"
        BY <1>0, <2>3 DEF RepliedAfter
      <3>4. JobOK(j)
        BY <1>0
      <3>5. ~closing[j].overtaken => closing[j].lastAdmin = Len(ticketMessages)
        BY <1>0, <2>1, <3>3, <3>4 DEF JobOK
      <3>6. JobOK(j)'
        BY <2>1, <3>1, <3>4, <3>5 DEF JobOK
      <3> HIDE DEF c
      <3> QED
        BY <2>1, <3>1, <3>2, <3>6, JobMoves
    <2> QED
      BY <2>2, <2>3
  <1>7. ASSUME NEW j \in CloseJobs, CloseTicket(j) PROVE TicketInv'
    <2>1. /\ ticketMessages' = ticketMessages /\ writer' = writer /\ closing[j].phase = "close"
          /\ closing' = [StatusOvertaken EXCEPT ![j] = IdleJob]
          /\ closedOn' = [status |-> ticketStatus, messages |-> ticketMessages, overtaken |-> closing[j].overtaken]
      BY <1>7 DEF CloseTicket
    <2>2. TicketRows'
      BY <1>0, <2>1 DEF TicketInv, TicketRows, StatusOvertaken, JobsOvertaken, IdleJob
    <2>3. ASSUME NEW k \in CloseJobs PROVE JobOK(k)'
      <3>1. CASE k = j
        <4>1. closing'[k] = IdleJob
          BY <2>1, <3>1 DEF StatusOvertaken, JobsOvertaken
        <4> QED
          BY <4>1 DEF JobOK, IdleJob
      <3>2. CASE k # j
        <4>1. /\ closing'[k].phase = closing[k].phase /\ closing'[k].lastAdmin = closing[k].lastAdmin
              /\ closing[k].phase \in {"last", "reply", "close"} => closing'[k].overtaken
          BY <1>0, <2>1, <3>2 DEF StatusOvertaken, JobsOvertaken
        <4>2. JobOK(k)
          BY <1>0
        <4> QED
          BY <2>1, <4>1, <4>2 DEF JobOK
      <3> QED
        BY <3>1, <3>2
    <2>4. ClosedAfterAnswer'
      <3>1. ASSUME ~closing[j].overtaken
            PROVE  ticketStatus = "ANSWERED" /\ Last(ticketMessages) = [by |-> "ADMIN", old |-> TRUE]
        BY <1>0, <2>1, <3>1 DEF JobOK, Last
      <3> QED
        BY <2>1, <3>1 DEF ClosedAfterAnswer
    <2> QED
      BY <2>2, <2>3, <2>4 DEF TicketInv
  <1>8. CASE MessageAges
    <2>1. PICK o \in 1 .. Len(ticketMessages) : ticketMessages' = [ticketMessages EXCEPT ![o].old = TRUE]
      BY <1>0, <1>8 DEF MessageAges
    <2> DEFINE aged == [ticketMessages[o] EXCEPT !.old = TRUE]
    <2>2. aged \in Message /\ aged.by = ticketMessages[o].by /\ aged.old = TRUE
      BY <1>0 DEF Message
    <2>3. ticketMessages' = [ticketMessages EXCEPT ![o] = aged]
      BY <2>1
    <2> HIDE DEF aged
    <2>4. /\ ticketMessages' \in Seq(Message) /\ Len(ticketMessages') = Len(ticketMessages)
          /\ \A m \in 1 .. Len(ticketMessages) :
                /\ ticketMessages'[m].by = ticketMessages[m].by
                /\ ticketMessages[m].old = TRUE => ticketMessages'[m].old = TRUE
                /\ ticketMessages'[m] \in Message
      BY <1>0, <2>2, <2>3, ExceptSeq
    <2>5. ASSUME NEW m \in 1 .. Len(ticketMessages), ticketMessages[m] = [by |-> "ADMIN", old |-> TRUE]
          PROVE  ticketMessages'[m] = [by |-> "ADMIN", old |-> TRUE]
      <3>1. ticketMessages[m].by = "ADMIN" /\ ticketMessages[m].old = TRUE
        BY <2>5
      <3>2. ticketMessages'[m].by = "ADMIN" /\ ticketMessages'[m].old = TRUE /\ ticketMessages'[m] \in Message
        BY <2>4, <3>1
      <3> QED
        BY <3>2 DEF Message
    <2>6. UNCHANGED <<ticketStatus, writer, closing, closedOn>>
      BY <1>8 DEF MessageAges
    <2>7. ASSUME NEW j \in CloseJobs PROVE JobOK(j)'
      <3>1. JobOK(j)
        BY <1>0
      <3> QED
        BY <2>4, <2>5, <2>6, <3>1 DEF JobOK
    <2> QED
      BY <2>4, <2>6, <2>7 DEF TicketInv, TicketRows, ClosedAfterAnswer
  <1>9. CASE TicketServerRestarts
    <2>1. TicketRows'
      BY <1>9 DEF TicketServerRestarts, TicketInv, TicketRows, IdleJob
    <2>2. \A j \in CloseJobs : JobOK(j)'
      BY <1>9 DEF TicketServerRestarts, JobOK, IdleJob
    <2> QED
      BY <1>9, <2>1, <2>2 DEF TicketServerRestarts, TicketInv, ClosedAfterAnswer
  <1>10. CASE UNCHANGED ticketVars
    BY <1>10 DEF ticketVars, TicketInv, TicketRows, JobOK, ClosedAfterAnswer
  <1> QED
    BY <1>1, <1>2, <1>3, <1>4, <1>5, <1>6, <1>7, <1>8, <1>9, <1>10 DEF TicketsNext

\* A ticket that the job closes without being overtaken had an old answer of support as
\* its last word, for any number of messages, writers and jobs (auto-close-tickets.job.ts
\* 8-42).
THEOREM TicketsCloseAnswered == TicketSpec => []ClosedAfterAnswer
  <1>1. TicketSpec => []TicketInv
    BY TicketInvInit, TicketInvStep, PTL DEF TicketSpec
  <1>2. TicketInv => ClosedAfterAnswer
    BY DEF TicketInv
  <1> QED
    BY <1>1, <1>2, PTL
-------------------------------------------------------------------------------
(* The media library: what is removed is not shown.                          *)

MediaSpec == MediaInit /\ [][MediaNext]_mediaVars

MediaTyped ==
    /\ stored \in 0 .. MaxMedia
    /\ files \cup RowIds \subseteq 1 .. stored
    /\ use = [m \in 1 .. MaxMedia |-> use[m]]
    /\ \A m \in 1 .. MaxMedia : use[m] \subseteq Uses /\ (use[m] # {} => m \in RowIds)
    /\ uploading = [u \in Uploads |-> uploading[u]] /\ removing = [d \in MediaDeletions |-> removing[d]]
    /\ \A u \in Uploads :
          /\ DOMAIN uploading[u] = {"left", "together", "waiting", "ids", "kind"}
          /\ uploading[u].left \in Nat
          /\ uploading[u].waiting \cup uploading[u].ids \subseteq 1 .. stored
          /\ uploading[u].kind \in Uses \cup {"none", "failed"}
    /\ \A d \in MediaDeletions :
          /\ DOMAIN removing[d] = {"phase", "todo", "file", "folder"}
          /\ removing[d].todo \subseteq 1 .. stored
          /\ removing[d].file \in 0 .. stored
          /\ removing[d].phase \in {"delete", "forced"} => removing[d].file # NoFile

\* What is stored without a row is another request's business, of no deletion, and there
\* unless a folder was swept.
WaitingOK ==
    \A u \in Uploads :
        /\ uploading[u].waiting \cap RowIds = {} /\ uploading[u].waiting \subseteq files \cup unsafe
        /\ \A v \in Uploads : v # u => uploading[u].waiting \cap uploading[v].waiting = {}
        /\ \A d \in MediaDeletions :
              uploading[u].waiting \cap (removing[d].todo \cup {removing[d].file}) = {}

\* A row has its file, but for one that a deletion is about to delete.
RowsHaveFiles ==
    \A m \in RowIds : m \in files \cup unsafe
                         \/ \E d \in MediaDeletions : removing[d].phase = "delete" /\ removing[d].file = m

\* What is being removed is not shown, or was attached since; after a forced deletion
\* there is no row to attach.
RemovalsOK ==
    \A d \in MediaDeletions :
        /\ \A m \in 1 .. stored : m \in removing[d].todo \cup {removing[d].file} =>
              use[m] = {} \/ m \in unsafe
        /\ removing[d].phase = "forced" => removing[d].file \notin RowIds

MediaInv == MediaTyped /\ WaitingOK /\ RowsHaveFiles /\ RemovalsOK

LEMMA MediaInvInit == MediaInit => MediaInv
  <1> SUFFICES ASSUME MediaInit PROVE MediaInv
    OBVIOUS
  <1>1. /\ files = {} /\ RowIds = {} /\ stored = 0 /\ stored \in 0 .. MaxMedia
        /\ use = [m \in 1 .. MaxMedia |-> {}] /\ unsafe = {}
        /\ uploading = [u \in Uploads |-> IdleUpload]
        /\ removing = [d \in MediaDeletions |-> IdleRemoval]
    BY MediaConstantsOK DEF MediaInit, RowIds
  <1>2. /\ IdleUpload.waiting = {} /\ IdleUpload.ids = {} /\ IdleUpload.left = 0 /\ IdleUpload.kind = "none"
        /\ DOMAIN IdleUpload = {"left", "together", "waiting", "ids", "kind"}
    BY DEF IdleUpload
  <1>3. /\ IdleRemoval.phase = "idle" /\ IdleRemoval.todo = {} /\ IdleRemoval.file = 0
        /\ DOMAIN IdleRemoval = {"phase", "todo", "file", "folder"}
    BY DEF IdleRemoval, NoFile
  <1>4. MediaTyped
    BY <1>1, <1>2, <1>3 DEF MediaTyped
  <1>5. WaitingOK /\ RowsHaveFiles /\ RemovalsOK
    BY <1>1, <1>2, <1>3 DEF WaitingOK, RowsHaveFiles, RemovalsOK
  <1> QED
    BY <1>4, <1>5 DEF MediaInv

\* An upload goes on, and nothing else changes.
LEMMA UploadMoves ==
  ASSUME MediaInv, NEW u \in Uploads, NEW r, uploading' = [uploading EXCEPT ![u] = r],
         DOMAIN r = {"left", "together", "waiting", "ids", "kind"}, r.left \in Nat,
         r.waiting \subseteq uploading[u].waiting, r.ids \subseteq 1 .. stored,
         r.kind \in Uses \cup {"none", "failed"},
         UNCHANGED <<files, row, use, stored, removing, unsafe>>
  PROVE  MediaInv'
  <1>1. /\ uploading' = [v \in Uploads |-> uploading'[v]] /\ uploading'[u] = r
        /\ \A v \in Uploads \ {u} : uploading'[v] = uploading[v]
    BY DEF MediaInv, MediaTyped
  <1>2. RowIds' = RowIds
    BY DEF RowIds
  <1>3. MediaTyped'
    BY <1>1, <1>2 DEF MediaInv, MediaTyped
  <1>4. WaitingOK'
    <2>1. \A v \in Uploads : uploading'[v].waiting \subseteq uploading[v].waiting
      BY <1>1
    <2> QED
      BY <1>2, <2>1 DEF MediaInv, WaitingOK
  <1>5. RowsHaveFiles' /\ RemovalsOK'
    BY <1>2 DEF MediaInv, RowsHaveFiles, RemovalsOK
  <1> QED
    BY <1>3, <1>4, <1>5 DEF MediaInv

LEMMA BeginKeeps ==
  ASSUME MediaInv, NEW u \in Uploads, NEW n \in Nat, NEW together, NEW what \in Uses \cup {"none"},
         BeginUpload(u, n, together, what)
  PROVE  MediaInv'
  <1>1. PICK r : r = [IdleUpload EXCEPT !.left = n, !.together = together, !.kind = what]
    OBVIOUS
  <1>2. /\ DOMAIN r = {"left", "together", "waiting", "ids", "kind"} /\ r.left = n /\ r.waiting = {}
        /\ r.ids = {} /\ r.kind = what
    BY <1>1 DEF IdleUpload
  <1>3. uploading' = [uploading EXCEPT ![u] = r] /\ UNCHANGED <<files, row, use, stored, removing, unsafe>>
    BY <1>1 DEF BeginUpload
  <1> QED
    BY <1>2, <1>3, UploadMoves

LEMMA StoreKeeps ==
  ASSUME MediaInv, NEW u \in Uploads, StoreFile(u)
  PROVE  MediaInv'
  <1> DEFINE n == IF uploading[u].together THEN uploading[u].left ELSE 1
             new == stored + 1 .. stored + n
  <1>1. /\ uploading[u].left > 0 /\ uploading[u].waiting = {} /\ stored + n <= MaxMedia
        /\ stored' = stored + n /\ files' = files \cup new
        /\ uploading' = [uploading EXCEPT ![u] = [uploading[u] EXCEPT !.left = uploading[u].left - n,
                                             !.together = FALSE, !.waiting = new]]
        /\ UNCHANGED <<row, use, removing, unsafe>>
    BY DEF StoreFile
  <1>2. n \in Nat \ {0} /\ uploading[u].left - n \in Nat /\ stored \in Nat /\ MaxMedia \in Nat
    BY <1>1, MediaConstantsOK DEF MediaInv, MediaTyped
  <1>3. PICK r : r = [uploading[u] EXCEPT !.left = uploading[u].left - n, !.together = FALSE, !.waiting = new]
    OBVIOUS
  <1>4. /\ DOMAIN r = {"left", "together", "waiting", "ids", "kind"} /\ r.left = uploading[u].left - n
        /\ r.waiting = new /\ r.ids = uploading[u].ids /\ r.kind = uploading[u].kind
    <2>1. DOMAIN uploading[u] = {"left", "together", "waiting", "ids", "kind"}
      BY DEF MediaInv, MediaTyped
    <2> HIDE DEF n, new
    <2> QED
      BY <1>3, <2>1
  <1>5. /\ uploading' = [v \in Uploads |-> uploading'[v]] /\ uploading'[u] = r
        /\ \A v \in Uploads \ {u} : uploading'[v] = uploading[v]
    BY <1>1, <1>3 DEF MediaInv, MediaTyped
  <1>6. RowIds' = RowIds
    BY <1>1 DEF RowIds
  <1>7. 1 .. stored \subseteq 1 .. stored' /\ new \subseteq 1 .. stored' /\ new \cap 1 .. stored = {}
        /\ stored' \in 0 .. MaxMedia
    <2> HIDE DEF n
    <2> QED
      BY <1>1, <1>2
  <1> HIDE DEF n, new
  <1>8. MediaTyped'
    <2>1. \A v \in Uploads :
            /\ DOMAIN uploading'[v] = {"left", "together", "waiting", "ids", "kind"}
            /\ uploading'[v].left \in Nat
            /\ uploading'[v].waiting \cup uploading'[v].ids \subseteq 1 .. stored'
            /\ uploading'[v].kind \in Uses \cup {"none", "failed"}
      BY <1>2, <1>4, <1>5, <1>7 DEF MediaInv, MediaTyped
    <2>2. \A d \in MediaDeletions :
            /\ DOMAIN removing[d] = {"phase", "todo", "file", "folder"}
            /\ removing[d].todo \subseteq 1 .. stored'
            /\ removing[d].file \in 0 .. stored'
            /\ removing[d].phase \in {"delete", "forced"} => removing[d].file # NoFile
      BY <1>1, <1>2, <1>7 DEF MediaInv, MediaTyped
    <2>3. files' \cup RowIds' \subseteq 1 .. stored'
      BY <1>1, <1>6, <1>7 DEF MediaInv, MediaTyped
    <2> QED
      BY <1>1, <1>5, <1>6, <1>7, <2>1, <2>2, <2>3 DEF MediaInv, MediaTyped
  <1>9. WaitingOK'
    <2>1. \A v \in Uploads : uploading'[v].waiting = IF v = u THEN new ELSE uploading[v].waiting
      BY <1>4, <1>5
    <2>2. \A v \in Uploads : uploading[v].waiting \subseteq 1 .. stored
      BY DEF MediaInv, MediaTyped
    <2>3. \A d \in MediaDeletions : new \cap (removing[d].todo \cup {removing[d].file}) = {}
      <3> SUFFICES ASSUME NEW d \in MediaDeletions PROVE new \cap (removing[d].todo \cup {removing[d].file}) = {}
        OBVIOUS
      <3>1. removing[d].todo \subseteq 1 .. stored /\ removing[d].file \in {0} \cup 1 .. stored
        BY <1>2 DEF MediaInv, MediaTyped
      <3>2. 0 \notin new
        BY <1>7
      <3> QED
        BY <1>7, <3>1, <3>2
    <2>4. new \cap RowIds = {}
      BY <1>7 DEF MediaInv, MediaTyped
    <2> QED
      BY <1>1, <1>6, <1>7, <2>1, <2>2, <2>3, <2>4 DEF MediaInv, WaitingOK
  <1>10. RowsHaveFiles'
    BY <1>1, <1>6 DEF MediaInv, RowsHaveFiles
  <1>11. RemovalsOK'
    <2>1. ASSUME NEW d \in MediaDeletions, NEW m \in 1 .. stored', m \in removing[d].todo \cup {removing[d].file}
          PROVE  use[m] = {} \/ m \in unsafe
      <3>1. m \in 1 .. stored
        <4>1. removing[d].todo \subseteq 1 .. stored /\ removing[d].file \in 0 .. stored
          BY DEF MediaInv, MediaTyped
        <4> QED
          BY <1>2, <2>1, <4>1
      <3> QED
        BY <2>1, <3>1 DEF MediaInv, RemovalsOK
    <2> QED
      BY <1>1, <1>6, <2>1 DEF MediaInv, RemovalsOK
  <1> QED
    BY <1>8, <1>9, <1>10, <1>11 DEF MediaInv

LEMMA CreateRowKeeps ==
  ASSUME MediaInv, NEW u \in Uploads, NEW m \in 1 .. MaxMedia, NEW named, CreateMediaRow(u, m, named)
  PROVE  MediaInv'
  <1> DEFINE ids == IF NoEntity(u) THEN {} ELSE uploading[u].ids \cup {m}
  <1>1. /\ m \in uploading[u].waiting
        /\ row' = [n \in RowIds \cup {m} |-> IF n = m THEN named ELSE row[n]]
        /\ uploading' = [uploading EXCEPT ![u].waiting = uploading[u].waiting \ {m}, ![u].ids = ids]
        /\ UNCHANGED <<files, use, stored, removing, unsafe>>
    BY DEF CreateMediaRow
  <1> HIDE DEF ids
  <1>2. ids \subseteq 1 .. stored
    BY <1>1 DEF ids, MediaInv, MediaTyped
  <1>3. /\ uploading' = [v \in Uploads |-> uploading'[v]]
        /\ uploading'[u] = [uploading[u] EXCEPT !.waiting = uploading[u].waiting \ {m}, !.ids = ids]
        /\ \A v \in Uploads \ {u} : uploading'[v] = uploading[v]
    BY <1>1 DEF MediaInv, MediaTyped
  <1>4. /\ DOMAIN uploading'[u] = {"left", "together", "waiting", "ids", "kind"}
        /\ uploading'[u].left = uploading[u].left /\ uploading'[u].waiting = uploading[u].waiting \ {m}
        /\ uploading'[u].ids = ids /\ uploading'[u].kind = uploading[u].kind
    <2>1. DOMAIN uploading[u] = {"left", "together", "waiting", "ids", "kind"}
      BY DEF MediaInv, MediaTyped
    <2> QED
      BY <1>3, <2>1
  <1>5. RowIds' = RowIds \cup {m}
    BY <1>1 DEF RowIds
  <1>6. /\ m \in 1 .. stored /\ m \in files \cup unsafe
        /\ \A v \in Uploads : v # u => m \notin uploading[v].waiting
        /\ \A d \in MediaDeletions : m \notin removing[d].todo \cup {removing[d].file}
    BY <1>1 DEF MediaInv, MediaTyped, WaitingOK
  <1>7. MediaTyped'
    <2>1. \A v \in Uploads :
            /\ DOMAIN uploading'[v] = {"left", "together", "waiting", "ids", "kind"}
            /\ uploading'[v].left \in Nat
            /\ uploading'[v].waiting \cup uploading'[v].ids \subseteq 1 .. stored'
            /\ uploading'[v].kind \in Uses \cup {"none", "failed"}
      BY <1>1, <1>2, <1>3, <1>4 DEF MediaInv, MediaTyped
    <2> QED
      BY <1>1, <1>3, <1>5, <1>6, <2>1 DEF MediaInv, MediaTyped
  <1>8. WaitingOK'
    <2>1. \A v \in Uploads : uploading'[v].waiting \subseteq uploading[v].waiting \ {m}
      BY <1>3, <1>4, <1>6
    <2> QED
      BY <1>1, <1>5, <2>1 DEF MediaInv, WaitingOK
  <1>9. RowsHaveFiles'
    BY <1>1, <1>5, <1>6 DEF MediaInv, RowsHaveFiles
  <1>10. RemovalsOK'
    BY <1>1, <1>5, <1>6 DEF MediaInv, RemovalsOK
  <1> QED
    BY <1>7, <1>8, <1>9, <1>10 DEF MediaInv

LEMMA SavingFailsKeeps ==
  ASSUME MediaInv, NEW u \in Uploads, NEW m \in 1 .. MaxMedia, SavingFails(u, m)
  PROVE  MediaInv'
  <1>1. PICK r : r = IF uploading[u].waiting = {m} THEN IdleUpload
                     ELSE [uploading[u] EXCEPT !.waiting = uploading[u].waiting \ {m},
                                               !.ids = {}, !.kind = "failed"]
    OBVIOUS
  <1>2. uploading' = [uploading EXCEPT ![u] = r] /\ UNCHANGED <<files, row, use, stored, removing, unsafe>>
    BY <1>1 DEF SavingFails
  <1>3. /\ DOMAIN uploading[u] = {"left", "together", "waiting", "ids", "kind"} /\ uploading[u].left \in Nat
    BY DEF MediaInv, MediaTyped
  <1>4. /\ DOMAIN r = {"left", "together", "waiting", "ids", "kind"} /\ r.left \in Nat
        /\ r.waiting \subseteq uploading[u].waiting /\ r.ids = {} /\ r.kind \in {"none", "failed"}
    BY <1>1, <1>3 DEF IdleUpload
  <1> QED
    BY <1>2, <1>4, UploadMoves

\* References to rows, that are there.
LEMMA ReferredKeeps ==
  ASSUME MediaInv, NEW ids \in SUBSET RowIds, NEW what \in Uses, Referred(ids, what),
         uploading' = [v \in Uploads |-> uploading'[v]],
         \A v \in Uploads : uploading'[v] \in {uploading[v], IdleUpload},
         UNCHANGED <<files, row, stored, removing>>
  PROVE  MediaInv'
  <1>1. /\ use' = [m \in 1 .. MaxMedia |-> use'[m]]
        /\ \A m \in 1 .. MaxMedia : use'[m] = IF m \in ids THEN use[m] \cup {what} ELSE use[m]
        /\ unsafe' = unsafe \cup {m \in ids : BeingRemoved(m)}
    BY DEF Referred
  <1>2. RowIds' = RowIds
    BY DEF RowIds
  <1>3. /\ DOMAIN IdleUpload = {"left", "together", "waiting", "ids", "kind"} /\ IdleUpload.left = 0
        /\ IdleUpload.waiting = {} /\ IdleUpload.ids = {} /\ IdleUpload.kind = "none"
    BY DEF IdleUpload
  <1>4. MediaTyped'
    <2>1. \A v \in Uploads :
            /\ DOMAIN uploading'[v] = {"left", "together", "waiting", "ids", "kind"}
            /\ uploading'[v].left \in Nat
            /\ uploading'[v].waiting \cup uploading'[v].ids \subseteq 1 .. stored'
            /\ uploading'[v].kind \in Uses \cup {"none", "failed"}
      BY <1>3 DEF MediaInv, MediaTyped
    <2>2. \A m \in 1 .. MaxMedia : use'[m] \subseteq Uses /\ (use'[m] # {} => m \in RowIds')
      BY <1>1, <1>2 DEF MediaInv, MediaTyped
    <2> QED
      BY <1>1, <1>2, <2>1, <2>2 DEF MediaInv, MediaTyped
  <1>5. WaitingOK'
    <2>1. \A v \in Uploads : uploading'[v].waiting \subseteq uploading[v].waiting
      BY <1>3
    <2> QED
      BY <1>1, <1>2, <2>1 DEF MediaInv, WaitingOK
  <1>6. RowsHaveFiles'
    BY <1>1, <1>2 DEF MediaInv, RowsHaveFiles
  <1>7. RemovalsOK'
    <2>1. ASSUME NEW d \in MediaDeletions, NEW m \in 1 .. stored, m \in removing[d].todo \cup {removing[d].file}
          PROVE  use'[m] = {} \/ m \in unsafe'
      <3>1. BeingRemoved(m)
        BY <2>1 DEF BeingRemoved
      <3>2. m \in 1 .. MaxMedia
        BY <2>1, MediaConstantsOK DEF MediaInv, MediaTyped
      <3> QED
        BY <1>1, <2>1, <3>1, <3>2 DEF MediaInv, RemovalsOK
    <2> QED
      BY <1>2, <2>1 DEF MediaInv, RemovalsOK
  <1> QED
    BY <1>4, <1>5, <1>6, <1>7 DEF MediaInv

LEMMA FinishKeeps ==
  ASSUME MediaInv, NEW u \in Uploads, NEW linked \in BOOLEAN, FinishUpload(u, linked)
  PROVE  MediaInv'
  <1>1. uploading' = [uploading EXCEPT ![u] = IdleUpload] /\ UNCHANGED <<files, row, stored, removing>>
    BY DEF FinishUpload
  <1>2. CASE linked /\ ~NoEntity(u) /\ uploading[u].ids \subseteq RowIds
    <2>1. Referred(uploading[u].ids, uploading[u].kind)
      BY <1>2 DEF FinishUpload
    <2>2. uploading[u].kind \in Uses
      BY <1>2 DEF MediaInv, MediaTyped, NoEntity
    <2>3. /\ uploading' = [v \in Uploads |-> uploading'[v]]
          /\ \A v \in Uploads : uploading'[v] \in {uploading[v], IdleUpload}
      BY <1>1 DEF MediaInv, MediaTyped
    <2> QED
      BY <1>1, <1>2, <2>1, <2>2, <2>3, ReferredKeeps
  <1>3. CASE ~(linked /\ ~NoEntity(u) /\ uploading[u].ids \subseteq RowIds)
    <2>1. UNCHANGED <<use, unsafe>>
      BY <1>3 DEF FinishUpload
    <2>2. /\ DOMAIN IdleUpload = {"left", "together", "waiting", "ids", "kind"} /\ IdleUpload.left = 0
          /\ IdleUpload.waiting = {} /\ IdleUpload.ids = {} /\ IdleUpload.kind = "none"
      BY DEF IdleUpload
    <2>3. PICK r : r = IdleUpload
      OBVIOUS
    <2>4. UNCHANGED <<files, row, use, stored, removing, unsafe>>
      BY <1>1, <2>1
    <2>5. /\ uploading' = [uploading EXCEPT ![u] = r]
          /\ DOMAIN r = {"left", "together", "waiting", "ids", "kind"} /\ r.left \in Nat
          /\ r.waiting \subseteq uploading[u].waiting /\ r.ids \subseteq 1 .. stored
          /\ r.kind \in Uses \cup {"none", "failed"}
      BY <1>1, <2>2, <2>3
    <2> QED
      BY <2>4, <2>5, UploadMoves
  <1> QED
    BY <1>2, <1>3

LEMMA AttachKeeps ==
  ASSUME MediaInv, NEW m \in 1 .. MaxMedia, NEW what \in Uses, Attach(m, what)
  PROVE  MediaInv'
  <1>1. /\ {m} \in SUBSET RowIds /\ Referred({m}, what)
        /\ UNCHANGED <<files, row, stored, uploading, removing>>
    BY DEF Attach
  <1>2. /\ uploading' = [v \in Uploads |-> uploading'[v]]
        /\ \A v \in Uploads : uploading'[v] \in {uploading[v], IdleUpload}
    BY <1>1 DEF MediaInv, MediaTyped
  <1> QED
    BY <1>1, <1>2, ReferredKeeps

\* Deletions look at what is there, take it and go on; only what they remove, or has no
\* use, changes.
LEMMA RemovalMoves ==
  ASSUME MediaInv, NEW d \in MediaDeletions, NEW r, removing' = [removing EXCEPT ![d] = r],
         DOMAIN r = {"phase", "todo", "file", "folder"},
         r.todo \subseteq 1 .. stored, r.file \in 0 .. stored,
         r.phase \in {"delete", "forced"} => r.file # NoFile,
         r.phase = "forced" => r.file \notin RowIds',
         r.todo \cup {r.file} \subseteq removing[d].todo \cup {removing[d].file, NoFile} \cup RowIds,
         \A m \in 1 .. stored : m \in r.todo \cup {r.file} => use'[m] = {} \/ m \in unsafe',
         UNCHANGED <<stored, uploading>>,
         files' \subseteq files, RowIds' \subseteq RowIds,
         \A m \in files \cup unsafe : m \in files' \cup unsafe' \cup RowIds
                                           \cup removing[d].todo \cup {removing[d].file},
         use' = [m \in 1 .. MaxMedia |-> use'[m]],
         \A m \in 1 .. MaxMedia :
            /\ use'[m] \subseteq use[m]
            /\ use'[m] # {} => m \in RowIds' /\ (m \in unsafe => m \in unsafe')
  PROVE  MediaTyped' /\ WaitingOK' /\ RemovalsOK'
  <1>1. /\ removing' = [e \in MediaDeletions |-> removing'[e]] /\ removing'[d] = r
        /\ \A e \in MediaDeletions \ {d} : removing'[e] = removing[e]
    BY DEF MediaInv, MediaTyped
  <1>2. MediaTyped'
    <2>1. \A e \in MediaDeletions :
            /\ DOMAIN removing'[e] = {"phase", "todo", "file", "folder"}
            /\ removing'[e].todo \subseteq 1 .. stored'
            /\ removing'[e].file \in 0 .. stored'
            /\ removing'[e].phase \in {"delete", "forced"} => removing'[e].file # NoFile
      BY <1>1 DEF MediaInv, MediaTyped
    <2>2. \A m \in 1 .. MaxMedia : use'[m] \subseteq Uses /\ (use'[m] # {} => m \in RowIds')
      BY DEF MediaInv, MediaTyped
    <2> QED
      BY <1>1, <2>1, <2>2 DEF MediaInv, MediaTyped
  <1>3. WaitingOK'
    <2>1. ASSUME NEW u \in Uploads
          PROVE  /\ uploading[u].waiting \cap RowIds = {}
                 /\ NoFile \notin uploading[u].waiting
                 /\ uploading[u].waiting \cap (removing[d].todo \cup {removing[d].file}) = {}
      BY DEF MediaInv, MediaTyped, WaitingOK, NoFile
    <2>2. ASSUME NEW u \in Uploads, NEW e \in MediaDeletions
          PROVE  uploading[u].waiting \cap (removing'[e].todo \cup {removing'[e].file}) = {}
      <3>1. CASE e = d
        BY <1>1, <2>1, <3>1
      <3>2. CASE e # d
        BY <1>1, <3>2 DEF MediaInv, WaitingOK
      <3> QED
        BY <3>1, <3>2
    <2>3. \A u \in Uploads : uploading[u].waiting \subseteq files' \cup unsafe'
      BY <2>1 DEF MediaInv, WaitingOK
    <2> QED
      BY <2>1, <2>2, <2>3 DEF MediaInv, WaitingOK
  <1>4. RemovalsOK'
    <2>1. ASSUME NEW e \in MediaDeletions, NEW m \in 1 .. stored, m \in removing'[e].todo \cup {removing'[e].file}
          PROVE  use'[m] = {} \/ m \in unsafe'
      <3>1. CASE e = d
        BY <1>1, <2>1, <3>1
      <3>2. CASE e # d
        <4>1. use[m] = {} \/ m \in unsafe
          BY <1>1, <2>1, <3>2 DEF MediaInv, RemovalsOK
        <4>2. m \in 1 .. MaxMedia
          BY <2>1, MediaConstantsOK DEF MediaInv, MediaTyped
        <4> QED
          BY <4>1, <4>2
      <3> QED
        BY <3>1, <3>2
    <2>2. \A e \in MediaDeletions : removing'[e].phase = "forced" => removing'[e].file \notin RowIds'
      BY <1>1 DEF MediaInv, RemovalsOK
    <2> QED
      BY <2>1, <2>2 DEF RemovalsOK
  <1> QED
    BY <1>2, <1>3, <1>4

LEMMA DetachKeeps ==
  ASSUME MediaInv, NEW m \in 1 .. MaxMedia, NEW what, Detach(m, what)
  PROVE  MediaInv'
  <1>1. /\ use' = [use EXCEPT ![m] = use[m] \ {what}]
        /\ UNCHANGED <<files, row, stored, uploading, removing, unsafe>>
    BY DEF Detach
  <1>2. /\ use' = [n \in 1 .. MaxMedia |-> use'[n]]
        /\ \A n \in 1 .. MaxMedia : use'[n] \subseteq use[n]
    BY <1>1 DEF MediaInv, MediaTyped
  <1>3. RowIds' = RowIds
    BY <1>1 DEF RowIds
  <1>4. MediaTyped'
    <2>1. \A n \in 1 .. MaxMedia : use'[n] \subseteq Uses /\ (use'[n] # {} => n \in RowIds')
      BY <1>2, <1>3 DEF MediaInv, MediaTyped
    <2> QED
      BY <1>1, <1>2, <1>3, <2>1 DEF MediaInv, MediaTyped
  <1>5. WaitingOK' /\ RowsHaveFiles'
    BY <1>1, <1>3 DEF MediaInv, WaitingOK, RowsHaveFiles
  <1>6. RemovalsOK'
    <2>1. \A n \in 1 .. stored : use[n] = {} => use'[n] = {}
      <3>1. 1 .. stored \subseteq 1 .. MaxMedia
        BY MediaConstantsOK DEF MediaInv, MediaTyped
      <3> QED
        BY <1>2, <3>1
    <2> QED
      BY <1>1, <1>3, <2>1 DEF MediaInv, RemovalsOK
  <1> QED
    BY <1>4, <1>5, <1>6 DEF MediaInv

LEMMA UpdateKeeps ==
  ASSUME MediaInv, NEW m \in 1 .. MaxMedia, UpdateMedia(m)
  PROVE  MediaInv'
  <1>1. RowIds' = RowIds /\ UNCHANGED <<files, use, stored, uploading, removing, unsafe>>
    BY DEF UpdateMedia, RowIds
  <1>2. MediaTyped'
    BY <1>1 DEF MediaInv, MediaTyped
  <1>3. WaitingOK' /\ RowsHaveFiles' /\ RemovalsOK'
    BY <1>1 DEF MediaInv, WaitingOK, RowsHaveFiles, RemovalsOK
  <1> QED
    BY <1>2, <1>3 DEF MediaInv

\* The deletion of one row, or of a folder's, begins.
LEMMA StartsKeep ==
  ASSUME MediaInv, NEW d \in MediaDeletions, NEW todo \in SUBSET RowIds, NEW folder, NEW r,
         \A m \in todo : use[m] = {}, removing[d].phase = "idle",
         r = [phase |-> "unlink", todo |-> todo, file |-> NoFile, folder |-> folder],
         removing' = [removing EXCEPT ![d] = r],
         UNCHANGED <<files, row, use, stored, uploading, unsafe>>
  PROVE  MediaInv'
  <1>1. /\ DOMAIN r = {"phase", "todo", "file", "folder"} /\ r.phase = "unlink" /\ r.todo = todo
        /\ r.file = NoFile
    OBVIOUS
  <1>2. RowIds' = RowIds
    BY DEF RowIds
  <1>3. /\ todo \subseteq 1 .. stored /\ NoFile \in 0 .. stored /\ NoFile \notin 1 .. stored
        /\ use = [m \in 1 .. MaxMedia |-> use[m]]
        /\ \A m \in 1 .. MaxMedia : use[m] # {} => m \in RowIds
    BY DEF MediaInv, MediaTyped, NoFile
  <1>4. MediaTyped' /\ WaitingOK' /\ RemovalsOK'
    BY <1>1, <1>2, <1>3, RemovalMoves
  <1>5. RowsHaveFiles'
    <2>1. \A e \in MediaDeletions : removing[e].phase = "delete" => removing'[e] = removing[e]
      BY DEF MediaInv, MediaTyped
    <2> QED
      BY <1>2, <2>1 DEF MediaInv, RowsHaveFiles
  <1> QED
    BY <1>4, <1>5 DEF MediaInv

LEMMA StartDeleteKeeps ==
  ASSUME MediaInv, NEW d \in MediaDeletions, NEW m \in 1 .. MaxMedia, StartDelete(d, m)
  PROVE  MediaInv'
  <1>1. /\ removing[d].phase = "idle" /\ {m} \in SUBSET RowIds /\ \A n \in {m} : use[n] = {}
        /\ UNCHANGED <<files, row, use, stored, uploading, unsafe>>
    BY DEF StartDelete, CheckMediaUsage, InUse
  <1>2. removing' = [removing EXCEPT ![d] = [phase |-> "unlink", todo |-> {m}, file |-> NoFile, folder |-> FALSE]]
    <2>1. PICK r : r = [IdleRemoval EXCEPT !.phase = "unlink", !.todo = {m}]
      OBVIOUS
    <2>2. r = [phase |-> "unlink", todo |-> {m}, file |-> NoFile, folder |-> FALSE]
      BY <2>1 DEF IdleRemoval
    <2>3. removing' = [removing EXCEPT ![d] = r]
      BY <2>1 DEF StartDelete
    <2> QED
      BY <2>2, <2>3
  <1> QED
    BY <1>1, <1>2, StartsKeep

LEMMA StartDeleteFolderKeeps ==
  ASSUME MediaInv, NEW d \in MediaDeletions, StartDeleteFolder(d)
  PROVE  MediaInv'
  <1> DEFINE records == {m \in RowIds : row[m]}
  <1>1. /\ removing[d].phase = "idle" /\ records \in SUBSET RowIds /\ \A n \in records : use[n] = {}
        /\ UNCHANGED <<files, row, use, stored, uploading, unsafe>>
        /\ removing' = [removing EXCEPT ![d] =
                [phase |-> "unlink", todo |-> records, file |-> NoFile, folder |-> TRUE]]
    BY DEF StartDeleteFolder, CheckMediaUsage, InUse
  <1> HIDE DEF records
  <1> QED
    BY <1>1, StartsKeep

\* The file goes before the row.
LEMMA UnlinkKeeps ==
  ASSUME MediaInv, NEW d \in MediaDeletions, NEW m \in 1 .. MaxMedia, Unlink(d, m)
  PROVE  MediaInv'
  <1>1. PICK r : r = [removing[d] EXCEPT !.phase = "delete", !.file = m, !.todo = removing[d].todo \ {m}]
    OBVIOUS
  <1>2. /\ removing[d].phase = "unlink" /\ m \in removing[d].todo /\ files' = files \ {m}
        /\ removing' = [removing EXCEPT ![d] = r]
        /\ UNCHANGED <<row, use, stored, uploading, unsafe>>
    <2>1. removing' = [removing EXCEPT ![d] =
             [removing[d] EXCEPT !.phase = "delete", !.file = m, !.todo = removing[d].todo \ {m}]]
      BY DEF Unlink
    <2>2. removing' = [removing EXCEPT ![d] = r]
      BY <1>1, <2>1
    <2> QED
      BY <2>2 DEF Unlink
  <1>3. /\ DOMAIN r = {"phase", "todo", "file", "folder"} /\ r.phase = "delete" /\ r.file = m
        /\ r.todo = removing[d].todo \ {m}
    <2>1. DOMAIN removing[d] = {"phase", "todo", "file", "folder"}
      BY DEF MediaInv, MediaTyped
    <2> QED
      BY <1>1, <2>1
  <1>4. RowIds' = RowIds
    BY <1>2 DEF RowIds
  <1>5. /\ removing[d].todo \subseteq 1 .. stored /\ m \in 1 .. stored /\ m \in 0 .. stored /\ m # NoFile
        /\ use = [n \in 1 .. MaxMedia |-> use[n]]
        /\ \A n \in 1 .. MaxMedia : use[n] # {} => n \in RowIds
    BY <1>2 DEF MediaInv, MediaTyped, NoFile
  <1>6. \A n \in 1 .. stored : n \in r.todo \cup {r.file} => use[n] = {} \/ n \in unsafe
    BY <1>2, <1>3 DEF MediaInv, RemovalsOK
  <1>7. MediaTyped' /\ WaitingOK' /\ RemovalsOK'
    <2>1. r.todo \subseteq 1 .. stored /\ r.todo \cup {r.file} \subseteq removing[d].todo
      BY <1>2, <1>3, <1>5
    <2>2. \A n \in files \cup unsafe : n \in files' \cup unsafe' \cup removing[d].todo
      BY <1>2
    <2> QED
      BY <1>2, <1>3, <1>4, <1>5, <1>6, <2>1, <2>2, RemovalMoves
  <1>8. RowsHaveFiles'
    <2>1. /\ removing'[d] = r
          /\ \A e \in MediaDeletions : removing[e].phase = "delete" => removing'[e] = removing[e]
      BY <1>2 DEF MediaInv, MediaTyped
    <2> QED
      BY <1>2, <1>3, <1>4, <2>1 DEF MediaInv, RowsHaveFiles
  <1> QED
    BY <1>7, <1>8 DEF MediaInv

LEMMA DeleteRowKeeps ==
  ASSUME MediaInv, NEW d \in MediaDeletions, DeleteRow(d)
  PROVE  MediaInv'
  <1> DEFINE m == removing[d].file
             fails == m \notin RowIds \/ "required" \in use[m]
  <1>1. /\ removing[d].phase = "delete" /\ UNCHANGED <<files, stored, uploading>>
        /\ DOMAIN removing[d] = {"phase", "todo", "file", "folder"}
        /\ m \in 1 .. stored /\ m \in 1 .. MaxMedia /\ removing[d].todo \subseteq 1 .. stored
    BY MediaConstantsOK DEF DeleteRow, MediaInv, MediaTyped, NoFile
  <1>2. PICK r : r = IF fails \/ (removing[d].todo = {} /\ ~removing[d].folder) THEN IdleRemoval
                     ELSE [removing[d] EXCEPT !.phase = "unlink", !.file = NoFile]
    OBVIOUS
  <1>3. /\ removing' = [removing EXCEPT ![d] = r]
        /\ row' = IF fails THEN row ELSE [n \in RowIds \ {m} |-> row[n]]
        /\ use' = IF fails THEN use ELSE [use EXCEPT ![m] = {}]
        /\ unsafe' = IF fails THEN unsafe \cup (RowIds \cap {m}) ELSE unsafe \ ({m} \ urls')
    BY <1>2 DEF DeleteRow, ReferencesRemoved
  <1>4. /\ DOMAIN r = {"phase", "todo", "file", "folder"} /\ r.phase \in {"idle", "unlink"}
        /\ r.file = NoFile /\ r.todo \subseteq removing[d].todo
    BY <1>1, <1>2 DEF IdleRemoval
  <1>5. RowIds' = IF fails THEN RowIds ELSE RowIds \ {m}
    BY <1>3 DEF RowIds
  <1>6. /\ use = [n \in 1 .. MaxMedia |-> use[n]]
        /\ \A n \in 1 .. MaxMedia : use[n] # {} => n \in RowIds
        /\ NoFile \in 0 .. stored /\ NoFile \notin 1 .. stored /\ 1 .. stored \subseteq 1 .. MaxMedia
    BY MediaConstantsOK DEF MediaInv, MediaTyped, NoFile
  <1>7. /\ use' = [n \in 1 .. MaxMedia |-> use'[n]]
        /\ \A n \in 1 .. MaxMedia : use'[n] = IF ~fails /\ n = m THEN {} ELSE use[n]
    BY <1>1, <1>3, <1>6
  <1> HIDE DEF fails
  <1>8. \A n \in 1 .. stored : n \in removing[d].todo => use[n] = {} \/ n \in unsafe
    BY DEF MediaInv, RemovalsOK
  <1>9. \A n \in 1 .. MaxMedia :
            /\ use'[n] \subseteq use[n]
            /\ use'[n] # {} => n \in RowIds' /\ (n \in unsafe => n \in unsafe')
    BY <1>3, <1>5, <1>6, <1>7
  <1>10. \A n \in 1 .. stored : n \in r.todo \cup {r.file} => use'[n] = {} \/ n \in unsafe'
    BY <1>3, <1>4, <1>6, <1>7, <1>8
  <1>11. MediaTyped' /\ WaitingOK' /\ RemovalsOK'
    <2>1. r.todo \subseteq 1 .. stored /\ r.todo \cup {r.file} \subseteq removing[d].todo \cup {NoFile}
      BY <1>1, <1>4
    <2>2. \A n \in files \cup unsafe : n \in files' \cup unsafe' \cup {removing[d].file}
      BY <1>1, <1>3
    <2>3. r.phase \notin {"delete", "forced"} /\ r.file \in 0 .. stored
      BY <1>4, <1>6
    <2>4. files' \subseteq files /\ RowIds' \subseteq RowIds
      BY <1>1, <1>5
    <2> QED
      BY <1>1, <1>3, <1>4, <1>7, <1>9, <1>10, <2>1, <2>2, <2>3, <2>4, RemovalMoves
  <1>12. RowsHaveFiles'
    <2>1. \A e \in MediaDeletions \ {d} : removing'[e] = removing[e]
      BY <1>3 DEF MediaInv, MediaTyped
    <2>2. ASSUME NEW n \in RowIds', n # m
          PROVE  n \in files' \cup unsafe' \/ \E e \in MediaDeletions : removing'[e].phase = "delete" /\ removing'[e].file = n
      BY <1>1, <1>3, <1>5, <2>1, <2>2 DEF MediaInv, RowsHaveFiles
    <2>3. m \in RowIds' => m \in unsafe'
      BY <1>3, <1>5
    <2> HIDE DEF m
    <2> QED
      BY <2>2, <2>3 DEF RowsHaveFiles
  <1> QED
    BY <1>11, <1>12 DEF MediaInv

LEMMA SweepKeeps ==
  ASSUME MediaInv, NEW d \in MediaDeletions, SweepFolder(d)
  PROVE  MediaInv'
  <1>1. PICK r : r = IdleRemoval
    OBVIOUS
  <1>2. /\ removing[d].phase = "unlink" /\ unsafe' = unsafe \cup files /\ files' = {}
        /\ removing' = [removing EXCEPT ![d] = r] /\ UNCHANGED <<row, use, stored, uploading>>
    BY <1>1 DEF SweepFolder
  <1>3. /\ DOMAIN r = {"phase", "todo", "file", "folder"} /\ r.phase = "idle" /\ r.file = NoFile /\ r.todo = {}
    BY <1>1 DEF IdleRemoval
  <1>4. RowIds' = RowIds
    BY <1>2 DEF RowIds
  <1>5. /\ use = [n \in 1 .. MaxMedia |-> use[n]]
        /\ \A n \in 1 .. MaxMedia : use[n] # {} => n \in RowIds
        /\ NoFile \in 0 .. stored /\ NoFile \notin 1 .. stored
    BY DEF MediaInv, MediaTyped, NoFile
  <1>6. MediaTyped' /\ WaitingOK' /\ RemovalsOK'
    BY <1>2, <1>3, <1>4, <1>5, RemovalMoves
  <1>7. RowsHaveFiles'
    <2>1. \A e \in MediaDeletions : removing[e].phase = "delete" => removing'[e] = removing[e]
      BY <1>2 DEF MediaInv, MediaTyped
    <2> QED
      BY <1>2, <1>4, <2>1 DEF MediaInv, RowsHaveFiles
  <1> QED
    BY <1>6, <1>7 DEF MediaInv

LEMMA ForceDeleteKeeps ==
  ASSUME MediaInv, NEW d \in MediaDeletions, NEW m \in 1 .. MaxMedia, ForceDelete(d, m)
  PROVE  MediaInv'
  <1>1. PICK r : r = [IdleRemoval EXCEPT !.phase = "forced", !.file = m]
    OBVIOUS
  <1>2. /\ removing[d].phase = "idle" /\ m \in RowIds /\ use' = [use EXCEPT ![m] = {}]
        /\ removing' = [removing EXCEPT ![d] = r] /\ UNCHANGED <<files, stored, uploading, unsafe>>
    BY <1>1 DEF ForceDelete, ReferencesRemoved
  <1>3. /\ DOMAIN r = {"phase", "todo", "file", "folder"} /\ r.phase = "forced" /\ r.file = m /\ r.todo = {}
    BY <1>1 DEF IdleRemoval
  <1>4. RowIds' = RowIds \ {m}
    BY DEF RowIds, ForceDelete
  <1>5. /\ use = [n \in 1 .. MaxMedia |-> use[n]] /\ m \in 1 .. stored /\ m \in 0 .. stored /\ m # NoFile
        /\ \A n \in 1 .. MaxMedia : use[n] # {} => n \in RowIds
    BY <1>2 DEF MediaInv, MediaTyped, NoFile
  <1>6. /\ use' = [n \in 1 .. MaxMedia |-> use'[n]]
        /\ \A n \in 1 .. MaxMedia : use'[n] = IF n = m THEN {} ELSE use[n]
    BY <1>2, <1>5
  <1>7. MediaTyped' /\ WaitingOK' /\ RemovalsOK'
    <2>1. \A n \in 1 .. MaxMedia :
            /\ use'[n] \subseteq use[n]
            /\ use'[n] # {} => n \in RowIds' /\ (n \in unsafe => n \in unsafe')
      BY <1>2, <1>4, <1>5, <1>6
    <2>2. \A n \in 1 .. stored : n \in r.todo \cup {r.file} => use'[n] = {}
      <3>1. m \in 1 .. MaxMedia /\ use'[m] = {}
        BY <1>6
      <3> QED
        BY <1>3, <3>1
    <2>3. r.todo \subseteq 1 .. stored /\ r.todo \cup {r.file} \subseteq RowIds /\ r.file \notin RowIds'
      BY <1>2, <1>3, <1>4
    <2>4. r.file \in 0 .. stored /\ r.file # NoFile
      BY <1>3, <1>5
    <2> QED
      BY <1>2, <1>3, <1>4, <1>6, <2>1, <2>2, <2>3, <2>4, RemovalMoves
  <1>8. RowsHaveFiles'
    <2>1. \A e \in MediaDeletions : removing[e].phase = "delete" => removing'[e] = removing[e]
      BY <1>2 DEF MediaInv, MediaTyped
    <2> QED
      BY <1>2, <1>4, <2>1 DEF MediaInv, RowsHaveFiles
  <1> QED
    BY <1>7, <1>8 DEF MediaInv

LEMMA UnlinkForcedKeeps ==
  ASSUME MediaInv, NEW d \in MediaDeletions, UnlinkForced(d)
  PROVE  MediaInv'
  <1>1. PICK r : r = IdleRemoval
    OBVIOUS
  <1>2. /\ removing[d].phase = "forced" /\ files' = files \ {removing[d].file}
        /\ removing' = [removing EXCEPT ![d] = r] /\ UNCHANGED <<row, use, stored, uploading, unsafe>>
    BY <1>1 DEF UnlinkForced
  <1>3. /\ DOMAIN r = {"phase", "todo", "file", "folder"} /\ r.phase = "idle" /\ r.file = NoFile /\ r.todo = {}
    BY <1>1 DEF IdleRemoval
  <1>4. RowIds' = RowIds
    BY <1>2 DEF RowIds
  <1>5. /\ use = [n \in 1 .. MaxMedia |-> use[n]]
        /\ \A n \in 1 .. MaxMedia : use[n] # {} => n \in RowIds
        /\ NoFile \in 0 .. stored /\ NoFile \notin 1 .. stored /\ removing[d].file \notin RowIds
    BY <1>2 DEF MediaInv, MediaTyped, RemovalsOK, NoFile
  <1>6. MediaTyped' /\ WaitingOK' /\ RemovalsOK'
    BY <1>2, <1>3, <1>4, <1>5, RemovalMoves
  <1>7. RowsHaveFiles'
    <2>1. \A e \in MediaDeletions : removing[e].phase = "delete" => removing'[e] = removing[e]
      BY <1>2 DEF MediaInv, MediaTyped
    <2> QED
      BY <1>2, <1>4, <1>5, <2>1 DEF MediaInv, RowsHaveFiles
  <1> QED
    BY <1>6, <1>7 DEF MediaInv

LEMMA MediaRestartKeeps ==
  ASSUME MediaInv, MediaServerRestarts
  PROVE  MediaInv'
  <1>1. /\ uploading' = [u \in Uploads |-> IdleUpload]
        /\ removing' = [d \in MediaDeletions |-> IdleRemoval]
        /\ unsafe' = unsafe \cup (RowIds \ files)
        /\ UNCHANGED <<files, row, use, stored>> /\ RowIds' = RowIds
    BY DEF MediaServerRestarts, RowIds
  <1>2. /\ IdleUpload.waiting = {} /\ IdleUpload.ids = {} /\ IdleUpload.left = 0 /\ IdleUpload.kind = "none"
        /\ DOMAIN IdleUpload = {"left", "together", "waiting", "ids", "kind"}
    BY DEF IdleUpload
  <1>3. /\ IdleRemoval.phase = "idle" /\ IdleRemoval.todo = {} /\ IdleRemoval.file = 0
        /\ DOMAIN IdleRemoval = {"phase", "todo", "file", "folder"}
    BY DEF IdleRemoval, NoFile
  <1>4. MediaTyped'
    BY <1>1, <1>2, <1>3 DEF MediaInv, MediaTyped
  <1>5. WaitingOK' /\ RowsHaveFiles'
    BY <1>1, <1>2, <1>3 DEF WaitingOK, RowsHaveFiles
  <1>6. RemovalsOK'
    BY <1>1, <1>3 DEF RemovalsOK
  <1> QED
    BY <1>4, <1>5, <1>6 DEF MediaInv

LEMMA MediaStep == MediaInv /\ [MediaNext]_mediaVars => MediaInv'
  <1> SUFFICES ASSUME MediaInv, [MediaNext]_mediaVars PROVE MediaInv'
    OBVIOUS
  <1>1. ASSUME NEW u \in Uploads, EntityUpload(u) \/ EntityUploadFields(u)
        PROVE  MediaInv'
    BY <1>1, BeginKeeps DEF EntityUpload, EntityUploadFields, Uses
  <1>2. ASSUME NEW u \in Uploads, NEW n \in 1 .. MaxMedia, UploadAttachments(u, n) \/ UploadBulk(u, n)
        PROVE  MediaInv'
    <2>1. n \in Nat
      BY MediaConstantsOK
    <2> QED
      BY <1>2, <2>1, BeginKeeps DEF UploadAttachments, UploadBulk, Uses
  <1>3. ASSUME NEW m \in 1 .. MaxMedia,
               ChooseMedia(m) \/ AttachOwned(m) \/ ReplaceMedia(m) \/ DeleteProductImages(m)
        PROVE  MediaInv'
    BY <1>3, AttachKeeps, DetachKeeps DEF ChooseMedia, AttachOwned, ReplaceMedia, DeleteProductImages, Uses
  <1>4. CASE UNCHANGED mediaVars
    BY <1>4 DEF mediaVars, MediaInv, MediaTyped, WaitingOK, RowsHaveFiles, RemovalsOK, RowIds
  <1>5. ASSUME NEW m \in 1 .. MaxMedia, ReplaceUrl(m)
        PROVE  MediaInv'
    BY <1>5 DEF ReplaceUrl, MediaInv, MediaTyped, WaitingOK, RowsHaveFiles, RemovalsOK, RowIds
  <1> QED
    BY <1>1, <1>2, <1>3, <1>4, <1>5, StoreKeeps, SavingFailsKeeps, CreateRowKeeps, FinishKeeps, UpdateKeeps,
       StartDeleteKeeps, UnlinkKeeps, ForceDeleteKeeps, StartDeleteFolderKeeps, DeleteRowKeeps, SweepKeeps,
       UnlinkForcedKeeps, MediaRestartKeeps
    DEF MediaNext
-------------------------------------------------------------------------------
(* Categories: the tree, and what Redis holds of it.                         *)

CategoriesSpec == CategoriesInit /\ [][CategoriesNext]_treeVars

\* Whatever the categories, one of them has its parent elsewhere: there is no cycle.
Forest(p) == \A S \in SUBSET DOMAIN p : S # {} => \E x \in S : p[x] \notin S

\* The target is not below the category that moves: it and all above it are in a set
\* without that category.
NotBelow(target, c) ==
    \E U \in SUBSET DOMAIN parent :
        target \in U /\ c \notin U /\ \A x \in U : parent[x] \in U \cup {Root}

RequestsTyped ==
    /\ treeReq = [h \in TreeHandlers |-> treeReq[h]]
    /\ \A h \in TreeHandlers :
          /\ DOMAIN treeReq[h] = {"phase", "category", "target", "tree", "overtaken"}
          /\ treeReq[h].phase \in {"idle", "create", "move", "delete", "invalidate", "set"}

TreeTyped ==
    /\ parent = [c \in DOMAIN parent |-> parent[c]]
    /\ nextId \in Nat \ {0} /\ nextId - 1 <= MaxCategories /\ DOMAIN parent \subseteq 1 .. nextId - 1
    /\ \A c \in DOMAIN parent : parent[c] \in DOMAIN parent \cup {Root}

MovesOK ==
    \A h \in TreeHandlers :
        treeReq[h].phase = "move" =>
            /\ treeReq[h].target = Root \/ treeReq[h].target \in 1 .. nextId - 1
            /\ \/ treeReq[h].overtaken \/ treeReq[h].target = Root
               \/ treeReq[h].target \notin DOMAIN parent
               \/ NotBelow(treeReq[h].target, treeReq[h].category)

TreeInv ==
    /\ RequestsTyped /\ TreeTyped
    /\ movesCrossed \/ (Forest(parent) /\ MovesOK)

\* What Redis holds is the table's tree, or known to be older, or about to be invalidated;
\* what a reader is about to set there too.
CacheInv ==
    /\ RequestsTyped
    /\ \/ treeCache \in {NoTree, parent} \/ cacheOutdated
       \/ \E h \in TreeHandlers : treeReq[h].phase = "invalidate"
    /\ \A h \in TreeHandlers :
          treeReq[h].phase = "set" => treeReq[h].overtaken \/ treeReq[h].tree = parent

\* The descendants are closed: a child of one of them is one.
LEMMA DescendantsClosed ==
  ASSUME NEW p, DOMAIN p \subseteq CategoryIds, NEW c
  PROVE  /\ DescendantsOf(p, c) \subseteq DOMAIN p
         /\ ChildrenOf(p, {c} \cup DescendantsOf(p, c)) \subseteq DescendantsOf(p, c)
  <1> DEFINE N == Cardinality(CategoryIds)
             T == SUBSET ({c} \cup DOMAIN p)
             F == [s \in T |-> ChildrenOf(p, s)]
  <1>1. N = MaxCategories /\ N \in Nat /\ IsFiniteSet(CategoryIds)
    <2>1. IsFiniteSet(CategoryIds) /\ Cardinality(CategoryIds) = MaxCategories
      BY FS_Interval, CategoryConstantsOK DEF CategoryIds
    <2> QED
      BY <2>1, CategoryConstantsOK
  <1>2. F \in [T -> T] /\ {c} \in T /\ \A s \in T : F[s] = ChildrenOf(p, s)
    BY DEF ChildrenOf
  <1> HIDE DEF N, T, F
  <1>3. PICK f \in [0 .. N -> T] : f = [k \in 0 .. N |-> IF k = 0 THEN {c} ELSE F[f[k - 1]]]
    <2>1. PICK x : x = {c}
      OBVIOUS
    <2>2. PICK m : m = N
      OBVIOUS
    <2>3. F \in [T -> T] /\ x \in T /\ m \in Nat
      BY <1>1, <1>2, <2>1, <2>2
    <2>4. \E f \in [0 .. m -> T] : f = [k \in 0 .. m |-> IF k = 0 THEN x ELSE F[f[k - 1]]]
      BY <2>3, IterationExists
    <2> QED
      BY <2>1, <2>2, <2>4
  <1>4. f = [k \in 0 .. N |-> IF k = 0 THEN {c} ELSE ChildrenOf(p, f[k - 1])]
    <2>1. \A k \in 0 .. N : k # 0 => F[f[k - 1]] = ChildrenOf(p, f[k - 1])
      <3> SUFFICES ASSUME NEW k \in 0 .. N, k # 0 PROVE F[f[k - 1]] = ChildrenOf(p, f[k - 1])
        OBVIOUS
      <3>1. k - 1 \in 0 .. N
        BY <1>1
      <3>2. f[k - 1] \in T
        BY <1>3, <3>1
      <3> QED
        BY <1>2, <3>2
    <2> QED
      BY <1>3, <2>1
  <1> DEFINE g == CHOOSE h : h = [n \in 0 .. N |-> IF n = 0 THEN {c} ELSE ChildrenOf(p, h[n - 1])]
  <1>5. g = [n \in 0 .. N |-> IF n = 0 THEN {c} ELSE ChildrenOf(p, g[n - 1])]
    BY <1>4
  <1>6. DescendantsOf(p, c) = UNION {g[n] : n \in 1 .. N}
    BY DEF DescendantsOf, N
  <1> HIDE DEF g
  <1>7. g[0] = {c} /\ \A n \in 1 .. N : g[n] = ChildrenOf(p, g[n - 1]) /\ g[n] \subseteq DOMAIN p
    BY <1>1, <1>5 DEF ChildrenOf
  <1> DEFINE L(n) == UNION {g[k] : k \in 1 .. n}
             Closed(n) == ChildrenOf(p, {c} \cup L(n)) \subseteq L(n)
             P == {n \in Nat : n <= N => Closed(n) \/ Cardinality(L(n)) >= n}
  <1>8. ASSUME NEW n \in Nat, n <= N
        PROVE  L(n) \subseteq DOMAIN p /\ IsFiniteSet(L(n)) /\ Cardinality(L(n)) \in Nat /\ Cardinality(L(n)) <= N
    <2>1. L(n) \subseteq DOMAIN p
      BY <1>1, <1>7, <1>8
    <2> HIDE DEF L
    <2>2. L(n) \subseteq CategoryIds
      BY <2>1
    <2> QED
      BY <1>1, <2>1, <2>2, FS_Subset, FS_CardinalityType DEF N
  <1>9. ASSUME NEW n \in Nat, n < N PROVE L(n + 1) = ChildrenOf(p, {c} \cup L(n)) /\ L(n) \subseteq L(n + 1)
    <2>1. \A x \in L(n + 1) : x \in ChildrenOf(p, {c} \cup L(n))
      <3> SUFFICES ASSUME NEW k \in 1 .. n + 1, NEW x \in g[k] PROVE x \in ChildrenOf(p, {c} \cup L(n))
        OBVIOUS
      <3>1. x \in DOMAIN p /\ p[x] \in g[k - 1]
        BY <1>1, <1>7, <1>9 DEF ChildrenOf
      <3>2. k - 1 = 0 \/ k - 1 \in 1 .. n
        BY <1>9
      <3> QED
        BY <1>7, <3>1, <3>2 DEF ChildrenOf
    <2>2. \A x \in ChildrenOf(p, {c} \cup L(n)) : x \in L(n + 1)
      <3> SUFFICES ASSUME NEW x \in ChildrenOf(p, {c} \cup L(n)) PROVE x \in L(n + 1)
        OBVIOUS
      <3>1. x \in DOMAIN p /\ (p[x] = c \/ \E k \in 1 .. n : p[x] \in g[k])
        BY DEF ChildrenOf
      <3>2. PICK k \in 0 .. n : p[x] \in g[k]
        BY <1>7, <3>1
      <3>3. k + 1 \in 1 .. N /\ k + 1 \in 1 .. n + 1 /\ (k + 1) - 1 = k
        BY <1>1, <1>9
      <3>4. x \in g[k + 1]
        BY <1>7, <3>1, <3>2, <3>3 DEF ChildrenOf
      <3> QED
        BY <3>3, <3>4
    <2>3. L(n) \subseteq L(n + 1)
      <3>1. 1 .. n \subseteq 1 .. n + 1
        OBVIOUS
      <3> QED
        BY <3>1
    <2> QED
      BY <2>1, <2>2, <2>3
  <1> HIDE DEF L
  <1>10. 0 \in P
    <2>1. Cardinality(L(0)) \in Nat
      BY <1>1, <1>8
    <2> QED
      BY <2>1
  <1>11. ASSUME NEW n \in P PROVE n + 1 \in P
    <2> SUFFICES ASSUME n + 1 <= N PROVE Closed(n + 1) \/ Cardinality(L(n + 1)) >= n + 1
      <3> HIDE DEF Closed
      <3> QED
        OBVIOUS
    <2>1. n \in Nat /\ n < N /\ n <= N /\ n + 1 \in Nat
      BY <1>1
    <2>2. L(n + 1) = ChildrenOf(p, {c} \cup L(n)) /\ L(n) \subseteq L(n + 1)
      BY <1>9, <2>1
    <2>3. CASE Closed(n)
      <3>1. L(n + 1) = L(n)
        BY <2>2, <2>3
      <3> QED
        BY <2>2, <3>1
    <2>4. CASE ~Closed(n)
      <3>1. Cardinality(L(n)) >= n
        BY <2>1, <2>4
      <3>2. L(n) # L(n + 1)
        BY <2>2, <2>4
      <3>3. IsFiniteSet(L(n + 1)) /\ Cardinality(L(n)) \in Nat /\ Cardinality(L(n + 1)) \in Nat
        BY <1>8, <2>1
      <3>4. Cardinality(L(n)) < Cardinality(L(n + 1))
        <4>1. Cardinality(L(n)) <= Cardinality(L(n + 1)) /\ (Cardinality(L(n)) = Cardinality(L(n + 1)) => L(n) = L(n + 1))
          BY <2>2, <3>3, FS_Subset
        <4> QED
          BY <3>2, <3>3, <4>1
      <3> HIDE DEF Closed
      <3> QED
        BY <2>1, <3>1, <3>3, <3>4
    <2> QED
      BY <2>3, <2>4
  <1>12. N \in P
    <2>1. P \in SUBSET Nat
      OBVIOUS
    <2> HIDE DEF P
    <2> QED
      BY <1>1, <1>10, <1>11, <2>1, AllNumbers
  <1>13. L(N) \subseteq DOMAIN p /\ IsFiniteSet(L(N)) /\ Cardinality(L(N)) \in Nat /\ Cardinality(L(N)) <= N
    BY <1>1, <1>8
  <1>14. Closed(N)
    <2>1. CASE Cardinality(L(N)) >= N
      <3>1. L(N) \subseteq CategoryIds /\ Cardinality(L(N)) = Cardinality(CategoryIds)
        BY <1>1, <1>13, <2>1 DEF N
      <3>2. L(N) = CategoryIds
        BY <1>1, <3>1, FS_Subset
      <3>3. ChildrenOf(p, {c} \cup L(N)) \subseteq DOMAIN p
        BY DEF ChildrenOf
      <3> QED
        BY <3>2, <3>3
    <2> HIDE DEF Closed
    <2> QED
      BY <1>1, <1>12, <2>1
  <1>15. L(N) = DescendantsOf(p, c)
    BY <1>6 DEF L
  <1> QED
    BY <1>13, <1>14, <1>15

\* A tree without a cycle is shown as a whole.
LEMMA ForestIsShown ==
  ASSUME NEW p, DOMAIN p \subseteq CategoryIds, \A x \in DOMAIN p : p[x] \in DOMAIN p \cup {Root}, Forest(p)
  PROVE  ShownBy(p) = DOMAIN p
  <1> DEFINE D == DescendantsOf(p, Root)
  <1>1. D \subseteq DOMAIN p /\ ChildrenOf(p, {Root} \cup D) \subseteq D
    BY DescendantsClosed
  <1> HIDE DEF D
  <1>2. DOMAIN p \ D = {}
    <2> SUFFICES ASSUME DOMAIN p \ D # {} PROVE FALSE
      OBVIOUS
    <2>1. PICK x \in DOMAIN p \ D : p[x] \notin DOMAIN p \ D
      BY DEF Forest
    <2>2. x \in ChildrenOf(p, {Root} \cup D)
      BY <2>1 DEF ChildrenOf
    <2> QED
      BY <1>1, <2>2
  <1>3. D = DOMAIN p
    BY <1>1, <1>2
  <1> QED
    BY <1>3 DEF ShownBy, D

\* What a check of a move allows is not below the category.
LEMMA CheckedIsNotBelow ==
  ASSUME TreeTyped, NEW c \in DOMAIN parent, NEW target, target \in DOMAIN parent, target # c,
         target \notin DescendantsOf(parent, c)
  PROVE  NotBelow(target, c)
  <1> DEFINE D == DescendantsOf(parent, c)
             U == DOMAIN parent \ ({c} \cup D)
  <1>1. DOMAIN parent \subseteq CategoryIds
    BY CategoryConstantsOK DEF TreeTyped, CategoryIds
  <1>2. ChildrenOf(parent, {c} \cup D) \subseteq D
    BY <1>1, DescendantsClosed
  <1> HIDE DEF D
  <1>3. \A x \in U : parent[x] \in U \cup {Root}
    BY <1>2 DEF TreeTyped, ChildrenOf
  <1>4. target \in U /\ c \notin U /\ U \in SUBSET DOMAIN parent
    BY DEF D
  <1> HIDE DEF U
  <1> QED
    BY <1>3, <1>4 DEF NotBelow

LEMMA TreeInvInit == CategoriesInit => TreeInv
  <1> SUFFICES ASSUME CategoriesInit PROVE TreeInv
    OBVIOUS
  <1>1. PICK n \in 0 .. MaxCategories :
           /\ parent \in {p \in [1 .. n -> CategoryIds \cup {Root}] :
                            \A c \in 1 .. n : p[c] = Root \/ p[c] = c - 1}
           /\ nextId = n + 1
    BY DEF CategoriesInit
  <1>2. /\ n \in Nat /\ DOMAIN parent = 1 .. n /\ parent = [c \in 1 .. n |-> parent[c]]
        /\ nextId \in Nat \ {0} /\ nextId - 1 = n /\ n <= MaxCategories
    BY <1>1, CategoryConstantsOK
  <1>3. \A c \in 1 .. n : parent[c] = Root \/ (parent[c] = c - 1 /\ c - 1 \in 1 .. n)
    <2> SUFFICES ASSUME NEW c \in 1 .. n, parent[c] # Root PROVE parent[c] = c - 1 /\ c - 1 \in 1 .. n
      OBVIOUS
    <2>1. parent[c] = c - 1 /\ parent[c] \in 1 .. MaxCategories
      BY <1>1 DEF CategoryIds
    <2> QED
      BY <1>2, <2>1, CategoryConstantsOK
  <1>4. TreeTyped
    BY <1>2, <1>3 DEF TreeTyped
  <1>5. Forest(parent)
    <2> SUFFICES ASSUME NEW S \in SUBSET (1 .. n), S # {} PROVE \E x \in S : parent[x] \notin S
      BY <1>2 DEF Forest
    <2> DEFINE R == OpToRel(<, Nat)
    <2>1. IsWellFoundedOn(R, Nat)
      BY NatLessThanWellFounded
    <2>2. \A a, b \in Nat : a < b => <<a, b>> \in R
      BY DEF OpToRel
    <2>3. S \subseteq Nat
      BY <1>2
    <2> HIDE DEF R
    <2>4. PICK x \in S : \A y \in S : ~ (<<y, x>> \in R)
      BY <2>1, <2>3, WFMin
    <2>5. x \in Nat /\ x \in 1 .. n /\ x - 1 < x
      BY <1>2, <2>3
    <2>6. Root \notin S
      BY <1>2, CategoryConstantsOK
    <2>7. x - 1 \notin S
      BY <2>2, <2>3, <2>4, <2>5
    <2> QED
      BY <1>3, <2>5, <2>6, <2>7
  <1>6. /\ DOMAIN IdleTree = {"phase", "category", "target", "tree", "overtaken"}
        /\ IdleTree.phase = "idle"
    BY DEF IdleTree
  <1>7. treeReq = [h \in TreeHandlers |-> IdleTree]
    BY DEF CategoriesInit
  <1>8. RequestsTyped /\ MovesOK
    BY <1>6, <1>7 DEF RequestsTyped, MovesOK
  <1> QED
    BY <1>4, <1>5, <1>8 DEF TreeInv

\* A request goes on, and the table is as before.
LEMMA TreeRequestMoves ==
  ASSUME TreeInv, NEW h \in TreeHandlers, NEW r, treeReq' = [treeReq EXCEPT ![h] = r],
         DOMAIN r = {"phase", "category", "target", "tree", "overtaken"},
         r.phase \in {"idle", "create", "move", "delete", "invalidate", "set"},
         r.phase = "move" =>
             /\ r.target = Root \/ r.target \in 1 .. nextId - 1
             /\ r.target = Root \/ NotBelow(r.target, r.category),
         UNCHANGED <<parent, nextId, movesCrossed>>
  PROVE  TreeInv'
  <1>1. /\ treeReq' = [g \in TreeHandlers |-> treeReq'[g]] /\ treeReq'[h] = r
        /\ \A g \in TreeHandlers \ {h} : treeReq'[g] = treeReq[g]
    BY DEF TreeInv, RequestsTyped
  <1>2. RequestsTyped'
    BY <1>1 DEF TreeInv, RequestsTyped
  <1>3. TreeTyped'
    BY DEF TreeInv, TreeTyped
  <1>4. Forest(parent) => Forest(parent')
    OBVIOUS
  <1>5. MovesOK => MovesOK'
    <2> SUFFICES ASSUME MovesOK, NEW g \in TreeHandlers, treeReq'[g].phase = "move"
                 PROVE  /\ treeReq'[g].target = Root \/ treeReq'[g].target \in 1 .. nextId - 1
                        /\ \/ treeReq'[g].overtaken \/ treeReq'[g].target = Root
                           \/ treeReq'[g].target \notin DOMAIN parent
                           \/ NotBelow(treeReq'[g].target, treeReq'[g].category)
      BY DEF MovesOK, NotBelow
    <2>1. CASE g = h
      BY <1>1, <2>1
    <2>2. CASE g # h
      BY <1>1, <2>2 DEF MovesOK
    <2> QED
      BY <2>1, <2>2
  <1> QED
    BY <1>2, <1>3, <1>4, <1>5 DEF TreeInv

LEMMA IdleTreeIs ==
  /\ DOMAIN IdleTree = {"phase", "category", "target", "tree", "overtaken"}
  /\ IdleTree.phase = "idle"
  BY DEF IdleTree

LEMMA CheckParentKeeps ==
  ASSUME TreeInv, NEW h \in TreeHandlers, NEW c, NEW target, CheckParent(h, c, target)
  PROVE  TreeInv'
  <1>1. PICK r : r = [IdleTree EXCEPT !.phase = IF c = Root THEN "create" ELSE "move",
                                      !.category = c, !.target = target]
    OBVIOUS
  <1>2. /\ c \in DOMAIN parent \cup {Root} /\ ParentValid(parent, target, c)
        /\ treeReq' = [treeReq EXCEPT ![h] = r]
        /\ UNCHANGED <<parent, nextId, treeCache, redisUp, treeChanges, movesCrossed, cacheOutdated>>
    BY <1>1 DEF CheckParent
  <1>3. /\ DOMAIN r = {"phase", "category", "target", "tree", "overtaken"}
        /\ r.phase = (IF c = Root THEN "create" ELSE "move") /\ r.category = c /\ r.target = target
    BY <1>1 DEF IdleTree
  <1>4. r.phase = "move" =>
             /\ r.target = Root \/ r.target \in 1 .. nextId - 1
             /\ r.target = Root \/ NotBelow(r.target, r.category)
    <2> SUFFICES ASSUME c # Root, target # Root PROVE target \in 1 .. nextId - 1 /\ NotBelow(target, c)
      BY <1>3
    <2>1. c \in DOMAIN parent /\ target \in DOMAIN parent /\ target # c /\ target \notin DescendantsOf(parent, c)
      BY <1>2 DEF ParentValid
    <2>2. TreeTyped
      BY DEF TreeInv
    <2>3. NotBelow(target, c)
      BY <2>1, <2>2, CheckedIsNotBelow
    <2> QED
      BY <2>1, <2>2, <2>3 DEF TreeTyped
  <1> QED
    BY <1>2, <1>3, <1>4, TreeRequestMoves

LEMMA CheckChildlessKeeps ==
  ASSUME TreeInv, NEW h \in TreeHandlers, NEW c, CheckChildless(h, c)
  PROVE  TreeInv'
  <1>1. PICK r : r = [IdleTree EXCEPT !.phase = "delete", !.category = c]
    OBVIOUS
  <1>2. /\ treeReq' = [treeReq EXCEPT ![h] = r] /\ UNCHANGED <<parent, nextId, movesCrossed>>
    BY <1>1 DEF CheckChildless
  <1>3. DOMAIN r = {"phase", "category", "target", "tree", "overtaken"} /\ r.phase = "delete"
    BY <1>1 DEF IdleTree
  <1> QED
    BY <1>2, <1>3, TreeRequestMoves

LEMMA FetchTreeKeeps ==
  ASSUME TreeInv, NEW h \in TreeHandlers, FetchTree(h)
  PROVE  TreeInv'
  <1>1. PICK r : r = [IdleTree EXCEPT !.phase = "set", !.tree = parent]
    OBVIOUS
  <1>2. /\ treeReq' = [treeReq EXCEPT ![h] = r] /\ UNCHANGED <<parent, nextId, movesCrossed>>
    BY <1>1 DEF FetchTree
  <1>3. DOMAIN r = {"phase", "category", "target", "tree", "overtaken"} /\ r.phase = "set"
    BY <1>1 DEF IdleTree
  <1> QED
    BY <1>2, <1>3, TreeRequestMoves

LEMMA TreeRequestEnds ==
  ASSUME TreeInv, NEW h \in TreeHandlers, TreeRefused(h) \/ InvalidateTree(h) \/ SetTree(h)
  PROVE  TreeInv'
  <1>1. treeReq' = [treeReq EXCEPT ![h] = IdleTree] /\ UNCHANGED <<parent, nextId, movesCrossed>>
    BY DEF TreeRefused, InvalidateTree, SetTree
  <1>2. PICK r : r = IdleTree
    OBVIOUS
  <1> QED
    BY <1>1, <1>2, IdleTreeIs, TreeRequestMoves

\* What a write does to the requests: its own is to invalidate, the others of the kind it
\* disturbs know of it.
LEMMA WriteOvertakes ==
  ASSUME RequestsTyped, NEW h \in TreeHandlers, WriteTree(h)
  PROVE  /\ treeReq' = [g \in TreeHandlers |-> treeReq'[g]]
         /\ DOMAIN treeReq'[h] = {"phase", "category", "target", "tree", "overtaken"}
         /\ treeReq'[h].phase = "invalidate"
         /\ \A g \in TreeHandlers \ {h} :
               /\ DOMAIN treeReq'[g] = DOMAIN treeReq[g]
               /\ treeReq'[g].phase = treeReq[g].phase /\ treeReq'[g].category = treeReq[g].category
               /\ treeReq'[g].target = treeReq[g].target /\ treeReq'[g].tree = treeReq[g].tree
               /\ treeReq[g].overtaken => treeReq'[g].overtaken
               /\ treeReq[h].phase = "move" \/ treeReq[g].phase = "set" => treeReq'[g].overtaken
  <1>1. treeReq' = [g \in TreeHandlers |->
            IF g = h THEN [IdleTree EXCEPT !.phase = "invalidate"]
            ELSE [treeReq[g] EXCEPT !.overtaken = treeReq[g].overtaken \/ treeReq[h].phase = "move"
                                                    \/ treeReq[g].phase = "set"]]
    BY DEF WriteTree
  <1>2. treeReq'[h] = [IdleTree EXCEPT !.phase = "invalidate"]
    BY <1>1
  <1>3. DOMAIN treeReq'[h] = {"phase", "category", "target", "tree", "overtaken"} /\ treeReq'[h].phase = "invalidate"
    BY <1>2 DEF IdleTree
  <1>4. ASSUME NEW g \in TreeHandlers \ {h}
        PROVE  /\ DOMAIN treeReq'[g] = DOMAIN treeReq[g]
               /\ treeReq'[g].phase = treeReq[g].phase /\ treeReq'[g].category = treeReq[g].category
               /\ treeReq'[g].target = treeReq[g].target /\ treeReq'[g].tree = treeReq[g].tree
               /\ treeReq[g].overtaken => treeReq'[g].overtaken
               /\ treeReq[h].phase = "move" \/ treeReq[g].phase = "set" => treeReq'[g].overtaken
    <2>1. PICK b : b = (treeReq[g].overtaken \/ treeReq[h].phase = "move" \/ treeReq[g].phase = "set")
      BY Zenon
    <2>2. treeReq'[g] = [treeReq[g] EXCEPT !.overtaken = b]
      BY <1>1, <2>1
    <2>3. /\ treeReq[g].overtaken => b
          /\ treeReq[h].phase = "move" \/ treeReq[g].phase = "set" => b
      BY <2>1, Zenon
    <2>4. DOMAIN treeReq[g] = {"phase", "category", "target", "tree", "overtaken"}
      BY DEF RequestsTyped
    <2>5. /\ DOMAIN treeReq'[g] = DOMAIN treeReq[g]
          /\ treeReq'[g].phase = treeReq[g].phase /\ treeReq'[g].category = treeReq[g].category
          /\ treeReq'[g].target = treeReq[g].target /\ treeReq'[g].tree = treeReq[g].tree
          /\ treeReq'[g].overtaken = b
      BY <2>2, <2>4
    <2> QED
      BY <2>3, <2>5
  <1> QED
    BY <1>1, <1>3, <1>4

LEMMA WriteKeepsRequests ==
  ASSUME RequestsTyped, NEW h \in TreeHandlers, WriteTree(h)
  PROVE  RequestsTyped'
  <1>1. treeReq' = [g \in TreeHandlers |-> treeReq'[g]]
    BY WriteOvertakes
  <1>2. /\ DOMAIN treeReq'[h] = {"phase", "category", "target", "tree", "overtaken"}
        /\ treeReq'[h].phase = "invalidate"
        /\ \A g \in TreeHandlers \ {h} :
              DOMAIN treeReq'[g] = DOMAIN treeReq[g] /\ treeReq'[g].phase = treeReq[g].phase
    BY WriteOvertakes
  <1> QED
    BY <1>1, <1>2 DEF RequestsTyped

\* With no move before it that it did not see, a move makes no cycle.
LEMMA MoveKeepsForest ==
  ASSUME TreeTyped, Forest(parent), NEW c \in DOMAIN parent, NEW t \in DOMAIN parent \cup {Root},
         t = Root \/ NotBelow(t, c), Root \notin DOMAIN parent,
         NEW q, q = [x \in DOMAIN parent |-> IF x = c THEN t ELSE parent[x]]
  PROVE  Forest(q)
  <1> SUFFICES ASSUME NEW S \in SUBSET DOMAIN parent, S # {}, \A x \in S : q[x] \in S
               PROVE  FALSE
    BY DEF Forest
  <1>1. q[c] = t /\ \A x \in DOMAIN parent \ {c} : q[x] = parent[x]
    OBVIOUS
  <1>2. c \in S
    <2> SUFFICES ASSUME c \notin S PROVE FALSE
      OBVIOUS
    <2>1. \A x \in S : parent[x] \in S
      BY <1>1
    <2> QED
      BY <2>1 DEF Forest
  <1>3. t \in S /\ t # Root
    BY <1>1, <1>2
  <1>4. PICK U \in SUBSET DOMAIN parent : t \in U /\ c \notin U /\ \A x \in U : parent[x] \in U \cup {Root}
    BY <1>3 DEF NotBelow
  <1>5. S \cap U \in SUBSET DOMAIN parent /\ S \cap U # {}
    BY <1>3, <1>4
  <1>6. PICK x \in S \cap U : parent[x] \notin S \cap U
    BY <1>5 DEF Forest
  <1>7. q[x] = parent[x] /\ q[x] \in S
    BY <1>1, <1>4, <1>6
  <1> QED
    BY <1>4, <1>6, <1>7

LEMMA MoveWrites ==
  ASSUME TreeInv, NEW h \in TreeHandlers, WriteTree(h), treeReq[h].phase = "move"
  PROVE  TreeInv'
  <1>1. PICK c : c = treeReq[h].category
    OBVIOUS
  <1>2. PICK t : t = treeReq[h].target
    OBVIOUS
  <1>3. c \in DOMAIN parent /\ t \in DOMAIN parent \cup {Root}
    BY <1>1, <1>2 DEF WriteTree, TreeWritable
  <1>4. parent' = [x \in DOMAIN parent |-> IF x = c THEN t ELSE parent[x]] /\ nextId' = nextId
    <2>1. parent' = [x \in DOMAIN parent \cup {c} |-> IF x = c THEN t ELSE parent[x]]
      BY <1>1, <1>2 DEF WriteTree, TreeWritten
    <2>2. DOMAIN parent \cup {c} = DOMAIN parent
      BY <1>3
    <2> QED
      BY <2>1, <2>2 DEF WriteTree
  <1>5. RequestsTyped /\ TreeTyped
    BY DEF TreeInv
  <1>6. RequestsTyped'
    BY <1>5, WriteKeepsRequests
  <1>7. TreeTyped'
    BY <1>3, <1>4, <1>5 DEF TreeTyped
  <1>8. movesCrossed' = (movesCrossed \/ (treeReq[h].phase = "move" /\ treeReq[h].overtaken))
    BY DEF WriteTree
  <1>9. ASSUME ~movesCrossed' PROVE Forest(parent') /\ MovesOK'
    <2>1. ~movesCrossed /\ ~treeReq[h].overtaken
      BY <1>8, <1>9, Zenon
    <2>2. Forest(parent) /\ (t = Root \/ NotBelow(t, c))
      BY <1>1, <1>2, <1>3, <2>1 DEF TreeInv, MovesOK
    <2>3. Root \notin DOMAIN parent
      BY <1>5, CategoryConstantsOK DEF TreeTyped
    <2>4. Forest(parent')
      BY <1>3, <1>4, <1>5, <2>2, <2>3, MoveKeepsForest
    <2>5. ASSUME NEW g \in TreeHandlers, treeReq'[g].phase = "move"
          PROVE  /\ treeReq'[g].target = Root \/ treeReq'[g].target \in 1 .. nextId - 1
                 /\ treeReq'[g].overtaken
      <3>1. g # h /\ treeReq'[g].target = treeReq[g].target /\ treeReq[g].phase = "move" /\ treeReq'[g].overtaken
        BY <1>5, <2>5, WriteOvertakes
      <3> QED
        BY <2>1, <3>1 DEF TreeInv, MovesOK
    <2>6. MovesOK'
      BY <1>4, <2>5 DEF MovesOK
    <2> QED
      BY <2>4, <2>6
  <1> QED
    BY <1>6, <1>7, <1>9 DEF TreeInv

LEMMA CreateWrites ==
  ASSUME TreeInv, NEW h \in TreeHandlers, WriteTree(h), treeReq[h].phase = "create"
  PROVE  TreeInv'
  <1>1. PICK t : t = treeReq[h].target
    OBVIOUS
  <1>2. nextId \in CategoryIds /\ t \in DOMAIN parent \cup {Root}
    BY <1>1 DEF WriteTree, TreeWritable
  <1>3. parent' = [x \in DOMAIN parent \cup {nextId} |-> IF x = nextId THEN t ELSE parent[x]]
    BY <1>1 DEF WriteTree, TreeWritten
  <1>4. nextId' = nextId + 1
    BY DEF WriteTree
  <1>5. RequestsTyped /\ TreeTyped
    BY DEF TreeInv
  <1>6. RequestsTyped'
    BY <1>5, WriteKeepsRequests
  <1>7. /\ nextId \in Nat \ {0} /\ DOMAIN parent \subseteq 1 .. nextId - 1 /\ nextId \notin DOMAIN parent
        /\ nextId <= MaxCategories /\ nextId # Root /\ Root \notin DOMAIN parent
        /\ DOMAIN parent' = DOMAIN parent \cup {nextId} /\ parent'[nextId] = t
        /\ \A x \in DOMAIN parent : parent'[x] = parent[x]
    BY <1>2, <1>3, <1>5, CategoryConstantsOK DEF TreeTyped, CategoryIds
  <1>8. TreeTyped'
    <2>1. nextId' \in Nat \ {0} /\ nextId' - 1 <= MaxCategories /\ DOMAIN parent' \subseteq 1 .. nextId' - 1
      BY <1>4, <1>7, CategoryConstantsOK
    <2>2. \A x \in DOMAIN parent' : parent'[x] \in DOMAIN parent' \cup {Root}
      BY <1>2, <1>5, <1>7 DEF TreeTyped
    <2>3. parent' = [x \in DOMAIN parent' |-> parent'[x]]
      BY <1>3
    <2> QED
      BY <2>1, <2>2, <2>3 DEF TreeTyped
  <1>9. movesCrossed' = (movesCrossed \/ (treeReq[h].phase = "move" /\ treeReq[h].overtaken))
    BY DEF WriteTree
  <1>10. ASSUME ~movesCrossed' PROVE Forest(parent') /\ MovesOK'
    <2>1. ~movesCrossed
      BY <1>9, <1>10, Zenon
    <2>2. Forest(parent) /\ MovesOK
      BY <2>1 DEF TreeInv
    <2>3. Forest(parent')
      <3> SUFFICES ASSUME NEW S \in SUBSET DOMAIN parent', S # {} PROVE \E x \in S : parent'[x] \notin S
        BY DEF Forest
      <3>1. CASE S = {nextId}
        <4>1. t # nextId
          BY <1>2, <1>7
        <4> QED
          BY <1>7, <3>1, <4>1
      <3>2. CASE S # {nextId}
        <4>1. S \ {nextId} \in SUBSET DOMAIN parent /\ S \ {nextId} # {}
          BY <1>7, <3>2
        <4>2. PICK x \in S \ {nextId} : parent[x] \notin S \ {nextId}
          BY <2>2, <4>1 DEF Forest
        <4>3. parent'[x] = parent[x] /\ parent[x] # nextId
          BY <1>5, <1>7, <4>1 DEF TreeTyped
        <4> QED
          BY <4>2, <4>3
      <3> QED
        BY <3>1, <3>2
    <2>4. ASSUME NEW g \in TreeHandlers, treeReq'[g].phase = "move"
          PROVE  /\ treeReq'[g].target = Root \/ treeReq'[g].target \in 1 .. nextId' - 1
                 /\ \/ treeReq'[g].overtaken \/ treeReq'[g].target = Root
                    \/ treeReq'[g].target \notin DOMAIN parent'
                    \/ NotBelow(treeReq[g].target, treeReq[g].category)'
      <3>1. /\ g # h /\ treeReq'[g].target = treeReq[g].target /\ treeReq[g].phase = "move"
            /\ treeReq'[g].category = treeReq[g].category
            /\ treeReq[g].overtaken => treeReq'[g].overtaken
        BY <1>5, <2>4, WriteOvertakes
      <3>2. /\ treeReq[g].target = Root \/ treeReq[g].target \in 1 .. nextId - 1
            /\ \/ treeReq[g].overtaken \/ treeReq[g].target = Root
               \/ treeReq[g].target \notin DOMAIN parent
               \/ NotBelow(treeReq[g].target, treeReq[g].category)
        BY <2>2, <3>1 DEF MovesOK
      <3>3. treeReq[g].target # nextId
        BY <1>7, <3>2
      <3>4. NotBelow(treeReq[g].target, treeReq[g].category) => NotBelow(treeReq[g].target, treeReq[g].category)'
        BY <1>7, <3>1 DEF NotBelow
      <3>5. treeReq'[g].target = Root \/ treeReq'[g].target \in 1 .. nextId' - 1
        BY <1>4, <1>7, <3>1, <3>2
      <3>6. treeReq[g].target \notin DOMAIN parent => treeReq'[g].target \notin DOMAIN parent'
        BY <1>7, <3>1, <3>3
      <3> QED
        BY <3>1, <3>2, <3>4, <3>5, <3>6
    <2>5. MovesOK'
      BY <2>4 DEF MovesOK
    <2> QED
      BY <2>3, <2>5
  <1> QED
    BY <1>6, <1>8, <1>10 DEF TreeInv

LEMMA DeleteWrites ==
  ASSUME TreeInv, NEW h \in TreeHandlers, WriteTree(h), treeReq[h].phase = "delete"
  PROVE  TreeInv'
  <1>1. PICK d : d = treeReq[h].category
    OBVIOUS
  <1>2. parent' = [x \in DOMAIN parent \ {d} |-> IF parent[x] = d THEN Root ELSE parent[x]]
    BY <1>1 DEF WriteTree, TreeWritten
  <1>3. nextId' = nextId /\ d \in DOMAIN parent
    BY <1>1 DEF WriteTree, TreeWritable
  <1>4. RequestsTyped /\ TreeTyped
    BY DEF TreeInv
  <1>5. RequestsTyped'
    BY <1>4, WriteKeepsRequests
  <1>6. Root \notin DOMAIN parent
    BY <1>4, CategoryConstantsOK DEF TreeTyped
  <1>7. TreeTyped'
    BY <1>2, <1>3, <1>4 DEF TreeTyped
  <1>8. movesCrossed' = (movesCrossed \/ (treeReq[h].phase = "move" /\ treeReq[h].overtaken))
    BY DEF WriteTree
  <1>9. ASSUME ~movesCrossed' PROVE Forest(parent') /\ MovesOK'
    <2>1. ~movesCrossed
      BY <1>8, <1>9, Zenon
    <2>2. Forest(parent) /\ MovesOK
      BY <2>1 DEF TreeInv
    <2>3. Forest(parent')
      <3> SUFFICES ASSUME NEW S \in SUBSET DOMAIN parent', S # {} PROVE \E x \in S : parent'[x] \notin S
        BY DEF Forest
      <3>1. S \in SUBSET DOMAIN parent /\ d \notin S
        BY <1>2
      <3>2. PICK x \in S : parent[x] \notin S
        BY <2>2, <3>1 DEF Forest
      <3> QED
        BY <1>2, <1>6, <3>1, <3>2
    <2>4. ASSUME NEW g \in TreeHandlers, treeReq'[g].phase = "move"
          PROVE  /\ treeReq'[g].target = Root \/ treeReq'[g].target \in 1 .. nextId' - 1
                 /\ \/ treeReq'[g].overtaken \/ treeReq'[g].target = Root
                    \/ treeReq'[g].target \notin DOMAIN parent'
                    \/ NotBelow(treeReq[g].target, treeReq[g].category)'
      <3>1. /\ g # h /\ treeReq'[g].target = treeReq[g].target /\ treeReq[g].phase = "move"
            /\ treeReq'[g].category = treeReq[g].category
            /\ treeReq[g].overtaken => treeReq'[g].overtaken
        BY <1>4, <2>4, WriteOvertakes
      <3>2. /\ treeReq[g].target = Root \/ treeReq[g].target \in 1 .. nextId - 1
            /\ \/ treeReq[g].overtaken \/ treeReq[g].target = Root
               \/ treeReq[g].target \notin DOMAIN parent
               \/ NotBelow(treeReq[g].target, treeReq[g].category)
        BY <2>2, <3>1 DEF MovesOK
      <3>3. ASSUME NotBelow(treeReq[g].target, treeReq[g].category), treeReq[g].target # d
            PROVE  NotBelow(treeReq[g].target, treeReq[g].category)'
        <4>1. PICK U \in SUBSET DOMAIN parent :
                 /\ treeReq[g].target \in U /\ treeReq[g].category \notin U
                 /\ \A x \in U : parent[x] \in U \cup {Root}
          BY <3>3 DEF NotBelow
        <4>2. /\ U \ {d} \in SUBSET DOMAIN parent' /\ treeReq[g].target \in U \ {d}
              /\ treeReq[g].category \notin U \ {d}
              /\ \A x \in U \ {d} : parent'[x] \in (U \ {d}) \cup {Root}
          BY <1>2, <3>3, <4>1
        <4> QED
          BY <3>1, <4>2 DEF NotBelow
      <3>4. treeReq[g].target = d \/ treeReq[g].target \notin DOMAIN parent => treeReq'[g].target \notin DOMAIN parent'
        BY <1>2, <3>1
      <3>5. treeReq'[g].target = Root \/ treeReq'[g].target \in 1 .. nextId' - 1
        BY <1>3, <3>1, <3>2
      <3> QED
        BY <3>1, <3>2, <3>3, <3>4, <3>5
    <2>5. MovesOK'
      BY <2>4 DEF MovesOK
    <2> QED
      BY <2>3, <2>5
  <1> QED
    BY <1>5, <1>7, <1>9 DEF TreeInv

\* Every step keeps the categories a forest, but for moves that crossed.
LEMMA TreeStep == TreeInv /\ [CategoriesNext]_treeVars => TreeInv'
  <1> SUFFICES ASSUME TreeInv, [CategoriesNext]_treeVars PROVE TreeInv'
    OBVIOUS
  <1>1. ASSUME NEW h \in TreeHandlers, NEW c, NEW target, CheckParent(h, c, target) PROVE TreeInv'
    BY <1>1, CheckParentKeeps
  <1>2. ASSUME NEW h \in TreeHandlers, NEW c, CheckChildless(h, c) PROVE TreeInv'
    BY <1>2, CheckChildlessKeeps
  <1>3. ASSUME NEW h \in TreeHandlers, WriteTree(h) PROVE TreeInv'
    <2>1. treeReq[h].phase \in {"create", "move", "delete"}
      BY <1>3 DEF WriteTree
    <2> QED
      BY <1>3, <2>1, MoveWrites, CreateWrites, DeleteWrites
  <1>4. ASSUME NEW h \in TreeHandlers, TreeRefused(h) \/ InvalidateTree(h) \/ SetTree(h) PROVE TreeInv'
    BY <1>4, TreeRequestEnds
  <1>5. ASSUME NEW h \in TreeHandlers, FetchTree(h) PROVE TreeInv'
    BY <1>5, FetchTreeKeeps
  <1>6. ASSUME UNCHANGED <<parent, nextId, treeReq, movesCrossed>> PROVE TreeInv'
    BY <1>6 DEF TreeInv, RequestsTyped, TreeTyped, Forest, MovesOK, NotBelow
  <1>7. TreeExpires \/ RedisComesAndGoes \/ UNCHANGED treeVars
            => UNCHANGED <<parent, nextId, treeReq, movesCrossed>>
    BY DEF TreeExpires, RedisComesAndGoes, treeVars
  <1> QED
    BY <1>1, <1>2, <1>3, <1>4, <1>5, <1>6, <1>7 DEF CategoriesNext

\* Every category is below the root, unless two moves were in flight together: for any number
\* of categories and requests, whatever is created or deleted between the check of a move and
\* its write (category.service.ts 24-38).
THEOREM NoCategoryIsLost == CategoriesSpec => []EveryCategoryShown
  <1>1. TreeInv => EveryCategoryShown
    <2> SUFFICES ASSUME TreeInv, ~movesCrossed PROVE ShownBy(parent) = DOMAIN parent
      BY DEF EveryCategoryShown
    <2>1. /\ Forest(parent) /\ DOMAIN parent \subseteq CategoryIds
          /\ \A c \in DOMAIN parent : parent[c] \in DOMAIN parent \cup {Root}
      BY CategoryConstantsOK DEF TreeInv, TreeTyped, CategoryIds
    <2> QED
      BY <2>1, ForestIsShown
  <1> QED
    BY <1>1, TreeInvInit, TreeStep, PTL DEF CategoriesSpec

LEMMA CacheInvInit == CategoriesInit => CacheInv
  <1> SUFFICES ASSUME CategoriesInit PROVE CacheInv
    OBVIOUS
  <1>1. treeReq = [h \in TreeHandlers |-> IdleTree] /\ treeCache = NoTree
    BY DEF CategoriesInit
  <1> QED
    BY <1>1, IdleTreeIs DEF CacheInv, RequestsTyped

\* A request that was not to invalidate goes on, and Redis holds what it held or nothing.
LEMMA CacheRequestMoves ==
  ASSUME CacheInv, NEW h \in TreeHandlers, NEW r, treeReq' = [treeReq EXCEPT ![h] = r],
         DOMAIN r = {"phase", "category", "target", "tree", "overtaken"},
         r.phase \in {"idle", "create", "move", "delete", "set"},
         r.phase = "set" => r.tree = parent,
         treeReq[h].phase # "invalidate", UNCHANGED <<parent, treeCache, cacheOutdated>>
  PROVE  CacheInv'
  <1>1. /\ treeReq' = [g \in TreeHandlers |-> treeReq'[g]] /\ treeReq'[h] = r
        /\ \A g \in TreeHandlers \ {h} : treeReq'[g] = treeReq[g]
    BY DEF CacheInv, RequestsTyped
  <1>2. RequestsTyped'
    BY <1>1 DEF CacheInv, RequestsTyped
  <1>3. (treeCache \in {NoTree, parent})' \/ cacheOutdated' \/ \E g \in TreeHandlers : treeReq'[g].phase = "invalidate"
    <2>1. CASE \E g \in TreeHandlers : treeReq[g].phase = "invalidate"
      BY <1>1, <2>1
    <2>2. CASE treeCache \in {NoTree, parent}
      BY <2>2
    <2>3. cacheOutdated' <=> cacheOutdated
      OBVIOUS
    <2> QED
      BY <2>1, <2>2, <2>3 DEF CacheInv
  <1>4. \A g \in TreeHandlers : treeReq'[g].phase = "set" => treeReq'[g].overtaken \/ treeReq'[g].tree = parent'
    <2> SUFFICES ASSUME NEW g \in TreeHandlers, treeReq'[g].phase = "set"
                 PROVE  treeReq'[g].overtaken \/ treeReq'[g].tree = parent
      OBVIOUS
    <2>1. CASE g = h
      BY <1>1, <2>1
    <2>2. CASE g # h
      BY <1>1, <2>2 DEF CacheInv
    <2> QED
      BY <2>1, <2>2
  <1> QED
    BY <1>2, <1>3, <1>4 DEF CacheInv

\* A request ends; what is then in Redis is nothing, the table's tree or known to be old.
LEMMA CacheRequestEnds ==
  ASSUME CacheInv, NEW h \in TreeHandlers, treeReq' = [treeReq EXCEPT ![h] = IdleTree],
         UNCHANGED parent, (treeCache \in {NoTree, parent})' \/ cacheOutdated'
  PROVE  CacheInv'
  <1>1. /\ treeReq' = [g \in TreeHandlers |-> treeReq'[g]] /\ treeReq'[h] = IdleTree
        /\ \A g \in TreeHandlers \ {h} : treeReq'[g] = treeReq[g]
    BY DEF CacheInv, RequestsTyped
  <1>2. RequestsTyped'
    BY <1>1, IdleTreeIs DEF CacheInv, RequestsTyped
  <1>3. \A g \in TreeHandlers : treeReq'[g].phase = "set" => treeReq'[g].overtaken \/ treeReq'[g].tree = parent'
    BY <1>1, IdleTreeIs DEF CacheInv
  <1> QED
    BY <1>2, <1>3 DEF CacheInv

LEMMA CacheChecked ==
  ASSUME CacheInv, NEW h \in TreeHandlers, NEW c, NEW target,
         CheckParent(h, c, target) \/ CheckChildless(h, c) \/ FetchTree(h)
  PROVE  CacheInv'
  <1>1. CASE CheckParent(h, c, target)
    <2>1. PICK r : r = [IdleTree EXCEPT !.phase = IF c = Root THEN "create" ELSE "move",
                                        !.category = c, !.target = target]
      OBVIOUS
    <2>2. /\ treeReq' = [treeReq EXCEPT ![h] = r] /\ treeReq[h].phase = "idle"
          /\ UNCHANGED <<parent, treeCache, cacheOutdated>>
      BY <1>1, <2>1 DEF CheckParent
    <2>3. /\ DOMAIN r = {"phase", "category", "target", "tree", "overtaken"}
          /\ r.phase = (IF c = Root THEN "create" ELSE "move")
      BY <2>1 DEF IdleTree
    <2> QED
      BY <2>2, <2>3, CacheRequestMoves
  <1>2. CASE CheckChildless(h, c)
    <2>1. PICK r : r = [IdleTree EXCEPT !.phase = "delete", !.category = c]
      OBVIOUS
    <2>2. /\ treeReq' = [treeReq EXCEPT ![h] = r] /\ treeReq[h].phase = "idle"
          /\ UNCHANGED <<parent, treeCache, cacheOutdated>>
      BY <1>2, <2>1 DEF CheckChildless
    <2>3. DOMAIN r = {"phase", "category", "target", "tree", "overtaken"} /\ r.phase = "delete"
      BY <2>1 DEF IdleTree
    <2> QED
      BY <2>2, <2>3, CacheRequestMoves
  <1>3. CASE FetchTree(h)
    <2>1. PICK r : r = [IdleTree EXCEPT !.phase = "set", !.tree = parent]
      OBVIOUS
    <2>2. /\ treeReq' = [treeReq EXCEPT ![h] = r] /\ treeReq[h].phase = "idle"
          /\ UNCHANGED <<parent, treeCache, cacheOutdated>>
      BY <1>3, <2>1 DEF FetchTree
    <2>3. /\ DOMAIN r = {"phase", "category", "target", "tree", "overtaken"}
          /\ r.phase = "set" /\ r.tree = parent
      BY <2>1 DEF IdleTree
    <2> QED
      BY <2>2, <2>3, CacheRequestMoves
  <1> QED
    BY <1>1, <1>2, <1>3

LEMMA CacheWritten ==
  ASSUME CacheInv, NEW h \in TreeHandlers, WriteTree(h)
  PROVE  CacheInv'
  <1>1. RequestsTyped
    BY DEF CacheInv
  <1>2. RequestsTyped'
    BY <1>1, WriteKeepsRequests
  <1>3. treeReq'[h].phase = "invalidate"
    BY <1>1, WriteOvertakes
  <1>4. ASSUME NEW g \in TreeHandlers, treeReq'[g].phase = "set" PROVE treeReq'[g].overtaken
    <2>1. g # h /\ treeReq[g].phase = "set"
      BY <1>1, <1>3, <1>4, WriteOvertakes
    <2> QED
      BY <1>1, <2>1, WriteOvertakes
  <1> QED
    BY <1>2, <1>3, <1>4 DEF CacheInv

LEMMA CacheStep == CacheInv /\ [CategoriesNext]_treeVars => CacheInv'
  <1> SUFFICES ASSUME CacheInv, [CategoriesNext]_treeVars PROVE CacheInv'
    OBVIOUS
  <1>1. ASSUME NEW h \in TreeHandlers, NEW c, NEW target, CheckParent(h, c, target) PROVE CacheInv'
    BY <1>1, CacheChecked
  <1>2. ASSUME NEW h \in TreeHandlers, NEW c, CheckChildless(h, c) PROVE CacheInv'
    BY <1>2, CacheChecked
  <1>3. ASSUME NEW h \in TreeHandlers, WriteTree(h) PROVE CacheInv'
    BY <1>3, CacheWritten
  <1>4. ASSUME NEW h \in TreeHandlers, TreeRefused(h) PROVE CacheInv'
    <2>1. PICK r : r = IdleTree
      OBVIOUS
    <2>2. /\ treeReq' = [treeReq EXCEPT ![h] = r] /\ treeReq[h].phase \in {"create", "move", "delete"}
          /\ UNCHANGED <<parent, treeCache, cacheOutdated>>
      BY <1>4, <2>1 DEF TreeRefused
    <2> QED
      BY <2>1, <2>2, IdleTreeIs, CacheRequestMoves
  <1>5. ASSUME NEW h \in TreeHandlers, InvalidateTree(h) PROVE CacheInv'
    <2>1. /\ treeReq' = [treeReq EXCEPT ![h] = IdleTree] /\ UNCHANGED parent
          /\ treeCache' = IF redisUp THEN NoTree ELSE treeCache
      BY <1>5 DEF InvalidateTree, InvalidatedByPrefix
    <2>2. cacheOutdated' = (~redisUp /\ treeCache # NoTree)
      BY <1>5 DEF InvalidateTree
    <2>3. ~redisUp /\ treeCache # NoTree => cacheOutdated'
      BY <2>2, Zenon
    <2>4. treeCache' = NoTree \/ cacheOutdated'
      BY <2>1, <2>3
    <2> QED
      BY <2>1, <2>4, CacheRequestEnds
  <1>6. ASSUME NEW h \in TreeHandlers, FetchTree(h) PROVE CacheInv'
    BY <1>6, CacheChecked
  <1>7. ASSUME NEW h \in TreeHandlers, SetTree(h) PROVE CacheInv'
    <2>1. CASE redisUp
      <3>1. /\ treeReq' = [treeReq EXCEPT ![h] = IdleTree] /\ UNCHANGED parent
            /\ treeCache' = treeReq[h].tree /\ treeReq[h].phase = "set"
        BY <1>7, <2>1 DEF SetTree
      <3>2. cacheOutdated' = (IF redisUp THEN treeReq[h].overtaken ELSE cacheOutdated)
        BY <1>7 DEF SetTree
      <3>3. treeReq[h].overtaken => cacheOutdated'
        BY <2>1, <3>2, Zenon
      <3>4. treeReq[h].overtaken \/ treeReq[h].tree = parent
        BY <3>1 DEF CacheInv
      <3> QED
        BY <3>1, <3>3, <3>4, CacheRequestEnds
    <2>2. CASE ~redisUp
      <3>1. PICK r : r = IdleTree
        OBVIOUS
      <3>2. cacheOutdated' = (IF redisUp THEN treeReq[h].overtaken ELSE cacheOutdated)
        BY <1>7 DEF SetTree
      <3>3. cacheOutdated' = cacheOutdated
        BY <2>2, <3>2, Zenon
      <3>4. treeReq' = [treeReq EXCEPT ![h] = r] /\ treeReq[h].phase = "set" /\ UNCHANGED <<parent, treeCache>>
        BY <1>7, <2>2, <3>1 DEF SetTree
      <3> QED
        BY <3>1, <3>3, <3>4, IdleTreeIs, CacheRequestMoves
    <2> QED
      BY <2>1, <2>2
  <1>8. ASSUME TreeExpires PROVE CacheInv'
    BY <1>8 DEF CacheInv, RequestsTyped, TreeExpires
  <1>9. ASSUME RedisComesAndGoes \/ UNCHANGED treeVars PROVE CacheInv'
    <2>1. UNCHANGED <<parent, treeReq, treeCache, cacheOutdated>>
      BY <1>9 DEF RedisComesAndGoes, treeVars
    <2> QED
      BY <2>1 DEF CacheInv, RequestsTyped
  <1> QED
    BY <1>1, <1>2, <1>3, <1>4, <1>5, <1>6, <1>7, <1>8, <1>9 DEF CategoriesNext

\* The cached tree is the table's once no writer is between its write and its invalidation, but
\* for what an overtaken reader set or Redis kept through an outage: for any number of
\* categories, readers and writers (lib/cache.ts 17-67).
THEOREM CachedTreeIsTheTables == CategoriesSpec => []CachedTreeIsCurrent
  <1>1. CacheInv => CachedTreeIsCurrent
    BY DEF CacheInv, CachedTreeIsCurrent
  <1> QED
    BY <1>1, CacheInvInit, CacheStep, PTL DEF CategoriesSpec
-------------------------------------------------------------------------------
(* The cached pages. A page that is not of the row has somebody who is to  *)
(* invalidate it, or is left to the expiry: whoever has written still has  *)
(* to, and whoever has fetched before a write knows.                       *)

PagesSpec == PagesInit /\ [][PagesNext]_pagesVars

RowWrites == {"create", "update", "upsert", "delete"}

LinkWrites == {"link", "unlink"}

\* After its statement i a request invalidates the key.
ReachedAfter(steps, i) == \E j \in DOMAIN steps : i < j /\ Invalidates(steps[j], pageKey)

\* The page is of a slug the post has neither before nor after what the request writes.
OfOtherSlug(r, what) ==
    /\ kind = "blog-post" /\ pageKey.prefix = "blog-post:slug"
    /\ \/ what = "create"
       \/ pageKey.slug # r.oldSlug /\ ("slug" \in DOMAIN r.new => pageKey.slug # r.new.slug)

\* What a request writes it is to invalidate, unless only time does that: the row first,
\* its links after it, a post's after the invalidation.
StepsOK(r) ==
    /\ \E S : r.todo \in Seq(S)
    /\ \A i \in DOMAIN r.todo :
          /\ r.todo[i].do \in RowWrites \cup LinkWrites \cup {"invalidate", "set"}
          /\ r.todo[i].do \in RowWrites =>
                /\ i = 1 /\ ~r.wrote
                /\ \/ pageKey.prefix \in ShortLived
                   \/ ReachedAfter(r.todo, i)
                   \/ OfOtherSlug(r, r.todo[i].do)
          /\ r.todo[i].do \in LinkWrites =>
                pageKey.prefix \in ShortLived \/ kind = "blog-post" \/ ReachedAfter(r.todo, i)
          /\ r.todo[i].do = "set" => r.todo = <<Do("set")>>

Reading(r) == r.todo = <<Do("set")>>

Invalidating(r) == r.wrote /\ \E i \in DOMAIN r.todo : Invalidates(r.todo[i], pageKey)

PagesTyped ==
    /\ kind \in Kinds /\ pageKey.prefix \in PrefixesOf(kind)
    /\ content # NoRow => DOMAIN content = {"slug", "shown", "text", "linked", "views"}
    /\ pageReq = [h \in PageHandlers |-> pageReq[h]]
    /\ \A h \in PageHandlers :
          DOMAIN pageReq[h] = {"todo", "new", "oldSlug", "page", "wrote", "overtaken"}

\* What readers carry is what they would fetch now, or they know of a write since.
ReadersOK ==
    \A h \in PageHandlers : Reading(pageReq[h]) =>
        /\ pageReq[h].page # NotFound
        /\ pageReq[h].overtaken \/ pageReq[h].page = PageOf(pageKey, content)

PageOK ==
    /\ page = NoPage \/ page # NotFound
    /\ \/ page \in {NoPage, PageOf(pageKey, content)} \/ pageOutdated
       \/ \E h \in PageHandlers : Invalidating(pageReq[h])

PagesInv ==
    /\ PagesTyped /\ ReadersOK /\ PageOK
    /\ \A h \in PageHandlers : StepsOK(pageReq[h])

IsSequence(s) == \E S : s \in Seq(S)

\* Of links and invalidations only.
Loose(s) == IsSequence(s) /\ \A i \in DOMAIN s : s[i].do \in LinkWrites \cup {"invalidate"}

Reaches(s) == \E j \in DOMAIN s : Invalidates(s[j], pageKey)

\* What may follow the write of the row.
Rest(s) ==
    /\ Loose(s)
    /\ \A i \in DOMAIN s : s[i].do \in LinkWrites =>
          pageKey.prefix \in ShortLived \/ kind = "blog-post" \/ ReachedAfter(s, i)

LEMMA Concatenated ==
  ASSUME NEW s, NEW t, IsSequence(s), IsSequence(t)
  PROVE  /\ IsSequence(s \o t) /\ Len(s) \in Nat /\ Len(t) \in Nat /\ Len(s \o t) = Len(s) + Len(t)
         /\ DOMAIN s = 1 .. Len(s) /\ DOMAIN t = 1 .. Len(t) /\ DOMAIN (s \o t) = 1 .. Len(s) + Len(t)
         /\ \A i \in DOMAIN s : i \in DOMAIN (s \o t) /\ (s \o t)[i] = s[i]
         /\ \A i \in DOMAIN t : Len(s) + i \in DOMAIN (s \o t) /\ (s \o t)[Len(s) + i] = t[i]
         /\ \A i \in DOMAIN (s \o t) : i \in DOMAIN s \/ i - Len(s) \in DOMAIN t
  <1>1. PICK S : s \in Seq(S)
    BY DEF IsSequence
  <1>2. PICK T : t \in Seq(T)
    BY DEF IsSequence
  <1>3. s \in Seq(S \cup T) /\ t \in Seq(S \cup T)
    BY <1>1, <1>2, SeqMonotonic
  <1> DEFINE U == S \cup T
  <1> HIDE DEF U
  <1>4. s \in Seq(U) /\ t \in Seq(U)
    BY <1>3 DEF U
  <1>5. /\ s \o t \in Seq(U) /\ Len(s \o t) = Len(s) + Len(t)
        /\ \A i \in 1 .. Len(s) + Len(t) : (s \o t)[i] = IF i <= Len(s) THEN s[i] ELSE t[i - Len(s)]
    BY <1>4, ConcatProperties
  <1>6. /\ Len(s) \in Nat /\ Len(t) \in Nat /\ DOMAIN s = 1 .. Len(s) /\ DOMAIN t = 1 .. Len(t)
        /\ DOMAIN (s \o t) = 1 .. Len(s) + Len(t)
    BY <1>4, <1>5, LenProperties
  <1>7. IsSequence(s \o t)
    BY <1>5 DEF IsSequence
  <1> DEFINE u == s \o t
  <1> HIDE DEF u
  <1>8. /\ DOMAIN u = 1 .. Len(s) + Len(t)
        /\ \A i \in 1 .. Len(s) + Len(t) : u[i] = IF i <= Len(s) THEN s[i] ELSE t[i - Len(s)]
    BY <1>5, <1>6 DEF u
  <1>9. \A i \in DOMAIN s : i \in DOMAIN u /\ u[i] = s[i]
    BY <1>6, <1>8
  <1>10. \A i \in DOMAIN t : Len(s) + i \in DOMAIN u /\ u[Len(s) + i] = t[i]
    <2> SUFFICES ASSUME NEW i \in DOMAIN t PROVE Len(s) + i \in DOMAIN u /\ u[Len(s) + i] = t[i]
      OBVIOUS
    <2>1. i \in Nat /\ Len(s) + i \in 1 .. Len(s) + Len(t) /\ ~(Len(s) + i <= Len(s)) /\ (Len(s) + i) - Len(s) = i
      BY <1>6
    <2> QED
      BY <1>8, <2>1
  <1>11. \A i \in DOMAIN u : i \in DOMAIN s \/ i - Len(s) \in DOMAIN t
    BY <1>6, <1>8
  <1> QED
    BY <1>5, <1>6, <1>7, <1>9, <1>10, <1>11 DEF u

LEMMA SecondPart ==
  ASSUME NEW s, NEW t, IsSequence(s), IsSequence(t)
  PROVE  \A i \in DOMAIN t : Len(s) + i \in DOMAIN (s \o t) /\ (s \o t)[Len(s) + i] = t[i]
  BY Concatenated

LEMMA LooseTogether ==
  ASSUME NEW s, NEW t, Loose(s), Loose(t)
  PROVE  Loose(s \o t) /\ (Reaches(s) \/ Reaches(t) => Reaches(s \o t))
  <1>1. IsSequence(s) /\ IsSequence(t)
    BY DEF Loose
  <1> DEFINE u == s \o t
  <1>2. /\ IsSequence(u) /\ Len(s) \in Nat
        /\ \A i \in DOMAIN s : i \in DOMAIN u /\ u[i] = s[i]
        /\ \A i \in DOMAIN t : Len(s) + i \in DOMAIN u /\ u[Len(s) + i] = t[i]
    BY <1>1, Concatenated
  <1>3. \A i \in DOMAIN u : i \in DOMAIN s \/ (i - Len(s) \in DOMAIN t /\ Len(s) + (i - Len(s)) = i)
    <2>1. DOMAIN u = 1 .. Len(s) + Len(t) /\ Len(t) \in Nat /\ Len(s) \in Nat
      BY <1>1, Concatenated
    <2>2. \A i \in DOMAIN u : i \in DOMAIN s \/ i - Len(s) \in DOMAIN t
      BY <1>1, Concatenated
    <2> HIDE DEF u
    <2>3. \A i \in DOMAIN u : Len(s) + (i - Len(s)) = i
      BY <2>1
    <2> QED
      BY <2>2, <2>3
  <1> HIDE DEF u
  <1>4. \A i \in DOMAIN u : u[i].do \in LinkWrites \cup {"invalidate"}
    BY <1>2, <1>3 DEF Loose
  <1>5. Reaches(s) \/ Reaches(t) => Reaches(u)
    BY <1>2 DEF Reaches
  <1> QED
    BY <1>2, <1>4, <1>5 DEF u, Loose

LEMMA NothingIs == Loose(<<>>)
  <1>1. <<>> \in Seq({}) /\ DOMAIN <<>> = {}
    OBVIOUS
  <1> QED
    BY <1>1 DEF Loose, IsSequence

LEMMA InvalidateIs ==
  ASSUME NEW p, NEW v
  PROVE  /\ Rest(Invalidate(p, v)) /\ Loose(Invalidate(p, v))
         /\ pageKey.prefix \in BeginningWith(p) /\ v \in {AnySlug, pageKey.slug} =>
               Reaches(Invalidate(p, v)) /\ Len(Invalidate(p, v)) = 1
  <1> DEFINE step == [do |-> "invalidate", prefix |-> p, slug |-> v]
  <1>1. Invalidate(p, v) = IF Invalidates(step, pageKey) THEN <<step>> ELSE <<>>
    BY DEF Invalidate
  <1>2. step.do = "invalidate" /\ step.prefix = p /\ step.slug = v
    OBVIOUS
  <1>3. pageKey.prefix \in BeginningWith(p) /\ v \in {AnySlug, pageKey.slug} => Invalidates(step, pageKey)
    BY <1>2 DEF Invalidates, HasPrefix
  <1> HIDE DEF step
  <1>4. /\ <<step>> \in Seq({step}) /\ <<>> \in Seq({step}) /\ Len(<<step>>) = 1
        /\ DOMAIN <<step>> = {1} /\ <<step>>[1] = step /\ DOMAIN <<>> = {}
    OBVIOUS
  <1>5. CASE Invalidates(step, pageKey)
    <2>1. Invalidate(p, v) = <<step>>
      BY <1>1, <1>5
    <2> QED
      BY <1>2, <1>4, <1>5, <2>1 DEF Rest, Loose, IsSequence, LinkWrites, Reaches
  <1>6. CASE ~Invalidates(step, pageKey)
    <2>1. Invalidate(p, v) = <<>>
      BY <1>1, <1>6
    <2> QED
      BY <1>3, <1>4, <1>6, <2>1 DEF Rest, Loose, IsSequence
  <1> QED
    BY <1>5, <1>6

LEMMA ProductRowsAre ==
  ASSUME NEW products \in {"absent", "none", "some"}
  PROVE  Loose(ProductRows(products)) /\ \A i \in DOMAIN ProductRows(products) : ProductRows(products)[i].do \in LinkWrites
  <1>1. Do("unlink").do = "unlink" /\ Do("link").do = "link"
    BY DEF Do
  <1> DEFINE a == Do("unlink")
             b == Do("link")
  <1> HIDE DEF a, b
  <1>2. ProductRows(products) \in {<<>>, <<a>>, <<a, b>>}
    BY DEF ProductRows, a, b
  <1>3. /\ <<>> \in Seq({a, b}) /\ <<a>> \in Seq({a, b}) /\ <<a, b>> \in Seq({a, b})
        /\ DOMAIN <<>> = {} /\ DOMAIN <<a>> = {1} /\ DOMAIN <<a, b>> = {1, 2}
        /\ <<a>>[1] = a /\ <<a, b>>[1] = a /\ <<a, b>>[2] = b
    OBVIOUS
  <1>4. a.do \in LinkWrites /\ b.do \in LinkWrites
    BY <1>1 DEF a, b, LinkWrites
  <1> QED
    BY <1>2, <1>3, <1>4 DEF Loose, IsSequence

\* The write of a row, with the rest after it.
LEMMA WriteThenRest ==
  ASSUME NEW what \in RowWrites, NEW s, Rest(s), NEW r, r.todo = <<Do(what)>> \o s, ~r.wrote,
         pageKey.prefix \in ShortLived \/ Reaches(s) \/ OfOtherSlug(r, what)
  PROVE  StepsOK(r) /\ ~Reading(r)
  <1> DEFINE d == Do(what)
             t == r.todo
  <1>1. d.do = what
    BY DEF Do
  <1>2. Do("set").do = "set" /\ what # "set"
    BY DEF Do, RowWrites
  <1> HIDE DEF d
  <1>3. /\ IsSequence(<<d>>) /\ DOMAIN <<d>> = {1} /\ <<d>>[1] = d /\ Len(<<d>>) = 1
    <2>1. <<d>> \in Seq({d})
      OBVIOUS
    <2>2. IsSequence(<<d>>)
      BY <2>1 DEF IsSequence
    <2>3. DOMAIN <<d>> = {1} /\ <<d>>[1] = d /\ Len(<<d>>) = 1
      OBVIOUS
    <2> QED
      BY <2>2, <2>3
  <1>4. IsSequence(s)
    BY DEF Rest, Loose
  <1>5. t = <<d>> \o s
    BY DEF d
  <1> HIDE DEF t
  <1>6. /\ IsSequence(t) /\ 1 \in DOMAIN t /\ t[1] = d
        /\ \A i \in DOMAIN s : 1 + i \in DOMAIN t /\ t[1 + i] = s[i]
        /\ \A i \in DOMAIN t : i \in {1} \/ i - 1 \in DOMAIN s
    <2> DEFINE e == <<d>>
    <2>1. IsSequence(e) /\ DOMAIN e = {1} /\ e[1] = d /\ Len(e) = 1
      BY <1>3
    <2> HIDE DEF e
    <2>2. t = e \o s
      BY <1>5 DEF e
    <2>3. IsSequence(e)
      BY <2>1
    <2>4. IsSequence(e \o s) /\ \A i \in DOMAIN e : i \in DOMAIN (e \o s) /\ (e \o s)[i] = e[i]
      BY <1>4, <2>3, Concatenated
    <2>5. \A i \in DOMAIN s : Len(e) + i \in DOMAIN (e \o s) /\ (e \o s)[Len(e) + i] = s[i]
      BY <1>4, <2>3, Concatenated
    <2>6. \A i \in DOMAIN (e \o s) : i \in DOMAIN e \/ i - Len(e) \in DOMAIN s
      BY <1>4, <2>3, Concatenated
    <2> QED
      BY <2>1, <2>2, <2>4, <2>5, <2>6
  <1>7. DOMAIN s \subseteq Nat \ {0} /\ DOMAIN t \subseteq Nat \ {0}
    <2>1. \A u : IsSequence(u) => DOMAIN u \subseteq Nat \ {0}
      <3> SUFFICES ASSUME NEW u, IsSequence(u) PROVE DOMAIN u \subseteq Nat \ {0}
        OBVIOUS
      <3>1. PICK S : u \in Seq(S)
        BY DEF IsSequence
      <3>2. DOMAIN u = 1 .. Len(u) /\ Len(u) \in Nat
        BY <3>1, LenProperties
      <3> QED
        BY <3>2
    <2> QED
      BY <1>4, <1>6, <2>1
  <1>8. \A i \in DOMAIN t : i = 1 \/ (i - 1 \in DOMAIN s /\ t[i] = s[i - 1])
    <2> SUFFICES ASSUME NEW i \in DOMAIN t, i # 1 PROVE i - 1 \in DOMAIN s /\ t[i] = s[i - 1]
      OBVIOUS
    <2>1. i - 1 \in DOMAIN s /\ 1 + (i - 1) = i
      BY <1>6, <1>7
    <2> QED
      BY <1>6, <2>1
  <1>9. Reaches(s) => ReachedAfter(t, 1)
    <2> SUFFICES ASSUME NEW j \in DOMAIN s, Invalidates(s[j], pageKey) PROVE ReachedAfter(t, 1)
      BY DEF Reaches
    <2>1. 1 + j \in DOMAIN t /\ t[1 + j] = s[j] /\ 1 < 1 + j
      BY <1>6, <1>7
    <2> QED
      BY <2>1 DEF ReachedAfter
  <1>10. ASSUME NEW i \in DOMAIN t, i # 1
         PROVE  /\ t[i].do \in LinkWrites \cup {"invalidate"}
                /\ t[i].do \in LinkWrites =>
                      pageKey.prefix \in ShortLived \/ kind = "blog-post" \/ ReachedAfter(t, i)
    <2>1. i - 1 \in DOMAIN s /\ t[i] = s[i - 1]
      BY <1>8, <1>10
    <2>2. ReachedAfter(s, i - 1) => ReachedAfter(t, i)
      <3> SUFFICES ASSUME NEW j \in DOMAIN s, i - 1 < j, Invalidates(s[j], pageKey) PROVE ReachedAfter(t, i)
        BY DEF ReachedAfter
      <3>1. 1 + j \in DOMAIN t /\ t[1 + j] = s[j] /\ i < 1 + j
        BY <1>6, <1>7
      <3> QED
        BY <3>1 DEF ReachedAfter
    <2> QED
      BY <2>1, <2>2 DEF Rest, Loose
  <1>11. ~Reading(r)
    <2> SUFFICES ASSUME t = <<Do("set")>> PROVE FALSE
      BY DEF Reading, t
    <2>1. t[1] = Do("set")
      OBVIOUS
    <2> QED
      BY <1>1, <1>2, <1>6, <2>1
  <1>12. StepsOK(r)
    <2>1. \E S : t \in Seq(S)
      BY <1>6 DEF IsSequence
    <2>2. ASSUME NEW i \in DOMAIN t
          PROVE  /\ t[i].do \in RowWrites \cup LinkWrites \cup {"invalidate", "set"}
                 /\ t[i].do \in RowWrites =>
                       /\ i = 1 /\ ~r.wrote
                       /\ pageKey.prefix \in ShortLived \/ ReachedAfter(t, i) \/ OfOtherSlug(r, t[i].do)
                 /\ t[i].do \in LinkWrites =>
                       pageKey.prefix \in ShortLived \/ kind = "blog-post" \/ ReachedAfter(t, i)
                 /\ t[i].do # "set"
      <3>1. CASE i = 1
        <4>1. t[i].do = what
          BY <1>1, <1>6, <3>1
        <4>2. what \notin LinkWrites
          BY DEF LinkWrites, RowWrites
        <4> QED
          BY <1>2, <1>9, <3>1, <4>1, <4>2
      <3>2. CASE i # 1
        BY <1>10, <3>2 DEF RowWrites, LinkWrites
      <3> QED
        BY <3>1, <3>2
    <2> QED
      BY <2>1, <2>2 DEF StepsOK, t
  <1> QED
    BY <1>11, <1>12

LEMMA IdlePageIs ==
  /\ DOMAIN IdlePage = {"todo", "new", "oldSlug", "page", "wrote", "overtaken"}
  /\ IdlePage.todo = <<>> /\ ~IdlePage.wrote /\ ~Reading(IdlePage) /\ StepsOK(IdlePage)
  <1>1. /\ DOMAIN IdlePage = {"todo", "new", "oldSlug", "page", "wrote", "overtaken"}
        /\ IdlePage.todo = <<>> /\ IdlePage.wrote = FALSE
    BY DEF IdlePage
  <1>2. <<>> \in Seq({}) /\ DOMAIN <<>> = {} /\ <<>> # <<Do("set")>>
    OBVIOUS
  <1>3. ~Reading(IdlePage) /\ StepsOK(IdlePage)
    BY <1>1, <1>2 DEF Reading, StepsOK
  <1> QED
    BY <1>1, <1>3

LEMMA SameSteps ==
  ASSUME NEW q, NEW r, StepsOK(r), q.todo = r.todo, q.new = r.new, q.oldSlug = r.oldSlug, q.wrote = r.wrote
  PROVE  StepsOK(q)
  <1>1. \A what : OfOtherSlug(r, what) => OfOtherSlug(q, what)
    BY DEF OfOtherSlug
  <1> QED
    BY <1>1 DEF StepsOK

LEMMA SamePageOf ==
  ASSUME UNCHANGED <<kind, pageKey>>
  PROVE  PageOf(pageKey, content)' = PageOf(pageKey, content')
  BY DEF PageOf, FetchProductDetail

LEMMA PagesInvInit == PagesInit => PagesInv
  <1> SUFFICES ASSUME PagesInit PROVE PagesInv
    OBVIOUS
  <1>1. pageReq = [h \in PageHandlers |-> IdlePage] /\ page = NoPage /\ kind \in Kinds
    BY DEF PagesInit
  <1>2. pageKey.prefix \in PrefixesOf(kind)
    BY DEF PagesInit
  <1>3. content # NoRow => DOMAIN content = {"slug", "shown", "text", "linked", "views"}
    BY DEF PagesInit
  <1> QED
    BY <1>1, <1>2, <1>3, IdlePageIs DEF PagesInv, PagesTyped, ReadersOK, PageOK

\* A request goes on, and the row is as before.
LEMMA PageRequestMoves ==
  ASSUME PagesInv, NEW h \in PageHandlers, NEW r, pageReq' = [pageReq EXCEPT ![h] = r],
         DOMAIN r = {"todo", "new", "oldSlug", "page", "wrote", "overtaken"}, StepsOK(r),
         Reading(r) => r.page # NotFound /\ (r.overtaken \/ r.page = PageOf(pageKey, content)),
         UNCHANGED <<kind, pageKey, content>>, PageOK'
  PROVE  PagesInv'
  <1>1. /\ pageReq' = [g \in PageHandlers |-> pageReq'[g]] /\ pageReq'[h] = r
        /\ \A g \in PageHandlers \ {h} : pageReq'[g] = pageReq[g]
    BY DEF PagesInv, PagesTyped
  <1>2. PagesTyped'
    BY <1>1 DEF PagesInv, PagesTyped
  <1>3. PageOf(pageKey, content)' = PageOf(pageKey, content)
    BY DEF PageOf, FetchProductDetail
  <1>4. ReadersOK'
    <2> SUFFICES ASSUME NEW g \in PageHandlers, Reading(pageReq'[g])
                 PROVE  /\ pageReq'[g].page # NotFound
                        /\ pageReq'[g].overtaken \/ pageReq'[g].page = PageOf(pageKey, content)
      BY <1>3 DEF ReadersOK, Reading
    <2>1. CASE g = h
      BY <1>1, <2>1
    <2>2. CASE g # h
      BY <1>1, <2>2 DEF PagesInv, ReadersOK
    <2> QED
      BY <2>1, <2>2
  <1>5. ASSUME NEW g \in PageHandlers PROVE StepsOK(pageReq[g])'
    <2>1. PICK q : q = pageReq'[g]
      OBVIOUS
    <2>2. StepsOK(q)
      BY <1>1, <2>1 DEF PagesInv
    <2> QED
      BY <2>1, <2>2 DEF StepsOK, ReachedAfter, OfOtherSlug
  <1> QED
    BY <1>2, <1>4, <1>5 DEF PagesInv

\* The page is as before, or no page, and so is what is to invalidate it.
LEMMA PageStays ==
  ASSUME PagesInv, NEW h \in PageHandlers, NEW r, pageReq' = [pageReq EXCEPT ![h] = r],
         Invalidating(pageReq[h]) => Invalidating(r), UNCHANGED <<kind, pageKey, content, page, pageOutdated>>
  PROVE  PageOK'
  <1>1. pageReq'[h] = r /\ \A g \in PageHandlers \ {h} : pageReq'[g] = pageReq[g]
    BY DEF PagesInv, PagesTyped
  <1>2. PageOf(pageKey, content)' = PageOf(pageKey, content)
    BY DEF PageOf, FetchProductDetail
  <1>3. ASSUME NEW g \in PageHandlers, Invalidating(pageReq[g]) PROVE Invalidating(pageReq[g])'
    BY <1>1, <1>3 DEF Invalidating
  <1>4. pageOutdated => pageOutdated'
    OBVIOUS
  <1> QED
    BY <1>2, <1>3, <1>4 DEF PagesInv, PageOK

\* What is not short-lived the invalidations reach.
LEMMA KeysReached ==
  ASSUME PagesTyped
  PROVE  /\ kind = "brand" => pageKey.prefix \in ShortLived \/ Reaches(Invalidate("brand", AnySlug))
         /\ kind = "blog-category" => pageKey.prefix \in ShortLived \/ Reaches(Invalidate("blog-category", AnySlug))
         /\ kind = "story" => \/ pageKey.prefix \in ShortLived
                              \/ /\ Reaches(Invalidate("active-stories", AnySlug))
                                 /\ Len(Invalidate("active-stories", AnySlug)) = 1
         /\ kind = "setting" => pageKey.prefix \in ShortLived \/ Reaches(Invalidate("public-settings", AnySlug))
         /\ kind = "blog-post" => \/ pageKey.prefix \in ShortLived \/ pageKey.prefix = "blog-post:slug"
                                  \/ Reaches(Invalidate("blog-post-list", AnySlug))
  <1>1. kind = "brand" => pageKey.prefix \in ShortLived \/ pageKey.prefix \in BeginningWith("brand")
    BY DEF PagesTyped, PrefixesOf, BeginningWith
  <1>2. kind = "blog-category" => pageKey.prefix \in ShortLived \/ pageKey.prefix \in BeginningWith("blog-category")
    BY DEF PagesTyped, PrefixesOf, BeginningWith
  <1>3. kind = "story" => pageKey.prefix \in ShortLived \/ pageKey.prefix \in BeginningWith("active-stories")
    BY DEF PagesTyped, PrefixesOf, BeginningWith, ShortLived
  <1>4. kind = "setting" => pageKey.prefix \in ShortLived \/ pageKey.prefix \in BeginningWith("public-settings")
    BY DEF PagesTyped, PrefixesOf, BeginningWith, ShortLived
  <1>5. kind = "blog-post" => \/ pageKey.prefix \in ShortLived \/ pageKey.prefix = "blog-post:slug"
                              \/ pageKey.prefix \in BeginningWith("blog-post-list")
    BY DEF PagesTyped, PrefixesOf, BeginningWith, ShortLived
  <1>6. ASSUME NEW p, pageKey.prefix \in BeginningWith(p)
        PROVE  Reaches(Invalidate(p, AnySlug)) /\ Len(Invalidate(p, AnySlug)) = 1
    BY <1>6, InvalidateIs
  <1>7. kind = "brand" => pageKey.prefix \in ShortLived \/ Reaches(Invalidate("brand", AnySlug))
    BY <1>1, <1>6
  <1>8. kind = "blog-category" => pageKey.prefix \in ShortLived \/ Reaches(Invalidate("blog-category", AnySlug))
    BY <1>2, <1>6
  <1>9. kind = "story" => \/ pageKey.prefix \in ShortLived
                          \/ /\ Reaches(Invalidate("active-stories", AnySlug))
                             /\ Len(Invalidate("active-stories", AnySlug)) = 1
    BY <1>3, <1>6
  <1>10. kind = "setting" => pageKey.prefix \in ShortLived \/ Reaches(Invalidate("public-settings", AnySlug))
    BY <1>4, <1>6
  <1>11. kind = "blog-post" => \/ pageKey.prefix \in ShortLived \/ pageKey.prefix = "blog-post:slug"
                               \/ Reaches(Invalidate("blog-post-list", AnySlug))
    BY <1>5, <1>6
  <1> QED
    BY <1>7, <1>8, <1>9, <1>10, <1>11

LEMMA StartKeeps ==
  ASSUME PagesInv, NEW h \in PageHandlers, NEW what \in RowWrites, NEW new, NEW rest, Start(h, what, new, rest),
         Rest(rest),
         \/ pageKey.prefix \in ShortLived \/ Reaches(rest)
         \/ /\ kind = "blog-post" /\ pageKey.prefix = "blog-post:slug"
            /\ \/ what = "create"
               \/ /\ content # NoRow /\ pageKey.slug # content.slug
                  /\ "slug" \in DOMAIN new => pageKey.slug # new.slug
  PROVE  PagesInv'
  <1>1. PICK old : old = IF content = NoRow THEN AnySlug ELSE content.slug
    OBVIOUS
  <1>2. PICK t : t = <<Do(what)>> \o rest
    OBVIOUS
  <1>3. PICK r : r = [IdlePage EXCEPT !.todo = t, !.new = new, !.oldSlug = old]
    OBVIOUS
  <1>4. /\ pageReq[h].todo = <<>> /\ pageReq' = [pageReq EXCEPT ![h] = r]
        /\ UNCHANGED <<kind, pageKey, content, page, pageOutdated>>
    BY <1>1, <1>2, <1>3 DEF Start
  <1>5. /\ DOMAIN r = {"todo", "new", "oldSlug", "page", "wrote", "overtaken"} /\ r.todo = t
        /\ r.new = new /\ r.oldSlug = old /\ r.wrote = IdlePage.wrote
    BY <1>3, IdlePageIs
  <1>6. ~r.wrote
    BY <1>5, IdlePageIs
  <1>7. pageKey.prefix \in ShortLived \/ Reaches(rest) \/ OfOtherSlug(r, what)
    BY <1>1, <1>5 DEF OfOtherSlug
  <1>8. StepsOK(r) /\ ~Reading(r)
    BY <1>2, <1>5, <1>6, <1>7, WriteThenRest
  <1>9. ~Invalidating(pageReq[h])
    <2>1. DOMAIN <<>> = {}
      OBVIOUS
    <2> QED
      BY <1>4, <2>1 DEF Invalidating
  <1>10. PageOK'
    BY <1>4, <1>9, PageStays
  <1> QED
    BY <1>4, <1>5, <1>8, <1>10, PageRequestMoves

LEMMA SimpleStartsKeep ==
  ASSUME PagesInv, NEW h \in PageHandlers, NEW new, NEW linked,
         \/ CreateBrand(h, new) \/ UpdateBrand(h, new) \/ DeleteBrand(h)
         \/ CreateBlogCategory(h, new) \/ UpdateBlogCategory(h, new) \/ DeleteBlogCategory(h)
         \/ UpsertSetting(h, new) \/ DeleteSetting(h) \/ CreateStory(h, new, linked) \/ DeleteStory(h)
  PROVE  PagesInv'
  <1>1. PagesTyped /\ {"create", "update", "upsert", "delete"} \subseteq RowWrites
    BY DEF PagesInv, RowWrites
  <1>2. \A p, v : Rest(Invalidate(p, v))
    BY InvalidateIs
  <1>3. CASE CreateBrand(h, new) \/ UpdateBrand(h, new) \/ DeleteBrand(h)
    <2>1. pageKey.prefix \in ShortLived \/ Reaches(Invalidate("brand", AnySlug))
      BY <1>1, <1>3, KeysReached DEF CreateBrand, UpdateBrand, DeleteBrand
    <2>2. \E what \in RowWrites : \E n : Start(h, what, n, Invalidate("brand", AnySlug))
      BY <1>1, <1>3 DEF CreateBrand, UpdateBrand, DeleteBrand
    <2> QED
      BY <1>2, <2>1, <2>2, StartKeeps
  <1>4. CASE CreateBlogCategory(h, new) \/ UpdateBlogCategory(h, new) \/ DeleteBlogCategory(h)
    <2>1. pageKey.prefix \in ShortLived \/ Reaches(Invalidate("blog-category", AnySlug))
      BY <1>1, <1>4, KeysReached DEF CreateBlogCategory, UpdateBlogCategory, DeleteBlogCategory
    <2>2. \E what \in RowWrites : \E n : Start(h, what, n, Invalidate("blog-category", AnySlug))
      BY <1>1, <1>4 DEF CreateBlogCategory, UpdateBlogCategory, DeleteBlogCategory
    <2> QED
      BY <1>2, <2>1, <2>2, StartKeeps
  <1>5. CASE UpsertSetting(h, new) \/ DeleteSetting(h)
    <2>1. pageKey.prefix \in ShortLived \/ Reaches(Invalidate("public-settings", AnySlug))
      BY <1>1, <1>5, KeysReached DEF UpsertSetting, DeleteSetting
    <2>2. \E what \in RowWrites : \E n : Start(h, what, n, Invalidate("public-settings", AnySlug))
      BY <1>1, <1>5 DEF UpsertSetting, DeleteSetting
    <2> QED
      BY <1>2, <2>1, <2>2, StartKeeps
  <1>6. CASE CreateStory(h, new, linked) \/ DeleteStory(h)
    <2>1. pageKey.prefix \in ShortLived \/ Reaches(Invalidate("active-stories", AnySlug))
      BY <1>1, <1>6, KeysReached DEF CreateStory, DeleteStory
    <2>2. \E what \in RowWrites : \E n : Start(h, what, n, Invalidate("active-stories", AnySlug))
      BY <1>1, <1>6 DEF CreateStory, DeleteStory
    <2> QED
      BY <1>2, <2>1, <2>2, StartKeeps
  <1> QED
    BY <1>3, <1>4, <1>5, <1>6

LEMMA StoryStartKeeps ==
  ASSUME PagesInv, NEW h \in PageHandlers, NEW new, NEW products \in {"absent", "none", "some"},
         UpdateStory(h, new, products)
  PROVE  PagesInv'
  <1> DEFINE a == ProductRows(products)
             b == Invalidate("active-stories", AnySlug)
  <1>1. kind = "story" /\ Start(h, "update", new, a \o b) /\ "update" \in RowWrites
    BY DEF UpdateStory, RowWrites
  <1>2. pageKey.prefix \in ShortLived \/ (Reaches(b) /\ Len(b) = 1)
    BY <1>1, KeysReached DEF PagesInv
  <1>3. Loose(a) /\ Loose(b) /\ \A i \in DOMAIN b : b[i].do \in LinkWrites => pageKey.prefix \in ShortLived
    <2>1. Rest(b)
      BY InvalidateIs
    <2>2. \A i \in DOMAIN b : ~(b[i].do \in LinkWrites /\ ReachedAfter(b, i)) \/ pageKey.prefix \in ShortLived
      <3> SUFFICES ASSUME NEW i \in DOMAIN b, ReachedAfter(b, i), pageKey.prefix \notin ShortLived PROVE FALSE
        OBVIOUS
      <3>1. PICK S : b \in Seq(S)
        BY <2>1 DEF Rest, Loose, IsSequence
      <3> HIDE DEF b
      <3>2. DOMAIN b = 1 .. 1
        BY <1>2, <3>1, LenProperties
      <3> QED
        BY <3>2 DEF ReachedAfter
    <2> QED
      BY <1>1, <2>1, <2>2, ProductRowsAre, InvalidateIs DEF Rest
  <1> HIDE DEF a, b
  <1>4. Loose(a \o b) /\ (Reaches(b) => Reaches(a \o b))
    BY <1>3, LooseTogether
  <1>5. Rest(a \o b)
    <2>1. IsSequence(a) /\ IsSequence(b)
      BY <1>3 DEF Loose
    <2>2. /\ Len(a) \in Nat /\ Len(b) \in Nat /\ DOMAIN a = 1 .. Len(a) /\ DOMAIN b = 1 .. Len(b)
          /\ DOMAIN (a \o b) = 1 .. Len(a) + Len(b)
      BY <2>1, Concatenated
    <2>3. \A j \in DOMAIN b : Len(a) + j \in DOMAIN (a \o b) /\ (a \o b)[Len(a) + j] = b[j]
      BY <2>1, SecondPart
    <2> SUFFICES ASSUME NEW i \in DOMAIN (a \o b), (a \o b)[i].do \in LinkWrites, pageKey.prefix \notin ShortLived
                 PROVE  ReachedAfter(a \o b, i)
      BY <1>4 DEF Rest
    <2>4. i \in DOMAIN a \/ i - Len(a) \in DOMAIN b
      BY <2>1, Concatenated
    <2> DEFINE u == a \o b
    <2> HIDE DEF u
    <2>5. i \in DOMAIN u /\ u[i].do \in LinkWrites /\ DOMAIN u = 1 .. Len(a) + Len(b)
      BY <2>2 DEF u
    <2>6. \A j \in DOMAIN b : Len(a) + j \in DOMAIN u /\ u[Len(a) + j] = b[j]
      BY <2>3 DEF u
    <2>7. i \in DOMAIN a
      <3> SUFFICES ASSUME i - Len(a) \in DOMAIN b PROVE FALSE
        BY <2>4
      <3>1. Len(a) + (i - Len(a)) = i
        BY <2>2, <2>5
      <3>2. u[i] = b[i - Len(a)]
        BY <2>6, <3>1
      <3> QED
        BY <1>3, <2>5, <3>2
    <2>8. PICK j \in DOMAIN b : Invalidates(b[j], pageKey)
      BY <1>2 DEF Reaches
    <2>9. i < Len(a) + j
      BY <2>2, <2>7
    <2> QED
      BY <2>6, <2>8, <2>9 DEF ReachedAfter, u
  <1> QED
    BY <1>1, <1>2, <1>4, <1>5, StartKeeps

LEMMA PostStartsKeep ==
  ASSUME PagesInv, NEW h \in PageHandlers, NEW new, NEW linked, NEW products \in {"absent", "none", "some"},
         CreateBlogPost(h, new, linked) \/ UpdateBlogPost(h, new, products) \/ DeleteBlogPost(h)
  PROVE  PagesInv'
  <1> DEFINE a == Invalidate("blog-post-list", AnySlug)
  <1>1. {"create", "update", "delete"} \subseteq RowWrites /\ kind = "blog-post"
    BY DEF RowWrites, CreateBlogPost, UpdateBlogPost, DeleteBlogPost
  <1>2. Rest(a) /\ Loose(a)
    BY InvalidateIs
  <1>3. pageKey.prefix \in ShortLived \/ pageKey.prefix = "blog-post:slug" \/ Reaches(a)
    BY <1>1, KeysReached DEF PagesInv
  <1>4. ASSUME NEW s PROVE Rest(s) <=> Loose(s)
    BY <1>1 DEF Rest
  <1>5. ASSUME NEW v, v = pageKey.slug, pageKey.prefix = "blog-post:slug" PROVE Reaches(Invalidate("blog-post:slug", v))
    <2>1. pageKey.prefix \in BeginningWith("blog-post:slug")
      BY <1>5 DEF BeginningWith
    <2> QED
      BY <1>5, <2>1, InvalidateIs
  <1> HIDE DEF a
  <1>6. CASE CreateBlogPost(h, new, linked)
    <2>1. Start(h, "create", WithProducts(new, linked), a)
      BY <1>6 DEF CreateBlogPost, a
    <2> QED
      BY <1>1, <1>2, <1>3, <2>1, StartKeeps
  <1>7. CASE UpdateBlogPost(h, new, products)
    <2> DEFINE b == Invalidate("blog-post:slug", content.slug)
               moved == "slug" \in DOMAIN new /\ new.slug # content.slug
               c == IF moved THEN Invalidate("blog-post:slug", new.slug) ELSE <<>>
               d == ProductRows(products)
    <2>1. Start(h, "update", new, ((a \o b) \o c) \o d) /\ content # NoRow
      BY <1>7 DEF UpdateBlogPost, a
    <2>2. Loose(b) /\ Loose(c) /\ Loose(d)
      BY InvalidateIs, NothingIs, ProductRowsAre
    <2>3. pageKey.prefix = "blog-post:slug" /\ pageKey.slug = content.slug => Reaches(b)
      BY <1>5
    <2>4. ASSUME pageKey.prefix = "blog-post:slug", "slug" \in DOMAIN new, pageKey.slug = new.slug,
                 pageKey.slug # content.slug
          PROVE  Reaches(c)
      <3>1. c = Invalidate("blog-post:slug", new.slug)
        BY <2>4
      <3> HIDE DEF c
      <3> QED
        BY <1>5, <2>4, <3>1
    <2> HIDE DEF b, c, d
    <2>5. Loose(a \o b) /\ (Reaches(a) \/ Reaches(b) => Reaches(a \o b))
      BY <1>2, <2>2, LooseTogether
    <2>6. Loose((a \o b) \o c) /\ (Reaches(a \o b) \/ Reaches(c) => Reaches((a \o b) \o c))
      BY <2>2, <2>5, LooseTogether
    <2>7. Loose(((a \o b) \o c) \o d) /\ (Reaches((a \o b) \o c) => Reaches(((a \o b) \o c) \o d))
      BY <2>2, <2>6, LooseTogether
    <2> DEFINE s == ((a \o b) \o c) \o d
    <2> HIDE DEF s
    <2>8. Rest(s) /\ Start(h, "update", new, s) /\ (Reaches(a) \/ Reaches(b) \/ Reaches(c) => Reaches(s))
      BY <1>4, <2>1, <2>5, <2>6, <2>7 DEF s
    <2>9. \/ pageKey.prefix \in ShortLived \/ Reaches(s)
          \/ /\ kind = "blog-post" /\ pageKey.prefix = "blog-post:slug"
             /\ content # NoRow /\ pageKey.slug # content.slug
             /\ "slug" \in DOMAIN new => pageKey.slug # new.slug
      BY <1>1, <1>3, <2>1, <2>3, <2>4, <2>8
    <2> QED
      BY <1>1, <2>8, <2>9, StartKeeps
  <1>8. CASE DeleteBlogPost(h)
    <2> DEFINE b == Invalidate("blog-post:slug", content.slug)
    <2>1. Start(h, "delete", <<>>, a \o b) /\ content # NoRow
      BY <1>8 DEF DeleteBlogPost, a
    <2>2. Loose(b)
      BY InvalidateIs
    <2>3. pageKey.prefix = "blog-post:slug" /\ pageKey.slug = content.slug => Reaches(b)
      BY <1>5
    <2> HIDE DEF b
    <2>4. Loose(a \o b) /\ (Reaches(a) \/ Reaches(b) => Reaches(a \o b))
      BY <1>2, <2>2, LooseTogether
    <2>5. DOMAIN <<>> = {}
      OBVIOUS
    <2>6. PICK n : n = <<>>
      OBVIOUS
    <2>7. \/ pageKey.prefix \in ShortLived \/ Reaches(a \o b)
          \/ /\ kind = "blog-post" /\ pageKey.prefix = "blog-post:slug"
             /\ content # NoRow /\ pageKey.slug # content.slug
             /\ "slug" \in DOMAIN n => pageKey.slug # n.slug
      BY <1>1, <1>3, <2>1, <2>3, <2>4, <2>5, <2>6
    <2> DEFINE s == a \o b
    <2> HIDE DEF s
    <2>8. Rest(s) /\ Start(h, "delete", n, s)
      BY <1>4, <2>1, <2>4, <2>6 DEF s
    <2>9. \/ pageKey.prefix \in ShortLived \/ Reaches(s)
          \/ /\ kind = "blog-post" /\ pageKey.prefix = "blog-post:slug"
             /\ content # NoRow /\ pageKey.slug # content.slug
             /\ "slug" \in DOMAIN n => pageKey.slug # n.slug
      BY <2>7 DEF s
    <2> QED
      BY <1>1, <2>8, <2>9, StartKeeps
  <1> QED
    BY <1>6, <1>7, <1>8

\* The next statement of a request that has one.
LEMMA NextIs ==
  ASSUME PagesInv, NEW h \in PageHandlers, pageReq[h].todo # <<>>
  PROVE  1 \in DOMAIN pageReq[h].todo /\ NextOf(h) = pageReq[h].todo[1] /\ StepsOK(pageReq[h])
  <1> DEFINE t == pageReq[h].todo
  <1>1. StepsOK(pageReq[h])
    BY DEF PagesInv
  <1>2. PICK S : t \in Seq(S)
    BY <1>1 DEF StepsOK
  <1>3. NextOf(h) = Head(t) /\ t # <<>>
    BY DEF NextOf
  <1> HIDE DEF t
  <1>4. 1 \in DOMAIN t /\ Head(t) = t[1]
    BY <1>2, <1>3
  <1> QED
    BY <1>1, <1>3, <1>4 DEF t

\* What a request has left when its next statement is done.
LEMMA TailOK ==
  ASSUME NEW r, StepsOK(r), r.todo # <<>>, NEW q, q.todo = Tail(r.todo)
  PROVE  /\ StepsOK(q) /\ ~Reading(q)
         /\ ReachedAfter(r.todo, 1) => Reaches(q.todo) /\ Len(r.todo) # 1
  <1> DEFINE t == r.todo
             u == q.todo
  <1>1. /\ \E S : t \in Seq(S)
        /\ \A i \in DOMAIN t :
              /\ t[i].do \in RowWrites \cup LinkWrites \cup {"invalidate", "set"}
              /\ t[i].do \in RowWrites => i = 1
              /\ t[i].do \in LinkWrites =>
                    pageKey.prefix \in ShortLived \/ kind = "blog-post" \/ ReachedAfter(t, i)
              /\ t[i].do = "set" => t = <<Do("set")>>
    BY DEF StepsOK
  <1>2. u = Tail(t) /\ t # <<>>
    OBVIOUS
  <1> HIDE DEF t, u
  <1>3. PICK S : t \in Seq(S)
    BY <1>1
  <1>4. /\ u \in Seq(S) /\ Len(t) \in Nat \ {0} /\ Len(u) = Len(t) - 1
        /\ DOMAIN t = 1 .. Len(t) /\ DOMAIN u = 1 .. Len(u)
        /\ \A i \in 1 .. Len(u) : u[i] = t[i + 1]
    BY <1>2, <1>3
  <1>5. ASSUME NEW i \in DOMAIN u
        PROVE  i + 1 \in DOMAIN t /\ u[i] = t[i + 1] /\ i + 1 # 1 /\ i \in Nat
    BY <1>4
  <1>6. ASSUME NEW i \in Nat, ReachedAfter(t, i + 1) PROVE ReachedAfter(u, i)
    <2>1. PICK j \in DOMAIN t : i + 1 < j /\ Invalidates(t[j], pageKey)
      BY <1>6 DEF ReachedAfter
    <2>2. j - 1 \in DOMAIN u /\ i < j - 1 /\ (j - 1) + 1 = j
      BY <1>4, <2>1
    <2>3. u[j - 1] = t[j]
      BY <1>4, <2>2
    <2> QED
      BY <2>1, <2>2, <2>3 DEF ReachedAfter
  <1>7. ASSUME NEW i \in DOMAIN u PROVE u[i].do # "set"
    <2> SUFFICES ASSUME u[i].do = "set" PROVE FALSE
      OBVIOUS
    <2>1. t = <<Do("set")>>
      BY <1>1, <1>5
    <2>2. Len(t) = 1
      BY <2>1
    <2> QED
      BY <1>4, <2>2
  <1>8. \A i \in DOMAIN u :
            /\ u[i].do \in RowWrites \cup LinkWrites \cup {"invalidate", "set"}
            /\ u[i].do \notin RowWrites
            /\ u[i].do \in LinkWrites =>
                  pageKey.prefix \in ShortLived \/ kind = "blog-post" \/ ReachedAfter(u, i)
    BY <1>1, <1>5, <1>6
  <1>9. StepsOK(q)
    BY <1>4, <1>7, <1>8 DEF StepsOK, u
  <1>10. ~Reading(q)
    <2> SUFFICES ASSUME u = <<Do("set")>> PROVE FALSE
      BY DEF Reading, u
    <2>1. 1 \in DOMAIN u /\ u[1] = Do("set")
      OBVIOUS
    <2> QED
      BY <1>7, <2>1 DEF Do
  <1>11. ASSUME ReachedAfter(t, 1) PROVE Reaches(u) /\ Len(t) # 1
    <2>1. PICK j \in DOMAIN t : 1 < j /\ Invalidates(t[j], pageKey)
      BY <1>11 DEF ReachedAfter
    <2>2. j - 1 \in DOMAIN u /\ (j - 1) + 1 = j /\ Len(t) # 1
      BY <1>4, <2>1
    <2>3. u[j - 1] = t[j]
      BY <1>4, <2>2
    <2> QED
      BY <2>1, <2>2, <2>3 DEF Reaches
  <1> QED
    BY <1>9, <1>10, <1>11 DEF t, u

\* A request ends, before or after it has written.
LEMMA PageRequestEnds ==
  ASSUME PagesInv, NEW h \in PageHandlers, WriteRefused(h) \/ PagesCrash(h)
  PROVE  PagesInv'
  <1>1. /\ pageReq' = [pageReq EXCEPT ![h] = IdlePage] /\ UNCHANGED <<kind, pageKey, content, page>>
        /\ IF pageReq[h].wrote THEN LeftOutdated(content) ELSE UNCHANGED pageOutdated
    BY DEF WriteRefused, PagesCrash
  <1>2. PageOK'
    <2>1. CASE pageReq[h].wrote
      <3>1. pageOutdated' = (pageOutdated \/ page \notin {NoPage, PageOf(pageKey, content)})
        BY <1>1, <2>1 DEF LeftOutdated
      <3>2. page \in {NoPage, PageOf(pageKey, content)} \/ pageOutdated'
        BY <3>1, Zenon
      <3>3. PageOf(pageKey, content)' = PageOf(pageKey, content)
        BY <1>1 DEF PageOf, FetchProductDetail
      <3> QED
        BY <1>1, <3>2, <3>3 DEF PagesInv, PageOK
    <2>2. CASE ~pageReq[h].wrote
      BY <1>1, <2>2, PageStays DEF Invalidating
    <2> QED
      BY <2>1, <2>2
  <1> QED
    BY <1>1, <1>2, IdlePageIs, PageRequestMoves

LEMMA FetchPageKeeps ==
  ASSUME PagesInv, NEW h \in PageHandlers, FetchPage(h)
  PROVE  PagesInv'
  <1>1. PICK p : p = PageOf(pageKey, content)
    OBVIOUS
  <1>2. PICK t : t = <<Do("set")>>
    OBVIOUS
  <1>3. PICK r : r = [IdlePage EXCEPT !.todo = t, !.page = p]
    OBVIOUS
  <1>4. /\ pageReq[h].todo = <<>> /\ p # NotFound /\ pageReq' = [pageReq EXCEPT ![h] = r]
        /\ UNCHANGED <<kind, pageKey, content, page, pageOutdated>>
    BY <1>1, <1>2, <1>3 DEF FetchPage
  <1>5. /\ DOMAIN r = {"todo", "new", "oldSlug", "page", "wrote", "overtaken"}
        /\ r.todo = t /\ r.page = p
    BY <1>3, IdlePageIs
  <1>6. StepsOK(r)
    <2> DEFINE d == Do("set")
    <2>1. d.do = "set"
      BY DEF Do
    <2>2. t = <<d>>
      BY <1>2
    <2> HIDE DEF d
    <2>3. t \in Seq({d}) /\ DOMAIN t = {1} /\ t[1] = d
      BY <2>2
    <2>4. \A i \in DOMAIN t : t[i].do = "set"
      BY <2>1, <2>3
    <2>5. \E S : t \in Seq(S)
      BY <2>3
    <2> QED
      BY <1>2, <1>5, <2>4, <2>5 DEF StepsOK, RowWrites, LinkWrites
  <1>7. ~Invalidating(pageReq[h])
    <2>1. DOMAIN <<>> = {}
      OBVIOUS
    <2> QED
      BY <1>4, <2>1 DEF Invalidating
  <1>8. PageOK'
    BY <1>4, <1>7, PageStays
  <1> QED
    BY <1>1, <1>4, <1>5, <1>6, <1>8, PageRequestMoves

LEMMA SetPageKeeps ==
  ASSUME PagesInv, NEW h \in PageHandlers, SetPage(h)
  PROVE  PagesInv'
  <1>1. PICK r : r = pageReq[h]
    OBVIOUS
  <1>2. /\ r.todo # <<>> /\ NextOf(h).do = "set" /\ pageReq' = [pageReq EXCEPT ![h] = IdlePage]
        /\ page' = (IF cacheUp THEN r.page ELSE page)
        /\ pageOutdated' = (IF cacheUp THEN r.overtaken ELSE pageOutdated)
        /\ UNCHANGED <<kind, pageKey, content>>
    BY <1>1 DEF SetPage
  <1>3. Reading(r)
    BY <1>1, <1>2, NextIs DEF StepsOK, Reading
  <1>4. r.page # NotFound /\ (r.overtaken \/ r.page = PageOf(pageKey, content))
    BY <1>1, <1>3 DEF PagesInv, ReadersOK
  <1>5. PageOf(pageKey, content)' = PageOf(pageKey, content)
    BY <1>2 DEF PageOf, FetchProductDetail
  <1>6. PageOK'
    <2>1. CASE cacheUp
      <3>1. pageOutdated' = r.overtaken /\ page' = r.page
        BY <1>2, <2>1
      <3>2. r.overtaken => pageOutdated'
        BY <3>1, Zenon
      <3> QED
        BY <1>4, <1>5, <3>1, <3>2 DEF PageOK
    <2>2. CASE ~cacheUp
      <3>1. UNCHANGED <<kind, pageKey, content, page, pageOutdated>>
        BY <1>2, <2>2
      <3>2. ~Invalidating(pageReq[h])
        <4> DEFINE d == Do("set")
        <4>1. d.do = "set" /\ r.todo = <<d>>
          BY <1>3 DEF Reading, Do
        <4> HIDE DEF d
        <4>2. DOMAIN <<d>> = {1} /\ <<d>>[1] = d
          OBVIOUS
        <4> QED
          BY <1>1, <4>1, <4>2 DEF Invalidating, Invalidates
      <3> QED
        BY <1>2, <3>1, <3>2, PageStays
    <2> QED
      BY <2>1, <2>2
  <1> QED
    BY <1>2, <1>6, IdlePageIs, PageRequestMoves

LEMMA InvalidateCacheKeeps ==
  ASSUME PagesInv, NEW h \in PageHandlers, InvalidateCache(h)
  PROVE  PagesInv'
  <1>1. PICK t : t = Tail(pageReq[h].todo)
    OBVIOUS
  <1>2. PICK r : r = IF Len(pageReq[h].todo) = 1 THEN IdlePage ELSE [pageReq[h] EXCEPT !.todo = t]
    OBVIOUS
  <1>3. /\ pageReq[h].todo # <<>> /\ pageReq' = [pageReq EXCEPT ![h] = r]
        /\ page' = (IF cacheUp THEN NoPage ELSE page)
        /\ pageOutdated' = (~cacheUp /\ page \notin {NoPage, PageOf(pageKey, content)})
        /\ UNCHANGED <<kind, pageKey, content>>
    BY <1>1, <1>2 DEF InvalidateCache
  <1>4. /\ DOMAIN r = {"todo", "new", "oldSlug", "page", "wrote", "overtaken"}
        /\ StepsOK(r) /\ ~Reading(r)
    <2>1. CASE Len(pageReq[h].todo) = 1
      BY <1>2, <2>1, IdlePageIs
    <2>2. CASE Len(pageReq[h].todo) # 1
      <3>1. r = [pageReq[h] EXCEPT !.todo = t]
        BY <1>2, <2>2
      <3>2. DOMAIN pageReq[h] = {"todo", "new", "oldSlug", "page", "wrote", "overtaken"} /\ StepsOK(pageReq[h])
        BY DEF PagesInv, PagesTyped
      <3>3. DOMAIN r = {"todo", "new", "oldSlug", "page", "wrote", "overtaken"} /\ r.todo = t
        BY <3>1, <3>2
      <3> QED
        BY <1>1, <1>3, <3>2, <3>3, TailOK
    <2> QED
      BY <2>1, <2>2
  <1>5. PageOf(pageKey, content)' = PageOf(pageKey, content)
    BY <1>3 DEF PageOf, FetchProductDetail
  <1>6. PageOK'
    <2>1. CASE cacheUp
      BY <1>3, <2>1 DEF PageOK
    <2>2. CASE ~cacheUp
      <3>1. page \in {NoPage, PageOf(pageKey, content)} \/ pageOutdated'
        BY <1>3, <2>2, Zenon
      <3>2. page' = page
        BY <1>3, <2>2
      <3> QED
        BY <1>5, <3>1, <3>2 DEF PagesInv, PageOK
    <2> QED
      BY <2>1, <2>2
  <1> QED
    BY <1>3, <1>4, <1>6, PageRequestMoves

\* Nothing but the page, or whether Redis is there.
LEMMA CacheMoves ==
  ASSUME PagesInv, PageExpires \/ CacheComesAndGoes
  PROVE  PagesInv'
  <1>1. UNCHANGED <<kind, pageKey, content, pageReq>> /\ (page' = NoPage \/ UNCHANGED <<page, pageOutdated>>)
    BY DEF PageExpires, CacheComesAndGoes
  <1>2. PageOf(pageKey, content)' = PageOf(pageKey, content)
    BY <1>1 DEF PageOf, FetchProductDetail
  <1>3. PagesTyped' /\ ReadersOK'
    BY <1>1, <1>2 DEF PagesInv, PagesTyped, ReadersOK, Reading
  <1>4. PageOK'
    BY <1>1, <1>2 DEF PagesInv, PageOK, Invalidating
  <1>5. \A h \in PageHandlers : StepsOK(pageReq[h])'
    BY <1>1 DEF PagesInv, StepsOK, ReachedAfter, OfOtherSlug
  <1> QED
    BY <1>3, <1>4, <1>5 DEF PagesInv

\* A request whose page may be an old one now knows it; all else of it stays.
LEMMA BehindIs ==
  ASSUME PagesInv, NEW g \in PageHandlers, NEW q, q = ReadersBehind[g]
  PROVE  /\ DOMAIN q = {"todo", "new", "oldSlug", "page", "wrote", "overtaken"}
         /\ StepsOK(q) /\ (Invalidating(pageReq[g]) => Invalidating(q))
         /\ Reading(q) => q.page # NotFound /\ q.overtaken
  <1>1. PICK b : b = (pageReq[g].overtaken \/ pageReq[g].todo = <<Do("set")>>)
    BY Zenon
  <1>2. q = [pageReq[g] EXCEPT !.overtaken = (pageReq[g].overtaken \/ pageReq[g].todo = <<Do("set")>>)]
    BY DEF ReadersBehind
  <1>3. q = [pageReq[g] EXCEPT !.overtaken = b]
    BY <1>1, <1>2, Zenon
  <1>4. DOMAIN pageReq[g] = {"todo", "new", "oldSlug", "page", "wrote", "overtaken"} /\ StepsOK(pageReq[g])
    BY DEF PagesInv, PagesTyped
  <1>5. /\ DOMAIN q = {"todo", "new", "oldSlug", "page", "wrote", "overtaken"}
        /\ q.todo = pageReq[g].todo /\ q.new = pageReq[g].new /\ q.oldSlug = pageReq[g].oldSlug
        /\ q.page = pageReq[g].page /\ q.wrote = pageReq[g].wrote /\ q.overtaken = b
    BY <1>3, <1>4
  <1>6. StepsOK(q)
    BY <1>4, <1>5, SameSteps
  <1>7. Invalidating(pageReq[g]) => Invalidating(q)
    <2>1. PICK w : w = pageReq[g].wrote
      OBVIOUS
    <2>2. Invalidating(pageReq[g]) => w
      BY <2>1, Zenon DEF Invalidating
    <2>3. w => q.wrote
      BY <1>5, <2>1, Zenon
    <2> QED
      BY <1>5, <2>2, <2>3 DEF Invalidating
  <1>8. ASSUME Reading(q) PROVE q.page # NotFound /\ q.overtaken
    <2>1. Reading(pageReq[g])
      BY <1>5, <1>8 DEF Reading
    <2>2. b
      BY <1>1, <2>1, Zenon DEF Reading
    <2>3. q.overtaken
      BY <1>5, <2>2, Zenon
    <2> QED
      BY <1>5, <2>1, <2>3 DEF PagesInv, ReadersOK
  <1> QED
    BY <1>5, <1>6, <1>7, <1>8

\* The row changes, and what the readers carry is behind.
LEMMA ContentMoves ==
  ASSUME PagesInv, pageReq' = [g \in PageHandlers |-> pageReq'[g]],
         \A g \in PageHandlers : \E q : /\ pageReq'[g] = q
             /\ \/ q = ReadersBehind[g]
                \/ /\ DOMAIN q = {"todo", "new", "oldSlug", "page", "wrote", "overtaken"}
                   /\ StepsOK(q) /\ ~Reading(q),
         content' # NoRow => DOMAIN content' = {"slug", "shown", "text", "linked", "views"},
         UNCHANGED <<kind, pageKey, page>>,
         \/ page \in {NoPage, PageOf(pageKey, content')} \/ pageOutdated'
         \/ \E g \in PageHandlers : Invalidating(pageReq[g])'
  PROVE  PagesInv'
  <1>1. ASSUME NEW g \in PageHandlers
        PROVE  \E q : /\ pageReq'[g] = q
                      /\ DOMAIN q = {"todo", "new", "oldSlug", "page", "wrote", "overtaken"}
                      /\ StepsOK(q) /\ (Reading(q) => q.page # NotFound /\ q.overtaken)
    BY BehindIs
  <1>2. PagesTyped'
    BY <1>1 DEF PagesInv, PagesTyped
  <1>3. ReadersOK'
    BY <1>1 DEF ReadersOK, Reading
  <1>4. PageOf(pageKey, content)' = PageOf(pageKey, content')
    BY SamePageOf
  <1>5. PageOK'
    BY <1>4 DEF PagesInv, PageOK
  <1>6. ASSUME NEW g \in PageHandlers PROVE StepsOK(pageReq[g])'
    <2>1. PICK q : pageReq'[g] = q /\ StepsOK(q)
      BY <1>1
    <2> QED
      BY <2>1 DEF StepsOK, ReachedAfter, OfOtherSlug
  <1> QED
    BY <1>2, <1>3, <1>5, <1>6 DEF PagesInv

\* With time, or through what uses it.
LEMMA ContentAges ==
  ASSUME PagesInv, CountView \/ StoryExpires \/ ContentUsed
  PROVE  PagesInv'
  <1>1. /\ pageReq' = ReadersBehind /\ content # NoRow /\ UNCHANGED <<kind, pageKey, page>>
        /\ pageOutdated' = (pageOutdated \/ page \notin {NoPage, PageOf(pageKey, content')})
    BY DEF CountView, StoryExpires, ContentUsed, LeftOutdated
  <1>2. DOMAIN content' = DOMAIN content
    BY DEF CountView, StoryExpires, ContentUsed
  <1>3. page \in {NoPage, PageOf(pageKey, content')} \/ pageOutdated'
    BY <1>1, Zenon
  <1>4. pageReq' = [g \in PageHandlers |-> pageReq'[g]]
    BY <1>1 DEF ReadersBehind
  <1>5. \A g \in PageHandlers : \E q : pageReq'[g] = q /\ q = ReadersBehind[g]
    BY <1>1
  <1>6. content' # NoRow => DOMAIN content' = {"slug", "shown", "text", "linked", "views"}
    BY <1>1, <1>2 DEF PagesInv, PagesTyped
  <1> QED
    BY <1>1, <1>3, <1>4, <1>5, <1>6, ContentMoves

\* By a request: the page is that of the row now, may be an old one, is to be
\* invalidated, or is not of this row.
LEMMA RequestWrites ==
  ASSUME PagesInv, NEW h \in PageHandlers, pageReq[h].todo # <<>>, Wrote(h),
         content' # NoRow => DOMAIN content' = {"slug", "shown", "text", "linked", "views"},
         UNCHANGED <<kind, pageKey, page>>,
         \/ page \in {NoPage, PageOf(pageKey, content')} \/ pageOutdated'
         \/ ReachedAfter(pageReq[h].todo, 1)
         \/ PageOf(pageKey, content) = NotFound /\ ~pageReq[h].wrote /\ UNCHANGED pageOutdated
  PROVE  PagesInv'
  <1>1. PICK t : t = Tail(pageReq[h].todo)
    OBVIOUS
  <1>2. PICK r : r = IF Len(pageReq[h].todo) = 1 THEN IdlePage
                     ELSE [IdlePage EXCEPT !.todo = t, !.wrote = TRUE]
    OBVIOUS
  <1>3. pageReq' = [ReadersBehind EXCEPT ![h] = r]
    BY <1>1, <1>2 DEF Wrote
  <1>4. /\ pageReq' = [g \in PageHandlers |-> pageReq'[g]] /\ pageReq'[h] = r
        /\ \A g \in PageHandlers \ {h} : pageReq'[g] = ReadersBehind[g]
    BY <1>3 DEF ReadersBehind
  <1>5. DOMAIN r = {"todo", "new", "oldSlug", "page", "wrote", "overtaken"}
    BY <1>2, IdlePageIs
  <1>6. Len(pageReq[h].todo) # 1 => r.todo = t /\ r.wrote = TRUE
    BY <1>2, IdlePageIs
  <1>7. StepsOK(pageReq[h])
    BY DEF PagesInv
  <1>8. StepsOK(r) /\ ~Reading(r) /\ (ReachedAfter(pageReq[h].todo, 1) => Invalidating(r))
    <2>1. CASE Len(pageReq[h].todo) = 1
      <3>1. PICK q : q = [todo |-> t]
        OBVIOUS
      <3>2. q.todo = t
        BY <3>1
      <3>3. ~ReachedAfter(pageReq[h].todo, 1)
        BY <1>1, <1>7, <2>1, <3>2, TailOK
      <3> QED
        BY <1>2, <2>1, <3>3, IdlePageIs
    <2>2. CASE Len(pageReq[h].todo) # 1
      BY <1>1, <1>6, <1>7, <2>2, TailOK DEF Invalidating, Reaches
    <2> QED
      BY <2>1, <2>2
  <1>9. \A g \in PageHandlers : \E q : /\ pageReq'[g] = q
             /\ \/ q = ReadersBehind[g]
                \/ /\ DOMAIN q = {"todo", "new", "oldSlug", "page", "wrote", "overtaken"}
                   /\ StepsOK(q) /\ ~Reading(q)
    BY <1>4, <1>5, <1>8
  <1>10. Invalidating(r) => Invalidating(pageReq[h])'
    BY <1>4 DEF Invalidating
  <1>11. ASSUME NEW g \in PageHandlers \ {h}, Invalidating(pageReq[g]) PROVE Invalidating(pageReq[g])'
    <2>1. PICK q : q = ReadersBehind[g]
      OBVIOUS
    <2>2. Invalidating(q)
      BY <1>11, <2>1, BehindIs
    <2> QED
      BY <1>4, <2>1, <2>2 DEF Invalidating
  <1>12. \/ page \in {NoPage, PageOf(pageKey, content')} \/ pageOutdated'
         \/ \E g \in PageHandlers : Invalidating(pageReq[g])'
    <2> SUFFICES ASSUME PageOf(pageKey, content) = NotFound, ~pageReq[h].wrote, UNCHANGED pageOutdated
                 PROVE  \/ page = NoPage \/ pageOutdated'
                        \/ \E g \in PageHandlers : Invalidating(pageReq[g])'
      BY <1>8, <1>10
    <2>1. page = NoPage \/ pageOutdated \/ \E g \in PageHandlers : Invalidating(pageReq[g])
      BY DEF PagesInv, PageOK
    <2>2. ~Invalidating(pageReq[h])
      BY DEF Invalidating
    <2> QED
      BY <1>11, <2>1, <2>2
  <1> QED
    BY <1>4, <1>9, <1>12, ContentMoves

LEMMA WriteRowKeeps ==
  ASSUME PagesInv, NEW h \in PageHandlers, WriteRow(h)
  PROVE  PagesInv'
  <1>1. PICK r : r = pageReq[h]
    OBVIOUS
  <1>2. PICK what : what = NextOf(h).do
    OBVIOUS
  <1>3. /\ r.todo # <<>> /\ what \in RowWrites /\ Writable(what) /\ Wrote(h)
        /\ content' = (IF what = "delete" THEN NoRow ELSE Written(r))
        /\ UNCHANGED <<kind, pageKey, page>>
    BY <1>1, <1>2 DEF WriteRow, RowWrites
  <1>4. IF \/ pageKey.prefix \in ShortLived
           \/ kind = "blog-post" /\ content # NoRow /\ content.slug # r.oldSlug
        THEN LeftOutdated(content') ELSE UNCHANGED pageOutdated
    BY <1>1 DEF WriteRow
  <1>5. content' # NoRow => DOMAIN content' = {"slug", "shown", "text", "linked", "views"}
    <2>1. DOMAIN NewRow = {"slug", "shown", "text", "linked", "views"}
      BY DEF NewRow
    <2>2. DOMAIN Written(r) = {"slug", "shown", "text", "linked", "views"}
      BY <2>1 DEF Written, PagesInv, PagesTyped
    <2> QED
      BY <1>3, <2>2
  <1>6. ~r.wrote /\ (\/ pageKey.prefix \in ShortLived \/ ReachedAfter(r.todo, 1) \/ OfOtherSlug(r, what))
    BY <1>1, <1>2, <1>3, NextIs DEF StepsOK
  <1>7. CASE LeftOutdated(content')
    <2>1. page \in {NoPage, PageOf(pageKey, content')} \/ pageOutdated'
      BY <1>7, Zenon DEF LeftOutdated
    <2> QED
      BY <1>1, <1>3, <1>5, <2>1, RequestWrites
  <1>8. CASE ReachedAfter(r.todo, 1)
    BY <1>1, <1>3, <1>5, <1>8, RequestWrites
  <1>9. CASE OfOtherSlug(r, what) /\ UNCHANGED pageOutdated /\ (content # NoRow => content.slug = r.oldSlug)
    <2>1. what = "create" => content = NoRow
      BY <1>3 DEF Writable
    <2>2. pageKey.prefix = "blog-post:slug" /\ ~Found(content, pageKey.slug)
      BY <1>9, <2>1 DEF OfOtherSlug, Found
    <2>3. PageOf(pageKey, content) = NotFound
      BY <2>2 DEF PageOf, GetBlogPostBySlugPublic
    <2> QED
      BY <1>1, <1>3, <1>5, <1>6, <1>9, <2>3, RequestWrites
  <1> QED
    BY <1>4, <1>6, <1>7, <1>8, <1>9 DEF OfOtherSlug

LEMMA WriteLinksKeeps ==
  ASSUME PagesInv, NEW h \in PageHandlers, WriteLinks(h)
  PROVE  PagesInv'
  <1>1. PICK r : r = pageReq[h]
    OBVIOUS
  <1>2. /\ r.todo # <<>> /\ NextOf(h).do \in LinkWrites /\ Wrote(h) /\ UNCHANGED <<kind, pageKey, page>>
        /\ IF kind = "blog-post" \/ pageKey.prefix \in ShortLived
           THEN LeftOutdated(content') ELSE UNCHANGED pageOutdated
    BY <1>1 DEF WriteLinks, LinkWrites
  <1>3. content' # NoRow => DOMAIN content' = {"slug", "shown", "text", "linked", "views"}
    BY DEF WriteLinks, PagesInv, PagesTyped
  <1>4. pageKey.prefix \in ShortLived \/ kind = "blog-post" \/ ReachedAfter(r.todo, 1)
    BY <1>1, <1>2, NextIs DEF StepsOK
  <1>5. CASE LeftOutdated(content')
    <2>1. page \in {NoPage, PageOf(pageKey, content')} \/ pageOutdated'
      BY <1>5, Zenon DEF LeftOutdated
    <2> QED
      BY <1>1, <1>2, <1>3, <2>1, RequestWrites
  <1>6. CASE ReachedAfter(r.todo, 1)
    BY <1>1, <1>2, <1>3, <1>6, RequestWrites
  <1> QED
    BY <1>2, <1>4, <1>5, <1>6

LEMMA PagesStep == PagesInv /\ [PagesNext]_pagesVars => PagesInv'
  <1> SUFFICES ASSUME PagesInv, [PagesNext]_pagesVars PROVE PagesInv'
    OBVIOUS
  <1>1. ASSUME NEW h \in PageHandlers, NEW new \in ContentInputs, NEW linked \in BOOLEAN,
               NEW products \in {"absent", "none", "some"},
               \/ CreateBrand(h, new) \/ UpdateBrand(h, new)
               \/ CreateBlogCategory(h, new) \/ UpdateBlogCategory(h, new) \/ UpsertSetting(h, new)
               \/ CreateBlogPost(h, new, linked) \/ CreateStory(h, new, linked)
               \/ UpdateBlogPost(h, new, products) \/ UpdateStory(h, new, products)
        PROVE  PagesInv'
    BY <1>1, SimpleStartsKeep, StoryStartKeeps, PostStartsKeep
  <1>2. ASSUME NEW h \in PageHandlers,
               \/ DeleteBrand(h) \/ DeleteBlogCategory(h) \/ DeleteBlogPost(h) \/ DeleteStory(h)
               \/ DeleteSetting(h)
        PROVE  PagesInv'
    <2>1. PICK p : p \in {"absent", "none", "some"}
      OBVIOUS
    <2> QED
      BY <1>2, <2>1, SimpleStartsKeep, PostStartsKeep
  <1>3. ASSUME NEW h \in PageHandlers,
               \/ WriteRow(h) \/ WriteRefused(h) \/ WriteLinks(h) \/ InvalidateCache(h)
               \/ FetchPage(h) \/ SetPage(h) \/ PagesCrash(h)
        PROVE  PagesInv'
    <2>1. CASE WriteRow(h) \/ WriteRefused(h) \/ WriteLinks(h) \/ PagesCrash(h)
      BY <2>1, WriteRowKeeps, WriteLinksKeeps, PageRequestEnds
    <2>2. CASE InvalidateCache(h) \/ FetchPage(h) \/ SetPage(h)
      BY <2>2, InvalidateCacheKeeps, FetchPageKeeps, SetPageKeeps
    <2> QED
      BY <1>3, <2>1, <2>2
  <1>4. CASE CountView \/ StoryExpires \/ ContentUsed \/ PageExpires \/ CacheComesAndGoes
    BY <1>4, ContentAges, CacheMoves
  <1>5. CASE UNCHANGED pagesVars
    <2>1. UNCHANGED <<kind, pageKey, content, page, pageReq, pageOutdated>>
      BY <1>5 DEF pagesVars
    <2>2. PageOf(pageKey, content)' = PageOf(pageKey, content)
      BY <2>1 DEF PageOf, FetchProductDetail
    <2>3. PagesTyped' /\ ReadersOK'
      BY <2>1, <2>2 DEF PagesInv, PagesTyped, ReadersOK, Reading
    <2>4. PageOK'
      BY <2>1, <2>2 DEF PagesInv, PageOK, Invalidating
    <2>5. \A h \in PageHandlers : StepsOK(pageReq[h])'
      BY <2>1 DEF PagesInv, StepsOK, ReachedAfter, OfOtherSlug
    <2> QED
      BY <2>3, <2>4, <2>5 DEF PagesInv
  <1>6. CASE PagesNext
    <2>1. \/ \E h \in PageHandlers, new \in ContentInputs, linked \in BOOLEAN,
                products \in {"absent", "none", "some"} :
             \/ CreateBrand(h, new) \/ UpdateBrand(h, new)
             \/ CreateBlogCategory(h, new) \/ UpdateBlogCategory(h, new) \/ UpsertSetting(h, new)
             \/ CreateBlogPost(h, new, linked) \/ CreateStory(h, new, linked)
             \/ UpdateBlogPost(h, new, products) \/ UpdateStory(h, new, products)
          \/ \E h \in PageHandlers :
             \/ DeleteBrand(h) \/ DeleteBlogCategory(h) \/ DeleteBlogPost(h) \/ DeleteStory(h)
             \/ DeleteSetting(h)
          \/ \E h \in PageHandlers :
             \/ WriteRow(h) \/ WriteRefused(h) \/ WriteLinks(h) \/ InvalidateCache(h)
             \/ FetchPage(h) \/ SetPage(h) \/ PagesCrash(h)
          \/ CountView \/ StoryExpires \/ ContentUsed \/ PageExpires \/ CacheComesAndGoes
      BY <1>6 DEF PagesNext
    <2> QED
      BY <1>1, <1>2, <1>3, <1>4, <2>1
  <1> QED
    BY <1>5, <1>6

\* A cached page that no request is to invalidate is the one that would be fetched now,
\* but for what the services leave to the expiry (lib/cache.ts 17-67).
THEOREM PagesAreCurrent == PagesSpec => []CachedPagesAreCurrent
  <1>1. PagesInv => CachedPagesAreCurrent
    BY DEF PagesInv, PageOK, Invalidating, CachedPagesAreCurrent
  <1> QED
    BY <1>1, PagesInvInit, PagesStep, PTL DEF PagesSpec
-------------------------------------------------------------------------------
(* The types of these parts.                                                *)

\* A key is of a token that was drawn, and a round without one carries none.
THEOREM LockTypes == LockSpec => []LockTypeOK
  <1>1. LockInv => LockTypeOK
    BY LockConstantsOK DEF LockInv, LockTypeOK, RoundOK
  <1> QED
    BY <1>1, LockInvInit, LockInvStep, PTL DEF LockSpec

\* How the jobs' places move: to an old answer, to nothing, or not.
LEMMA JobPlaces ==
  ASSUME TicketInv, TicketInv', [TicketsNext]_ticketVars, NEW j \in CloseJobs
  PROVE  closing'[j].lastAdmin \in {0, closing[j].lastAdmin} \/ closing'[j].phase \in {"reply", "close"}
  <1>1. /\ closing \in [CloseJobs -> [phase : {"idle", "last", "reply", "close"}, lastAdmin : Nat, overtaken : BOOLEAN]]
        /\ IdleJob.lastAdmin = 0
    BY DEF TicketInv, TicketRows, IdleJob
  <1>2. \A phases : JobsOvertaken(phases)[j].lastAdmin = closing[j].lastAdmin
    BY <1>1 DEF JobsOvertaken
  <1>3. ASSUME NEW w \in Writers, NEW by \in {"USER", "ADMIN"}, SetStatusAfterMessage(w) \/ WriteMessage(w, by)
        PROVE  closing'[j].lastAdmin = closing[j].lastAdmin
    BY <1>2, <1>3 DEF SetStatusAfterMessage, WriteMessage, StatusOvertaken
  <1>4. ASSUME NEW status \in TicketStatuses, UpdateTicketMeta(status)
        PROVE  closing'[j].lastAdmin = closing[j].lastAdmin
    BY <1>2, <1>4 DEF UpdateTicketMeta, StatusOvertaken
  <1>5. ASSUME NEW k \in CloseJobs, FindTicket(k)
        PROVE  closing'[j].lastAdmin \in {0, closing[j].lastAdmin}
    BY <1>1, <1>5 DEF FindTicket, IdleJob
  <1>6. ASSUME NEW k \in CloseJobs, FindLastAnswer(k)
        PROVE  closing'[j].lastAdmin \in {0, closing[j].lastAdmin} \/ closing'[j].phase = "reply"
    <2>1. PICK last : last = Max(Answers)
      OBVIOUS
    <2>2. PICK r : r = IF ticketMessages[last].old THEN [closing[k] EXCEPT !.phase = "reply", !.lastAdmin = last]
                       ELSE IdleJob
      OBVIOUS
    <2>3. closing' = [closing EXCEPT ![k] = r]
      BY <1>6, <2>1, <2>2 DEF FindLastAnswer
    <2>4. r.lastAdmin = 0 \/ r.phase = "reply"
      BY <1>1, <2>2
    <2>5. closing'[j] = IF j = k THEN r ELSE closing[j]
      BY <1>1, <2>3
    <2> QED
      BY <2>4, <2>5
  <1>7. ASSUME NEW k \in CloseJobs, FindReply(k)
        PROVE  closing'[j].lastAdmin \in {0, closing[j].lastAdmin}
    <2>1. PICK r : r = IF RepliedAfter(closing[k].lastAdmin) THEN IdleJob ELSE [closing[k] EXCEPT !.phase = "close"]
      OBVIOUS
    <2>2. closing' = [closing EXCEPT ![k] = r]
      BY <1>7, <2>1 DEF FindReply
    <2>3. r.lastAdmin \in {0, closing[k].lastAdmin}
      BY <1>1, <2>1
    <2>4. closing'[j] = IF j = k THEN r ELSE closing[j]
      BY <1>1, <2>2
    <2> QED
      BY <2>3, <2>4
  <1>8. ASSUME NEW k \in CloseJobs, CloseTicket(k)
        PROVE  closing'[j].lastAdmin \in {0, closing[j].lastAdmin}
    <2>1. PICK moved : moved = StatusOvertaken
      OBVIOUS
    <2>2. moved = [i \in CloseJobs |-> moved[i]] /\ moved[j].lastAdmin = closing[j].lastAdmin
      BY <1>2, <2>1 DEF StatusOvertaken, JobsOvertaken
    <2>3. closing' = [moved EXCEPT ![k] = IdleJob]
      BY <1>8, <2>1 DEF CloseTicket
    <2>4. closing'[j] = IF j = k THEN IdleJob ELSE moved[j]
      BY <2>2, <2>3
    <2> QED
      BY <1>1, <2>2, <2>4
  <1>9. CASE MessageAges \/ UNCHANGED ticketVars
    BY <1>9 DEF MessageAges, ticketVars
  <1>10. CASE TicketServerRestarts
    BY <1>1, <1>10 DEF TicketServerRestarts
  <1> QED
    BY <1>3, <1>4, <1>5, <1>6, <1>7, <1>8, <1>9, <1>10 DEF TicketsNext

LEMMA TicketTypesStep ==
  ASSUME TicketInv, TicketInv', TicketsTypeOK, [TicketsNext]_ticketVars
  PROVE  TicketsTypeOK'
  <1>1. /\ ticketMessages \in Seq(Message) /\ Len(ticketMessages) \in 1 .. MaxMessages /\ MaxMessages \in Nat
        /\ ticketMessages' \in Seq(Message)
    BY TicketConstantsOK DEF TicketInv, TicketRows, TicketsTypeOK
  <1>2. /\ ticketStatus' \in TicketStatuses
        /\ ticketStatus' = ticketStatus \/ ticketStatus' \in TicketStatuses
    <2>1. ASSUME NEW w \in Writers, NEW by \in {"USER", "ADMIN"}, SetStatusAfterMessage(w) \/ WriteMessage(w, by)
          PROVE  ticketStatus' \in TicketStatuses
      BY <2>1 DEF SetStatusAfterMessage, WriteMessage, StatusAfter, TicketStatuses, TicketsTypeOK
    <2>2. ASSUME NEW k \in CloseJobs, FindTicket(k) \/ FindLastAnswer(k) \/ FindReply(k) \/ CloseTicket(k)
          PROVE  ticketStatus' \in TicketStatuses
      BY <2>2 DEF FindTicket, FindLastAnswer, FindReply, CloseTicket, TicketStatuses, TicketsTypeOK
    <2>3. ASSUME MessageAges \/ TicketServerRestarts \/ UNCHANGED ticketVars
                 \/ \E status \in TicketStatuses : UpdateTicketMeta(status)
          PROVE  ticketStatus' \in TicketStatuses
      BY <2>3 DEF MessageAges, TicketServerRestarts, UpdateTicketMeta, ticketVars, TicketsTypeOK
    <2> QED
      BY <2>1, <2>2, <2>3 DEF TicketsNext
  <1>3. Len(ticketMessages') \in 1 .. MaxMessages /\ Len(ticketMessages') >= Len(ticketMessages)
    <2>1. ASSUME NEW w \in Writers, NEW by \in {"USER", "ADMIN"}, WriteMessage(w, by)
          PROVE  Len(ticketMessages') = Len(ticketMessages) + 1 /\ Len(ticketMessages) < MaxMessages
      <3>1. PICK m : m = [by |-> by, old |-> FALSE]
        OBVIOUS
      <3>2. ticketMessages' = Append(ticketMessages, m) /\ Len(ticketMessages) < MaxMessages /\ m \in Message
        BY <2>1, <3>1 DEF WriteMessage, Message
      <3> QED
        BY <1>1, <3>2
    <2>2. ASSUME MessageAges PROVE Len(ticketMessages') = Len(ticketMessages)
      BY <1>1, <2>2 DEF MessageAges
    <2>3. ASSUME ~MessageAges, ~\E w \in Writers, by \in {"USER", "ADMIN"} : WriteMessage(w, by)
          PROVE  ticketMessages' = ticketMessages
      BY <2>3 DEF TicketsNext, SetStatusAfterMessage, UpdateTicketMeta, FindTicket, FindLastAnswer, FindReply,
                  CloseTicket, TicketServerRestarts, ticketVars
    <2> QED
      BY <1>1, <2>1, <2>2, <2>3
  <1>4. ASSUME NEW j \in CloseJobs PROVE closing'[j].lastAdmin <= Len(ticketMessages')
    <2>1. closing[j].lastAdmin \in Nat /\ closing[j].lastAdmin <= Len(ticketMessages)
      BY DEF TicketInv, TicketRows, TicketsTypeOK
    <2>2. CASE closing'[j].phase \in {"reply", "close"}
      <3>1. JobOK(j)'
        BY DEF TicketInv
      <3>2. closing'[j].lastAdmin \in 1 .. Len(ticketMessages')
        BY <2>2, <3>1 DEF JobOK
      <3> QED
        BY <1>1, <3>2
    <2>3. CASE closing'[j].lastAdmin \in {0, closing[j].lastAdmin}
      BY <1>1, <1>3, <2>1, <2>3
    <2> QED
      BY <2>2, <2>3, JobPlaces
  <1> QED
    BY <1>2, <1>3, <1>4 DEF TicketsTypeOK

\* A job closes on a message of the ticket, and the status is one of the schema.
THEOREM TicketsTypes == TicketSpec => []TicketsTypeOK
  <1>1. TicketsInit => TicketsTypeOK
    <2> SUFFICES ASSUME TicketsInit PROVE TicketsTypeOK
      OBVIOUS
    <2>1. Len(ticketMessages) = 1 /\ ticketStatus = "OPEN" /\ closing = [j \in CloseJobs |-> IdleJob] /\ IdleJob.lastAdmin = 0
      BY DEF TicketsInit, IdleJob
    <2> QED
      BY <2>1, TicketConstantsOK DEF TicketsTypeOK, TicketStatuses
  <1>2. TicketInv /\ TicketInv' /\ TicketsTypeOK /\ [TicketsNext]_ticketVars => TicketsTypeOK'
    BY TicketTypesStep
  <1> QED
    BY <1>1, <1>2, TicketInvInit, TicketInvStep, PTL DEF TicketSpec

\* A URL that is left is that of a file that was stored, and whose deletion was forced or
\* missed a reference.
UrlsOK ==
    /\ urls \subseteq 1 .. stored
    /\ urls \subseteq unsafe \cup forced

LEMMA UrlsStep == MediaInv /\ UrlsOK /\ [MediaNext]_mediaVars => UrlsOK'
  <1> SUFFICES ASSUME MediaInv, UrlsOK, [MediaNext]_mediaVars PROVE UrlsOK'
    OBVIOUS
  <1>1. stored \in Nat /\ RowIds \subseteq 1 .. stored /\ \A m \in 1 .. MaxMedia : use[m] # {} => m \in RowIds
    BY DEF MediaInv, MediaTyped
  <1>2. ASSUME stored' = stored, urls' = urls, unsafe \subseteq unsafe', forced' = forced PROVE UrlsOK'
    BY <1>2 DEF UrlsOK
  <1>3. ASSUME NEW m \in 1 .. MaxMedia, ReferencesRemoved(m)
        PROVE  urls' \subseteq 1 .. stored /\ urls \subseteq urls' /\ urls' \ urls \subseteq {m}
    BY <1>1, <1>3 DEF ReferencesRemoved, UrlsOK
  <1>4. ASSUME NEW u \in Uploads, StoreFile(u) PROVE UrlsOK'
    <2>1. PICK n \in Nat : stored' = stored + n /\ UNCHANGED <<urls, unsafe, forced>>
      <3>1. uploading[u].left \in Nat
        BY DEF MediaInv, MediaTyped
      <3> QED
        BY <1>4, <3>1 DEF StoreFile
    <2> QED
      BY <1>1, <2>1 DEF UrlsOK
  <1>5. ASSUME NEW u \in Uploads, EntityUpload(u) \/ EntityUploadFields(u) PROVE UrlsOK'
    BY <1>2, <1>5 DEF EntityUpload, EntityUploadFields, BeginUpload
  <1>6. ASSUME NEW u \in Uploads, NEW n, UploadAttachments(u, n) \/ UploadBulk(u, n) PROVE UrlsOK'
    BY <1>2, <1>6 DEF UploadAttachments, UploadBulk, BeginUpload
  <1>7. ASSUME NEW u \in Uploads, NEW m, NEW named, SavingFails(u, m) \/ CreateMediaRow(u, m, named)
        PROVE  UrlsOK'
    BY <1>2, <1>7 DEF SavingFails, CreateMediaRow
  <1>8. ASSUME NEW u \in Uploads, NEW linked, FinishUpload(u, linked) PROVE UrlsOK'
    BY <1>2, <1>8 DEF FinishUpload, Referred
  <1>9. ASSUME NEW m, \/ ChooseMedia(m) \/ AttachOwned(m) \/ ReplaceMedia(m) \/ DeleteProductImages(m)
                      \/ UpdateMedia(m) \/ ReplaceUrl(m)
        PROVE  UrlsOK'
    <2>1. CASE ChooseMedia(m) \/ AttachOwned(m)
      BY <1>2, <2>1 DEF ChooseMedia, AttachOwned, Attach, Referred
    <2>2. CASE ReplaceMedia(m) \/ DeleteProductImages(m)
      BY <1>2, <2>2 DEF ReplaceMedia, DeleteProductImages, Detach
    <2>3. CASE UpdateMedia(m)
      BY <1>2, <2>3 DEF UpdateMedia
    <2>4. CASE ReplaceUrl(m)
      BY <2>4 DEF ReplaceUrl, UrlsOK
    <2> QED
      BY <1>9, <2>1, <2>2, <2>3, <2>4
  <1>10. ASSUME NEW d, NEW m \in 1 .. MaxMedia, StartDelete(d, m) \/ Unlink(d, m) \/ ForceDelete(d, m)
         PROVE  UrlsOK'
    <2>1. CASE StartDelete(d, m) \/ Unlink(d, m)
      BY <1>2, <2>1 DEF StartDelete, Unlink
    <2>2. CASE ForceDelete(d, m)
      <3>1. ReferencesRemoved(m) /\ forced' = forced \cup (urls' \ urls) /\ UNCHANGED <<stored, unsafe>>
        BY <2>2 DEF ForceDelete
      <3> QED
        BY <1>3, <3>1 DEF UrlsOK
    <2> QED
      BY <1>10, <2>1, <2>2
  <1>11. ASSUME NEW d \in MediaDeletions, DeleteRow(d) PROVE UrlsOK'
    <2> DEFINE m == removing[d].file
    <2>1. m \in 1 .. MaxMedia /\ m \in 1 .. stored /\ UNCHANGED <<stored, forced>>
      BY <1>11, MediaConstantsOK DEF DeleteRow, MediaInv, MediaTyped, NoFile
    <2>2. use[m] = {} \/ m \in unsafe
      BY <1>11, <2>1 DEF DeleteRow, MediaInv, RemovalsOK
    <2>3. CASE m \notin RowIds \/ "required" \in use[m]
      <3>1. urls' = urls /\ unsafe \subseteq unsafe'
        BY <1>11, <2>3 DEF DeleteRow
      <3> QED
        BY <1>2, <2>1, <3>1
    <2>4. CASE ~(m \notin RowIds \/ "required" \in use[m])
      <3>1. ReferencesRemoved(m) /\ unsafe' = unsafe \ ({m} \ urls')
        BY <1>11, <2>4 DEF DeleteRow
      <3>2. m \in urls' => m \in urls \/ m \in unsafe
        BY <2>2, <3>1 DEF ReferencesRemoved
      <3> HIDE DEF m
      <3>3. urls' \subseteq 1 .. stored /\ urls \subseteq urls' /\ urls' \ urls \subseteq {m}
        BY <1>3, <2>1, <3>1
      <3> QED
        BY <2>1, <3>1, <3>2, <3>3 DEF UrlsOK
    <2> QED
      BY <2>3, <2>4
  <1>12. ASSUME NEW d, StartDeleteFolder(d) \/ SweepFolder(d) \/ UnlinkForced(d) PROVE UrlsOK'
    BY <1>2, <1>12 DEF StartDeleteFolder, SweepFolder, UnlinkForced
  <1>13. CASE MediaServerRestarts \/ UNCHANGED mediaVars
    BY <1>2, <1>13 DEF MediaServerRestarts, mediaVars
  <1> QED
    BY <1>4, <1>5, <1>6, <1>7, <1>8, <1>9, <1>10, <1>11, <1>12, <1>13 DEF MediaNext

LEMMA UrlsInit == MediaInit => UrlsOK
  BY DEF MediaInit, UrlsOK

\* What an entity shows, by its mediaId or by the URL beside it, has its file, unless it was
\* attached while a deletion was between its look and its last write, or a deletion ended
\* between file and row, swept a folder with a file it had not found, or was forced on an
\* entity that goes on with the URL: for any number of uploads, deletions and files
\* (media.service.ts 70-95, 277-344).
THEOREM ShownMediaIsThere == MediaSpec => []ShownMediaHasFile
  <1>1. MediaInv /\ UrlsOK => ShownMediaHasFile
    <2> SUFFICES ASSUME MediaInv, UrlsOK, NEW m \in 1 .. MaxMedia, use[m] # {} \/ m \in urls
                 PROVE  m \in files \cup unsafe \cup forced
      BY DEF ShownMediaHasFile, InUse
    <2>1. CASE use[m] # {}
      <3>1. m \in RowIds /\ m \in 1 .. stored
        BY <2>1 DEF MediaInv, MediaTyped
      <3>2. ASSUME NEW d \in MediaDeletions, removing[d].file = m
            PROVE  m \in unsafe
        BY <2>1, <3>1, <3>2 DEF MediaInv, RemovalsOK
      <3> QED
        BY <3>1, <3>2 DEF MediaInv, RowsHaveFiles
    <2>2. CASE m \in urls
      BY <2>2 DEF UrlsOK
    <2> QED
      BY <2>1, <2>2
  <1> QED
    BY <1>1, UrlsInit, MediaInvInit, MediaStep, UrlsStep, PTL DEF MediaSpec

\* Files, rows and the URLs that are left are of media that were stored, and only what has a
\* row is in use.
THEOREM MediaTypes == MediaSpec => []MediaTypeOK
  <1>1. MediaInv /\ UrlsOK => MediaTypeOK
    BY DEF MediaInv, MediaTyped, UrlsOK, MediaTypeOK, InUse
  <1> QED
    BY <1>1, UrlsInit, MediaInvInit, MediaStep, UrlsStep, PTL DEF MediaSpec

\* A tree that Redis holds, or that a reader has read, is one of categories.
TreesFit ==
    /\ treeCache = NoTree \/ DOMAIN treeCache \subseteq CategoryIds
    /\ \A h \in TreeHandlers : treeReq[h].phase = "set" => DOMAIN treeReq[h].tree \subseteq CategoryIds

LEMMA TreesFitStep == TreeInv /\ TreesFit /\ [CategoriesNext]_treeVars => TreesFit'
  <1> SUFFICES ASSUME TreeInv, TreesFit, [CategoriesNext]_treeVars PROVE TreesFit'
    OBVIOUS
  <1>1. treeReq = [h \in TreeHandlers |-> treeReq[h]]
    BY DEF TreeInv, RequestsTyped
  <1>2. DOMAIN parent \subseteq CategoryIds
    <2>1. DOMAIN parent \subseteq 1 .. nextId - 1 /\ nextId \in Nat /\ nextId - 1 <= MaxCategories /\ MaxCategories \in Nat
      BY CategoryConstantsOK DEF TreeInv, TreeTyped
    <2>2. 1 .. nextId - 1 \subseteq 1 .. MaxCategories
      BY <2>1
    <2> QED
      BY <2>1, <2>2 DEF CategoryIds
  <1>3. ASSUME NEW h \in TreeHandlers, NEW r, treeReq' = [treeReq EXCEPT ![h] = r],
               r.phase = "set" => DOMAIN r.tree \subseteq CategoryIds,
               treeCache' = treeCache \/ treeCache' = NoTree \/ DOMAIN treeCache' \subseteq CategoryIds
        PROVE  TreesFit'
    <2>1. treeReq'[h] = r /\ \A g \in TreeHandlers \ {h} : treeReq'[g] = treeReq[g]
      BY <1>1, <1>3
    <2> QED
      BY <1>3, <2>1 DEF TreesFit
  <1>4. IdleTree.phase = "idle"
    BY DEF IdleTree
  <1>5. ASSUME NEW h \in TreeHandlers, NEW c, NEW target, CheckParent(h, c, target) \/ CheckChildless(h, c)
        PROVE  TreesFit'
    <2>1. \E r : treeReq' = [treeReq EXCEPT ![h] = r] /\ r.phase # "set"
      <3>1. PICK p : p = IF c = Root THEN "create" ELSE "move"
        OBVIOUS
      <3>2. PICK r : r = [IdleTree EXCEPT !.phase = p, !.category = c, !.target = target]
        OBVIOUS
      <3>3. PICK s : s = [IdleTree EXCEPT !.phase = "delete", !.category = c]
        OBVIOUS
      <3>4. r.phase # "set" /\ s.phase # "set"
        BY <3>1, <3>2, <3>3 DEF IdleTree
      <3>5. treeReq' = [treeReq EXCEPT ![h] = r] \/ treeReq' = [treeReq EXCEPT ![h] = s]
        BY <1>5, <3>1, <3>2, <3>3 DEF CheckParent, CheckChildless
      <3> QED
        BY <3>4, <3>5
    <2>2. treeCache' = treeCache
      BY <1>5 DEF CheckParent, CheckChildless
    <2> QED
      BY <1>3, <2>1, <2>2
  <1>6. ASSUME NEW h \in TreeHandlers, WriteTree(h) PROVE TreesFit'
    <2>1. treeCache' = treeCache
      BY <1>6 DEF WriteTree
    <2>2. ASSUME NEW g \in TreeHandlers
          PROVE  treeReq'[g].phase = "invalidate" \/ (treeReq'[g].phase = treeReq[g].phase /\ treeReq'[g].tree = treeReq[g].tree)
      <3>1. PICK b : b = (treeReq[g].overtaken \/ treeReq[h].phase = "move" \/ treeReq[g].phase = "set")
        BY Zenon
      <3>2. treeReq'[g] = IF g = h THEN [IdleTree EXCEPT !.phase = "invalidate"] ELSE [treeReq[g] EXCEPT !.overtaken = b]
        BY <1>6, <3>1, Zenon DEF WriteTree
      <3>3. DOMAIN treeReq[g] = {"phase", "category", "target", "tree", "overtaken"}
        BY DEF TreeInv, RequestsTyped
      <3> QED
        BY <3>2, <3>3 DEF IdleTree
    <2> QED
      BY <2>1, <2>2 DEF TreesFit
  <1>7. ASSUME NEW h \in TreeHandlers, TreeRefused(h) \/ InvalidateTree(h) PROVE TreesFit'
    <2>1. treeReq' = [treeReq EXCEPT ![h] = IdleTree]
      BY <1>7 DEF TreeRefused, InvalidateTree
    <2>2. treeCache' = treeCache \/ treeCache' = NoTree
      BY <1>7 DEF TreeRefused, InvalidateTree, InvalidatedByPrefix
    <2> QED
      BY <1>3, <1>4, <2>1, <2>2
  <1>8. ASSUME NEW h \in TreeHandlers, FetchTree(h) PROVE TreesFit'
    <2>1. PICK r : r = [IdleTree EXCEPT !.phase = "set", !.tree = parent]
      OBVIOUS
    <2>2. r.tree = parent
      BY <2>1 DEF IdleTree
    <2>3. treeReq' = [treeReq EXCEPT ![h] = r] /\ treeCache' = treeCache
      BY <1>8, <2>1 DEF FetchTree
    <2> QED
      BY <1>2, <1>3, <2>2, <2>3
  <1>9. ASSUME NEW h \in TreeHandlers, SetTree(h) PROVE TreesFit'
    <2>1. treeReq' = [treeReq EXCEPT ![h] = IdleTree] /\ treeReq[h].phase = "set"
      BY <1>9 DEF SetTree
    <2>2. treeCache' = treeCache \/ treeCache' = treeReq[h].tree
      BY <1>9 DEF SetTree
    <2>3. DOMAIN treeReq[h].tree \subseteq CategoryIds
      BY <2>1 DEF TreesFit
    <2> QED
      BY <1>3, <1>4, <2>1, <2>2, <2>3
  <1>10. CASE TreeExpires \/ RedisComesAndGoes \/ UNCHANGED treeVars
    BY <1>10 DEF TreeExpires, RedisComesAndGoes, treeVars, TreesFit
  <1> QED
    BY <1>5, <1>6, <1>7, <1>8, <1>9, <1>10 DEF CategoriesNext

\* A parent is a category or the root, and the cached tree is one of categories.
THEOREM CategoriesTypes == CategoriesSpec => []CategoriesTypeOK
  <1>1. TreeInv /\ TreesFit => CategoriesTypeOK
    <2> SUFFICES ASSUME TreeInv, TreesFit PROVE CategoriesTypeOK
      OBVIOUS
    <2>1. nextId - 1 \in 0 .. MaxCategories
      BY CategoryConstantsOK DEF TreeInv, TreeTyped
    <2> QED
      BY <2>1 DEF TreeInv, TreeTyped, TreesFit, CategoriesTypeOK
  <1>2. CategoriesInit => TreesFit
    BY DEF CategoriesInit, TreesFit, IdleTree
  <1> QED
    BY <1>1, <1>2, TreeInvInit, TreeStep, TreesFitStep, PTL DEF CategoriesSpec
\* What a request is to set is of the row's columns.
NewGiven(n) ==
    /\ "slug" \in DOMAIN n => n.slug \in SlugsOf(kind)
    /\ "shown" \in DOMAIN n => n.shown \in BOOLEAN
    /\ "linked" \in DOMAIN n => n.linked \in BOOLEAN
    /\ "views" \notin DOMAIN n

\* And all of them, where it may make the row.
NewOK(r) ==
    /\ NewGiven(r.new) /\ r.overtaken \in BOOLEAN
    /\ r.todo # <<>> /\ r.todo[1].do \in {"create", "upsert"} /\ "slug" \in FieldsOf(kind) => "slug" \in DOMAIN r.new

RowTyped(r) ==
    /\ r.slug \in SlugsOf(kind) /\ r.views \in 0 .. MaxViews
    /\ r.shown \in BOOLEAN /\ r.linked \in BOOLEAN

PageFieldsOK ==
    /\ content # NoRow => RowTyped(content)
    /\ cacheUp \in BOOLEAN /\ pageOutdated \in BOOLEAN
    /\ \A h \in PageHandlers : NewOK(pageReq[h])

LEMMA NothingGiven == NewGiven(<<>>) /\ NewOK(IdlePage)
  <1>1. DOMAIN <<>> = {}
    OBVIOUS
  <1>2. NewGiven(<<>>)
    BY <1>1 DEF NewGiven
  <1>3. IdlePage.new = <<>> /\ IdlePage.todo = <<>> /\ IdlePage.overtaken = FALSE
    BY DEF IdlePage
  <1> QED
    BY <1>2, <1>3 DEF NewOK

LEMMA InputGiven ==
  ASSUME NEW new \in ContentInputs, Given(new), NEW linked \in BOOLEAN
  PROVE  /\ NewGiven(new) /\ NewGiven(WithProducts(new, linked))
         /\ "slug" \in DOMAIN new => "slug" \in DOMAIN WithProducts(new, linked)
  <1>1. /\ DOMAIN new \subseteq {"slug", "shown", "text"} /\ DOMAIN new \subseteq FieldsOf(kind)
        /\ "slug" \in DOMAIN new => new.slug \in Slugs
    BY PageConstantsOK DEF Given
  <1>2. "slug" \in DOMAIN new => new.slug \in SlugsOf(kind)
    BY <1>1, PageConstantsOK DEF SlugsOf
  <1>3. "shown" \in DOMAIN new => new.shown \in BOOLEAN
    BY PageConstantsOK
  <1>4. NewGiven(new)
    BY <1>1, <1>2, <1>3 DEF NewGiven
  <1>5. PICK w : w = WithProducts(new, linked)
    OBVIOUS
  <1>6. /\ DOMAIN w = DOMAIN new \cup {"linked"} /\ w.linked = linked
        /\ \A f \in DOMAIN new : f # "linked" => w[f] = new[f]
    BY <1>5 DEF WithProducts
  <1>7. /\ "slug" \in DOMAIN w => "slug" \in DOMAIN new /\ w.slug = new.slug
        /\ "shown" \in DOMAIN w => "shown" \in DOMAIN new /\ w.shown = new.shown
        /\ "views" \notin DOMAIN w
    BY <1>1, <1>6
  <1>8. NewGiven(w)
    <2>1. w.linked \in BOOLEAN
      BY <1>6, Zenon
    <2>2. "slug" \in DOMAIN w => w.slug \in SlugsOf(kind)
      BY <1>2, <1>7
    <2>3. "shown" \in DOMAIN w => w.shown \in BOOLEAN
      BY <1>3, <1>7, Zenon
    <2> QED
      BY <1>7, <2>1, <2>2, <2>3, Zenon DEF NewGiven
  <1> QED
    BY <1>4, <1>5, <1>6, <1>8

\* One request moves, and the row stays.
LEMMA FieldsMove ==
  ASSUME PagesInv, PageFieldsOK, NEW h \in PageHandlers, NEW r, pageReq' = [pageReq EXCEPT ![h] = r],
         NewOK(r), UNCHANGED <<kind, content>>, cacheUp' \in BOOLEAN, pageOutdated' \in BOOLEAN
  PROVE  PageFieldsOK'
  <1>1. pageReq'[h] = r /\ \A g \in PageHandlers \ {h} : pageReq'[g] = pageReq[g]
    BY DEF PagesInv, PagesTyped
  <1>2. ASSUME NEW g \in PageHandlers PROVE NewOK(pageReq[g])'
    <2>1. PICK q : q = pageReq'[g] /\ NewOK(q)
      BY <1>1 DEF PageFieldsOK
    <2> QED
      BY <2>1 DEF NewOK, NewGiven, SlugsOf
  <1>3. content' # NoRow => RowTyped(content)'
    BY DEF PageFieldsOK, RowTyped, SlugsOf
  <1> QED
    BY <1>2, <1>3 DEF PageFieldsOK

LEMMA StartTypes ==
  ASSUME PagesInv, PageFieldsOK, NEW h \in PageHandlers, NEW what, NEW new, NEW rest, Start(h, what, new, rest),
         NewGiven(new), IsSequence(rest),
         what \in {"create", "upsert"} /\ "slug" \in FieldsOf(kind) => "slug" \in DOMAIN new
  PROVE  PageFieldsOK'
  <1>1. PICK old : old = IF content = NoRow THEN AnySlug ELSE content.slug
    OBVIOUS
  <1>2. PICK t : t = <<Do(what)>> \o rest
    OBVIOUS
  <1>3. PICK r : r = [IdlePage EXCEPT !.todo = t, !.new = new, !.oldSlug = old]
    OBVIOUS
  <1>4. pageReq' = [pageReq EXCEPT ![h] = r] /\ UNCHANGED <<kind, content, cacheUp, pageOutdated>>
    BY <1>1, <1>2, <1>3 DEF Start
  <1>5. r.todo = t /\ r.new = new /\ r.overtaken = FALSE
    BY <1>3 DEF IdlePage
  <1>6. t[1].do = what
    <2>1. PICK d : d = Do(what)
      OBVIOUS
    <2>2. PICK s : s = <<d>>
      OBVIOUS
    <2>3. s \in Seq({d}) /\ 1 \in DOMAIN s /\ s[1] = d
      BY <2>2
    <2>4. IsSequence(s)
      BY <2>3 DEF IsSequence
    <2>5. (s \o rest)[1] = s[1]
      BY <2>3, <2>4, Concatenated
    <2>6. t = s \o rest
      BY <1>2, <2>1, <2>2
    <2>7. t[1] = d
      BY <2>3, <2>5, <2>6
    <2>8. d.do = what
      BY <2>1 DEF Do
    <2> QED
      BY <2>7, <2>8
  <1>7. NewOK(r)
    BY <1>5, <1>6 DEF NewOK
  <1>8. cacheUp' \in BOOLEAN /\ pageOutdated' \in BOOLEAN
    BY <1>4, Zenon DEF PageFieldsOK
  <1> QED
    BY <1>4, <1>7, <1>8, FieldsMove

\* Statements after the write of the row.
LEMMA RestsAre ==
  /\ IsSequence(<<>>) /\ \A p, v : IsSequence(Invalidate(p, v))
  /\ \A products \in {"absent", "none", "some"} : IsSequence(ProductRows(products))
  BY InvalidateIs, ProductRowsAre, NothingIs DEF Loose

LEMMA MoreRests ==
  ASSUME NEW s, NEW t, IsSequence(s), IsSequence(t)
  PROVE  IsSequence(s \o t)
  BY Concatenated

LEMMA SimpleStartTypes ==
  ASSUME PagesInv, PageFieldsOK, NEW h \in PageHandlers, NEW new \in ContentInputs, NEW linked \in BOOLEAN,
         \/ CreateBrand(h, new) \/ UpdateBrand(h, new)
         \/ CreateBlogCategory(h, new) \/ UpdateBlogCategory(h, new)
         \/ UpsertSetting(h, new) \/ CreateStory(h, new, linked) \/ CreateBlogPost(h, new, linked)
  PROVE  PageFieldsOK'
  <1>1. \A p, v : IsSequence(Invalidate(p, v))
    BY RestsAre
  <1>2. Given(new) => NewGiven(new) /\ NewGiven(WithProducts(new, linked))
    BY InputGiven
  <1>3. Complete(new) => Given(new) /\ ("slug" \in FieldsOf(kind) => "slug" \in DOMAIN new)
    BY DEF Complete, Given
  <1>4. "slug" \in DOMAIN new => "slug" \in DOMAIN WithProducts(new, linked)
    BY DEF WithProducts
  <1>5. CASE \E p, v : Complete(new) /\ \E what : Start(h, what, new, Invalidate(p, v))
    BY <1>1, <1>2, <1>3, <1>5, StartTypes
  <1>6. CASE \E p, v : Complete(new) /\ \E what : Start(h, what, WithProducts(new, linked), Invalidate(p, v))
    BY <1>1, <1>2, <1>3, <1>4, <1>6, StartTypes
  <1>7. CASE \E p, v : Given(new) /\ Start(h, "update", new, Invalidate(p, v))
    BY <1>1, <1>2, <1>7, StartTypes
  <1>8. CreateBrand(h, new) \/ CreateBlogCategory(h, new) \/ UpsertSetting(h, new) =>
          \E p, v : Complete(new) /\ \E what : Start(h, what, new, Invalidate(p, v))
    BY DEF CreateBrand, CreateBlogCategory, UpsertSetting
  <1>9. CreateStory(h, new, linked) \/ CreateBlogPost(h, new, linked) =>
          \E p, v : Complete(new) /\ \E what : Start(h, what, WithProducts(new, linked), Invalidate(p, v))
    BY DEF CreateStory, CreateBlogPost
  <1>10. UpdateBrand(h, new) \/ UpdateBlogCategory(h, new) =>
          \E p, v : Given(new) /\ Start(h, "update", new, Invalidate(p, v))
    BY DEF UpdateBrand, UpdateBlogCategory
  <1> QED
    BY <1>5, <1>6, <1>7, <1>8, <1>9, <1>10

LEMMA UpdateStartTypes ==
  ASSUME PagesInv, PageFieldsOK, NEW h \in PageHandlers, NEW new \in ContentInputs,
         NEW products \in {"absent", "none", "some"}, UpdateBlogPost(h, new, products) \/ UpdateStory(h, new, products)
  PROVE  PageFieldsOK'
  <1>1. Given(new) /\ NewGiven(new)
    BY InputGiven DEF UpdateBlogPost, UpdateStory
  <1>2. CASE UpdateStory(h, new, products)
    <2>1. PICK s : s = ProductRows(products) \o Invalidate("active-stories", AnySlug)
      OBVIOUS
    <2>2. IsSequence(s)
      BY <2>1, RestsAre, MoreRests
    <2>3. Start(h, "update", new, s)
      BY <1>2, <2>1 DEF UpdateStory
    <2> QED
      BY <1>1, <2>2, <2>3, StartTypes
  <1>3. CASE UpdateBlogPost(h, new, products)
    <2>1. PICK a : a = Invalidate("blog-post-list", AnySlug)
      OBVIOUS
    <2>2. PICK b : b = Invalidate("blog-post:slug", content.slug)
      OBVIOUS
    <2>3. PICK c : c = IF "slug" \in DOMAIN new /\ new.slug # content.slug
                       THEN Invalidate("blog-post:slug", new.slug) ELSE <<>>
      OBVIOUS
    <2>4. PICK d : d = ProductRows(products)
      OBVIOUS
    <2>5. IsSequence(a) /\ IsSequence(b) /\ IsSequence(c) /\ IsSequence(d)
      BY <2>1, <2>2, <2>3, <2>4, RestsAre
    <2>6. PICK s : s = ((a \o b) \o c) \o d
      OBVIOUS
    <2>7. IsSequence(s)
      BY <2>5, <2>6, MoreRests
    <2>8. Start(h, "update", new, s)
      BY <1>3, <2>1, <2>2, <2>3, <2>4, <2>6 DEF UpdateBlogPost
    <2> QED
      BY <1>1, <2>7, <2>8, StartTypes
  <1> QED
    BY <1>2, <1>3

LEMMA DeleteStartTypes ==
  ASSUME PagesInv, PageFieldsOK, NEW h \in PageHandlers,
         \/ DeleteBrand(h) \/ DeleteBlogCategory(h) \/ DeleteBlogPost(h) \/ DeleteStory(h) \/ DeleteSetting(h)
  PROVE  PageFieldsOK'
  <1>1. CASE DeleteBlogPost(h)
    <2>1. PICK s : s = Invalidate("blog-post-list", AnySlug) \o Invalidate("blog-post:slug", content.slug)
      OBVIOUS
    <2>2. IsSequence(s)
      BY <2>1, RestsAre, MoreRests
    <2>3. Start(h, "delete", <<>>, s)
      BY <1>1, <2>1 DEF DeleteBlogPost
    <2> QED
      BY <2>2, <2>3, NothingGiven, StartTypes
  <1>2. CASE ~DeleteBlogPost(h)
    <2>1. \E p, v : Start(h, "delete", <<>>, Invalidate(p, v))
      BY <1>2 DEF DeleteBrand, DeleteBlogCategory, DeleteStory, DeleteSetting
    <2> QED
      BY <2>1, RestsAre, NothingGiven, StartTypes
  <1> QED
    BY <1>1, <1>2

\* A reader that is behind keeps what it was to write.
LEMMA BehindTypes ==
  ASSUME PagesInv, PageFieldsOK, NEW g \in PageHandlers, NEW q, q = ReadersBehind[g]
  PROVE  NewOK(q)
  <1>1. PICK b \in BOOLEAN : b = (pageReq[g].overtaken \/ pageReq[g].todo = <<Do("set")>>)
    BY Zenon
  <1>2. q = [pageReq[g] EXCEPT !.overtaken = (pageReq[g].overtaken \/ pageReq[g].todo = <<Do("set")>>)]
    BY DEF ReadersBehind
  <1>3. q = [pageReq[g] EXCEPT !.overtaken = b]
    BY <1>1, <1>2, Zenon
  <1>4. DOMAIN pageReq[g] = {"todo", "new", "oldSlug", "page", "wrote", "overtaken"} /\ NewOK(pageReq[g])
    BY DEF PagesInv, PagesTyped, PageFieldsOK
  <1>5. q.todo = pageReq[g].todo /\ q.new = pageReq[g].new /\ q.overtaken = b
    BY <1>3, <1>4
  <1>6. q.overtaken \in BOOLEAN
    BY <1>5, Zenon
  <1> QED
    BY <1>4, <1>5, <1>6 DEF NewOK

\* The row changes within its types.
LEMMA FieldsFollow ==
  ASSUME PagesInv, PageFieldsOK, UNCHANGED <<kind, cacheUp>>, content' # NoRow => RowTyped(content'),
         \A g \in PageHandlers : \E q : pageReq'[g] = q /\ (q = ReadersBehind[g] \/ NewOK(q)),
         pageOutdated' \in BOOLEAN
  PROVE  PageFieldsOK'
  <1>1. ASSUME NEW g \in PageHandlers PROVE NewOK(pageReq[g])'
    <2>1. PICK q : pageReq'[g] = q /\ (q = ReadersBehind[g] \/ NewOK(q))
      OBVIOUS
    <2>2. NewOK(q)
      BY <2>1, BehindTypes
    <2> QED
      BY <2>1, <2>2 DEF NewOK, NewGiven, SlugsOf
  <1>2. cacheUp' \in BOOLEAN
    BY Zenon DEF PageFieldsOK
  <1>3. content' # NoRow => RowTyped(content)'
    BY DEF RowTyped, SlugsOf
  <1> QED
    BY <1>1, <1>2, <1>3 DEF PageFieldsOK

LEMMA AgeTypes ==
  ASSUME PagesInv, PageFieldsOK, CountView \/ StoryExpires \/ ContentUsed
  PROVE  PageFieldsOK'
  <1>1. /\ pageReq' = ReadersBehind /\ content # NoRow /\ UNCHANGED <<kind, cacheUp>>
        /\ pageOutdated' = (pageOutdated \/ page \notin {NoPage, PageOf(pageKey, content')})
    BY DEF CountView, StoryExpires, ContentUsed, LeftOutdated
  <1>2. DOMAIN content = {"slug", "shown", "text", "linked", "views"} /\ RowTyped(content)
    BY <1>1 DEF PagesInv, PagesTyped, PageFieldsOK
  <1>3. RowTyped(content')
    <2>1. CASE CountView
      <3>1. content.views \in 0 .. MaxViews /\ content.views < MaxViews /\ MaxViews \in Nat
        BY <1>2, <2>1, PageConstantsOK DEF CountView, RowTyped
      <3>2. content.views + 1 \in 0 .. MaxViews
        BY <3>1
      <3>3. content' = [content EXCEPT !.views = content.views + 1]
        BY <2>1 DEF CountView
      <3>4. /\ content'.slug = content.slug /\ content'.shown = content.shown
            /\ content'.linked = content.linked /\ content'.views = content.views + 1
        BY <1>2, <3>3
      <3> QED
        BY <1>2, <3>2, <3>4 DEF RowTyped
    <2>2. CASE StoryExpires
      <3>1. content' = [content EXCEPT !.shown = FALSE]
        BY <2>2 DEF StoryExpires
      <3>2. /\ content'.slug = content.slug /\ content'.shown = FALSE
            /\ content'.linked = content.linked /\ content'.views = content.views
        BY <1>2, <3>1
      <3> QED
        BY <1>2, <3>2 DEF RowTyped
    <2>3. CASE ContentUsed
      <3>1. content' = [content EXCEPT !.linked = TRUE]
        BY <2>3 DEF ContentUsed
      <3>2. /\ content'.slug = content.slug /\ content'.linked = TRUE
            /\ content'.shown = content.shown /\ content'.views = content.views
        BY <1>2, <3>1
      <3> QED
        BY <1>2, <3>2 DEF RowTyped
    <2> QED
      BY <2>1, <2>2, <2>3
  <1>4. pageOutdated' \in BOOLEAN
    BY <1>1, Zenon
  <1>5. \A g \in PageHandlers : \E q : pageReq'[g] = q /\ q = ReadersBehind[g]
    BY <1>1
  <1> QED
    BY <1>1, <1>3, <1>4, <1>5, FieldsFollow

\* After the write a request has no row to make.
LEMMA WroteTypes ==
  ASSUME PagesInv, PagesInv', PageFieldsOK, NEW h \in PageHandlers, Wrote(h), UNCHANGED <<kind, cacheUp>>,
         content' # NoRow => RowTyped(content'), pageOutdated' \in BOOLEAN
  PROVE  PageFieldsOK'
  <1>1. PICK t : t = Tail(pageReq[h].todo)
    OBVIOUS
  <1>2. PICK r : r = IF Len(pageReq[h].todo) = 1 THEN IdlePage
                     ELSE [IdlePage EXCEPT !.todo = t, !.wrote = TRUE]
    OBVIOUS
  <1>3. pageReq' = [ReadersBehind EXCEPT ![h] = r]
    BY <1>1, <1>2 DEF Wrote
  <1>4. pageReq'[h] = r /\ \A g \in PageHandlers \ {h} : pageReq'[g] = ReadersBehind[g]
    BY <1>3 DEF ReadersBehind
  <1>5. NewOK(r)
    <2>1. CASE Len(pageReq[h].todo) = 1
      BY <1>2, <2>1, NothingGiven
    <2>2. CASE Len(pageReq[h].todo) # 1
      <3>1. r = [IdlePage EXCEPT !.todo = t, !.wrote = TRUE]
        BY <1>2, <2>2
      <3>2. r.new = <<>> /\ r.overtaken = FALSE /\ r.wrote /\ r.todo = t
        BY <3>1 DEF IdlePage
      <3>3. StepsOK(pageReq[h])'
        BY DEF PagesInv
      <3>4. \E S : r.todo \in Seq(S)
        BY <1>4, <3>3 DEF StepsOK
      <3>5. \A i \in DOMAIN r.todo : r.todo[i].do \notin RowWrites
        BY <1>4, <3>2, <3>3 DEF StepsOK
      <3>6. r.todo # <<>> => 1 \in DOMAIN r.todo
        BY <3>4
      <3>7. r.todo # <<>> => r.todo[1].do \notin {"create", "upsert"}
        BY <3>5, <3>6 DEF RowWrites
      <3> QED
        BY <3>2, <3>7, NothingGiven DEF NewOK
    <2> QED
      BY <2>1, <2>2
  <1>6. \A g \in PageHandlers : \E q : pageReq'[g] = q /\ (q = ReadersBehind[g] \/ NewOK(q))
    BY <1>4, <1>5
  <1> QED
    BY <1>6, FieldsFollow

LEMMA WriteRowTypes ==
  ASSUME PagesInv, PagesInv', PageFieldsOK, NEW h \in PageHandlers, WriteRow(h)
  PROVE  PageFieldsOK'
  <1>1. PICK r : r = pageReq[h]
    OBVIOUS
  <1>2. PICK what : what = NextOf(h).do
    OBVIOUS
  <1>3. /\ r.todo # <<>> /\ what \in RowWrites /\ Writable(what) /\ Wrote(h)
        /\ content' = (IF what = "delete" THEN NoRow ELSE Written(r))
        /\ UNCHANGED <<kind, cacheUp>>
    BY <1>1, <1>2 DEF WriteRow, RowWrites
  <1>4. IF \/ pageKey.prefix \in ShortLived
           \/ kind = "blog-post" /\ content # NoRow /\ content.slug # r.oldSlug
        THEN LeftOutdated(content') ELSE UNCHANGED pageOutdated
    BY <1>1 DEF WriteRow
  <1>5. pageOutdated' \in BOOLEAN
    <2>1. pageOutdated \in BOOLEAN
      BY DEF PageFieldsOK
    <2> QED
      BY <1>4, <2>1, Zenon DEF LeftOutdated
  <1>6. NewOK(r) /\ NewGiven(r.new)
    BY <1>1 DEF PageFieldsOK, NewOK
  <1>7. what = r.todo[1].do
    BY <1>1, <1>2, <1>3, NextIs
  <1>8. PICK old : old = IF content = NoRow THEN NewRow ELSE content
    OBVIOUS
  <1>9. /\ DOMAIN old = {"slug", "shown", "text", "linked", "views"}
        /\ old.shown \in BOOLEAN /\ old.linked \in BOOLEAN /\ old.views \in 0 .. MaxViews
    <2>1. CASE content = NoRow
      <3>1. old = NewRow
        BY <1>8, <2>1
      <3>2. /\ DOMAIN old = {"slug", "shown", "text", "linked", "views"}
            /\ old.shown = TRUE /\ old.linked = FALSE /\ old.views = 0
        BY <3>1 DEF NewRow
      <3>3. old.views \in 0 .. MaxViews
        BY <3>2, PageConstantsOK
      <3>4. old.shown \in BOOLEAN /\ old.linked \in BOOLEAN
        BY <3>2, Zenon
      <3> QED
        BY <3>2, <3>3, <3>4
    <2>2. CASE content # NoRow
      BY <1>8, <2>2 DEF PagesInv, PagesTyped, PageFieldsOK, RowTyped
    <2> QED
      BY <2>1, <2>2
  <1>10. ASSUME what # "delete" PROVE old.slug \in SlugsOf(kind) \/ "slug" \in DOMAIN r.new
    <2>1. CASE content # NoRow
      BY <1>8, <2>1 DEF PageFieldsOK, RowTyped
    <2>2. CASE content = NoRow
      <3>1. what \in {"create", "upsert"}
        BY <1>3, <1>10, <2>2 DEF Writable, RowWrites
      <3>2. "slug" \in FieldsOf(kind) => "slug" \in DOMAIN r.new
        BY <1>3, <1>6, <1>7, <3>1 DEF NewOK
      <3>3. old.slug = AnySlug
        BY <1>8, <2>2 DEF NewRow
      <3> QED
        BY <3>2, <3>3 DEF SlugsOf
    <2> QED
      BY <2>1, <2>2
  <1>11. ASSUME content' # NoRow PROVE RowTyped(content')
    <2>1. what # "delete" /\ content' = Written(r)
      BY <1>3, <1>11
    <2>2. PICK w : w = Written(r)
      OBVIOUS
    <2>3. w = [f \in DOMAIN old |-> IF f \in DOMAIN r.new THEN r.new[f] ELSE old[f]]
      BY <1>8, <2>2 DEF Written
    <2>4. /\ w.slug = IF "slug" \in DOMAIN r.new THEN r.new.slug ELSE old.slug
          /\ w.shown = IF "shown" \in DOMAIN r.new THEN r.new.shown ELSE old.shown
          /\ w.linked = IF "linked" \in DOMAIN r.new THEN r.new.linked ELSE old.linked
          /\ w.views = IF "views" \in DOMAIN r.new THEN r.new.views ELSE old.views
      BY <1>9, <2>3
    <2>5. w.slug \in SlugsOf(kind)
      BY <1>6, <1>10, <2>1, <2>4 DEF NewGiven
    <2>6. w.views \in 0 .. MaxViews
      BY <1>6, <1>9, <2>4 DEF NewGiven
    <2>7. w.shown \in BOOLEAN /\ w.linked \in BOOLEAN
      BY <1>6, <1>9, <2>4, Zenon DEF NewGiven
    <2> QED
      BY <2>1, <2>2, <2>5, <2>6, <2>7 DEF RowTyped
  <1> QED
    BY <1>3, <1>5, <1>11, WroteTypes

LEMMA WriteLinksTypes ==
  ASSUME PagesInv, PagesInv', PageFieldsOK, NEW h \in PageHandlers, WriteLinks(h)
  PROVE  PageFieldsOK'
  <1>1. PICK b \in BOOLEAN : b = (NextOf(h).do = "link")
    BY Zenon
  <1>2. /\ content' = (IF content = NoRow THEN NoRow ELSE [content EXCEPT !.linked = (NextOf(h).do = "link")])
        /\ Wrote(h) /\ UNCHANGED <<kind, cacheUp>>
    BY DEF WriteLinks
  <1>3. IF kind = "blog-post" \/ pageKey.prefix \in ShortLived
        THEN LeftOutdated(content') ELSE UNCHANGED pageOutdated
    BY DEF WriteLinks
  <1>4. pageOutdated' \in BOOLEAN
    <2>1. pageOutdated \in BOOLEAN
      BY DEF PageFieldsOK
    <2> QED
      BY <1>3, <2>1, Zenon DEF LeftOutdated
  <1>5. content # NoRow => content' = [content EXCEPT !.linked = b]
    BY <1>1, <1>2, Zenon
  <1>6. ASSUME content' # NoRow PROVE RowTyped(content')
    <2>1. content # NoRow
      BY <1>2, <1>6
    <2>2. DOMAIN content = {"slug", "shown", "text", "linked", "views"} /\ RowTyped(content)
      BY <2>1 DEF PagesInv, PagesTyped, PageFieldsOK
    <2>3. /\ content'.slug = content.slug /\ content'.linked = b
          /\ content'.shown = content.shown /\ content'.views = content.views
      BY <1>5, <2>1, <2>2
    <2>4. content'.linked \in BOOLEAN
      BY <2>3, Zenon
    <2> QED
      BY <2>2, <2>3, <2>4 DEF RowTyped
  <1> QED
    BY <1>2, <1>4, <1>6, WroteTypes

LEMMA InvalidateTypes ==
  ASSUME PagesInv, PagesInv', PageFieldsOK, NEW h \in PageHandlers, InvalidateCache(h)
  PROVE  PageFieldsOK'
  <1>1. PICK t : t = Tail(pageReq[h].todo)
    OBVIOUS
  <1>2. PICK r : r = IF Len(pageReq[h].todo) = 1 THEN IdlePage ELSE [pageReq[h] EXCEPT !.todo = t]
    OBVIOUS
  <1>3. /\ pageReq[h].todo # <<>> /\ pageReq' = [pageReq EXCEPT ![h] = r]
        /\ pageOutdated' = (~cacheUp /\ page \notin {NoPage, PageOf(pageKey, content)})
        /\ UNCHANGED <<kind, content, cacheUp>>
    BY <1>1, <1>2 DEF InvalidateCache
  <1>4. NewOK(r)
    <2>1. CASE Len(pageReq[h].todo) = 1
      BY <1>2, <2>1, NothingGiven
    <2>2. CASE Len(pageReq[h].todo) # 1
      <3>1. r = [pageReq[h] EXCEPT !.todo = t]
        BY <1>2, <2>2
      <3>2. DOMAIN pageReq[h] = {"todo", "new", "oldSlug", "page", "wrote", "overtaken"} /\ NewOK(pageReq[h])
        BY DEF PagesInv, PagesTyped, PageFieldsOK
      <3>3. r.new = pageReq[h].new /\ r.overtaken = pageReq[h].overtaken /\ r.todo = t
        BY <3>1, <3>2
      <3>4. StepsOK(pageReq[h])
        BY DEF PagesInv
      <3>5. PICK o : o = pageReq[h].todo
        OBVIOUS
      <3>6. o # <<>> /\ t = Tail(o)
        BY <1>1, <1>3, <3>5
      <3>7. PICK S : o \in Seq(S)
        BY <3>4, <3>5 DEF StepsOK
      <3>8. \A i \in DOMAIN o : o[i].do \in RowWrites => i = 1
        BY <3>4, <3>5 DEF StepsOK
      <3>9. t # <<>> => 2 \in DOMAIN o /\ t[1] = o[2]
        BY <3>6, <3>7
      <3>10. t # <<>> => t[1].do \notin {"create", "upsert"}
        BY <3>8, <3>9 DEF RowWrites
      <3>11. r.overtaken \in BOOLEAN
        BY <3>2, <3>3, Zenon DEF NewOK
      <3> QED
        BY <3>2, <3>3, <3>10, <3>11 DEF NewOK
    <2> QED
      BY <2>1, <2>2
  <1>5. pageOutdated' \in BOOLEAN /\ cacheUp' \in BOOLEAN
    <2>1. cacheUp \in BOOLEAN
      BY DEF PageFieldsOK
    <2> QED
      BY <1>3, <2>1, Zenon
  <1> QED
    BY <1>3, <1>4, <1>5, FieldsMove

LEMMA ReaderTypes ==
  ASSUME PagesInv, PageFieldsOK, NEW h \in PageHandlers,
         FetchPage(h) \/ SetPage(h) \/ WriteRefused(h) \/ PagesCrash(h)
  PROVE  PageFieldsOK'
  <1>1. cacheUp \in BOOLEAN /\ pageOutdated \in BOOLEAN
    BY DEF PageFieldsOK
  <1>2. CASE FetchPage(h)
    <2>1. PICK p : p = PageOf(pageKey, content)
      OBVIOUS
    <2>2. PICK t : t = <<Do("set")>>
      OBVIOUS
    <2>3. PICK r : r = [IdlePage EXCEPT !.todo = t, !.page = p]
      OBVIOUS
    <2>4. pageReq' = [pageReq EXCEPT ![h] = r] /\ UNCHANGED <<kind, content, cacheUp, pageOutdated>>
      BY <1>2, <2>1, <2>2, <2>3 DEF FetchPage
    <2>5. r.new = <<>> /\ r.overtaken = FALSE /\ r.todo = t
      BY <2>3 DEF IdlePage
    <2>6. t[1].do = "set"
      <3>1. PICK d : d = Do("set")
        OBVIOUS
      <3>2. t = <<d>> /\ d.do = "set"
        BY <2>2, <3>1 DEF Do
      <3>3. t[1] = d
        BY <3>2
      <3> QED
        BY <3>2, <3>3
    <2>7. NewOK(r)
      BY <2>5, <2>6, NothingGiven DEF NewOK
    <2>8. cacheUp' \in BOOLEAN /\ pageOutdated' \in BOOLEAN
      BY <1>1, <2>4, Zenon
    <2> QED
      BY <2>4, <2>7, <2>8, FieldsMove
  <1>3. CASE SetPage(h)
    <2>1. /\ pageReq' = [pageReq EXCEPT ![h] = IdlePage] /\ UNCHANGED <<kind, content, cacheUp>>
          /\ pageOutdated' = (IF cacheUp THEN pageReq[h].overtaken ELSE pageOutdated)
      BY <1>3 DEF SetPage
    <2>2. pageReq[h].overtaken \in BOOLEAN
      BY DEF PageFieldsOK, NewOK
    <2>3. cacheUp' \in BOOLEAN /\ pageOutdated' \in BOOLEAN
      BY <1>1, <2>1, <2>2, Zenon
    <2> QED
      BY <2>1, <2>3, NothingGiven, FieldsMove
  <1>4. CASE WriteRefused(h) \/ PagesCrash(h)
    <2>1. /\ pageReq' = [pageReq EXCEPT ![h] = IdlePage] /\ UNCHANGED <<kind, content, cacheUp>>
          /\ IF pageReq[h].wrote THEN LeftOutdated(content) ELSE UNCHANGED pageOutdated
      BY <1>4 DEF WriteRefused, PagesCrash
    <2>2. cacheUp' \in BOOLEAN /\ pageOutdated' \in BOOLEAN
      BY <1>1, <2>1, Zenon DEF LeftOutdated
    <2> QED
      BY <2>1, <2>2, NothingGiven, FieldsMove
  <1> QED
    BY <1>2, <1>3, <1>4

LEMMA PageFieldsInit == PagesInit => PageFieldsOK
  <1> SUFFICES ASSUME PagesInit PROVE PageFieldsOK
    OBVIOUS
  <1>1. /\ content \in [slug : SlugsOf(kind), shown : {TRUE}, text : {"old"}, linked : BOOLEAN, views : {0}]
                   \cup {NoRow}
        /\ cacheUp = TRUE /\ pageOutdated = FALSE /\ pageReq = [h \in PageHandlers |-> IdlePage]
    BY DEF PagesInit
  <1>2. ASSUME content # NoRow PROVE RowTyped(content)
    <2>1. content \in [slug : SlugsOf(kind), shown : {TRUE}, text : {"old"}, linked : BOOLEAN, views : {0}]
      BY <1>1, <1>2
    <2>2. /\ content.slug \in SlugsOf(kind) /\ content.shown \in {TRUE} /\ content.linked \in BOOLEAN
          /\ content.views \in {0}
      BY <2>1, Zenon
    <2>3. content.shown \in BOOLEAN
      BY <2>2, Zenon
    <2>4. content.views \in 0 .. MaxViews
      BY <2>2, PageConstantsOK
    <2> QED
      BY <2>2, <2>3, <2>4 DEF RowTyped
  <1>3. \A h \in PageHandlers : NewOK(pageReq[h])
    BY <1>1, NothingGiven
  <1> QED
    BY <1>1, <1>2, <1>3 DEF PageFieldsOK

LEMMA PageFieldsStep == PagesInv /\ PagesInv' /\ PageFieldsOK /\ [PagesNext]_pagesVars => PageFieldsOK'
  <1> SUFFICES ASSUME PagesInv, PagesInv', PageFieldsOK, [PagesNext]_pagesVars PROVE PageFieldsOK'
    OBVIOUS
  <1>1. ASSUME NEW h \in PageHandlers, NEW new \in ContentInputs, NEW linked \in BOOLEAN,
               NEW products \in {"absent", "none", "some"},
               \/ CreateBrand(h, new) \/ UpdateBrand(h, new)
               \/ CreateBlogCategory(h, new) \/ UpdateBlogCategory(h, new) \/ UpsertSetting(h, new)
               \/ CreateBlogPost(h, new, linked) \/ CreateStory(h, new, linked)
               \/ UpdateBlogPost(h, new, products) \/ UpdateStory(h, new, products)
        PROVE  PageFieldsOK'
    BY <1>1, SimpleStartTypes, UpdateStartTypes
  <1>2. ASSUME NEW h \in PageHandlers,
               \/ DeleteBrand(h) \/ DeleteBlogCategory(h) \/ DeleteBlogPost(h) \/ DeleteStory(h)
               \/ DeleteSetting(h)
        PROVE  PageFieldsOK'
    BY <1>2, DeleteStartTypes
  <1>3. ASSUME NEW h \in PageHandlers,
               \/ WriteRow(h) \/ WriteRefused(h) \/ WriteLinks(h) \/ InvalidateCache(h)
               \/ FetchPage(h) \/ SetPage(h) \/ PagesCrash(h)
        PROVE  PageFieldsOK'
    <2>1. CASE WriteRow(h) \/ WriteLinks(h) \/ InvalidateCache(h)
      BY <2>1, WriteRowTypes, WriteLinksTypes, InvalidateTypes
    <2>2. CASE FetchPage(h) \/ SetPage(h) \/ WriteRefused(h) \/ PagesCrash(h)
      BY <2>2, ReaderTypes
    <2> QED
      BY <1>3, <2>1, <2>2
  <1>4. CASE CountView \/ StoryExpires \/ ContentUsed
    BY <1>4, AgeTypes
  <1>5. ASSUME PageExpires \/ CacheComesAndGoes \/ UNCHANGED pagesVars PROVE PageFieldsOK'
    <2>1. UNCHANGED <<kind, content, pageReq>>
      BY <1>5 DEF PageExpires, CacheComesAndGoes, pagesVars
    <2>2. cacheUp' \in {cacheUp, ~cacheUp} /\ pageOutdated' \in {pageOutdated, FALSE}
      BY <1>5, Zenon DEF PageExpires, CacheComesAndGoes, pagesVars
    <2>3. cacheUp' \in BOOLEAN /\ pageOutdated' \in BOOLEAN
      BY <2>2, Zenon DEF PageFieldsOK
    <2>4. content' # NoRow => RowTyped(content)'
      BY <2>1 DEF PageFieldsOK, RowTyped, SlugsOf
    <2>5. \A h \in PageHandlers : NewOK(pageReq[h])'
      BY <2>1 DEF PageFieldsOK, NewOK, NewGiven, SlugsOf
    <2> QED
      BY <2>3, <2>4, <2>5 DEF PageFieldsOK
  <1>6. CASE PagesNext
    <2>1. \/ \E h \in PageHandlers, new \in ContentInputs, linked \in BOOLEAN,
                products \in {"absent", "none", "some"} :
             \/ CreateBrand(h, new) \/ UpdateBrand(h, new)
             \/ CreateBlogCategory(h, new) \/ UpdateBlogCategory(h, new) \/ UpsertSetting(h, new)
             \/ CreateBlogPost(h, new, linked) \/ CreateStory(h, new, linked)
             \/ UpdateBlogPost(h, new, products) \/ UpdateStory(h, new, products)
          \/ \E h \in PageHandlers :
             \/ DeleteBrand(h) \/ DeleteBlogCategory(h) \/ DeleteBlogPost(h) \/ DeleteStory(h)
             \/ DeleteSetting(h)
          \/ \E h \in PageHandlers :
             \/ WriteRow(h) \/ WriteRefused(h) \/ WriteLinks(h) \/ InvalidateCache(h)
             \/ FetchPage(h) \/ SetPage(h) \/ PagesCrash(h)
          \/ CountView \/ StoryExpires \/ ContentUsed \/ PageExpires \/ CacheComesAndGoes
      BY <1>6 DEF PagesNext
    <2> QED
      BY <1>1, <1>2, <1>3, <1>4, <1>5, <2>1
  <1> QED
    BY <1>5, <1>6

\* The row has a slug of its kind, and only what a request may write changes it.
THEOREM PagesTypes == PagesSpec => []PagesTypeOK
  <1>1. PagesInv /\ PageFieldsOK => PagesTypeOK
    <2> SUFFICES ASSUME PagesInv, PageFieldsOK PROVE PagesTypeOK
      OBVIOUS
    <2>1. kind \in Kinds /\ pageKey.prefix \in PrefixesOf(kind)
      BY DEF PagesInv, PagesTyped
    <2>2. content # NoRow => RowTyped(content)
      BY DEF PageFieldsOK
    <2>3. content # NoRow => {content.shown, content.linked} \subseteq BOOLEAN
      BY <2>2, Zenon DEF RowTyped
    <2>4. cacheUp \in BOOLEAN /\ pageOutdated \in BOOLEAN
      BY Zenon DEF PageFieldsOK
    <2>5. content # NoRow => content.slug \in SlugsOf(kind) /\ content.views \in 0 .. MaxViews
      BY <2>2 DEF RowTyped
    <2> QED
      BY <2>1, <2>3, <2>4, <2>5, Zenon DEF PagesTypeOK
  <1> QED
    BY <1>1, PagesInvInit, PagesStep, PageFieldsInit, PageFieldsStep, PTL DEF PagesSpec
-------------------------------------------------------------------------------
(* The platform: a behaviour of it is one of each of its parts, which      *)
(* stutter unless it is theirs.                                            *)

LEMMA PlatformSteps ==
  ASSUME [PlatformNext]_platformVars
  PROVE  /\ [SessionsNext]_sessionsVars /\ [OtpNext]_otpVars /\ [GuardNext]_guardVars
         /\ [LockNext]_lockVars /\ [TicketsNext]_ticketVars /\ [MediaNext]_mediaVars
         /\ [ConversationsNext]_conversationVars /\ [UpdatesNext]_updateVars /\ [DialogNext]_dialogVars
         /\ [CategoriesNext]_treeVars /\ [PagesNext]_pagesVars /\ [RepliesNext]_replyVars
  <1>1. [SessionsNext]_sessionsVars /\ [OtpNext]_otpVars /\ [GuardNext]_guardVars
    BY DEF PlatformNext, platformVars, vars1, vars2, vars3, vars4
  <1>2. [LockNext]_lockVars /\ [TicketsNext]_ticketVars /\ [MediaNext]_mediaVars
    BY DEF PlatformNext, platformVars, vars1, vars2, vars3, vars4
  <1>3. [ConversationsNext]_conversationVars /\ [UpdatesNext]_updateVars /\ [DialogNext]_dialogVars
    BY DEF PlatformNext, platformVars, vars1, vars2, vars3, vars4
  <1>4. [CategoriesNext]_treeVars /\ [PagesNext]_pagesVars /\ [RepliesNext]_replyVars
    BY DEF PlatformNext, platformVars, vars1, vars2, vars3, vars4
  <1> QED
    BY <1>1, <1>2, <1>3, <1>4

LEMMA PlatformPartsBehave ==
  PlatformSpec => /\ SessionsSpec /\ OtpSpec /\ GuardSpec /\ LockSpec /\ TicketSpec /\ MediaSpec
                  /\ ConversationsSpec /\ UpdatesSpec /\ DialogSpec /\ CategoriesSpec /\ PagesSpec
                  /\ RepliesSpec
  <1>1. PlatformInit => /\ SessionsInit /\ OtpInit /\ GuardInit /\ LockInit /\ TicketsInit /\ MediaInit
                        /\ ConversationsInit /\ UpdatesInit /\ DialogInit /\ CategoriesInit /\ PagesInit
                        /\ RepliesInit
    BY DEF PlatformInit
  <1> QED
    BY <1>1, PlatformSteps, PTL
    DEF PlatformSpec, SessionsSpec, OtpSpec, GuardSpec, LockSpec, TicketSpec, MediaSpec,
        ConversationsSpec, UpdatesSpec, DialogSpec, CategoriesSpec, PagesSpec, RepliesSpec

\* On the platform a user's sessions are within the limit and of the current password, but for
\* logins in flight and processes that end between two writes (session.service.ts 18-81,
\* auth.service.ts 212-238).
THEOREM SessionsAreHeld == PlatformSpec => []SessionsHold
  <1>1. SessionsWithinLimit /\ SessionsFollowPassword => SessionsHold
    BY DEF SessionsHold
  <1> QED
    BY PlatformPartsBehave, SessionsStayLimited, <1>1, PTL

\* On the platform what customers write to the bot is in the chat, and what operators answer
\* comes to them, but for failures the code lets pass (telegram-update-handler.service.ts
\* 37-143, outbound-delivery.service.ts 31-99).
THEOREM EveryMessageArrives == PlatformSpec => []MessagesArrive
  <1>1. UpdatesReachTheChat /\ RepliesReachTheCustomer => MessagesArrive
    BY DEF MessagesArrive
  <1> QED
    BY PlatformPartsBehave, UpdatesArrive, RepliesArrive, <1>1, PTL

\* On the platform what Redis holds is what the database has, but for what the services leave
\* to the expiry (lib/cache.ts 17-67).
THEOREM CacheIsCurrent == PlatformSpec => []CachedContentIsCurrent
  <1>1. CachedTreeIsCurrent /\ CachedPagesAreCurrent => CachedContentIsCurrent
    BY DEF CachedContentIsCurrent
  <1> QED
    BY PlatformPartsBehave, CachedTreeIsTheTables, PagesAreCurrent, <1>1, PTL

\* On the platform every counter, document, job and message is what the code's schemas and
\* classes allow.
THEOREM PlatformTypes == PlatformSpec => []PlatformTypeOK
  <1>1. /\ SessionsTypeOK /\ OtpTypeOK /\ GuardTypeOK /\ LockTypeOK /\ TicketsTypeOK /\ MediaTypeOK
        /\ ConversationsTypeOK /\ UpdatesTypeOK /\ DialogTypeOK /\ CategoriesTypeOK /\ PagesTypeOK
        /\ RepliesTypeOK
        => PlatformTypeOK
    BY DEF PlatformTypeOK
  <1>2. PlatformSpec => [](SessionsTypeOK /\ OtpTypeOK /\ GuardTypeOK)
    BY PlatformPartsBehave, SessionsTypes, OtpTypes, GuardTypesOK, PTL
  <1>3. PlatformSpec => [](LockTypeOK /\ TicketsTypeOK /\ MediaTypeOK)
    BY PlatformPartsBehave, LockTypes, TicketsTypes, MediaTypes, PTL
  <1>4. PlatformSpec => [](ConversationsTypeOK /\ UpdatesTypeOK /\ RepliesTypeOK /\ DialogTypeOK)
    BY PlatformPartsBehave, ConversationsTypes, UpdatesTypes, RepliesTypes, DialogTypes, PTL
  <1>5. PlatformSpec => [](CategoriesTypeOK /\ PagesTypeOK)
    BY PlatformPartsBehave, CategoriesTypes, PagesTypes, PTL
  <1> QED
    BY <1>1, <1>2, <1>3, <1>4, <1>5, PTL
===============================================================================
