---------------------------- MODULE TelegramUpdates ---------------------------
(***************************************************************************)
(* The updates of one bot on their way into the chat: polled in batches by *)
(* one loop, which keeps an offset in memory and one in the database, or   *)
(* sent to the webhook until it answers 200.                               *)
(***************************************************************************)
EXTENDS Integers, Sequences, FiniteSets

CONSTANTS
    Updates,           \* bound: the updates, in order of update_id: their kinds
    Handlers,          \* requests to the webhook in flight together
    Poller,            \* the polling loop
    MaxFailures        \* bound: failed attempts and restarts

ASSUME UpdateConstantsOK ==
    Poller \notin Handlers /\ Updates \in Seq({"text", "start", "callback"})

VARIABLES
    mode,              \* TELEGRAM_MODE
    handed,            \* Telegram has done with the updates below, or with these
    offset,            \* the loop's variable
    savedOffset,       \* of the TelegramPollingState document
    batchEnd,          \* the updates the loop has fetched are offset .. batchEnd - 1
    attempt,           \* the calls of handle in flight
    storedTimes,       \* the customer messages stored for each update
    answeredTimes,     \* the replies to it that Telegram took
    cutShort,          \* history: messages with an attempt that failed after it stored
    swallowed,         \* history: callbacks whose failure was only logged
    unsent,            \* history: updates with a reply that Telegram refused
    failures           \* bound

updateVars == <<mode, handed, offset, savedOffset, batchEnd, attempt, storedTimes, answeredTimes,
                cutShort, swallowed, unsent, failures>>
-------------------------------------------------------------------------------
UpdateIds == DOMAIN Updates

NoUpdate == 0

IdleAttempt == [phase |-> "idle", update |-> NoUpdate]

UpdatesInit ==
    /\ mode \in {"polling", "webhook"}
    /\ handed = {}
    /\ offset = 1 /\ savedOffset = 1 /\ batchEnd = 1
    /\ attempt = [h \in Handlers \cup {Poller} |-> IdleAttempt]
    /\ storedTimes = [u \in UpdateIds |-> 0]
    /\ answeredTimes = [u \in UpdateIds |-> 0]
    /\ cutShort = {} /\ swallowed = {} /\ unsent = {} /\ failures = 0

\* handle has returned: the loop moves on, the webhook answers 200.
Handled(h, u) ==
    IF h = Poller THEN offset' = u + 1 /\ UNCHANGED handed
    ELSE handed' = handed \cup {u} /\ UNCHANGED offset

FirstPhase == [text |-> "check", callback |-> "acknowledge", start |-> "answer"]

Started(h, u) == attempt' = [attempt EXCEPT ![h] = [phase |-> FirstPhase[Updates[u]], update |-> u]]
-------------------------------------------------------------------------------
\* getUpdates(offset): what is below is confirmed, the rest is fetched.
GetUpdates ==
    /\ mode = "polling"
    /\ attempt[Poller].phase = "idle" /\ offset = batchEnd
    /\ \E n \in offset .. Len(Updates) + 1 :
          /\ n > offset \/ handed # 1 .. offset - 1
          /\ batchEnd' = n
    /\ handed' = handed \cup 1 .. offset - 1
    /\ UNCHANGED <<mode, offset, savedOffset, attempt, storedTimes, answeredTimes, cutShort,
                   swallowed, unsent, failures>>

HandleNext ==
    /\ attempt[Poller].phase = "idle" /\ offset < batchEnd
    /\ IF offset \in handed
       THEN offset' = offset + 1 /\ UNCHANGED attempt
       ELSE Started(Poller, offset) /\ UNCHANGED offset
    /\ UNCHANGED <<mode, handed, savedOffset, batchEnd, storedTimes, answeredTimes, cutShort,
                   swallowed, unsent, failures>>

\* The webhook is called, again for an update it has not answered yet.
Webhook(h, u) ==
    /\ mode = "webhook" /\ h \in Handlers
    /\ attempt[h].phase = "idle" /\ u \notin handed
    /\ Started(h, u)
    /\ UNCHANGED <<mode, handed, offset, savedOffset, batchEnd, storedTimes, answeredTimes,
                   cutShort, swallowed, unsent, failures>>

\* answerCallbackQuery: what Telegram says to it is not looked at.
Acknowledge(h) ==
    /\ attempt[h].phase = "acknowledge"
    /\ attempt' = [attempt EXCEPT ![h].phase = "check"]
    /\ UNCHANGED <<mode, handed, offset, savedOffset, batchEnd, storedTimes, answeredTimes,
                   cutShort, swallowed, unsent, failures>>

\* Faulty: no message is a duplicate.
NoDuplicate(u) == FALSE

\* A message with this externalMessageId is stored.
Duplicate(u) == storedTimes[u] > 0

\* processIncomingMessage looks for the message: a duplicate is dropped without a word.
CheckDuplicate(h) ==
    LET u == attempt[h].update
    IN  /\ attempt[h].phase = "check"
        /\ IF Duplicate(u)
           THEN attempt' = [attempt EXCEPT ![h] = IdleAttempt] /\ Handled(h, u)
           ELSE attempt' = [attempt EXCEPT ![h].phase = "store"] /\ UNCHANGED <<handed, offset>>
        /\ UNCHANGED <<mode, savedOffset, batchEnd, storedTimes, answeredTimes, cutShort,
                       swallowed, unsent, failures>>

StoreMessage(h) ==
    /\ attempt[h].phase = "store"
    /\ storedTimes' = [storedTimes EXCEPT ![attempt[h].update] = @ + 1]
    /\ attempt' = [attempt EXCEPT ![h].phase = "answer"]
    /\ UNCHANGED <<mode, handed, offset, savedOffset, batchEnd, answeredTimes, cutShort,
                   swallowed, unsent, failures>>

\* The engine answers and the reply is sent (to /start: the welcome; to a conversation an
\* operator has: nothing).  An answer of Telegram other than 2xx, to any of the messages a
\* reply consists of, is logged, and handle returns all the same.
Answer(h, taken) ==
    LET u == attempt[h].update
    IN  /\ attempt[h].phase = "answer"
        /\ IF taken THEN answeredTimes' = [answeredTimes EXCEPT ![u] = @ + 1] /\ UNCHANGED unsent
           ELSE unsent' = unsent \cup {u} /\ UNCHANGED answeredTimes
        /\ attempt' = [attempt EXCEPT ![h] = IdleAttempt]
        /\ Handled(h, u)
        /\ UNCHANGED <<mode, savedOffset, batchEnd, storedTimes, cutShort, swallowed, failures>>

CutShortBy(hs) ==
    cutShort \cup {attempt[h].update : h \in
        {g \in hs : attempt[g].phase = "answer" /\ Updates[attempt[g].update] # "start"}}

\* Something throws.  What handleCallbackQuery does after answerCallbackQuery is in a try
\* that swallows it; else the rest of the batch is fetched again after the back-off, and
\* the webhook answers with an error.
AttemptFails(h) ==
    LET u == attempt[h].update
    IN  /\ attempt[h].phase # "idle" /\ failures < MaxFailures
        /\ failures' = failures + 1
        /\ cutShort' = CutShortBy({h})
        /\ attempt' = [attempt EXCEPT ![h] = IdleAttempt]
        /\ IF Updates[u] = "callback" /\ attempt[h].phase # "acknowledge"
           THEN swallowed' = swallowed \cup {u} /\ Handled(h, u) /\ UNCHANGED batchEnd
           ELSE /\ batchEnd' = IF h = Poller THEN offset ELSE batchEnd
                /\ UNCHANGED <<swallowed, handed, offset>>
        /\ UNCHANGED <<mode, savedOffset, storedTimes, answeredTimes, unsent>>

\* The offset is saved after the batch; the updates of the next call are not.
SaveOffset ==
    /\ attempt[Poller].phase = "idle" /\ offset = batchEnd /\ savedOffset < offset
    /\ savedOffset' = offset
    /\ UNCHANGED <<mode, handed, offset, batchEnd, attempt, storedTimes, answeredTimes, cutShort,
                   swallowed, unsent, failures>>

\* The process ends and comes back: the loop begins at the saved offset.
ChatRestarts ==
    /\ failures < MaxFailures
    /\ failures' = failures + 1
    /\ cutShort' = CutShortBy(DOMAIN attempt)
    /\ attempt' = [h \in DOMAIN attempt |-> IdleAttempt]
    /\ offset' = savedOffset /\ batchEnd' = savedOffset
    /\ UNCHANGED <<mode, handed, savedOffset, storedTimes, answeredTimes, swallowed, unsent>>

UpdatesNext ==
    \/ GetUpdates \/ HandleNext \/ SaveOffset \/ ChatRestarts
    \/ \E h \in Handlers, u \in UpdateIds : Webhook(h, u)
    \/ \E h \in Handlers \cup {Poller} :
          \/ Acknowledge(h) \/ CheckDuplicate(h) \/ StoreMessage(h) \/ AttemptFails(h)
          \/ \E taken \in BOOLEAN : Answer(h, taken)
-------------------------------------------------------------------------------
UpdatesTypeOK ==
    /\ handed \subseteq UpdateIds
    /\ savedOffset <= offset /\ offset <= batchEnd /\ batchEnd <= Len(Updates) + 1
    /\ \A u \in UpdateIds : answeredTimes[u] <= storedTimes[u] \/ Updates[u] = "start"

\* What Telegram has done with is in the chat and has been answered, or is being answered
\* for a delivery before, through failures, restarts and repeated deliveries.  Left out
\* were only a callback that failed after it was acknowledged, a message whose first
\* attempt failed after it stored (every later one is a duplicate), and the answer that
\* Telegram refused.  /start is never stored, and repeated until it is answered or the
\* answer refused.  A poll, unlike a webhook delivered twice at once, stores an update
\* once (telegram-polling.service.ts 53-86, telegram-update-handler.service.ts 37-143,
\* telegram-client.service.ts 99-144, message.service.ts 95-104).
UpdatesReachTheChat ==
    /\ \A u \in handed :
          /\ Updates[u] # "start" => storedTimes[u] > 0 \/ u \in swallowed
          /\ \/ answeredTimes[u] > 0 \/ u \in cutShort \cup swallowed \cup unsent
             \/ /\ Updates[u] # "start"
                /\ \E h \in Handlers : attempt[h].phase = "answer" /\ attempt[h].update = u
    /\ mode = "polling" => \A u \in UpdateIds : storedTimes[u] <= 1
===============================================================================
