--------------------------- MODULE OperatorReplies ----------------------------
(***************************************************************************)
(* The replies of operators in one conversation: each is stored, then sent *)
(* over the channel the customer came by, on Telegram as a quotation of    *)
(* one of the customer's messages.                                         *)
(***************************************************************************)
EXTENDS Integers, Sequences, FiniteSets, Functions, FiniteSetsExt

CONSTANTS
    MaxStored,         \* bound: messages, ids in order of createdAt
    ReplyRequests      \* replies in flight together

ASSUME ReplyConstantsOK == MaxStored \in Nat

VARIABLES
    channel,           \* of the conversation
    botToken,          \* whether the tenant has a telegramBotToken
    message,           \* the ConversationMessage documents
    online,            \* a socket of the customer is in the room of the guestToken
    seen,              \* the replies the customer has, in order of arrival
    quoted,            \* the message that each reply quoted on Telegram
    replying,          \* the requests in flight
    missed,            \* history: replies that were not sent, or refused
    repliesCrossed     \* history: a reply was stored while an earlier one was on its way

replyVars ==
    <<channel, botToken, message, online, seen, quoted, replying, missed, repliesCrossed>>
-------------------------------------------------------------------------------
NoMessage == 0

\* target: replyToMessageId; id: of the message, once it is stored.
IdleReply == [phase |-> "idle", id |-> NoMessage, target |-> NoMessage]

StoredIds == DOMAIN message

Replies == {m \in StoredIds : message[m].sender = "OPERATOR"}

RepliesInit ==
    /\ channel \in {"WEBSITE", "TELEGRAM"} /\ botToken \in BOOLEAN
    /\ message = <<>> /\ seen = <<>> /\ online = FALSE
    /\ quoted = [m \in 1 .. MaxStored |-> NoMessage]
    /\ replying = [h \in ReplyRequests |-> IdleReply]
    /\ missed = {} /\ repliesCrossed = FALSE

\* extractTelegramMessageId: a tap on a button has no message of its own in the chat, and
\* what operators write has no externalMessageId.
OnTelegram(m) == m \in StoredIds /\ message[m].inChat

\* Faulty: the customer's last message, whatever it is.
LastOfCustomer(target) ==
    IF OnTelegram(target) THEN target
    ELSE Max({NoMessage} \cup {m \in StoredIds : message[m].sender = "CUSTOMER"})

\* resolveTelegramReplyTarget: the target, or the customer's last message.
ReplyTarget(target) ==
    LET last == Max({NoMessage} \cup {m \in StoredIds : message[m].sender = "CUSTOMER"})
    IN  IF OnTelegram(target) THEN target
        ELSE IF OnTelegram(last) THEN last ELSE NoMessage
-------------------------------------------------------------------------------
CustomerSends(inChat) ==
    /\ Len(message) < MaxStored
    /\ inChat => channel = "TELEGRAM"
    /\ message' = Append(message, [sender |-> "CUSTOMER", inChat |-> inChat])
    /\ UNCHANGED <<channel, botToken, online, seen, quoted, replying, missed, repliesCrossed>>

\* operator:reply of the socket, or the REST request: the operator's document is there or
\* made, the conversation found and assigned.
HandleReply(h, target) ==
    /\ replying[h].phase = "idle"
    /\ target \in StoredIds \cup {NoMessage}
    /\ replying' = [replying EXCEPT ![h] = [IdleReply EXCEPT !.phase = "store", !.target = target]]
    /\ UNCHANGED <<channel, botToken, message, online, seen, quoted, missed, repliesCrossed>>

\* appendOperatorMessage.
StoreReply(h) ==
    /\ replying[h].phase = "store" /\ Len(message) < MaxStored
    /\ message' = Append(message, [sender |-> "OPERATOR", inChat |-> FALSE])
    /\ replying' = [replying EXCEPT ![h].phase = "deliver", ![h].id = Len(message) + 1]
    /\ repliesCrossed' = (repliesCrossed \/ \E g \in ReplyRequests : replying[g].id # NoMessage)
    /\ UNCHANGED <<channel, botToken, online, seen, quoted, missed>>

\* deliverToCustomer, on the website: to the sockets that are there, or to nobody.
EmitReply(h) ==
    LET id == replying[h].id
    IN  /\ replying[h].phase = "deliver" /\ channel = "WEBSITE"
        /\ IF online THEN seen' = Append(seen, id) /\ UNCHANGED missed
           ELSE missed' = missed \cup {id} /\ UNCHANGED seen
        /\ replying' = [replying EXCEPT ![h] = IdleReply]
        /\ UNCHANGED <<channel, botToken, message, online, quoted, repliesCrossed>>

\* On Telegram: a warning without a token, else the message to quote is looked up ...
QuoteMessage(h) ==
    LET r == replying[h]
    IN  /\ r.phase = "deliver" /\ channel = "TELEGRAM"
        /\ IF botToken
           THEN /\ quoted' = [quoted EXCEPT ![r.id] = ReplyTarget(r.target)]
                /\ replying' = [replying EXCEPT ![h].phase = "send"]
                /\ UNCHANGED missed
           ELSE /\ missed' = missed \cup {r.id}
                /\ replying' = [replying EXCEPT ![h] = IdleReply]
                /\ UNCHANGED quoted
        /\ UNCHANGED <<channel, botToken, message, online, seen, repliesCrossed>>

\* ... and sent; an answer other than 2xx is logged, and the request succeeds all the same.
SendMessage(h, taken) ==
    LET id == replying[h].id
    IN  /\ replying[h].phase = "send"
        /\ IF taken THEN seen' = Append(seen, id) /\ UNCHANGED missed
           ELSE missed' = missed \cup {id} /\ UNCHANGED seen
        /\ replying' = [replying EXCEPT ![h] = IdleReply]
        /\ UNCHANGED <<channel, botToken, message, online, quoted, repliesCrossed>>

\* Something throws, or the process ends; what was stored stays.
ReplyFails(h) ==
    LET r == replying[h]
    IN  /\ r.phase # "idle"
        /\ missed' = IF r.id = NoMessage THEN missed ELSE missed \cup {r.id}
        /\ replying' = [replying EXCEPT ![h] = IdleReply]
        /\ UNCHANGED <<channel, botToken, message, online, seen, quoted, repliesCrossed>>

\* The widget joins its room, or its connection is lost.
HandleConnection ==
    /\ channel = "WEBSITE"
    /\ online' = ~online
    /\ UNCHANGED <<channel, botToken, message, seen, quoted, replying, missed, repliesCrossed>>

\* The widget reads the conversation from the beginning.
GetHistory ==
    /\ channel = "WEBSITE"
    /\ seen' \in {s \in [1 .. Cardinality(Replies) -> Replies] :
                  Range(s) = Replies /\ \A i, j \in DOMAIN s : i < j => s[i] < s[j]}
    /\ missed' = {}
    /\ UNCHANGED <<channel, botToken, message, online, quoted, replying, repliesCrossed>>

RepliesNext ==
    \/ \E inChat \in BOOLEAN : CustomerSends(inChat)
    \/ \E h \in ReplyRequests :
          \/ \E target \in 0 .. MaxStored : HandleReply(h, target)
          \/ StoreReply(h) \/ EmitReply(h) \/ QuoteMessage(h) \/ ReplyFails(h)
          \/ \E taken \in BOOLEAN : SendMessage(h, taken)
    \/ HandleConnection \/ GetHistory
-------------------------------------------------------------------------------
RepliesTypeOK ==
    /\ Len(message) <= MaxStored
    /\ Range(seen) \cup missed \subseteq Replies
    /\ \A h \in ReplyRequests : replying[h].id \in Replies \cup {NoMessage}

\* What operators have written the customer has or is about to get, or has missed: without
\* a connection or a token, refused by Telegram, or by a failure in between; the history
\* brings all of it.  On Telegram a reply comes once, after those stored before it were on
\* their way, and quotes only what is a message there (outbound-delivery.service.ts 31-99,
\* operator-actions.service.ts 40-74).
RepliesReachTheCustomer ==
    /\ \A m \in Replies : m \in Range(seen) \cup missed \/ \E h \in ReplyRequests : replying[h].id = m
    /\ channel = "TELEGRAM" =>
          /\ \A i, j \in DOMAIN seen : i < j => seen[i] < seen[j] \/ (repliesCrossed /\ seen[i] # seen[j])
          /\ \A m \in Replies : quoted[m] = NoMessage \/ OnTelegram(quoted[m])
===============================================================================
