-------------------------------- MODULE Tickets -------------------------------
(***************************************************************************)
(* One ticket: customer and support write a message and then the status,   *)
(* and the job that closes tickets looks at it in three queries before it  *)
(* writes.                                                                 *)
(***************************************************************************)
EXTENDS Integers, Sequences, FiniteSets, FiniteSetsExt, SequencesExt

CONSTANTS
    MaxMessages,       \* bound: messages of the ticket
    Writers,           \* addMessage calls in flight together
    CloseJobs          \* rounds of the job, of all instances

ASSUME TicketConstantsOK == MaxMessages \in Nat \ {0}

VARIABLES
    ticketStatus,
    ticketMessages,    \* by createdAt: who wrote, and whether before the cutoff
    writer,            \* the addMessage calls
    closing,           \* the jobs
    closedOn           \* history: what a job closed: the status, the messages, whether it
                       \* had changed since the job looked

ticketVars == <<ticketStatus, ticketMessages, writer, closing, closedOn>>
-------------------------------------------------------------------------------
TicketStatuses == {"OPEN", "ANSWERED", "CLOSED", "PENDING_CUSTOMER"}

IdleJob == [phase |-> "idle", lastAdmin |-> 0, overtaken |-> FALSE]

\* createTicket: with the customer's first message.
TicketsInit ==
    /\ ticketStatus = "OPEN"
    /\ ticketMessages = <<[by |-> "USER", old |-> FALSE]>>
    /\ writer = [w \in Writers |-> "idle"]
    /\ closing = [j \in CloseJobs |-> IdleJob]
    /\ closedOn = [status |-> "ANSWERED", messages |-> <<>>, overtaken |-> FALSE]

Answers == {m \in DOMAIN ticketMessages : ticketMessages[m].by = "ADMIN"}

\* What a job in one of these phases has read is no longer the ticket.
JobsOvertaken(phases) ==
    [j \in CloseJobs |-> [closing[j] EXCEPT !.overtaken = @ \/ closing[j].phase \in phases]]

StatusOvertaken == JobsOvertaken({"last", "reply", "close"})
-------------------------------------------------------------------------------
\* addMessage: the message ...
WriteMessage(w, by) ==
    /\ writer[w] = "idle"
    /\ Len(ticketMessages) < MaxMessages
    /\ ticketMessages' = Append(ticketMessages, [by |-> by, old |-> FALSE])
    /\ writer' = [writer EXCEPT ![w] = by]
    /\ closing' = JobsOvertaken(IF by = "ADMIN" THEN {"reply", "close"} ELSE {"close"})
    /\ UNCHANGED <<ticketStatus, closedOn>>

StatusAfter(by) == IF by = "ADMIN" THEN "ANSWERED" ELSE "OPEN"

\* ... and the status, whatever it is by then: a closed ticket opens again.
SetStatusAfterMessage(w) ==
    /\ writer[w] # "idle"
    /\ ticketStatus' = StatusAfter(writer[w])
    /\ writer' = [writer EXCEPT ![w] = "idle"]
    /\ closing' = StatusOvertaken
    /\ UNCHANGED <<ticketMessages, closedOn>>

\* updateTicketMeta: support sets any status.
UpdateTicketMeta(status) ==
    /\ ticketStatus' = status
    /\ closing' = StatusOvertaken
    /\ UNCHANGED <<ticketMessages, writer, closedOn>>

\* runAutoCloseTicketsJob: an answered ticket with some answer before the cutoff ...
FindTicket(j) ==
    /\ closing[j].phase = "idle"
    /\ ticketStatus = "ANSWERED"
    /\ \E m \in Answers : ticketMessages[m].old
    /\ closing' = [closing EXCEPT ![j] = [IdleJob EXCEPT !.phase = "last"]]
    /\ UNCHANGED <<ticketStatus, ticketMessages, writer, closedOn>>

\* ... whose last answer is before the cutoff, too, ...
FindLastAnswer(j) ==
    /\ closing[j].phase = "last"
    /\ LET last == Max(Answers)
       IN  closing' = [closing EXCEPT ![j] =
                IF ticketMessages[last].old THEN [@ EXCEPT !.phase = "reply", !.lastAdmin = last]
                ELSE IdleJob]
    /\ UNCHANGED <<ticketStatus, ticketMessages, writer, closedOn>>

\* Faulty: the first message decides, not those after the last answer.
RepliedAtFirst(last) == \E m \in DOMAIN ticketMessages : m < 1 /\ ticketMessages[m].by = "USER"

RepliedAfter(last) == \E m \in DOMAIN ticketMessages : m > last /\ ticketMessages[m].by = "USER"

\* ... and without a reply of the customer after it ...
FindReply(j) ==
    /\ closing[j].phase = "reply"
    /\ closing' = [closing EXCEPT ![j] =
            IF RepliedAfter(@.lastAdmin) THEN IdleJob ELSE [@ EXCEPT !.phase = "close"]]
    /\ UNCHANGED <<ticketStatus, ticketMessages, writer, closedOn>>

\* ... is closed, whatever it has become.
CloseTicket(j) ==
    /\ closing[j].phase = "close"
    /\ ticketStatus' = "CLOSED"
    /\ closedOn' = [status |-> ticketStatus, messages |-> ticketMessages,
                    overtaken |-> closing[j].overtaken]
    /\ closing' = [StatusOvertaken EXCEPT ![j] = IdleJob]
    /\ UNCHANGED <<ticketMessages, writer>>

\* Five days pass for the oldest message that is still younger.
MessageAges ==
    /\ \E m \in DOMAIN ticketMessages :
          /\ ~ticketMessages[m].old /\ \A n \in 1 .. m - 1 : ticketMessages[n].old
          /\ ticketMessages' = [ticketMessages EXCEPT ![m].old = TRUE]
    /\ UNCHANGED <<ticketStatus, writer, closing, closedOn>>

\* The server ends: a message may be left without its status.
TicketServerRestarts ==
    /\ writer' = [w \in Writers |-> "idle"]
    /\ closing' = [j \in CloseJobs |-> IdleJob]
    /\ UNCHANGED <<ticketStatus, ticketMessages, closedOn>>

TicketsNext ==
    \/ \E w \in Writers : SetStatusAfterMessage(w) \/ \E by \in {"USER", "ADMIN"} : WriteMessage(w, by)
    \/ \E status \in TicketStatuses : UpdateTicketMeta(status)
    \/ \E j \in CloseJobs : FindTicket(j) \/ FindLastAnswer(j) \/ FindReply(j) \/ CloseTicket(j)
    \/ MessageAges \/ TicketServerRestarts
-------------------------------------------------------------------------------
TicketsTypeOK ==
    /\ ticketStatus \in TicketStatuses
    /\ Len(ticketMessages) \in 1 .. MaxMessages
    /\ \A j \in CloseJobs : closing[j].lastAdmin <= Len(ticketMessages)

\* What the job closes was answered, and an old answer of support was its last word,
\* also when a reply was stored without its status or two statuses crossed; only what
\* came between the job's queries and its write may belie it
\* (auto-close-tickets.job.ts 8-42, ticket.service.ts 83-97).
ClosedAfterAnswer ==
    ~closedOn.overtaken /\ closedOn.messages # <<>> =>
        /\ closedOn.status = "ANSWERED"
        /\ Last(closedOn.messages) = [by |-> "ADMIN", old |-> TRUE]
===============================================================================
