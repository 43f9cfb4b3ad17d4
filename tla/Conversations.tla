----------------------------- MODULE Conversations ----------------------------
(***************************************************************************)
(* The conversations of one customer.  A handler of a message loads the    *)
(* open one, lets the engine answer for as long as that takes and saves    *)
(* what it has changed; operators load, change and save it meanwhile.  Of  *)
(* the messages only the moment they are stored is kept.                   *)
(***************************************************************************)
EXTENDS Integers, Sequences, SequencesExt, FiniteSets, FiniteSetsExt

CONSTANTS
    MaxConversations,  \* bound: ids are 1 .. MaxConversations, in order of createdAt
    Incoming,          \* processIncomingMessage calls in flight together
    OperatorRequests   \* operator requests in flight together

ASSUME ConversationConstantsOK == MaxConversations \in Nat

VARIABLES
    conv,              \* the Conversation documents: their status
    incoming,          \* the messages being processed, each with the document it loaded
    operating          \* the operator requests, each with the document it loaded

conversationVars == <<conv, incoming, operating>>
-------------------------------------------------------------------------------
ConversationStatuses == {"OPEN", "AI_HANDLING", "NEEDS_OPERATOR", "WITH_OPERATOR", "CLOSED"}

\* Of a deleted document; no status of the code.
Gone == "gone"

NoConversation == 0

\* status: as the handler's copy has it; read: as it was loaded; taken: an operator's
\* status was saved since.
IdleIncoming ==
    [phase |-> "idle", id |-> NoConversation, read |-> "OPEN", status |-> "OPEN", taken |-> FALSE]

IdleOperator == [phase |-> "idle", id |-> NoConversation, read |-> "OPEN"]

\* Faulty: a conversation is an operator's only once one has answered.
AnsweredByHuman(status) == status = "WITH_OPERATOR"

\* HUMAN_HANDLING_STATUSES.
HandledByHuman(status) == status \in {"NEEDS_OPERATOR", "WITH_OPERATOR"}

Documents == {c \in DOMAIN conv : conv[c] # Gone}

OpenConversations == {c \in Documents : conv[c] # "CLOSED"}

ConversationsInit ==
    /\ conv = <<>>
    /\ incoming = [h \in Incoming |-> IdleIncoming]
    /\ operating = [o \in OperatorRequests |-> IdleOperator]

\* save() of a document: only the paths that differ from what was loaded are written.
Saved(c, read, status) ==
    conv' = [conv EXCEPT ![c] = IF status = read THEN @ ELSE status]

\* The copies of this conversation that others hold are no longer of its status.
TakenFrom(others, c, status) ==
    [h \in Incoming |->
        IF h \in others /\ incoming[h].id = c /\ HandledByHuman(status)
        THEN [incoming[h] EXCEPT !.taken = TRUE] ELSE incoming[h]]
-------------------------------------------------------------------------------
\* processIncomingMessage: getOrCreateOpenConversation finds the newest open one ...
FindConversation(h) ==
    /\ incoming[h].phase = "idle"
    /\ IF OpenConversations = {}
       THEN incoming' = [incoming EXCEPT ![h].phase = "create"]
       ELSE LET c == Max(OpenConversations)
            IN  incoming' = [incoming EXCEPT ![h] =
                    [phase |-> "found", id |-> c, read |-> conv[c],
                     status |-> conv[c], taken |-> FALSE]]
    /\ UNCHANGED <<conv, operating>>

\* ... or creates one; another may have been created since.
CreateConversation(h) ==
    /\ incoming[h].phase = "create"
    /\ Len(conv) < MaxConversations
    /\ conv' = Append(conv, "OPEN")
    /\ incoming' = [incoming EXCEPT ![h] = [IdleIncoming EXCEPT !.phase = "found", !.id = Len(conv) + 1]]
    /\ UNCHANGED operating

\* The message is stored: for an operator to answer, or for the engine.
StoreCustomerMessage(h, forceEscalate) ==
    LET r == incoming[h]
    IN  /\ r.phase = "found"
        /\ incoming' = [incoming EXCEPT ![h] =
                IF HandledByHuman(r.read) THEN [r EXCEPT !.phase = "save"]
                ELSE IF forceEscalate THEN [r EXCEPT !.phase = "save", !.status = "NEEDS_OPERATOR"]
                ELSE [r EXCEPT !.phase = "engine"]]
        /\ UNCHANGED <<conv, operating>>

\* The engine has answered; its message is stored ...
StoreEngineMessage(h, needsOperator) ==
    LET r == incoming[h]
    IN  /\ r.phase = "engine"
        /\ incoming' = [incoming EXCEPT ![h] =
                [r EXCEPT !.phase = "save",
                          !.status = IF needsOperator THEN "NEEDS_OPERATOR" ELSE "AI_HANDLING"]]
        /\ UNCHANGED <<conv, operating>>

\* ... and the document saved; on one deleted meanwhile that fails.
SaveConversation(h) ==
    LET r == incoming[h]
    IN  /\ r.phase = "save"
        /\ IF r.id \in Documents THEN Saved(r.id, r.read, r.status) ELSE UNCHANGED conv
        /\ incoming' = [TakenFrom(Incoming \ {h}, r.id, IF r.status = r.read THEN "OPEN" ELSE r.status)
                            EXCEPT ![h] = IdleIncoming]
        /\ UNCHANGED operating

\* A duplicate, a failure of the store, or the process ends: nothing more is done.
IncomingFails(h) ==
    /\ incoming[h].phase # "idle"
    /\ incoming' = [incoming EXCEPT ![h] = IdleIncoming]
    /\ UNCHANGED <<conv, operating>>

\* assignOperator (of reply), closeConversation, releaseConversation and
\* deleteConversation load the document ...
LoadConversation(o, c, operation) ==
    /\ operating[o].phase = "idle"
    /\ c \in Documents
    /\ operating' = [operating EXCEPT ![o] = [phase |-> operation, id |-> c, read |-> conv[c]]]
    /\ UNCHANGED <<conv, incoming>>

StatusOf == [assign |-> "WITH_OPERATOR", append |-> "WITH_OPERATOR", close |-> "CLOSED",
             release |-> "OPEN"]

\* ... and save it.  After assignOperator, reply goes on.
SaveOperation(o) ==
    LET r == operating[o]
        status == StatusOf[r.phase]
        there == r.id \in Documents
    IN  /\ r.phase \in DOMAIN StatusOf
        /\ IF there THEN Saved(r.id, r.read, status) ELSE UNCHANGED conv
        /\ incoming' = TakenFrom(Incoming, r.id, IF there /\ status # r.read THEN status ELSE "OPEN")
        /\ operating' = [operating EXCEPT ![o] =
                IF there /\ r.phase = "assign" THEN [r EXCEPT !.phase = "answer"] ELSE IdleOperator]

\* appendOperatorMessage loads the document again and stores the message.
AppendOperatorMessage(o) ==
    LET r == operating[o]
    IN  /\ r.phase = "answer"
        /\ operating' = [operating EXCEPT ![o] =
                IF r.id \in Documents THEN [r EXCEPT !.phase = "append", !.read = conv[r.id]]
                ELSE IdleOperator]
        /\ UNCHANGED <<conv, incoming>>

\* deleteConversation: the messages, then the document.
DeleteMessages(o) ==
    /\ operating[o].phase = "delete"
    /\ operating' = [operating EXCEPT ![o].phase = "drop"]
    /\ UNCHANGED <<conv, incoming>>

DeleteConversation(o) ==
    /\ operating[o].phase = "drop"
    /\ conv' = [conv EXCEPT ![operating[o].id] = Gone]
    /\ operating' = [operating EXCEPT ![o] = IdleOperator]
    /\ UNCHANGED incoming

OperationFails(o) ==
    /\ operating[o].phase # "idle"
    /\ operating' = [operating EXCEPT ![o] = IdleOperator]
    /\ UNCHANGED <<conv, incoming>>

ConversationsNext ==
    \/ \E h \in Incoming :
          \/ FindConversation(h) \/ CreateConversation(h) \/ SaveConversation(h) \/ IncomingFails(h)
          \/ \E escalate \in BOOLEAN :
                StoreCustomerMessage(h, escalate) \/ StoreEngineMessage(h, escalate)
    \/ \E o \in OperatorRequests :
          \/ \E c \in 1 .. MaxConversations, operation \in {"assign", "close", "release", "delete"} :
                LoadConversation(o, c, operation)
          \/ SaveOperation(o) \/ AppendOperatorMessage(o)
          \/ DeleteMessages(o) \/ DeleteConversation(o) \/ OperationFails(o)
-------------------------------------------------------------------------------
ConversationsTypeOK ==
    /\ Len(conv) <= MaxConversations
    /\ \A c \in DOMAIN conv : conv[c] \in ConversationStatuses \cup {Gone}

StoresReply(h) == incoming[h].phase = "engine" /\ incoming'[h].phase = "save"

KeepsOut ==
    \A c \in DOMAIN conv :
        LET inHand == conv[c] \in {"NEEDS_OPERATOR", "WITH_OPERATOR"}
            handling == {h \in Incoming : incoming[h].id = c /\ incoming'[h] # incoming[h]}
        IN  inHand =>
              /\ \A h \in handling : StoresReply(h) => incoming[h].taken
              /\ conv'[c] \in {"OPEN", "AI_HANDLING"} =>
                    \/ \E o \in OperatorRequests : operating[o].phase = "release" /\ operating'[o] # operating[o]
                    \/ \E h \in handling : incoming[h].taken /\ incoming[h].read = "OPEN"

\* What operators have in hand the engine leaves alone: it answers in such a conversation,
\* or takes it back, only at the end of a message whose handler had loaded it before, and
\* takes back only one it had loaded as OPEN.  Otherwise it is released or closed
\* (message.service.ts 106-184, conversation.service.ts 89-117).
EngineKeepsOut == [][KeepsOut]_conversationVars
===============================================================================
