------------------------------ MODULE Chat_proofs -----------------------------
(*****************************************************************************)
(* Proofs about conversations, the updates of the Telegram bot, the replies  *)
(* of operators and what the engine offers, for any number of handlers,      *)
(* documents, messages and goods.                                            *)
(*****************************************************************************)
EXTENDS Conversations, TelegramUpdates, OperatorReplies, ChatDialog, Sums_proofs, FiniteSetTheorems,
        SequenceTheorems, TLAPS

(* Conversations: a handler with an old copy of a document knows it.         *)

ConversationsSpec == ConversationsInit /\ [][ConversationsNext]_conversationVars

OpenStatuses == ConversationStatuses \ {"CLOSED"}

\* A copy of a document that a handler holds: what it would write, and that it is behind
\* only as it knows.
CopyOK(r, docs) ==
    /\ DOMAIN r = {"phase", "id", "read", "status", "taken"}
    /\ r.phase \in {"idle", "create", "found", "engine", "save"}
    /\ r.phase \notin {"idle", "create"} =>
          /\ r.id \in 1 .. Len(docs) /\ r.read \in OpenStatuses
          /\ r.phase = "found" => r.status = r.read
          /\ r.phase = "engine" => ~HandledByHuman(r.read)
          /\ r.phase = "save" =>
                \/ r.status \in {r.read, "NEEDS_OPERATOR"}
                \/ r.status = "AI_HANDLING" /\ ~HandledByHuman(r.read)
          /\ HandledByHuman(docs[r.id]) /\ ~HandledByHuman(r.read) => r.taken

ConversationsInv ==
    /\ conv \in Seq(ConversationStatuses \cup {Gone}) /\ Len(conv) <= MaxConversations
    /\ incoming = [h \in Incoming |-> incoming[h]]
    /\ \A h \in Incoming : CopyOK(incoming[h], conv)
    /\ operating = [o \in OperatorRequests |-> operating[o]]
    /\ \A o \in OperatorRequests :
          /\ DOMAIN operating[o] = {"phase", "id", "read"}
          /\ operating[o].phase # "idle" => operating[o].id \in 1 .. Len(conv)

LEMMA ConversationsInvInit == ConversationsInit => ConversationsInv
  <1> SUFFICES ASSUME ConversationsInit PROVE ConversationsInv
    OBVIOUS
  <1>1. /\ conv = <<>> /\ conv \in Seq(ConversationStatuses \cup {Gone}) /\ Len(conv) = 0
        /\ incoming = [h \in Incoming |-> IdleIncoming]
        /\ operating = [o \in OperatorRequests |-> IdleOperator]
    BY DEF ConversationsInit
  <1>2. CopyOK(IdleIncoming, conv)
    BY DEF CopyOK, IdleIncoming
  <1>3. DOMAIN IdleOperator = {"phase", "id", "read"} /\ IdleOperator.phase = "idle"
    BY DEF IdleOperator
  <1> QED
    BY <1>1, <1>2, <1>3, ConversationConstantsOK DEF ConversationsInv

\* A handler goes on with its copy, and the documents are as before.
LEMMA CopyMoves ==
  ASSUME ConversationsInv, NEW h \in Incoming, NEW r, incoming' = [incoming EXCEPT ![h] = r],
         CopyOK(r, conv), UNCHANGED <<conv, operating>>
  PROVE  ConversationsInv'
  <1>1. /\ incoming' = [g \in Incoming |-> incoming'[g]] /\ incoming'[h] = r
        /\ \A g \in Incoming \ {h} : incoming'[g] = incoming[g]
    BY DEF ConversationsInv
  <1> QED
    BY <1>1 DEF ConversationsInv

LEMMA IdleCopy == CopyOK(IdleIncoming, conv)
  BY DEF CopyOK, IdleIncoming

LEMMA FindKeeps ==
  ASSUME ConversationsInv, NEW h \in Incoming, FindConversation(h)
  PROVE  ConversationsInv'
  <1>1. CASE OpenConversations = {}
    <2>1. PICK r : r = [incoming[h] EXCEPT !.phase = "create"]
      OBVIOUS
    <2>2. CopyOK(r, conv)
      <3>1. CopyOK(incoming[h], conv)
        BY DEF ConversationsInv
      <3> QED
        BY <2>1, <3>1 DEF CopyOK
    <2>3. incoming' = [incoming EXCEPT ![h] = r] /\ UNCHANGED <<conv, operating>>
      BY <1>1, <2>1 DEF FindConversation
    <2> QED
      BY <2>2, <2>3, CopyMoves
  <1>2. CASE OpenConversations # {}
    <2>1. OpenConversations \in SUBSET (1 .. Len(conv)) /\ Len(conv) \in Nat
      BY DEF OpenConversations, Documents, ConversationsInv
    <2>2. PICK c : c = Max(OpenConversations)
      OBVIOUS
    <2>3. c \in OpenConversations
      BY <1>2, <2>1, <2>2, MaxIsGreatest
    <2>4. c \in 1 .. Len(conv) /\ conv[c] \in OpenStatuses
      BY <2>1, <2>3 DEF OpenConversations, Documents, ConversationsInv, OpenStatuses
    <2>5. PICK r : r = [phase |-> "found", id |-> c, read |-> conv[c], status |-> conv[c], taken |-> FALSE]
      OBVIOUS
    <2>6. /\ DOMAIN r = {"phase", "id", "read", "status", "taken"} /\ r.phase = "found" /\ r.id = c
          /\ r.read = conv[c] /\ r.status = conv[c]
      BY <2>5
    <2>7. CopyOK(r, conv)
      BY <2>4, <2>6 DEF CopyOK
    <2>8. incoming' = [incoming EXCEPT ![h] = r] /\ UNCHANGED <<conv, operating>>
      BY <1>2, <2>2, <2>5 DEF FindConversation
    <2> QED
      BY <2>7, <2>8, CopyMoves
  <1> QED
    BY <1>1, <1>2

LEMMA CreateConversationKeeps ==
  ASSUME ConversationsInv, NEW h \in Incoming, CreateConversation(h)
  PROVE  ConversationsInv'
  <1>1. PICK r : r = [IdleIncoming EXCEPT !.phase = "found", !.id = Len(conv) + 1]
    OBVIOUS
  <1>2. /\ Len(conv) < MaxConversations /\ conv' = Append(conv, "OPEN")
        /\ incoming' = [incoming EXCEPT ![h] = r] /\ UNCHANGED operating
    BY <1>1 DEF CreateConversation
  <1>3. /\ DOMAIN r = {"phase", "id", "read", "status", "taken"} /\ r.phase = "found"
        /\ r.id = Len(conv) + 1 /\ r.read = "OPEN" /\ r.status = "OPEN"
    BY <1>1 DEF IdleIncoming
  <1>4. /\ "OPEN" \in ConversationStatuses /\ "OPEN" \in OpenStatuses
        /\ conv \in Seq(ConversationStatuses \cup {Gone}) /\ Len(conv) \in Nat
    BY DEF ConversationStatuses, OpenStatuses, ConversationsInv
  <1>5. /\ conv' \in Seq(ConversationStatuses \cup {Gone}) /\ Len(conv') = Len(conv) + 1
        /\ conv'[Len(conv) + 1] = "OPEN" /\ \A c \in 1 .. Len(conv) : conv'[c] = conv[c]
    BY <1>2, <1>4
  <1>6. CopyOK(r, conv')
    BY <1>3, <1>4, <1>5 DEF CopyOK, HandledByHuman
  <1>7. ASSUME NEW g \in Incoming \ {h} PROVE CopyOK(incoming[g], conv')
    <2>1. CopyOK(incoming[g], conv)
      BY DEF ConversationsInv
    <2>2. 1 .. Len(conv) \subseteq 1 .. Len(conv')
      BY <1>4, <1>5
    <2> QED
      BY <1>5, <2>1, <2>2 DEF CopyOK
  <1>8. /\ incoming' = [g \in Incoming |-> incoming'[g]] /\ incoming'[h] = r
        /\ \A g \in Incoming \ {h} : incoming'[g] = incoming[g]
    BY <1>2 DEF ConversationsInv
  <1>9. \A o \in OperatorRequests : operating[o].phase # "idle" => operating[o].id \in 1 .. Len(conv')
    BY <1>4, <1>5 DEF ConversationsInv
  <1>10. \A g \in Incoming : CopyOK(incoming'[g], conv')
    BY <1>6, <1>7, <1>8
  <1>11. Len(conv') <= MaxConversations
    BY <1>2, <1>4, <1>5, ConversationConstantsOK
  <1> QED
    BY <1>2, <1>5, <1>8, <1>9, <1>10, <1>11 DEF ConversationsInv

LEMMA StoreCustomerKeeps ==
  ASSUME ConversationsInv, NEW h \in Incoming, NEW force, StoreCustomerMessage(h, force)
  PROVE  ConversationsInv'
  <1>1. PICK r : r = IF HandledByHuman(incoming[h].read) THEN [incoming[h] EXCEPT !.phase = "save"]
                     ELSE IF force THEN [incoming[h] EXCEPT !.phase = "save", !.status = "NEEDS_OPERATOR"]
                     ELSE [incoming[h] EXCEPT !.phase = "engine"]
    OBVIOUS
  <1>2. /\ incoming[h].phase = "found" /\ incoming' = [incoming EXCEPT ![h] = r]
        /\ UNCHANGED <<conv, operating>>
    BY <1>1 DEF StoreCustomerMessage
  <1>3. CopyOK(incoming[h], conv)
    BY DEF ConversationsInv
  <1>4. CopyOK(r, conv)
    <2>1. DOMAIN incoming[h] = {"phase", "id", "read", "status", "taken"}
      BY <1>3 DEF CopyOK
    <2>2. CASE HandledByHuman(incoming[h].read)
      <3>1. r = [incoming[h] EXCEPT !.phase = "save"]
        BY <1>1, <2>2
      <3> QED
        BY <1>2, <1>3, <2>1, <3>1 DEF CopyOK
    <2>3. CASE ~HandledByHuman(incoming[h].read) /\ force
      <3>1. r = [incoming[h] EXCEPT !.phase = "save", !.status = "NEEDS_OPERATOR"]
        BY <1>1, <2>3
      <3> QED
        BY <1>2, <1>3, <2>1, <3>1 DEF CopyOK
    <2>4. CASE ~HandledByHuman(incoming[h].read) /\ ~force
      <3>1. r = [incoming[h] EXCEPT !.phase = "engine"]
        BY <1>1, <2>4
      <3> QED
        BY <1>2, <1>3, <2>1, <2>4, <3>1 DEF CopyOK
    <2> QED
      BY <2>2, <2>3, <2>4
  <1> QED
    BY <1>2, <1>4, CopyMoves

LEMMA StoreEngineKeeps ==
  ASSUME ConversationsInv, NEW h \in Incoming, NEW needs, StoreEngineMessage(h, needs)
  PROVE  ConversationsInv'
  <1>1. PICK s : s = IF needs THEN "NEEDS_OPERATOR" ELSE "AI_HANDLING"
    OBVIOUS
  <1>2. PICK r : r = [incoming[h] EXCEPT !.phase = "save", !.status = s]
    OBVIOUS
  <1>3. /\ incoming[h].phase = "engine" /\ incoming' = [incoming EXCEPT ![h] = r]
        /\ UNCHANGED <<conv, operating>> /\ s \in {"NEEDS_OPERATOR", "AI_HANDLING"}
    BY <1>1, <1>2 DEF StoreEngineMessage
  <1>4. CopyOK(incoming[h], conv)
    BY DEF ConversationsInv
  <1>5. CopyOK(r, conv)
    BY <1>2, <1>3, <1>4 DEF CopyOK
  <1> QED
    BY <1>3, <1>5, CopyMoves

\* The status of a document changes, and the copies of it are behind.
LEMMA CopyTaken ==
  ASSUME conv \in Seq(ConversationStatuses \cup {Gone}), NEW c \in 1 .. Len(conv),
         NEW status \in ConversationStatuses \cup {Gone},
         NEW r, CopyOK(r, conv), NEW z, z = r \/ z = [r EXCEPT !.taken = TRUE],
         r.id = c /\ HandledByHuman(status) => status = conv[c] \/ z = [r EXCEPT !.taken = TRUE]
  PROVE  CopyOK(z, [conv EXCEPT ![c] = status])
  <1>1. PICK docs : docs = [conv EXCEPT ![c] = status]
    OBVIOUS
  <1>2. /\ Len(docs) = Len(conv) /\ docs[c] = status
        /\ \A d \in 1 .. Len(conv) : d # c => docs[d] = conv[d]
    BY <1>1
  <1>3. /\ DOMAIN z = DOMAIN r /\ z.phase = r.phase /\ z.id = r.id /\ z.read = r.read /\ z.status = r.status
        /\ r.taken => z.taken
        /\ r.id = c /\ HandledByHuman(status) /\ status # conv[c] => z.taken
    BY DEF CopyOK
  <1> QED
    BY <1>1, <1>2, <1>3 DEF CopyOK

\* A document is saved.
LEMMA SavedKeeps ==
  ASSUME ConversationsInv, NEW c \in 1 .. Len(conv), NEW status \in ConversationStatuses \cup {Gone},
         conv' = [conv EXCEPT ![c] = status],
         incoming' = [h \in Incoming |-> incoming'[h]],
         \A h \in Incoming :
            \/ incoming'[h] = IdleIncoming
            \/ /\ incoming'[h] = incoming[h] \/ incoming'[h] = [incoming[h] EXCEPT !.taken = TRUE]
               /\ incoming[h].id = c /\ HandledByHuman(status) =>
                     status = conv[c] \/ incoming'[h] = [incoming[h] EXCEPT !.taken = TRUE],
         operating' = [o \in OperatorRequests |-> operating'[o]],
         \A o \in OperatorRequests :
            \/ operating'[o] \in {operating[o], IdleOperator}
            \/ DOMAIN operating'[o] = {"phase", "id", "read"} /\ operating'[o].id = c
  PROVE  ConversationsInv'
  <1>1. /\ conv' \in Seq(ConversationStatuses \cup {Gone}) /\ Len(conv') = Len(conv)
        /\ conv \in Seq(ConversationStatuses \cup {Gone})
    BY DEF ConversationsInv
  <1>2. ASSUME NEW h \in Incoming PROVE CopyOK(incoming'[h], conv')
    <2>1. CopyOK(incoming[h], conv)
      BY DEF ConversationsInv
    <2>2. CASE incoming'[h] = IdleIncoming
      BY <2>2 DEF CopyOK, IdleIncoming
    <2>3. CASE incoming'[h] # IdleIncoming
      <3>1. PICK r : r = incoming[h]
        OBVIOUS
      <3>2. PICK z : z = incoming'[h]
        OBVIOUS
      <3>3. /\ z = r \/ z = [r EXCEPT !.taken = TRUE]
            /\ r.id = c /\ HandledByHuman(status) => status = conv[c] \/ z = [r EXCEPT !.taken = TRUE]
            /\ CopyOK(r, conv)
        BY <2>1, <2>3, <3>1, <3>2
      <3>4. CopyOK(z, [conv EXCEPT ![c] = status])
        BY <1>1, <3>3, CopyTaken
      <3> QED
        BY <3>2, <3>4
    <2> QED
      BY <2>2, <2>3
  <1>3. DOMAIN IdleOperator = {"phase", "id", "read"} /\ IdleOperator.phase = "idle"
    BY DEF IdleOperator
  <1>4. \A o \in OperatorRequests :
          /\ DOMAIN operating'[o] = {"phase", "id", "read"}
          /\ operating'[o].phase # "idle" => operating'[o].id \in 1 .. Len(conv')
    <2> SUFFICES ASSUME NEW o \in OperatorRequests
                 PROVE  /\ DOMAIN operating'[o] = {"phase", "id", "read"}
                        /\ operating'[o].phase # "idle" => operating'[o].id \in 1 .. Len(conv')
      OBVIOUS
    <2>1. CASE operating'[o] = operating[o]
      BY <1>1, <2>1 DEF ConversationsInv
    <2>2. CASE operating'[o] = IdleOperator
      BY <1>3, <2>2
    <2>3. CASE DOMAIN operating'[o] = {"phase", "id", "read"} /\ operating'[o].id = c
      BY <1>1, <2>3
    <2> QED
      BY <2>1, <2>2, <2>3
  <1>5. Len(conv') <= MaxConversations
    BY <1>1 DEF ConversationsInv
  <1> QED
    BY <1>1, <1>2, <1>4, <1>5 DEF ConversationsInv

LEMMA TakenIs ==
  ASSUME NEW others \in SUBSET Incoming, NEW c, NEW status, NEW h \in Incoming
  PROVE  TakenFrom(others, c, status)[h] =
            IF h \in others /\ incoming[h].id = c /\ HandledByHuman(status)
            THEN [incoming[h] EXCEPT !.taken = TRUE] ELSE incoming[h]
  BY DEF TakenFrom

LEMMA SaveKeeps ==
  ASSUME ConversationsInv, NEW h \in Incoming, SaveConversation(h)
  PROVE  ConversationsInv'
  <1> DEFINE r == incoming[h]
             s == IF r.status = r.read THEN "OPEN" ELSE r.status
             new == IF r.id \in Documents /\ r.status # r.read THEN r.status ELSE conv[r.id]
  <1>1. r.phase = "save" /\ CopyOK(r, conv)
    BY DEF SaveConversation, ConversationsInv
  <1>2. /\ r.id \in 1 .. Len(conv)
        /\ r.read \in ConversationStatuses /\ r.status \in ConversationStatuses
        /\ conv \in Seq(ConversationStatuses \cup {Gone})
    BY <1>1 DEF CopyOK, OpenStatuses, ConversationStatuses, ConversationsInv
  <1>3. conv' = [conv EXCEPT ![r.id] = new]
    <2>1. CASE r.id \in Documents
      <3>1. conv' = [conv EXCEPT ![r.id] = IF r.status = r.read THEN conv[r.id] ELSE r.status]
        BY <2>1 DEF SaveConversation, Saved
      <3>2. new = IF r.status = r.read THEN conv[r.id] ELSE r.status
        BY <2>1
      <3> HIDE DEF new, r
      <3> QED
        BY <3>1, <3>2
    <2>2. CASE r.id \notin Documents
      <3>1. conv' = conv /\ new = conv[r.id]
        BY <2>2 DEF SaveConversation
      <3> HIDE DEF new, r
      <3> QED
        BY <1>2, <3>1
    <2> QED
      BY <2>1, <2>2
  <1>4. new \in ConversationStatuses \cup {Gone} /\ (HandledByHuman(new) /\ new # conv[r.id] => HandledByHuman(s))
    BY <1>2
  <1>5. /\ incoming' = [TakenFrom(Incoming \ {h}, r.id, s) EXCEPT ![h] = IdleIncoming]
        /\ UNCHANGED operating
    BY DEF SaveConversation
  <1> HIDE DEF s, new
  <1>6. /\ incoming' = [g \in Incoming |-> incoming'[g]] /\ incoming'[h] = IdleIncoming
        /\ \A g \in Incoming \ {h} : incoming'[g] =
              IF incoming[g].id = r.id /\ HandledByHuman(s) THEN [incoming[g] EXCEPT !.taken = TRUE] ELSE incoming[g]
    BY <1>5 DEF TakenFrom
  <1>7. /\ operating' = [o \in OperatorRequests |-> operating'[o]]
        /\ \A o \in OperatorRequests : operating'[o] = operating[o]
    BY <1>5 DEF ConversationsInv
  <1>8. ASSUME NEW g \in Incoming
        PROVE  \/ incoming'[g] = IdleIncoming
               \/ /\ incoming'[g] = incoming[g] \/ incoming'[g] = [incoming[g] EXCEPT !.taken = TRUE]
                  /\ incoming[g].id = r.id /\ HandledByHuman(new) =>
                        new = conv[r.id] \/ incoming'[g] = [incoming[g] EXCEPT !.taken = TRUE]
    BY <1>4, <1>6
  <1> HIDE DEF r
  <1> QED
    BY <1>2, <1>3, <1>4, <1>6, <1>7, <1>8, SavedKeeps

LEMMA FailsKeeps ==
  ASSUME ConversationsInv, NEW h \in Incoming, IncomingFails(h)
  PROVE  ConversationsInv'
  BY IdleCopy, CopyMoves DEF IncomingFails

\* An operator's request goes on, and the documents are as before.
LEMMA RequestMoves ==
  ASSUME ConversationsInv, NEW o \in OperatorRequests, NEW r, operating' = [operating EXCEPT ![o] = r],
         DOMAIN r = {"phase", "id", "read"}, r.phase # "idle" => r.id \in 1 .. Len(conv),
         UNCHANGED <<conv, incoming>>
  PROVE  ConversationsInv'
  <1>1. /\ operating' = [p \in OperatorRequests |-> operating'[p]] /\ operating'[o] = r
        /\ \A p \in OperatorRequests \ {o} : operating'[p] = operating[p]
    BY DEF ConversationsInv
  <1> QED
    BY <1>1 DEF ConversationsInv

LEMMA LoadKeeps ==
  ASSUME ConversationsInv, NEW o \in OperatorRequests, NEW c, NEW operation, LoadConversation(o, c, operation)
  PROVE  ConversationsInv'
  <1>1. /\ c \in 1 .. Len(conv)
        /\ operating' = [operating EXCEPT ![o] = [phase |-> operation, id |-> c, read |-> conv[c]]]
        /\ UNCHANGED <<conv, incoming>>
    BY DEF LoadConversation, Documents, ConversationsInv
  <1> QED
    BY <1>1, RequestMoves

LEMMA AppendKeeps ==
  ASSUME ConversationsInv, NEW o \in OperatorRequests, AppendOperatorMessage(o)
  PROVE  ConversationsInv'
  <1>1. PICK r : r = IF operating[o].id \in Documents
                     THEN [operating[o] EXCEPT !.phase = "append", !.read = conv[operating[o].id]]
                     ELSE IdleOperator
    OBVIOUS
  <1>2. /\ operating[o].phase = "answer" /\ operating' = [operating EXCEPT ![o] = r]
        /\ UNCHANGED <<conv, incoming>>
    BY <1>1 DEF AppendOperatorMessage
  <1>3. DOMAIN r = {"phase", "id", "read"} /\ (r.phase # "idle" => r.id \in 1 .. Len(conv))
    BY <1>1, <1>2 DEF IdleOperator, ConversationsInv
  <1> QED
    BY <1>2, <1>3, RequestMoves

LEMMA DeleteMessagesKeeps ==
  ASSUME ConversationsInv, NEW o \in OperatorRequests, DeleteMessages(o)
  PROVE  ConversationsInv'
  <1>1. PICK r : r = [operating[o] EXCEPT !.phase = "drop"]
    OBVIOUS
  <1>2. /\ operating[o].phase = "delete" /\ operating' = [operating EXCEPT ![o] = r]
        /\ UNCHANGED <<conv, incoming>>
    BY <1>1 DEF DeleteMessages
  <1>3. DOMAIN r = {"phase", "id", "read"} /\ (r.phase # "idle" => r.id \in 1 .. Len(conv))
    BY <1>1, <1>2 DEF ConversationsInv
  <1> QED
    BY <1>2, <1>3, RequestMoves

LEMMA OperationFailsKeeps ==
  ASSUME ConversationsInv, NEW o \in OperatorRequests, OperationFails(o)
  PROVE  ConversationsInv'
  <1>1. DOMAIN IdleOperator = {"phase", "id", "read"} /\ IdleOperator.phase = "idle"
    BY DEF IdleOperator
  <1> QED
    BY <1>1, RequestMoves DEF OperationFails

LEMMA DeleteConversationKeeps ==
  ASSUME ConversationsInv, NEW o \in OperatorRequests, DeleteConversation(o)
  PROVE  ConversationsInv'
  <1>1. /\ operating[o].phase = "drop" /\ conv' = [conv EXCEPT ![operating[o].id] = Gone]
        /\ operating' = [operating EXCEPT ![o] = IdleOperator] /\ UNCHANGED incoming
    BY DEF DeleteConversation
  <1>2. operating[o].id \in 1 .. Len(conv) /\ ~HandledByHuman(Gone)
    BY <1>1 DEF ConversationsInv, HandledByHuman, Gone
  <1>3. /\ incoming' = [h \in Incoming |-> incoming'[h]]
        /\ \A h \in Incoming : incoming'[h] = incoming[h]
        /\ operating' = [p \in OperatorRequests |-> operating'[p]]
        /\ \A p \in OperatorRequests : operating'[p] \in {operating[p], IdleOperator}
    BY <1>1 DEF ConversationsInv
  <1>4. PICK g : g = Gone /\ g \in ConversationStatuses \cup {Gone}
    OBVIOUS
  <1>5. conv' = [conv EXCEPT ![operating[o].id] = g] /\ ~HandledByHuman(g)
    BY <1>1, <1>2, <1>4
  <1>6. PICK c \in 1 .. Len(conv) : c = operating[o].id
    BY <1>2
  <1>7. /\ conv' = [conv EXCEPT ![c] = g]
        /\ \A h \in Incoming :
              \/ incoming'[h] = IdleIncoming
              \/ /\ incoming'[h] = incoming[h] \/ incoming'[h] = [incoming[h] EXCEPT !.taken = TRUE]
                 /\ incoming[h].id = c /\ HandledByHuman(g) =>
                       g = conv[c] \/ incoming'[h] = [incoming[h] EXCEPT !.taken = TRUE]
        /\ \A p \in OperatorRequests :
              \/ operating'[p] \in {operating[p], IdleOperator}
              \/ DOMAIN operating'[p] = {"phase", "id", "read"} /\ operating'[p].id = c
    BY <1>3, <1>5, <1>6
  <1> QED
    BY <1>3, <1>4, <1>7, SavedKeeps

LEMMA SaveOperationKeeps ==
  ASSUME ConversationsInv, NEW o \in OperatorRequests, SaveOperation(o)
  PROVE  ConversationsInv'
  <1> DEFINE r == operating[o]
             status == StatusOf[r.phase]
             there == r.id \in Documents
             new == IF there /\ status # r.read THEN status ELSE conv[r.id]
             s == IF there /\ status # r.read THEN status ELSE "OPEN"
  <1>1. /\ r.phase \in {"assign", "append", "close", "release"} /\ r.id \in 1 .. Len(conv)
        /\ DOMAIN r = {"phase", "id", "read"}
    BY DEF SaveOperation, StatusOf, ConversationsInv
  <1>2. status \in ConversationStatuses /\ conv \in Seq(ConversationStatuses \cup {Gone})
    BY <1>1 DEF StatusOf, ConversationStatuses, ConversationsInv
  <1> HIDE DEF status
  <1>3. conv' = [conv EXCEPT ![r.id] = new]
    <2>1. CASE there
      <3>1. conv' = [conv EXCEPT ![r.id] = IF status = r.read THEN conv[r.id] ELSE status]
        BY <2>1 DEF SaveOperation, Saved, status
      <3>2. new = IF status = r.read THEN conv[r.id] ELSE status
        BY <2>1
      <3> HIDE DEF new, r
      <3> QED
        BY <3>1, <3>2
    <2>2. CASE ~there
      <3>1. conv' = conv /\ new = conv[r.id]
        BY <2>2 DEF SaveOperation
      <3> HIDE DEF new, r
      <3> QED
        BY <1>1, <1>2, <3>1
    <2> QED
      BY <2>1, <2>2
  <1>4. new \in ConversationStatuses \cup {Gone} /\ (HandledByHuman(new) /\ new # conv[r.id] => HandledByHuman(s))
    BY <1>1, <1>2
  <1>5. PICK next : next = IF there /\ r.phase = "assign" THEN [r EXCEPT !.phase = "answer"] ELSE IdleOperator
    OBVIOUS
  <1>6. incoming' = TakenFrom(Incoming, r.id, s) /\ operating' = [operating EXCEPT ![o] = next]
    BY <1>5 DEF SaveOperation, status
  <1>7. next = IdleOperator \/ (DOMAIN next = {"phase", "id", "read"} /\ next.id = r.id)
    BY <1>1, <1>5
  <1> HIDE DEF s, new, there
  <1>8. /\ incoming' = [g \in Incoming |-> incoming'[g]]
        /\ \A g \in Incoming : incoming'[g] =
              IF incoming[g].id = r.id /\ HandledByHuman(s) THEN [incoming[g] EXCEPT !.taken = TRUE] ELSE incoming[g]
    BY <1>6 DEF TakenFrom
  <1>9. /\ operating' = [p \in OperatorRequests |-> operating'[p]]
        /\ \A p \in OperatorRequests : operating'[p] \in {operating[p], next}
    BY <1>6 DEF ConversationsInv
  <1>10. \A p \in OperatorRequests :
            \/ operating'[p] \in {operating[p], IdleOperator}
            \/ DOMAIN operating'[p] = {"phase", "id", "read"} /\ operating'[p].id = r.id
    BY <1>7, <1>9
  <1>11. ASSUME NEW g \in Incoming
         PROVE  \/ incoming'[g] = IdleIncoming
                \/ /\ incoming'[g] = incoming[g] \/ incoming'[g] = [incoming[g] EXCEPT !.taken = TRUE]
                   /\ incoming[g].id = r.id /\ HandledByHuman(new) =>
                         new = conv[r.id] \/ incoming'[g] = [incoming[g] EXCEPT !.taken = TRUE]
    BY <1>4, <1>8
  <1> HIDE DEF r
  <1> QED
    BY <1>1, <1>3, <1>4, <1>8, <1>9, <1>10, <1>11, SavedKeeps

LEMMA ConversationsStep == ConversationsInv /\ [ConversationsNext]_conversationVars => ConversationsInv'
  <1> SUFFICES ASSUME ConversationsInv, [ConversationsNext]_conversationVars PROVE ConversationsInv'
    OBVIOUS
  <1>1. CASE UNCHANGED conversationVars
    BY <1>1 DEF conversationVars, ConversationsInv
  <1> QED
    BY <1>1, FindKeeps, CreateConversationKeeps, SaveKeeps, FailsKeeps, StoreCustomerKeeps, StoreEngineKeeps, LoadKeeps,
       SaveOperationKeeps, AppendKeeps, DeleteMessagesKeeps, DeleteConversationKeeps, OperationFailsKeeps
    DEF ConversationsNext

LEMMA KeepsOutStep == ConversationsInv /\ [ConversationsNext]_conversationVars => [KeepsOut]_conversationVars
  <1> SUFFICES ASSUME ConversationsInv, ConversationsNext, NEW c \in DOMAIN conv,
                      conv[c] \in {"NEEDS_OPERATOR", "WITH_OPERATOR"}
               PROVE  LET handling == {h \in Incoming : incoming[h].id = c /\ incoming'[h] # incoming[h]}
                      IN  /\ \A h \in handling : StoresReply(h) => incoming[h].taken
                          /\ conv'[c] \in {"OPEN", "AI_HANDLING"} =>
                                \/ \E o \in OperatorRequests : operating[o].phase = "release" /\ operating'[o] # operating[o]
                                \/ \E h \in handling : incoming[h].taken /\ incoming[h].read = "OPEN"
    BY DEF KeepsOut
  <1> DEFINE handling == {h \in Incoming : incoming[h].id = c /\ incoming'[h] # incoming[h]}
             released == \E o \in OperatorRequests : operating[o].phase = "release" /\ operating'[o] # operating[o]
             behind == \E h \in handling : incoming[h].taken /\ incoming[h].read = "OPEN"
  <1>1. /\ conv \in Seq(ConversationStatuses \cup {Gone}) /\ c \in 1 .. Len(conv)
        /\ HandledByHuman(conv[c])
    BY DEF ConversationsInv, HandledByHuman
  <1>2. ASSUME NEW h \in handling, StoresReply(h) PROVE incoming[h].taken
    <2>1. CopyOK(incoming[h], conv) /\ incoming[h].phase = "engine" /\ incoming[h].id = c
      BY <1>2 DEF ConversationsInv, StoresReply
    <2> QED
      BY <1>1, <2>1 DEF CopyOK
  <1>3. ASSUME conv'[c] \in {"OPEN", "AI_HANDLING"} PROVE released \/ behind
    <2>1. conv'[c] # conv[c] /\ conv' # conv
      BY <1>3
    <2>2. CASE \E h \in Incoming : SaveConversation(h)
      <3>1. PICK h \in Incoming : SaveConversation(h)
        BY <2>2
      <3>2. PICK r : r = incoming[h]
        OBVIOUS
      <3>3. /\ r.phase = "save" /\ CopyOK(r, conv)
            /\ IF r.id \in Documents THEN Saved(r.id, r.read, r.status) ELSE conv' = conv
            /\ incoming' = [TakenFrom(Incoming \ {h}, r.id, IF r.status = r.read THEN "OPEN" ELSE r.status)
                                EXCEPT ![h] = IdleIncoming]
        BY <3>1, <3>2 DEF SaveConversation, ConversationsInv
      <3>4. conv' = [conv EXCEPT ![r.id] = IF r.status = r.read THEN conv[r.id] ELSE r.status]
        BY <2>1, <3>3 DEF Saved
      <3>5. c = r.id /\ r.status # r.read /\ conv'[c] = r.status
        BY <1>1, <2>1, <3>4
      <3>6. r.status = "AI_HANDLING" /\ ~HandledByHuman(r.read)
        BY <1>3, <3>3, <3>5 DEF CopyOK
      <3>7. r.taken
        BY <1>1, <3>3, <3>5, <3>6 DEF CopyOK
      <3>8. r.read = "OPEN"
        BY <3>3, <3>5, <3>6 DEF CopyOK, OpenStatuses, ConversationStatuses, HandledByHuman
      <3>9. incoming'[h] = IdleIncoming /\ IdleIncoming.phase = "idle"
        BY <3>3 DEF TakenFrom, IdleIncoming
      <3>10. h \in handling
        BY <3>2, <3>3, <3>5, <3>9
      <3> HIDE DEF handling
      <3> QED
        BY <3>2, <3>7, <3>8, <3>10
    <2>3. CASE \E o \in OperatorRequests : SaveOperation(o)
      <3>1. PICK o \in OperatorRequests : SaveOperation(o)
        BY <2>3
      <3>2. PICK r : r = operating[o]
        OBVIOUS
      <3>3. PICK s : s = StatusOf[r.phase]
        OBVIOUS
      <3>4. /\ r.phase \in {"assign", "append", "close", "release"}
            /\ IF r.id \in Documents THEN Saved(r.id, r.read, s) ELSE conv' = conv
        BY <3>1, <3>2, <3>3 DEF SaveOperation, StatusOf
      <3>5. conv' = [conv EXCEPT ![r.id] = IF s = r.read THEN conv[r.id] ELSE s]
        BY <2>1, <3>4 DEF Saved
      <3>6. conv'[c] = s
        BY <1>1, <2>1, <3>5
      <3>7. r.phase = "release"
        BY <1>3, <3>3, <3>4, <3>6 DEF StatusOf
      <3>8. operating'[o] = IdleOperator /\ IdleOperator.phase = "idle"
        BY <3>1, <3>2, <3>7 DEF SaveOperation, IdleOperator, ConversationsInv
      <3> QED
        BY <3>2, <3>7, <3>8
    <2>4. CASE \E h \in Incoming : CreateConversation(h)
      <3>1. conv' = Append(conv, "OPEN")
        BY <2>4 DEF CreateConversation
      <3> QED
        BY <1>1, <2>1, <3>1
    <2>5. CASE \E o \in OperatorRequests : DeleteConversation(o)
      <3>1. PICK o \in OperatorRequests : conv' = [conv EXCEPT ![operating[o].id] = Gone]
        BY <2>5 DEF DeleteConversation
      <3>2. conv'[c] = Gone
        BY <1>1, <2>1, <3>1
      <3> QED
        BY <1>3, <3>2 DEF Gone
    <2>6. CASE \/ \E h \in Incoming :
                    \/ FindConversation(h) \/ IncomingFails(h)
                    \/ \E escalate \in BOOLEAN : StoreCustomerMessage(h, escalate) \/ StoreEngineMessage(h, escalate)
               \/ \E o \in OperatorRequests :
                    \/ \E k \in 1 .. MaxConversations, operation \in {"assign", "close", "release", "delete"} :
                          LoadConversation(o, k, operation)
                    \/ AppendOperatorMessage(o) \/ DeleteMessages(o) \/ OperationFails(o)
      <3>1. conv' = conv
        BY <2>6 DEF FindConversation, IncomingFails, StoreCustomerMessage, StoreEngineMessage, LoadConversation,
           AppendOperatorMessage, DeleteMessages, OperationFails
      <3> QED
        BY <2>1, <3>1
    <2> HIDE DEF released, behind
    <2> QED
      BY <2>2, <2>3, <2>4, <2>5, <2>6 DEF ConversationsNext
  <1> QED
    BY <1>2, <1>3

\* The engine answers in a conversation operators have in hand, or takes it back, only where its
\* handler had loaded the document before they took it, and takes back only one it loaded as
\* OPEN: for any number of customers, operators and documents (message.service.ts 106-184).
THEOREM EngineStaysOut == ConversationsSpec => EngineKeepsOut
  <1> QED
    BY ConversationsInvInit, ConversationsStep, KeepsOutStep, PTL DEF ConversationsSpec, EngineKeepsOut
-------------------------------------------------------------------------------
(* Updates: what is confirmed is done.                                       *)

UpdatesSpec == UpdatesInit /\ [][UpdatesNext]_updateVars

Answering(a, u) == a.phase = "answer" /\ a.update = u

\* In the chat, and answered or about to be by the webhook, but for the ways known.
Done(u) ==
    /\ Updates[u] # "start" => storedTimes[u] > 0 \/ u \in swallowed
    /\ \/ answeredTimes[u] > 0 \/ u \in cutShort \cup swallowed \cup unsent
       \/ Updates[u] # "start" /\ \E h \in Handlers : Answering(attempt[h], u)

AttemptPhases == {"idle", "acknowledge", "check", "store", "answer"}

UpdatesTyped ==
    /\ mode \in {"polling", "webhook"} /\ handed \subseteq UpdateIds
    /\ savedOffset \in Nat \ {0} /\ offset \in Nat /\ batchEnd \in Nat
    /\ savedOffset <= offset /\ offset <= batchEnd /\ batchEnd <= Len(Updates) + 1
    /\ storedTimes \in [UpdateIds -> Nat] /\ answeredTimes \in [UpdateIds -> Nat]
    /\ attempt = [h \in Handlers \cup {Poller} |-> attempt[h]]
    /\ \A h \in Handlers \cup {Poller} :
          /\ DOMAIN attempt[h] = {"phase", "update"}
          /\ attempt[h].phase \in AttemptPhases
          /\ attempt[h].phase # "idle" => attempt[h].update \in UpdateIds
          /\ attempt[h].phase \in {"acknowledge", "check", "store"} => Updates[attempt[h].update] # "start"

\* The bot is polled or called, and the loop handles the update its offset points to.
OneWay ==
    /\ mode = "webhook" => attempt[Poller].phase = "idle" /\ offset = batchEnd
    /\ mode = "polling" => \A h \in Handlers : attempt[h].phase = "idle"
    /\ attempt[Poller].phase # "idle" => attempt[Poller].update = offset /\ offset < batchEnd

\* A message that is stored was answered, is being, or its attempt has failed or its
\* answer was refused; /start is not stored.
StoredIsAnswered ==
    /\ \A u \in UpdateIds : storedTimes[u] > 0 =>
          /\ Updates[u] # "start"
          /\ \/ answeredTimes[u] > 0 \/ u \in cutShort \cup swallowed \cup unsent
             \/ \E h \in Handlers \cup {Poller} : Answering(attempt[h], u)
    /\ \A h \in Handlers \cup {Poller} :
          attempt[h].phase = "answer" /\ Updates[attempt[h].update] # "start" =>
              storedTimes[attempt[h].update] > 0

\* What is confirmed, and what the loop has passed, is done.
PassedIsDone ==
    /\ \A u \in handed : Done(u)
    /\ mode = "polling" => \A u \in 1 .. offset - 1 : Done(u)

StoredOnce ==
    mode = "polling" =>
        /\ \A u \in UpdateIds : storedTimes[u] <= 1
        /\ attempt[Poller].phase = "store" => storedTimes[attempt[Poller].update] = 0

UpdatesInv == UpdatesTyped /\ OneWay /\ StoredIsAnswered /\ PassedIsDone /\ StoredOnce

LEMMA UpdateIdsAre == UpdateIds = 1 .. Len(Updates) /\ Len(Updates) \in Nat
  BY UpdateConstantsOK DEF UpdateIds

LEMMA UpdatesInvInit == UpdatesInit => UpdatesInv
  <1> SUFFICES ASSUME UpdatesInit PROVE UpdatesInv
    OBVIOUS
  <1>1. /\ mode \in {"polling", "webhook"} /\ handed = {} /\ offset = 1 /\ savedOffset = 1 /\ batchEnd = 1
        /\ attempt = [h \in Handlers \cup {Poller} |-> IdleAttempt]
        /\ storedTimes = [u \in UpdateIds |-> 0] /\ answeredTimes = [u \in UpdateIds |-> 0]
    BY DEF UpdatesInit
  <1>2. DOMAIN IdleAttempt = {"phase", "update"} /\ IdleAttempt.phase = "idle" /\ IdleAttempt.phase \in AttemptPhases
    BY DEF IdleAttempt, AttemptPhases
  <1>3. UpdatesTyped
    BY <1>1, <1>2, UpdateIdsAre DEF UpdatesTyped
  <1>4. OneWay /\ StoredIsAnswered /\ PassedIsDone /\ StoredOnce
    BY <1>1, <1>2 DEF OneWay, StoredIsAnswered, PassedIsDone, StoredOnce
  <1> QED
    BY <1>3, <1>4 DEF UpdatesInv

\* What is done stays done.
LEMMA DoneStays ==
  ASSUME NEW u \in UpdateIds, Done(u), storedTimes[u] \in Nat, answeredTimes[u] \in Nat,
         storedTimes'[u] \in Nat, answeredTimes'[u] \in Nat,
         storedTimes'[u] >= storedTimes[u], answeredTimes'[u] >= answeredTimes[u],
         cutShort \subseteq cutShort', swallowed \subseteq swallowed', unsent \subseteq unsent',
         \A h \in Handlers : Updates[u] # "start" /\ Answering(attempt[h], u) =>
             Answering(attempt'[h], u) \/ answeredTimes'[u] > 0 \/ u \in cutShort' \cup unsent'
  PROVE  Done(u)'
  <1>1. Updates[u] # "start" => storedTimes'[u] > 0 \/ u \in swallowed'
    BY DEF Done
  <1>2. \/ answeredTimes'[u] > 0 \/ u \in cutShort' \cup swallowed' \cup unsent'
        \/ Updates[u] # "start" /\ \E h \in Handlers : Answering(attempt'[h], u)
    BY DEF Done
  <1> QED
    BY <1>1, <1>2 DEF Done, Answering

\* An attempt goes on, and with it what it has stored, answered and confirmed.
LEMMA AttemptMoves ==
  ASSUME UpdatesInv, NEW h \in Handlers \cup {Poller}, NEW r, attempt' = [attempt EXCEPT ![h] = r],
         mode = IF h = Poller THEN "polling" ELSE "webhook",
         DOMAIN r = {"phase", "update"}, r.phase \in AttemptPhases,
         r.phase # "idle" => r.update \in UpdateIds,
         r.phase \in {"acknowledge", "check", "store"} => Updates[r.update] # "start",
         UNCHANGED <<mode, savedOffset>>,
         storedTimes' \in [UpdateIds -> Nat], answeredTimes' \in [UpdateIds -> Nat],
         \A u \in UpdateIds : storedTimes'[u] >= storedTimes[u] /\ answeredTimes'[u] >= answeredTimes[u],
         cutShort \subseteq cutShort', swallowed \subseteq swallowed', unsent \subseteq unsent',
         attempt[h].phase = "answer" /\ Updates[attempt[h].update] # "start" =>
             answeredTimes'[attempt[h].update] > 0 \/ attempt[h].update \in cutShort' \cup unsent',
         r.phase = "answer" /\ Updates[r.update] # "start" => storedTimes'[r.update] > 0,
         \A u \in UpdateIds : storedTimes'[u] > 0 =>
             storedTimes[u] > 0 \/ (Answering(r, u) /\ Updates[u] # "start"),
         \A u \in handed' : u \in handed \/ (u \in UpdateIds /\ Done(u)'),
         offset' \in Nat, batchEnd' \in Nat, savedOffset <= offset', offset' <= batchEnd',
         batchEnd' <= Len(Updates) + 1,
         h # Poller => offset' = offset /\ batchEnd' = batchEnd,
         h = Poller =>
             /\ \A u \in 1 .. offset' - 1 : u \in 1 .. offset - 1 \/ (u \in UpdateIds /\ Done(u)')
             /\ r.phase # "idle" => r.update = offset' /\ offset' < batchEnd'
             /\ \A u \in UpdateIds : storedTimes'[u] <= 1
             /\ r.phase = "store" => storedTimes'[r.update] = 0
  PROVE  UpdatesInv'
  <1>1. /\ attempt' = [g \in Handlers \cup {Poller} |-> attempt'[g]] /\ attempt'[h] = r
        /\ \A g \in (Handlers \cup {Poller}) \ {h} : attempt'[g] = attempt[g]
    BY DEF UpdatesInv, UpdatesTyped
  <1>2. Poller \notin Handlers
    BY UpdateConstantsOK
  <1>3. UpdatesTyped'
    <2>1. \A g \in Handlers \cup {Poller} :
            /\ DOMAIN attempt'[g] = {"phase", "update"}
            /\ attempt'[g].phase \in AttemptPhases
            /\ attempt'[g].phase # "idle" => attempt'[g].update \in UpdateIds
            /\ attempt'[g].phase \in {"acknowledge", "check", "store"} => Updates[attempt'[g].update] # "start"
      BY <1>1 DEF UpdatesInv, UpdatesTyped
    <2>2. handed' \subseteq UpdateIds
      BY DEF UpdatesInv, UpdatesTyped
    <2> QED
      BY <1>1, <2>1, <2>2 DEF UpdatesInv, UpdatesTyped
  <1>4. OneWay'
    <2>1. CASE h = Poller
      BY <1>1, <1>2, <2>1 DEF UpdatesInv, OneWay
    <2>2. CASE h # Poller
      BY <1>1, <1>2, <2>2 DEF UpdatesInv, OneWay
    <2> QED
      BY <2>1, <2>2
  <1>5. ASSUME NEW g \in Handlers \cup {Poller}, NEW u \in UpdateIds, Updates[u] # "start",
               Answering(attempt[g], u)
        PROVE  Answering(attempt'[g], u) \/ answeredTimes'[u] > 0 \/ u \in cutShort' \cup unsent'
    BY <1>1, <1>5 DEF Answering
  <1>6. StoredIsAnswered'
    <2>1. ASSUME NEW u \in UpdateIds, storedTimes'[u] > 0
          PROVE  /\ Updates[u] # "start"
                 /\ \/ answeredTimes'[u] > 0 \/ u \in cutShort' \cup swallowed' \cup unsent'
                    \/ \E g \in Handlers \cup {Poller} : Answering(attempt'[g], u)
      <3>1. CASE Answering(r, u) /\ Updates[u] # "start"
        BY <1>1, <3>1
      <3>2. CASE storedTimes[u] > 0
        <4>1. /\ Updates[u] # "start"
              /\ \/ answeredTimes[u] > 0 \/ u \in cutShort \cup swallowed \cup unsent
                 \/ \E g \in Handlers \cup {Poller} : Answering(attempt[g], u)
          BY <3>2 DEF UpdatesInv, StoredIsAnswered
        <4>2. answeredTimes[u] > 0 => answeredTimes'[u] > 0
          <5>1. answeredTimes[u] \in Nat /\ answeredTimes'[u] \in Nat /\ answeredTimes'[u] >= answeredTimes[u]
            BY DEF UpdatesInv, UpdatesTyped
          <5> QED
            BY <5>1
        <4> QED
          BY <1>5, <4>1, <4>2
      <3> QED
        BY <2>1, <3>1, <3>2
    <2>2. ASSUME NEW g \in Handlers \cup {Poller}, attempt'[g].phase = "answer",
                 Updates[attempt'[g].update] # "start"
          PROVE  storedTimes'[attempt'[g].update] > 0
      <3>1. CASE g = h
        BY <1>1, <2>2, <3>1
      <3>2. CASE g # h
        <4>1. attempt'[g] = attempt[g] /\ attempt[g].update \in UpdateIds
          BY <1>1, <2>2, <3>2 DEF UpdatesInv, UpdatesTyped
        <4>2. PICK u \in UpdateIds : u = attempt[g].update
          BY <4>1
        <4>3. storedTimes[u] > 0
          BY <2>2, <4>1, <4>2 DEF UpdatesInv, StoredIsAnswered
        <4>4. storedTimes[u] \in Nat /\ storedTimes'[u] \in Nat /\ storedTimes'[u] >= storedTimes[u]
          BY DEF UpdatesInv, UpdatesTyped
        <4>5. storedTimes'[u] > 0
          BY <4>3, <4>4
        <4> QED
          BY <4>1, <4>2, <4>5
      <3> QED
        BY <3>1, <3>2
    <2> QED
      BY <2>1, <2>2 DEF StoredIsAnswered, Answering
  <1>7. PassedIsDone'
    <2>1. ASSUME NEW u \in UpdateIds, Done(u) PROVE Done(u)'
      <3>1. /\ storedTimes[u] \in Nat /\ answeredTimes[u] \in Nat
            /\ storedTimes'[u] \in Nat /\ answeredTimes'[u] \in Nat
        BY DEF UpdatesInv, UpdatesTyped
      <3>2. \A g \in Handlers : Updates[u] # "start" /\ Answering(attempt[g], u) =>
                Answering(attempt'[g], u) \/ answeredTimes'[u] > 0 \/ u \in cutShort' \cup unsent'
        BY <1>5
      <3>3. storedTimes'[u] >= storedTimes[u] /\ answeredTimes'[u] >= answeredTimes[u]
        OBVIOUS
      <3> QED
        BY <2>1, <3>1, <3>2, <3>3, DoneStays
    <2>2. \A u \in handed' : Done(u)'
      BY <2>1 DEF UpdatesInv, UpdatesTyped, PassedIsDone
    <2>3. ASSUME mode = "polling", NEW u \in 1 .. offset' - 1 PROVE Done(u)'
      <3>1. h = Poller
        BY <2>3
      <3>2. 1 .. offset - 1 \subseteq UpdateIds
        BY UpdateIdsAre DEF UpdatesInv, UpdatesTyped
      <3>3. u \in 1 .. offset - 1 => Done(u)
        BY <2>3 DEF UpdatesInv, PassedIsDone
      <3> QED
        BY <2>1, <3>1, <3>2, <3>3
    <2> QED
      BY <2>2, <2>3 DEF PassedIsDone
  <1>8. StoredOnce'
    <2>1. mode = "polling" => h = Poller
      OBVIOUS
    <2> QED
      BY <1>1, <2>1 DEF StoredOnce
  <1> QED
    BY <1>3, <1>4, <1>6, <1>7, <1>8 DEF UpdatesInv

\* Who handles updates tells how the bot gets them.
LEMMA HandlerTellsMode ==
  ASSUME UpdatesInv, NEW h \in Handlers \cup {Poller}, attempt[h].phase # "idle"
  PROVE  mode = IF h = Poller THEN "polling" ELSE "webhook"
  BY DEF UpdatesInv, UpdatesTyped, OneWay

LEMMA StartedIs ==
  ASSUME NEW u \in UpdateIds, NEW r, r = [phase |-> FirstPhase[Updates[u]], update |-> u]
  PROVE  /\ DOMAIN r = {"phase", "update"} /\ r.phase \in {"acknowledge", "check", "answer"} /\ r.update = u
         /\ r.phase = "answer" <=> Updates[u] = "start"
  <1>1. Updates[u] \in {"text", "start", "callback"}
    BY UpdateConstantsOK, UpdateIdsAre
  <1>2. FirstPhase["text"] = "check" /\ FirstPhase["callback"] = "acknowledge" /\ FirstPhase["start"] = "answer"
    BY DEF FirstPhase
  <1> HIDE DEF FirstPhase
  <1> QED
    BY <1>1, <1>2

LEMMA HandleNextKeeps ==
  ASSUME UpdatesInv, HandleNext
  PROVE  UpdatesInv'
  <1>1. /\ attempt[Poller].phase = "idle" /\ offset < batchEnd
        /\ UNCHANGED <<mode, handed, savedOffset, batchEnd, storedTimes, answeredTimes, cutShort, swallowed, unsent>>
    BY DEF HandleNext
  <1>2. mode = "polling"
    BY <1>1 DEF UpdatesInv, UpdatesTyped, OneWay
  <1>3. /\ offset \in Nat \ {0} /\ batchEnd \in Nat /\ savedOffset \in Nat \ {0} /\ savedOffset <= offset
        /\ batchEnd <= Len(Updates) + 1 /\ attempt = [h \in Handlers \cup {Poller} |-> attempt[h]]
    BY DEF UpdatesInv, UpdatesTyped
  <1>4. offset \in UpdateIds
    BY <1>1, <1>3, UpdateIdsAre
  <1>5. storedTimes \in [UpdateIds -> Nat] /\ answeredTimes \in [UpdateIds -> Nat]
    BY DEF UpdatesInv, UpdatesTyped
  <1>6. /\ \A u \in UpdateIds : storedTimes[u] <= 1
        /\ \A u \in UpdateIds : storedTimes[u] >= storedTimes[u] /\ answeredTimes[u] >= answeredTimes[u]
    BY <1>2, <1>5 DEF UpdatesInv, StoredOnce
  <1>7. CASE offset \in handed
    <2>1. offset' = offset + 1 /\ attempt' = attempt
      BY <1>7 DEF HandleNext
    <2>2. PICK r : r = attempt[Poller]
      OBVIOUS
    <2>3. attempt' = [attempt EXCEPT ![Poller] = r]
      BY <1>3, <2>1, <2>2
    <2>4. DOMAIN r = {"phase", "update"} /\ r.phase = "idle" /\ r.phase \in AttemptPhases
      BY <1>1, <2>2 DEF UpdatesInv, UpdatesTyped, AttemptPhases
    <2>5. offset \in UpdateIds /\ Done(offset)
      BY <1>4, <1>7 DEF UpdatesInv, PassedIsDone
    <2>6. Done(offset) => \A u \in {offset} : Done(u)'
      BY <1>1, <2>1 DEF Done, Answering
    <2>7. \A u \in 1 .. offset' - 1 : u \in 1 .. offset - 1 \/ (u \in UpdateIds /\ Done(u)')
      BY <1>3, <1>4, <2>1, <2>5, <2>6
    <2>8. offset' \in Nat /\ savedOffset <= offset' /\ offset' <= batchEnd'
      BY <1>1, <1>3, <2>1
    <2> QED
      BY <1>1, <1>2, <1>3, <1>5, <1>6, <2>3, <2>4, <2>7, <2>8, AttemptMoves
  <1>8. CASE offset \notin handed
    <2>1. Started(Poller, offset) /\ offset' = offset
      BY <1>8 DEF HandleNext
    <2>2. PICK r : r = [phase |-> FirstPhase[Updates[offset]], update |-> offset]
      OBVIOUS
    <2>3. attempt' = [attempt EXCEPT ![Poller] = r]
      BY <2>1, <2>2 DEF Started
    <2>4. /\ DOMAIN r = {"phase", "update"} /\ r.phase \in {"acknowledge", "check", "answer"} /\ r.update = offset
          /\ r.phase = "answer" <=> Updates[offset] = "start"
      BY <1>4, <2>2, StartedIs
    <2>5. /\ offset' \in Nat /\ savedOffset <= offset' /\ offset' <= batchEnd' /\ batchEnd' \in Nat
          /\ \A u \in 1 .. offset' - 1 : u \in 1 .. offset - 1
          /\ r.update = offset' /\ offset' < batchEnd'
      BY <1>1, <1>3, <2>1, <2>4
    <2>6. /\ r.phase \in AttemptPhases /\ r.phase # "store" /\ r.update \in UpdateIds
          /\ ~(r.phase = "answer" /\ Updates[r.update] # "start")
          /\ r.phase \in {"acknowledge", "check", "store"} => Updates[r.update] # "start"
      BY <1>4, <2>4 DEF AttemptPhases
    <2>7. PICK p \in Handlers \cup {Poller} : p = Poller
      OBVIOUS
    <2>8. attempt' = [attempt EXCEPT ![p] = r] /\ attempt[p].phase = "idle"
      BY <1>1, <2>3, <2>7
    <2> QED
      BY <1>1, <1>2, <1>3, <1>5, <1>6, <2>4, <2>5, <2>6, <2>7, <2>8, AttemptMoves
  <1> QED
    BY <1>7, <1>8

LEMMA WebhookKeeps ==
  ASSUME UpdatesInv, NEW h \in Handlers, NEW u \in UpdateIds, Webhook(h, u)
  PROVE  UpdatesInv'
  <1>1. /\ mode = "webhook" /\ attempt[h].phase = "idle" /\ Started(h, u) /\ h # Poller
        /\ UNCHANGED <<mode, handed, offset, savedOffset, batchEnd, storedTimes, answeredTimes, cutShort, swallowed, unsent>>
    BY UpdateConstantsOK DEF Webhook
  <1>2. PICK r : r = [phase |-> FirstPhase[Updates[u]], update |-> u]
    OBVIOUS
  <1>3. attempt' = [attempt EXCEPT ![h] = r]
    BY <1>1, <1>2 DEF Started
  <1>4. /\ DOMAIN r = {"phase", "update"} /\ r.phase \in AttemptPhases \ {"store"} /\ r.update = u
        /\ r.phase = "answer" => Updates[u] = "start"
        /\ r.phase \in {"acknowledge", "check", "store"} => Updates[r.update] # "start"
    BY <1>2, StartedIs DEF AttemptPhases
  <1>5. /\ storedTimes \in [UpdateIds -> Nat] /\ answeredTimes \in [UpdateIds -> Nat]
        /\ offset \in Nat /\ batchEnd \in Nat /\ savedOffset <= offset /\ offset <= batchEnd
        /\ batchEnd <= Len(Updates) + 1
    BY DEF UpdatesInv, UpdatesTyped
  <1>6. \A w \in UpdateIds : storedTimes[w] >= storedTimes[w] /\ answeredTimes[w] >= answeredTimes[w]
    BY <1>5
  <1> QED
    BY <1>1, <1>3, <1>4, <1>5, <1>6, AttemptMoves

\* What an attempt on u that is over has confirmed.
LEMMA HandledIs ==
  ASSUME UpdatesInv, NEW h \in Handlers \cup {Poller}, attempt[h].phase # "idle",
         NEW u \in UpdateIds, u = attempt[h].update, Handled(h, u), Done(u)', batchEnd' = batchEnd
  PROVE  /\ \A w \in handed' : w \in handed \/ (w \in UpdateIds /\ Done(w)')
         /\ offset' \in Nat /\ savedOffset <= offset' /\ offset' <= batchEnd'
         /\ h # Poller => offset' = offset
         /\ h = Poller => \A w \in 1 .. offset' - 1 : w \in 1 .. offset - 1 \/ (w \in UpdateIds /\ Done(w)')
  <1>1. offset \in Nat /\ batchEnd \in Nat /\ savedOffset \in Nat /\ savedOffset <= offset /\ offset <= batchEnd
    BY DEF UpdatesInv, UpdatesTyped
  <1>2. CASE h = Poller
    <2>1. offset' = u + 1 /\ handed' = handed /\ u = offset /\ offset < batchEnd
      BY <1>2 DEF Handled, UpdatesInv, OneWay
    <2>2. \A w \in 1 .. u : w \in 1 .. u - 1 \/ w = u
      BY <1>1, <2>1
    <2> QED
      BY <1>1, <1>2, <2>1, <2>2
  <1>3. CASE h # Poller
    BY <1>1, <1>3 DEF Handled
  <1> QED
    BY <1>2, <1>3

LEMMA AcknowledgeKeeps ==
  ASSUME UpdatesInv, NEW h \in Handlers \cup {Poller}, Acknowledge(h)
  PROVE  UpdatesInv'
  <1>1. /\ attempt[h].phase = "acknowledge"
        /\ UNCHANGED <<mode, handed, offset, savedOffset, batchEnd, storedTimes, answeredTimes, cutShort,
                       swallowed, unsent>>
    BY DEF Acknowledge
  <1>2. PICK u \in UpdateIds : u = attempt[h].update /\ Updates[u] # "start"
    BY <1>1 DEF UpdatesInv, UpdatesTyped
  <1>3. mode = IF h = Poller THEN "polling" ELSE "webhook"
    BY <1>1, HandlerTellsMode
  <1>4. /\ storedTimes \in [UpdateIds -> Nat] /\ answeredTimes \in [UpdateIds -> Nat]
        /\ offset \in Nat /\ batchEnd \in Nat /\ savedOffset <= offset /\ offset <= batchEnd
        /\ batchEnd <= Len(Updates) + 1 /\ DOMAIN attempt[h] = {"phase", "update"}
    BY DEF UpdatesInv, UpdatesTyped
  <1>5. /\ \A w \in UpdateIds : storedTimes[w] >= storedTimes[w] /\ answeredTimes[w] >= answeredTimes[w]
        /\ h = Poller => \A w \in UpdateIds : storedTimes[w] <= 1
    BY <1>3, <1>4 DEF UpdatesInv, StoredOnce
  <1>6. PICK r : r = [attempt[h] EXCEPT !.phase = "check"]
    OBVIOUS
  <1>7. attempt' = [attempt EXCEPT ![h] = r]
    BY <1>6 DEF Acknowledge
  <1>8. /\ DOMAIN r = {"phase", "update"} /\ r.phase = "check" /\ r.update = u
        /\ r.phase \in AttemptPhases /\ Updates[r.update] # "start"
    BY <1>2, <1>4, <1>6 DEF AttemptPhases
  <1>9. h = Poller => u = offset /\ offset < batchEnd
    BY <1>1, <1>2 DEF UpdatesInv, OneWay
  <1> QED
    BY <1>1, <1>3, <1>4, <1>5, <1>7, <1>8, <1>9, AttemptMoves

LEMMA CheckDuplicateKeeps ==
  ASSUME UpdatesInv, NEW h \in Handlers \cup {Poller}, CheckDuplicate(h)
  PROVE  UpdatesInv'
  <1>1. /\ attempt[h].phase = "check"
        /\ UNCHANGED <<mode, savedOffset, batchEnd, storedTimes, answeredTimes, cutShort, swallowed, unsent>>
    BY DEF CheckDuplicate
  <1>2. PICK u \in UpdateIds : u = attempt[h].update
    BY <1>1 DEF UpdatesInv, UpdatesTyped
  <1>3. mode = IF h = Poller THEN "polling" ELSE "webhook"
    BY <1>1, HandlerTellsMode
  <1>4. /\ storedTimes \in [UpdateIds -> Nat] /\ answeredTimes \in [UpdateIds -> Nat]
        /\ offset \in Nat /\ batchEnd \in Nat /\ savedOffset <= offset /\ offset <= batchEnd
        /\ batchEnd <= Len(Updates) + 1 /\ DOMAIN attempt[h] = {"phase", "update"}
    BY DEF UpdatesInv, UpdatesTyped
  <1>5. /\ \A w \in UpdateIds : storedTimes[w] >= storedTimes[w] /\ answeredTimes[w] >= answeredTimes[w]
        /\ h = Poller => \A w \in UpdateIds : storedTimes[w] <= 1
    BY <1>3, <1>4 DEF UpdatesInv, StoredOnce
  <1>6. CASE Duplicate(u)
    <2>1. attempt' = [attempt EXCEPT ![h] = IdleAttempt] /\ Handled(h, u)
      BY <1>2, <1>6 DEF CheckDuplicate
    <2>2. PICK r : r = IdleAttempt
      OBVIOUS
    <2>3. DOMAIN r = {"phase", "update"} /\ r.phase = "idle" /\ r.phase \in AttemptPhases
      BY <2>2 DEF IdleAttempt, AttemptPhases
    <2>4. Done(u)'
      <3>1. /\ storedTimes[u] > 0 /\ Updates[u] # "start"
            /\ \/ answeredTimes[u] > 0 \/ u \in cutShort \cup swallowed \cup unsent
               \/ \E g \in Handlers \cup {Poller} : Answering(attempt[g], u)
        BY <1>6 DEF Duplicate, UpdatesInv, StoredIsAnswered
      <3>2. ASSUME NEW g \in Handlers \cup {Poller}, Answering(attempt[g], u)
            PROVE  g \in Handlers /\ Answering(attempt'[g], u)
        <4>1. g # h /\ attempt[g].phase # "idle"
          BY <1>1, <3>2 DEF Answering
        <4>2. g # Poller
          <5>1. mode = IF g = Poller THEN "polling" ELSE "webhook"
            BY <4>1, HandlerTellsMode
          <5> QED
            BY <1>3, <4>1, <5>1
        <4>3. attempt'[g] = attempt[g]
          BY <2>1, <4>1 DEF UpdatesInv, UpdatesTyped
        <4> QED
          BY <3>2, <4>2, <4>3
      <3> QED
        BY <1>1, <3>1, <3>2 DEF Done, Answering
    <2>5. /\ \A w \in handed' : w \in handed \/ (w \in UpdateIds /\ Done(w)')
          /\ offset' \in Nat /\ savedOffset <= offset' /\ offset' <= batchEnd'
          /\ h # Poller => offset' = offset
          /\ h = Poller => \A w \in 1 .. offset' - 1 : w \in 1 .. offset - 1 \/ (w \in UpdateIds /\ Done(w)')
      BY <1>1, <1>2, <2>1, <2>4, HandledIs
    <2> QED
      BY <1>1, <1>3, <1>4, <1>5, <2>1, <2>2, <2>3, <2>5, AttemptMoves
  <1>7. CASE ~Duplicate(u)
    <2>1. PICK r : r = [attempt[h] EXCEPT !.phase = "store"]
      OBVIOUS
    <2>2. attempt' = [attempt EXCEPT ![h] = r] /\ UNCHANGED <<handed, offset>>
      BY <1>2, <1>7, <2>1 DEF CheckDuplicate
    <2>3. /\ DOMAIN r = {"phase", "update"} /\ r.phase = "store" /\ r.update = u
          /\ r.phase \in AttemptPhases /\ Updates[r.update] # "start"
      <3>1. Updates[u] # "start"
        BY <1>1, <1>2 DEF UpdatesInv, UpdatesTyped
      <3> QED
        BY <1>2, <1>4, <2>1, <3>1 DEF AttemptPhases
    <2>4. storedTimes[u] = 0
      BY <1>4, <1>7 DEF Duplicate
    <2>5. h = Poller => u = offset /\ offset < batchEnd
      BY <1>1, <1>2 DEF UpdatesInv, OneWay
    <2> QED
      BY <1>1, <1>3, <1>4, <1>5, <2>2, <2>3, <2>4, <2>5, AttemptMoves
  <1> QED
    BY <1>6, <1>7

LEMMA StoreMessageKeeps ==
  ASSUME UpdatesInv, NEW h \in Handlers \cup {Poller}, StoreMessage(h)
  PROVE  UpdatesInv'
  <1>1. attempt[h].phase = "store"
    BY DEF StoreMessage
  <1>2. PICK u \in UpdateIds : u = attempt[h].update
    BY <1>1 DEF UpdatesInv, UpdatesTyped
  <1>3. mode = IF h = Poller THEN "polling" ELSE "webhook"
    BY <1>1, HandlerTellsMode
  <1>4. /\ storedTimes \in [UpdateIds -> Nat] /\ answeredTimes \in [UpdateIds -> Nat]
        /\ offset \in Nat /\ batchEnd \in Nat /\ savedOffset <= offset /\ offset <= batchEnd
        /\ batchEnd <= Len(Updates) + 1 /\ DOMAIN attempt[h] = {"phase", "update"}
    BY DEF UpdatesInv, UpdatesTyped
  <1>5. PICK r : r = [attempt[h] EXCEPT !.phase = "answer"]
    OBVIOUS
  <1>6. /\ storedTimes' = [storedTimes EXCEPT ![u] = storedTimes[u] + 1]
        /\ attempt' = [attempt EXCEPT ![h] = r]
        /\ UNCHANGED <<mode, handed, offset, savedOffset, batchEnd, answeredTimes, cutShort, swallowed, unsent>>
    BY <1>2, <1>5 DEF StoreMessage
  <1>7. /\ DOMAIN r = {"phase", "update"} /\ r.phase = "answer" /\ r.update = u /\ Answering(r, u)
        /\ r.phase \in AttemptPhases /\ Updates[u] # "start"
    <2>1. Updates[u] # "start"
      BY <1>1, <1>2 DEF UpdatesInv, UpdatesTyped
    <2> QED
      BY <1>2, <1>4, <1>5, <2>1 DEF Answering, AttemptPhases
  <1>8. /\ storedTimes' \in [UpdateIds -> Nat] /\ storedTimes'[u] = storedTimes[u] + 1 /\ storedTimes'[u] > 0
        /\ \A w \in UpdateIds : w # u => storedTimes'[w] = storedTimes[w]
        /\ \A w \in UpdateIds : storedTimes'[w] >= storedTimes[w] /\ answeredTimes[w] >= answeredTimes[w]
    BY <1>4, <1>6
  <1>9. h = Poller => \A w \in UpdateIds : storedTimes'[w] <= 1
    <2>1. h = Poller => storedTimes[u] = 0 /\ \A w \in UpdateIds : storedTimes[w] <= 1
      BY <1>1, <1>2, <1>3 DEF UpdatesInv, StoredOnce
    <2> QED
      BY <1>8, <2>1
  <1>10. h = Poller => u = offset /\ offset < batchEnd
    BY <1>1, <1>2 DEF UpdatesInv, OneWay
  <1>11. \A w \in UpdateIds : storedTimes'[w] > 0 =>
             storedTimes[w] > 0 \/ (Answering(r, w) /\ Updates[w] # "start")
    BY <1>7, <1>8
  <1> QED
    BY <1>1, <1>3, <1>4, <1>6, <1>7, <1>8, <1>9, <1>10, <1>11, AttemptMoves

LEMMA AnswerKeeps ==
  ASSUME UpdatesInv, NEW h \in Handlers \cup {Poller}, NEW taken \in BOOLEAN, Answer(h, taken)
  PROVE  UpdatesInv'
  <1>1. attempt[h].phase = "answer"
    BY DEF Answer
  <1>2. PICK u \in UpdateIds : u = attempt[h].update
    BY <1>1 DEF UpdatesInv, UpdatesTyped
  <1>3. mode = IF h = Poller THEN "polling" ELSE "webhook"
    BY <1>1, HandlerTellsMode
  <1>4. /\ storedTimes \in [UpdateIds -> Nat] /\ answeredTimes \in [UpdateIds -> Nat]
        /\ batchEnd \in Nat /\ batchEnd <= Len(Updates) + 1
    BY DEF UpdatesInv, UpdatesTyped
  <1>5. PICK r : r = IdleAttempt
    OBVIOUS
  <1>6. /\ attempt' = [attempt EXCEPT ![h] = r] /\ Handled(h, u)
        /\ UNCHANGED <<mode, savedOffset, batchEnd, storedTimes, cutShort, swallowed>>
    BY <1>2, <1>5 DEF Answer
  <1>7. DOMAIN r = {"phase", "update"} /\ r.phase = "idle" /\ r.phase \in AttemptPhases
    BY <1>5 DEF IdleAttempt, AttemptPhases
  <1>8. /\ answeredTimes' \in [UpdateIds -> Nat] /\ unsent \subseteq unsent'
        /\ answeredTimes'[u] > 0 \/ u \in unsent'
        /\ \A w \in UpdateIds : storedTimes[w] >= storedTimes[w] /\ answeredTimes'[w] >= answeredTimes[w]
    <2>1. CASE taken
      <3>1. answeredTimes' = [answeredTimes EXCEPT ![u] = answeredTimes[u] + 1] /\ unsent' = unsent
        BY <1>2, <2>1 DEF Answer
      <3> QED
        BY <1>4, <3>1
    <2>2. CASE ~taken
      <3>1. unsent' = unsent \cup {u} /\ answeredTimes' = answeredTimes
        BY <1>2, <2>2 DEF Answer
      <3> QED
        BY <1>4, <3>1
    <2> QED
      BY <2>1, <2>2
  <1>9. h = Poller => \A w \in UpdateIds : storedTimes[w] <= 1
    BY <1>3 DEF UpdatesInv, StoredOnce
  <1>10. Done(u)'
    <2>1. Updates[u] # "start" => storedTimes[u] > 0
      BY <1>1, <1>2 DEF UpdatesInv, StoredIsAnswered
    <2> QED
      BY <1>6, <1>8, <2>1 DEF Done
  <1>11. /\ \A w \in handed' : w \in handed \/ (w \in UpdateIds /\ Done(w)')
         /\ offset' \in Nat /\ savedOffset <= offset' /\ offset' <= batchEnd'
         /\ h # Poller => offset' = offset
         /\ h = Poller => \A w \in 1 .. offset' - 1 : w \in 1 .. offset - 1 \/ (w \in UpdateIds /\ Done(w)')
    BY <1>1, <1>2, <1>6, <1>10, HandledIs
  <1> QED
    BY <1>1, <1>2, <1>3, <1>4, <1>6, <1>7, <1>8, <1>9, <1>11, AttemptMoves

LEMMA AttemptFailsKeeps ==
  ASSUME UpdatesInv, NEW h \in Handlers \cup {Poller}, AttemptFails(h)
  PROVE  UpdatesInv'
  <1>1. attempt[h].phase # "idle"
    BY DEF AttemptFails
  <1>2. PICK u \in UpdateIds : u = attempt[h].update
    BY <1>1 DEF UpdatesInv, UpdatesTyped
  <1>3. mode = IF h = Poller THEN "polling" ELSE "webhook"
    BY <1>1, HandlerTellsMode
  <1>4. /\ storedTimes \in [UpdateIds -> Nat] /\ answeredTimes \in [UpdateIds -> Nat]
        /\ offset \in Nat /\ batchEnd \in Nat /\ savedOffset <= offset /\ offset <= batchEnd
        /\ batchEnd <= Len(Updates) + 1
    BY DEF UpdatesInv, UpdatesTyped
  <1>5. PICK r : r = IdleAttempt
    OBVIOUS
  <1>6. /\ cutShort' = CutShortBy({h}) /\ attempt' = [attempt EXCEPT ![h] = r]
        /\ UNCHANGED <<mode, savedOffset, storedTimes, answeredTimes, unsent>>
    BY <1>5 DEF AttemptFails
  <1>7. DOMAIN r = {"phase", "update"} /\ r.phase = "idle" /\ r.phase \in AttemptPhases
    BY <1>5 DEF IdleAttempt, AttemptPhases
  <1>8. /\ cutShort \subseteq cutShort'
        /\ attempt[h].phase = "answer" /\ Updates[attempt[h].update] # "start" => attempt[h].update \in cutShort'
    BY <1>6 DEF CutShortBy
  <1>9. /\ \A w \in UpdateIds : storedTimes[w] >= storedTimes[w] /\ answeredTimes[w] >= answeredTimes[w]
        /\ h = Poller => \A w \in UpdateIds : storedTimes[w] <= 1
    BY <1>3, <1>4 DEF UpdatesInv, StoredOnce
  <1>10. CASE Updates[u] = "callback" /\ attempt[h].phase # "acknowledge"
    <2>1. swallowed' = swallowed \cup {u} /\ Handled(h, u) /\ batchEnd' = batchEnd
      BY <1>2, <1>10 DEF AttemptFails
    <2>2. Done(u)'
      BY <2>1 DEF Done
    <2>3. /\ \A w \in handed' : w \in handed \/ (w \in UpdateIds /\ Done(w)')
          /\ offset' \in Nat /\ savedOffset <= offset' /\ offset' <= batchEnd'
          /\ h # Poller => offset' = offset
          /\ h = Poller => \A w \in 1 .. offset' - 1 : w \in 1 .. offset - 1 \/ (w \in UpdateIds /\ Done(w)')
      BY <1>1, <1>2, <2>1, <2>2, HandledIs
    <2>4. swallowed \subseteq swallowed'
      BY <2>1
    <2> QED
      BY <1>3, <1>4, <1>6, <1>7, <1>8, <1>9, <2>1, <2>3, <2>4, AttemptMoves
  <1>11. CASE ~(Updates[u] = "callback" /\ attempt[h].phase # "acknowledge")
    <2>1. batchEnd' = (IF h = Poller THEN offset ELSE batchEnd) /\ UNCHANGED <<swallowed, handed, offset>>
      BY <1>2, <1>11 DEF AttemptFails
    <2>2. batchEnd' \in Nat /\ offset <= batchEnd' /\ batchEnd' <= Len(Updates) + 1
      BY <1>4, <2>1, UpdateIdsAre
    <2> QED
      BY <1>3, <1>4, <1>6, <1>7, <1>8, <1>9, <2>1, <2>2, AttemptMoves
  <1> QED
    BY <1>10, <1>11

\* What is asked for is above what is confirmed.
LEMMA GetUpdatesKeeps ==
  ASSUME UpdatesInv, GetUpdates
  PROVE  UpdatesInv'
  <1>1. /\ mode = "polling" /\ attempt[Poller].phase = "idle" /\ offset = batchEnd
        /\ batchEnd' \in offset .. Len(Updates) + 1 /\ handed' = handed \cup 1 .. offset - 1
        /\ UNCHANGED <<mode, offset, savedOffset, attempt, storedTimes, answeredTimes, cutShort, swallowed, unsent>>
    BY DEF GetUpdates
  <1>2. /\ offset \in Nat /\ batchEnd \in Nat /\ batchEnd <= Len(Updates) + 1
    BY DEF UpdatesInv, UpdatesTyped
  <1>3. 1 .. offset - 1 \subseteq UpdateIds /\ batchEnd' \in Nat /\ offset <= batchEnd' /\ batchEnd' <= Len(Updates) + 1
    BY <1>1, <1>2, UpdateIdsAre
  <1>4. \A u \in 1 .. offset - 1 : Done(u)
    BY <1>1 DEF UpdatesInv, PassedIsDone
  <1>5. ASSUME NEW u, Done(u) PROVE Done(u)'
    BY <1>1, <1>5 DEF Done, Answering
  <1>6. UpdatesTyped'
    BY <1>1, <1>3 DEF UpdatesInv, UpdatesTyped
  <1>7. OneWay' /\ StoredIsAnswered' /\ StoredOnce'
    BY <1>1 DEF UpdatesInv, OneWay, StoredIsAnswered, StoredOnce, Answering
  <1>8. PassedIsDone'
    BY <1>1, <1>4, <1>5 DEF UpdatesInv, PassedIsDone
  <1> QED
    BY <1>6, <1>7, <1>8 DEF UpdatesInv

LEMMA SaveOffsetKeeps ==
  ASSUME UpdatesInv, SaveOffset
  PROVE  UpdatesInv'
  <1>1. /\ savedOffset' = offset /\ savedOffset < offset
        /\ UNCHANGED <<mode, handed, offset, batchEnd, attempt, storedTimes, answeredTimes, cutShort, swallowed, unsent>>
    BY DEF SaveOffset
  <1>2. UpdatesTyped'
    <2>1. offset \in Nat /\ savedOffset \in Nat /\ offset \in Nat \ {0} /\ offset <= offset
      BY <1>1 DEF UpdatesInv, UpdatesTyped
    <2> QED
      BY <1>1, <2>1 DEF UpdatesInv, UpdatesTyped
  <1>3. OneWay' /\ StoredIsAnswered' /\ PassedIsDone' /\ StoredOnce'
    BY <1>1 DEF UpdatesInv, OneWay, StoredIsAnswered, PassedIsDone, StoredOnce, Done, Answering
  <1> QED
    BY <1>2, <1>3 DEF UpdatesInv

LEMMA ChatRestartsKeeps ==
  ASSUME UpdatesInv, ChatRestarts
  PROVE  UpdatesInv'
  <1>1. /\ cutShort' = CutShortBy(DOMAIN attempt) /\ attempt' = [h \in DOMAIN attempt |-> IdleAttempt]
        /\ offset' = savedOffset /\ batchEnd' = savedOffset
        /\ UNCHANGED <<mode, handed, savedOffset, storedTimes, answeredTimes, swallowed, unsent>>
    BY DEF ChatRestarts
  <1>2. DOMAIN attempt = Handlers \cup {Poller}
    BY DEF UpdatesInv, UpdatesTyped
  <1>3. DOMAIN IdleAttempt = {"phase", "update"} /\ IdleAttempt.phase = "idle" /\ IdleAttempt.phase \in AttemptPhases
    BY DEF IdleAttempt, AttemptPhases
  <1>4. /\ cutShort \subseteq cutShort'
        /\ \A h \in Handlers \cup {Poller}, u \in UpdateIds :
              Updates[u] # "start" /\ Answering(attempt[h], u) => u \in cutShort'
    BY <1>1, <1>2 DEF CutShortBy, Answering
  <1>5. UpdatesTyped'
    BY <1>1, <1>2, <1>3 DEF UpdatesInv, UpdatesTyped
  <1>6. OneWay'
    BY <1>1, <1>2, <1>3 DEF UpdatesInv, OneWay
  <1>7. StoredIsAnswered' /\ StoredOnce'
    BY <1>1, <1>2, <1>3, <1>4 DEF UpdatesInv, StoredIsAnswered, StoredOnce, Answering
  <1>8. PassedIsDone'
    <2>1. ASSUME NEW u \in UpdateIds, Done(u) PROVE Done(u)'
      BY <1>1, <1>4, <2>1 DEF Done, Answering
    <2>2. handed \subseteq UpdateIds /\ savedOffset \in Nat /\ offset \in Nat /\ savedOffset <= offset
          /\ 1 .. savedOffset - 1 \subseteq 1 .. offset - 1 /\ 1 .. offset - 1 \subseteq UpdateIds
      BY UpdateIdsAre DEF UpdatesInv, UpdatesTyped
    <2> QED
      BY <1>1, <2>1, <2>2 DEF UpdatesInv, PassedIsDone
  <1> QED
    BY <1>5, <1>6, <1>7, <1>8 DEF UpdatesInv

LEMMA UpdatesStep == UpdatesInv /\ [UpdatesNext]_updateVars => UpdatesInv'
  <1> SUFFICES ASSUME UpdatesInv, [UpdatesNext]_updateVars PROVE UpdatesInv'
    OBVIOUS
  <1>1. CASE UNCHANGED updateVars
    <2>1. UpdatesTyped' /\ OneWay'
      BY <1>1 DEF updateVars, UpdatesInv, UpdatesTyped, OneWay
    <2>2. StoredIsAnswered' /\ PassedIsDone' /\ StoredOnce'
      BY <1>1 DEF updateVars, UpdatesInv, StoredIsAnswered, PassedIsDone, StoredOnce, Done, Answering
    <2> QED
      BY <2>1, <2>2 DEF UpdatesInv
  <1> QED
    BY <1>1, GetUpdatesKeeps, HandleNextKeeps, SaveOffsetKeeps, ChatRestartsKeeps, WebhookKeeps,
       AcknowledgeKeeps, CheckDuplicateKeeps, StoreMessageKeeps, AnswerKeeps, AttemptFailsKeeps DEF UpdatesNext

LEMMA UpdatesInvImplies == UpdatesInv => UpdatesReachTheChat
  <1> SUFFICES ASSUME UpdatesInv PROVE UpdatesReachTheChat
    OBVIOUS
  <1>1. ASSUME NEW u \in handed
        PROVE  /\ Updates[u] # "start" => storedTimes[u] > 0 \/ u \in swallowed
               /\ \/ answeredTimes[u] > 0 \/ u \in cutShort \cup swallowed \cup unsent
                  \/ /\ Updates[u] # "start"
                     /\ \E h \in Handlers : attempt[h].phase = "answer" /\ attempt[h].update = u
    BY DEF UpdatesInv, PassedIsDone, Done, Answering
  <1> QED
    BY <1>1 DEF UpdatesReachTheChat, UpdatesInv, StoredOnce

\* What Telegram has done with is in the chat and is answered, but for callbacks that failed
\* once they were acknowledged, messages whose handling failed after it stored them, and answers
\* that Telegram refused, through restarts and deliveries of one update at once: for every list
\* of updates and number of handlers and failures (telegram-update-handler.service.ts 37-143,
\* telegram-polling.service.ts 53-86, telegram-client.service.ts 99-144).
THEOREM UpdatesArrive == UpdatesSpec => []UpdatesReachTheChat
  <1> QED
    BY UpdatesInvInit, UpdatesStep, UpdatesInvImplies, PTL DEF UpdatesSpec
-------------------------------------------------------------------------------
(* Replies: each is one request's business until it has come.                *)

RepliesSpec == RepliesInit /\ [][RepliesNext]_replyVars

ChatMessage == [sender : {"CUSTOMER", "OPERATOR"}, inChat : BOOLEAN]

RepliesTyped ==
    /\ channel \in {"WEBSITE", "TELEGRAM"}
    /\ message \in Seq(ChatMessage)
    /\ seen \in Seq(Nat) /\ \A i \in 1 .. Len(seen) : seen[i] \in Replies
    /\ replying = [h \in ReplyRequests |-> replying[h]]
    /\ \A h \in ReplyRequests :
          /\ DOMAIN replying[h] = {"phase", "id", "target"}
          /\ replying[h].phase \in {"idle", "store", "deliver", "send"}
          /\ IF replying[h].phase \in {"deliver", "send"} THEN replying[h].id \in Replies
             ELSE replying[h].id = NoMessage

\* No reply is lost from sight.
NoneForgotten ==
    \A m \in Replies :
        \/ m \in missed \/ \E i \in 1 .. Len(seen) : seen[i] = m
        \/ \E h \in ReplyRequests : replying[h].id = m

\* A reply is one request's business, and, unless another was stored meanwhile, the only one.
OneRequestEach ==
    \A g, h \in ReplyRequests :
        g # h /\ replying[g].id # NoMessage =>
            replying[h].id # replying[g].id /\ (replying[h].id = NoMessage \/ repliesCrossed)

\* On Telegram what is on its way comes after what has come, and only once.
ComesAfter ==
    channel = "TELEGRAM" =>
        /\ \A h \in ReplyRequests, i \in 1 .. Len(seen) :
              replying[h].id # NoMessage =>
                  seen[i] < replying[h].id \/ (repliesCrossed /\ seen[i] # replying[h].id)
        /\ \A i, j \in 1 .. Len(seen) : i < j => seen[i] < seen[j] \/ (repliesCrossed /\ seen[i] # seen[j])

QuotesStand ==
    /\ quoted = [m \in 1 .. MaxStored |-> quoted[m]]
    /\ \A m \in 1 .. MaxStored : quoted[m] = NoMessage \/ OnTelegram(quoted[m])

RepliesInv ==
    /\ RepliesTyped /\ NoneForgotten /\ OneRequestEach /\ ComesAfter /\ QuotesStand
    /\ Len(message) <= MaxStored

LEMMA ReplyIds ==
  ASSUME RepliesInv
  PROVE  /\ StoredIds = 1 .. Len(message) /\ Len(message) \in Nat
         /\ Replies \subseteq 1 .. Len(message) /\ Replies \subseteq Nat
         /\ NoMessage \notin Replies
  BY DEF RepliesInv, RepliesTyped, StoredIds, Replies, NoMessage

LEMMA RepliesInvInit == RepliesInit => RepliesInv
  <1> SUFFICES ASSUME RepliesInit PROVE RepliesInv
    OBVIOUS
  <1>1. /\ channel \in {"WEBSITE", "TELEGRAM"}
        /\ message = <<>> /\ message \in Seq(ChatMessage) /\ Len(message) = 0
        /\ seen = <<>> /\ seen \in Seq(Nat) /\ Len(seen) = 0
        /\ quoted = [m \in 1 .. MaxStored |-> NoMessage]
        /\ replying = [h \in ReplyRequests |-> IdleReply]
    BY DEF RepliesInit
  <1>2. /\ DOMAIN IdleReply = {"phase", "id", "target"} /\ IdleReply.phase = "idle"
        /\ IdleReply.id = NoMessage
    BY DEF IdleReply
  <1>3. StoredIds = {} /\ Replies = {}
    BY <1>1 DEF StoredIds, Replies
  <1>4. RepliesTyped
    BY <1>1, <1>2, <1>3 DEF RepliesTyped
  <1>5. NoneForgotten /\ OneRequestEach /\ ComesAfter /\ QuotesStand
    BY <1>1, <1>2, <1>3 DEF NoneForgotten, OneRequestEach, ComesAfter, QuotesStand
  <1> QED
    BY <1>1, <1>4, <1>5, ReplyConstantsOK DEF RepliesInv

\* A message is stored: what was a message in the chat still is, and the replies are the
\* ones before it, and it, if an operator wrote it.
LEMMA MessageStored ==
  ASSUME RepliesInv, NEW m \in ChatMessage, message' = Append(message, m)
  PROVE  /\ message' \in Seq(ChatMessage) /\ Len(message') = Len(message) + 1
         /\ Replies' = IF m.sender = "OPERATOR" THEN Replies \cup {Len(message) + 1} ELSE Replies
         /\ \A n : OnTelegram(n) => OnTelegram(n)'
  <1>1. /\ message \in Seq(ChatMessage) /\ Len(message) \in Nat
        /\ message' \in Seq(ChatMessage) /\ Len(message') = Len(message) + 1
        /\ message'[Len(message) + 1] = m /\ \A n \in 1 .. Len(message) : message'[n] = message[n]
    BY DEF RepliesInv, RepliesTyped
  <1>2. StoredIds = 1 .. Len(message) /\ StoredIds' = 1 .. Len(message) + 1
    BY <1>1 DEF StoredIds
  <1>3. Replies' = IF m.sender = "OPERATOR" THEN Replies \cup {Len(message) + 1} ELSE Replies
    <2>1. StoredIds' = StoredIds \cup {Len(message) + 1} /\ Len(message) + 1 \notin StoredIds
      BY <1>1, <1>2
    <2> QED
      BY <1>1, <1>2, <2>1 DEF Replies
  <1>4. \A n : OnTelegram(n) => OnTelegram(n)'
    BY <1>1, <1>2 DEF OnTelegram
  <1> QED
    BY <1>1, <1>3, <1>4

LEMMA CustomerSendsKeeps ==
  ASSUME RepliesInv, NEW inChat \in BOOLEAN, CustomerSends(inChat)
  PROVE  RepliesInv'
  <1>1. PICK m : m = [sender |-> "CUSTOMER", inChat |-> inChat]
    OBVIOUS
  <1>2. /\ m \in ChatMessage /\ m.sender = "CUSTOMER" /\ message' = Append(message, m)
        /\ Len(message) < MaxStored
        /\ UNCHANGED <<channel, botToken, online, seen, quoted, replying, missed, repliesCrossed>>
    BY <1>1 DEF CustomerSends, ChatMessage
  <1>3. /\ message' \in Seq(ChatMessage) /\ Len(message') = Len(message) + 1
        /\ Replies' = Replies /\ \A n : OnTelegram(n) => OnTelegram(n)'
    BY <1>2, MessageStored
  <1>4. RepliesTyped'
    BY <1>2, <1>3 DEF RepliesInv, RepliesTyped
  <1>5. NoneForgotten' /\ OneRequestEach' /\ ComesAfter'
    BY <1>2, <1>3 DEF RepliesInv, NoneForgotten, OneRequestEach, ComesAfter
  <1>6. QuotesStand'
    BY <1>2, <1>3 DEF RepliesInv, QuotesStand
  <1>7. Len(message') <= MaxStored
    BY <1>2, <1>3, ReplyIds, ReplyConstantsOK
  <1> QED
    BY <1>4, <1>5, <1>6, <1>7 DEF RepliesInv

\* A request goes on with the message it has, or none.
LEMMA RequestGoesOn ==
  ASSUME RepliesInv, NEW h \in ReplyRequests, NEW r, replying' = [replying EXCEPT ![h] = r],
         DOMAIN r = {"phase", "id", "target"}, r.id = replying[h].id,
         r.phase \in {"idle", "store", "deliver", "send"},
         IF r.phase \in {"deliver", "send"} THEN r.id \in Replies ELSE r.id = NoMessage,
         UNCHANGED <<channel, message, seen, missed, repliesCrossed>>
  PROVE  RepliesTyped' /\ NoneForgotten' /\ OneRequestEach' /\ ComesAfter'
  <1>1. /\ replying' = [g \in ReplyRequests |-> replying'[g]] /\ replying'[h] = r
        /\ \A g \in ReplyRequests \ {h} : replying'[g] = replying[g]
    BY DEF RepliesInv, RepliesTyped
  <1>2. \A g \in ReplyRequests : replying'[g].id = replying[g].id
    BY <1>1
  <1>3. Replies' = Replies
    BY DEF Replies, StoredIds
  <1>4. RepliesTyped'
    BY <1>1, <1>3 DEF RepliesInv, RepliesTyped
  <1>5. NoneForgotten' /\ OneRequestEach' /\ ComesAfter'
    BY <1>2, <1>3 DEF RepliesInv, NoneForgotten, OneRequestEach, ComesAfter
  <1> QED
    BY <1>4, <1>5

LEMMA HandleReplyKeeps ==
  ASSUME RepliesInv, NEW h \in ReplyRequests, NEW target, HandleReply(h, target)
  PROVE  RepliesInv'
  <1>1. PICK r : r = [IdleReply EXCEPT !.phase = "store", !.target = target]
    OBVIOUS
  <1>2. /\ replying[h].phase = "idle" /\ replying' = [replying EXCEPT ![h] = r]
        /\ UNCHANGED <<channel, message, seen, quoted, missed, repliesCrossed>>
    BY <1>1 DEF HandleReply
  <1>3. DOMAIN r = {"phase", "id", "target"} /\ r.phase = "store" /\ r.id = NoMessage
    BY <1>1 DEF IdleReply
  <1>4. replying[h].id = NoMessage
    BY <1>2 DEF RepliesInv, RepliesTyped
  <1>5. RepliesTyped' /\ NoneForgotten' /\ OneRequestEach' /\ ComesAfter'
    BY <1>2, <1>3, <1>4, RequestGoesOn
  <1>6. QuotesStand' /\ Len(message') <= MaxStored
    BY <1>2 DEF RepliesInv, QuotesStand, OnTelegram, StoredIds
  <1> QED
    BY <1>5, <1>6 DEF RepliesInv

LEMMA StoreReplyKeeps ==
  ASSUME RepliesInv, NEW h \in ReplyRequests, StoreReply(h)
  PROVE  RepliesInv'
  <1> DEFINE id == Len(message) + 1
  <1>1. PICK w : w = [sender |-> "OPERATOR", inChat |-> FALSE]
    OBVIOUS
  <1>2. /\ w \in ChatMessage /\ w.sender = "OPERATOR" /\ message' = Append(message, w)
        /\ replying[h].phase = "store" /\ Len(message) < MaxStored
        /\ replying' = [replying EXCEPT ![h].phase = "deliver", ![h].id = id]
        /\ UNCHANGED <<channel, botToken, online, seen, quoted, missed>>
    BY <1>1 DEF StoreReply, ChatMessage
  <1>3. /\ message' \in Seq(ChatMessage) /\ Len(message') = id
        /\ Replies' = Replies \cup {id} /\ \A n : OnTelegram(n) => OnTelegram(n)'
    BY <1>2, MessageStored
  <1>4. /\ Len(message) \in Nat /\ id \in Nat /\ id # NoMessage
        /\ Replies \subseteq Nat /\ \A n \in Replies : n < id
    BY ReplyIds DEF NoMessage
  <1>5. repliesCrossed' = (repliesCrossed \/ \E g \in ReplyRequests : replying[g].id # NoMessage)
    BY DEF StoreReply
  <1>6. repliesCrossed' \/ (~repliesCrossed /\ \A g \in ReplyRequests : replying[g].id = NoMessage)
    BY <1>5, Zenon
  <1>7. repliesCrossed => repliesCrossed'
    BY <1>5, Zenon
  <1> HIDE DEF id
  <1>8. /\ replying' = [g \in ReplyRequests |-> replying'[g]]
        /\ DOMAIN replying'[h] = {"phase", "id", "target"}
        /\ replying'[h].phase = "deliver" /\ replying'[h].id = id
        /\ \A g \in ReplyRequests \ {h} : replying'[g] = replying[g]
    BY <1>2 DEF RepliesInv, RepliesTyped
  <1>9. replying[h].id = NoMessage
    BY <1>2 DEF RepliesInv, RepliesTyped
  <1>10. RepliesTyped'
    BY <1>2, <1>3, <1>8 DEF RepliesInv, RepliesTyped
  <1>11. NoneForgotten'
    <2>1. ASSUME NEW m \in Replies
          PROVE  \/ m \in missed \/ \E i \in 1 .. Len(seen) : seen[i] = m
                 \/ \E g \in ReplyRequests : replying'[g].id = m
      <3>1. \/ m \in missed \/ \E i \in 1 .. Len(seen) : seen[i] = m
            \/ \E g \in ReplyRequests : replying[g].id = m
        BY DEF RepliesInv, NoneForgotten
      <3>2. ASSUME NEW g \in ReplyRequests, replying[g].id = m PROVE replying'[g].id = m
        BY <1>8, <1>9, <3>2, ReplyIds
      <3> QED
        BY <3>1, <3>2
    <2>2. replying'[h].id = id
      BY <1>8
    <2> QED
      BY <1>2, <1>3, <2>1, <2>2 DEF NoneForgotten
  <1>12. ASSUME NEW g \in ReplyRequests PROVE replying[g].id # id
    BY <1>4, <1>12 DEF RepliesInv, RepliesTyped
  <1>13. OneRequestEach'
    <2> SUFFICES ASSUME NEW f \in ReplyRequests, NEW g \in ReplyRequests, f # g, replying'[f].id # NoMessage
                 PROVE  replying'[g].id # replying'[f].id /\ (replying'[g].id = NoMessage \/ repliesCrossed')
      BY DEF OneRequestEach
    <2>1. CASE f = h
      <3>1. replying'[g] = replying[g] /\ replying'[f].id = id
        BY <1>8, <2>1
      <3>2. replying[g].id # id
        BY <1>12
      <3>3. replying[g].id = NoMessage \/ repliesCrossed'
        BY <1>6
      <3> QED
        BY <3>1, <3>2, <3>3
    <2>2. CASE g = h
      <3>1. replying'[f] = replying[f] /\ replying'[g].id = id /\ replying[f].id # id
        BY <1>8, <1>12, <2>2
      <3>2. repliesCrossed'
        BY <1>6, <3>1
      <3> QED
        BY <3>1, <3>2
    <2>3. CASE f # h /\ g # h
      <3>1. replying'[f] = replying[f] /\ replying'[g] = replying[g]
        BY <1>8, <2>3
      <3>2. replying[g].id # replying[f].id /\ (replying[g].id = NoMessage \/ repliesCrossed)
        BY <3>1 DEF RepliesInv, OneRequestEach
      <3> QED
        BY <1>7, <3>1, <3>2
    <2> QED
      BY <2>1, <2>2, <2>3
  <1>14. ComesAfter'
    <2> SUFFICES ASSUME channel = "TELEGRAM"
                 PROVE  /\ \A g \in ReplyRequests, i \in 1 .. Len(seen) :
                              replying'[g].id # NoMessage =>
                                 seen[i] < replying'[g].id \/ (repliesCrossed' /\ seen[i] # replying'[g].id)
                        /\ \A i, j \in 1 .. Len(seen) :
                              i < j => seen[i] < seen[j] \/ (repliesCrossed' /\ seen[i] # seen[j])
      BY <1>2 DEF ComesAfter
    <2>1. ASSUME NEW g \in ReplyRequests, NEW i \in 1 .. Len(seen), replying'[g].id # NoMessage
          PROVE  seen[i] < replying'[g].id \/ (repliesCrossed' /\ seen[i] # replying'[g].id)
      <3>1. CASE g = h
        <4>1. seen[i] < id
          BY <1>4 DEF RepliesInv, RepliesTyped
        <4> QED
          BY <1>8, <3>1, <4>1
      <3>2. CASE g # h
        <4>1. replying'[g] = replying[g]
          BY <1>8, <3>2
        <4>2. seen[i] < replying[g].id \/ (repliesCrossed /\ seen[i] # replying[g].id)
          BY <2>1, <4>1 DEF RepliesInv, ComesAfter
        <4> QED
          BY <1>7, <4>1, <4>2
      <3> QED
        BY <3>1, <3>2
    <2>2. \A i, j \in 1 .. Len(seen) : i < j => seen[i] < seen[j] \/ (repliesCrossed' /\ seen[i] # seen[j])
      BY <1>7 DEF RepliesInv, ComesAfter
    <2> QED
      BY <2>1, <2>2
  <1>15. QuotesStand'
    BY <1>2, <1>3 DEF RepliesInv, QuotesStand
  <1>16. Len(message') <= MaxStored
    BY <1>2, <1>3, <1>4, ReplyConstantsOK DEF id
  <1> QED
    BY <1>10, <1>11, <1>13, <1>14, <1>15, <1>16 DEF RepliesInv

\* A request is over: its reply has come, or is missed, unless it had none yet.
LEMMA RequestEnds ==
  ASSUME RepliesInv, NEW h \in ReplyRequests, replying' = [replying EXCEPT ![h] = IdleReply],
         UNCHANGED <<channel, message, quoted, repliesCrossed>>,
         missed \subseteq missed',
         \/ seen' = seen /\ (replying[h].id = NoMessage \/ replying[h].id \in missed')
         \/ replying[h].id # NoMessage /\ seen' = Append(seen, replying[h].id)
  PROVE  RepliesInv'
  <1> DEFINE id == replying[h].id
  <1>1. /\ DOMAIN IdleReply = {"phase", "id", "target"} /\ IdleReply.phase = "idle"
        /\ IdleReply.id = NoMessage
    BY DEF IdleReply
  <1>2. /\ replying' = [g \in ReplyRequests |-> replying'[g]] /\ replying'[h] = IdleReply
        /\ \A g \in ReplyRequests \ {h} : replying'[g] = replying[g]
    BY DEF RepliesInv, RepliesTyped
  <1>3. Replies' = Replies /\ Replies \subseteq Nat /\ NoMessage \notin Replies
    BY ReplyIds DEF Replies, StoredIds
  <1>4. id # NoMessage => id \in Replies /\ id \in Nat
    BY <1>3 DEF RepliesInv, RepliesTyped
  <1>5. seen \in Seq(Nat) /\ \A i \in 1 .. Len(seen) : seen[i] \in Replies
    BY DEF RepliesInv, RepliesTyped
  <1>6. \/ seen' = seen /\ (id = NoMessage \/ id \in missed')
        \/ id # NoMessage /\ seen' = Append(seen, id)
    OBVIOUS
  <1> HIDE DEF id
  <1>7. /\ seen' \in Seq(Nat) /\ \A i \in 1 .. Len(seen) : i \in 1 .. Len(seen') /\ seen'[i] = seen[i]
        /\ \A i \in 1 .. Len(seen') : i \in 1 .. Len(seen) \/ (id # NoMessage /\ i = Len(seen) + 1 /\ seen'[i] = id)
        /\ id = NoMessage \/ id \in missed' \/ \E i \in 1 .. Len(seen') : seen'[i] = id
    <2>1. CASE seen' = seen /\ (id = NoMessage \/ id \in missed')
      BY <1>5, <2>1
    <2>2. CASE id # NoMessage /\ seen' = Append(seen, id)
      BY <1>4, <1>5, <2>2
    <2> QED
      BY <1>6, <2>1, <2>2
  <1>8. \A i \in 1 .. Len(seen') : seen'[i] \in Replies
    BY <1>4, <1>5, <1>7
  <1>9. RepliesTyped'
    BY <1>1, <1>2, <1>3, <1>7, <1>8 DEF RepliesInv, RepliesTyped
  <1>10. NoneForgotten'
    <2> SUFFICES ASSUME NEW m \in Replies
                 PROVE  \/ m \in missed' \/ \E i \in 1 .. Len(seen') : seen'[i] = m
                        \/ \E g \in ReplyRequests : replying'[g].id = m
      BY <1>3 DEF NoneForgotten
    <2>1. \/ m \in missed \/ \E i \in 1 .. Len(seen) : seen[i] = m
          \/ \E g \in ReplyRequests : replying[g].id = m
      BY DEF RepliesInv, NoneForgotten
    <2>2. CASE m = id
      BY <1>3, <1>7, <2>2
    <2>3. CASE m # id
      BY <1>2, <1>7, <2>1, <2>3 DEF id
    <2> QED
      BY <2>2, <2>3
  <1>11. OneRequestEach'
    BY <1>1, <1>2 DEF RepliesInv, OneRequestEach
  <1>12. ComesAfter'
    <2> SUFFICES ASSUME channel = "TELEGRAM"
                 PROVE  /\ \A g \in ReplyRequests, i \in 1 .. Len(seen') :
                              replying'[g].id # NoMessage =>
                                 seen'[i] < replying'[g].id \/ (repliesCrossed /\ seen'[i] # replying'[g].id)
                        /\ \A i, j \in 1 .. Len(seen') :
                              i < j => seen'[i] < seen'[j] \/ (repliesCrossed /\ seen'[i] # seen'[j])
      BY DEF ComesAfter
    <2>1. /\ \A g \in ReplyRequests, i \in 1 .. Len(seen) :
                replying[g].id # NoMessage => seen[i] < replying[g].id \/ (repliesCrossed /\ seen[i] # replying[g].id)
          /\ \A i, j \in 1 .. Len(seen) : i < j => seen[i] < seen[j] \/ (repliesCrossed /\ seen[i] # seen[j])
      BY DEF RepliesInv, ComesAfter
    <2>2. ASSUME NEW g \in ReplyRequests, NEW i \in 1 .. Len(seen'), replying'[g].id # NoMessage
          PROVE  seen'[i] < replying'[g].id \/ (repliesCrossed /\ seen'[i] # replying'[g].id)
      <3>1. g # h /\ replying'[g] = replying[g]
        BY <1>1, <1>2, <2>2
      <3>2. CASE i \in 1 .. Len(seen)
        BY <1>7, <2>1, <2>2, <3>1, <3>2
      <3>3. CASE id # NoMessage /\ seen'[i] = id
        <4>1. replying[g].id # id /\ repliesCrossed
          BY <2>2, <3>1, <3>3 DEF RepliesInv, OneRequestEach, id
        <4> QED
          BY <3>1, <3>3, <4>1
      <3> QED
        BY <1>7, <3>2, <3>3
    <2>3. ASSUME NEW i \in 1 .. Len(seen'), NEW j \in 1 .. Len(seen'), i < j
          PROVE  seen'[i] < seen'[j] \/ (repliesCrossed /\ seen'[i] # seen'[j])
      <3>1. i \in 1 .. Len(seen)
        <4>1. Len(seen) \in Nat /\ Len(seen') \in Nat
          BY <1>5, <1>7
        <4> QED
          BY <1>7, <2>3, <4>1
      <3>2. CASE j \in 1 .. Len(seen)
        BY <1>7, <2>1, <2>3, <3>1, <3>2
      <3>3. CASE id # NoMessage /\ seen'[j] = id
        <4>1. seen[i] < id \/ (repliesCrossed /\ seen[i] # id)
          BY <2>1, <3>1, <3>3 DEF id
        <4> QED
          BY <1>7, <3>1, <3>3, <4>1
      <3> QED
        BY <1>7, <3>2, <3>3
    <2> QED
      BY <2>2, <2>3
  <1>13. QuotesStand' /\ Len(message') <= MaxStored
    BY DEF RepliesInv, QuotesStand, OnTelegram, StoredIds
  <1> QED
    BY <1>9, <1>10, <1>11, <1>12, <1>13 DEF RepliesInv

LEMMA EmitKeeps ==
  ASSUME RepliesInv, NEW h \in ReplyRequests, EmitReply(h)
  PROVE  RepliesInv'
  <1>1. /\ replying[h].phase = "deliver" /\ replying' = [replying EXCEPT ![h] = IdleReply]
        /\ UNCHANGED <<channel, message, quoted, repliesCrossed>>
        /\ \/ seen' = Append(seen, replying[h].id) /\ missed' = missed
           \/ missed' = missed \cup {replying[h].id} /\ seen' = seen
    BY DEF EmitReply
  <1>2. replying[h].id # NoMessage
    BY <1>1, ReplyIds DEF RepliesInv, RepliesTyped
  <1> QED
    BY <1>1, <1>2, RequestEnds

LEMMA SendKeeps ==
  ASSUME RepliesInv, NEW h \in ReplyRequests, NEW taken \in BOOLEAN, SendMessage(h, taken)
  PROVE  RepliesInv'
  <1>1. /\ replying[h].phase = "send" /\ replying' = [replying EXCEPT ![h] = IdleReply]
        /\ UNCHANGED <<channel, message, quoted, repliesCrossed>>
        /\ \/ seen' = Append(seen, replying[h].id) /\ missed' = missed
           \/ missed' = missed \cup {replying[h].id} /\ seen' = seen
    BY DEF SendMessage
  <1>2. replying[h].id # NoMessage
    BY <1>1, ReplyIds DEF RepliesInv, RepliesTyped
  <1> QED
    BY <1>1, <1>2, RequestEnds

LEMMA ReplyFailsKeeps ==
  ASSUME RepliesInv, NEW h \in ReplyRequests, ReplyFails(h)
  PROVE  RepliesInv'
  <1>1. /\ replying' = [replying EXCEPT ![h] = IdleReply] /\ UNCHANGED <<channel, message, seen, quoted, repliesCrossed>>
        /\ missed' = IF replying[h].id = NoMessage THEN missed ELSE missed \cup {replying[h].id}
    BY DEF ReplyFails
  <1> QED
    BY <1>1, RequestEnds

LEMMA QuoteKeeps ==
  ASSUME RepliesInv, NEW h \in ReplyRequests, QuoteMessage(h)
  PROVE  RepliesInv'
  <1>1. replying[h].phase = "deliver"
    BY DEF QuoteMessage
  <1>2. replying[h].id \in Replies
    BY <1>1 DEF RepliesInv, RepliesTyped
  <1>3. CASE botToken
    <2>1. PICK r : r = [replying[h] EXCEPT !.phase = "send"]
      OBVIOUS
    <2>2. PICK n : n = ReplyTarget(replying[h].target)
      OBVIOUS
    <2>3. /\ quoted' = [quoted EXCEPT ![replying[h].id] = n]
          /\ replying' = [replying EXCEPT ![h] = r]
          /\ UNCHANGED <<channel, message, seen, missed, repliesCrossed>>
      BY <1>3, <2>1, <2>2 DEF QuoteMessage
    <2>4. /\ DOMAIN r = {"phase", "id", "target"} /\ r.phase = "send" /\ r.id = replying[h].id
      BY <2>1 DEF RepliesInv, RepliesTyped
    <2>5. RepliesTyped' /\ NoneForgotten' /\ OneRequestEach' /\ ComesAfter'
      BY <1>2, <2>3, <2>4, RequestGoesOn
    <2>6. n = NoMessage \/ OnTelegram(n)
      BY <2>2 DEF ReplyTarget
    <2>7. \A m : OnTelegram(m) <=> OnTelegram(m)'
      BY <2>3 DEF OnTelegram, StoredIds
    <2>8. QuotesStand'
      BY <2>3, <2>6, <2>7 DEF RepliesInv, QuotesStand
    <2>9. Len(message') <= MaxStored
      BY <2>3 DEF RepliesInv
    <2> QED
      BY <2>5, <2>8, <2>9 DEF RepliesInv
  <1>4. CASE ~botToken
    <2>1. /\ missed' = missed \cup {replying[h].id} /\ replying' = [replying EXCEPT ![h] = IdleReply]
          /\ UNCHANGED <<channel, message, seen, quoted, repliesCrossed>>
      BY <1>4 DEF QuoteMessage
    <2> QED
      BY <2>1, RequestEnds
  <1> QED
    BY <1>3, <1>4

LEMMA ConnectionKeeps ==
  ASSUME RepliesInv, HandleConnection \/ UNCHANGED replyVars
  PROVE  RepliesInv'
  <1>1. UNCHANGED <<channel, message, seen, quoted, replying, missed, repliesCrossed>>
    BY DEF HandleConnection, replyVars
  <1>2. Replies' = Replies /\ \A m : OnTelegram(m)' <=> OnTelegram(m)
    BY <1>1 DEF Replies, StoredIds, OnTelegram
  <1>3. RepliesTyped' /\ NoneForgotten'
    BY <1>1, <1>2 DEF RepliesInv, RepliesTyped, NoneForgotten
  <1>4. OneRequestEach' /\ ComesAfter' /\ QuotesStand' /\ Len(message') <= MaxStored
    BY <1>1, <1>2 DEF RepliesInv, OneRequestEach, ComesAfter, QuotesStand
  <1> QED
    BY <1>3, <1>4 DEF RepliesInv

LEMMA HistoryKeeps ==
  ASSUME RepliesInv, GetHistory
  PROVE  RepliesInv'
  <1>1. /\ channel = "WEBSITE" /\ missed' = {}
        /\ UNCHANGED <<channel, message, quoted, replying, repliesCrossed>>
        /\ seen' \in [1 .. Cardinality(Replies) -> Replies] /\ Range(seen') = Replies
    BY DEF GetHistory
  <1>2. Cardinality(Replies) \in Nat
    <2>1. IsFiniteSet(1 .. Len(message))
      BY ReplyIds, FS_Interval
    <2>2. IsFiniteSet(Replies)
      BY <2>1, ReplyIds, FS_Subset
    <2> QED
      BY <2>2, FS_CardinalityType
  <1>3. Replies' = Replies
    BY <1>1 DEF Replies, StoredIds
  <1>4. /\ seen' \in Seq(Nat) /\ \A i \in 1 .. Len(seen') : seen'[i] \in Replies
        /\ \A m \in Replies : \E i \in 1 .. Len(seen') : seen'[i] = m
    <2>1. Len(seen') = Cardinality(Replies) /\ seen' \in Seq(Nat) /\ DOMAIN seen' = 1 .. Len(seen')
      BY <1>1, <1>2, ReplyIds
    <2> QED
      BY <1>1, <2>1 DEF Range
  <1>5. RepliesTyped' /\ NoneForgotten'
    BY <1>1, <1>3, <1>4 DEF RepliesInv, RepliesTyped, NoneForgotten
  <1>6. OneRequestEach' /\ ComesAfter'
    BY <1>1 DEF RepliesInv, OneRequestEach, ComesAfter
  <1>7. QuotesStand' /\ Len(message') <= MaxStored
    BY <1>1 DEF RepliesInv, QuotesStand, OnTelegram, StoredIds
  <1> QED
    BY <1>5, <1>6, <1>7 DEF RepliesInv

LEMMA RepliesStep == RepliesInv /\ [RepliesNext]_replyVars => RepliesInv'
  BY CustomerSendsKeeps, HandleReplyKeeps, StoreReplyKeeps, EmitKeeps, QuoteKeeps, ReplyFailsKeeps,
     SendKeeps, ConnectionKeeps, HistoryKeeps DEF RepliesNext

LEMMA RepliesInvImplies == RepliesInv => RepliesReachTheCustomer
  <1> SUFFICES ASSUME RepliesInv PROVE RepliesReachTheCustomer
    OBVIOUS
  <1>1. DOMAIN seen = 1 .. Len(seen) /\ \A i \in 1 .. Len(seen) : seen[i] \in Range(seen)
    BY DEF RepliesInv, RepliesTyped, Range
  <1>2. \A m \in Replies : m \in Range(seen) \cup missed \/ \E h \in ReplyRequests : replying[h].id = m
    BY <1>1 DEF RepliesInv, NoneForgotten
  <1>3. channel = "TELEGRAM" =>
          \A i, j \in DOMAIN seen : i < j => seen[i] < seen[j] \/ (repliesCrossed /\ seen[i] # seen[j])
    BY <1>1 DEF RepliesInv, ComesAfter
  <1>4. \A m \in Replies : quoted[m] = NoMessage \/ OnTelegram(quoted[m])
    <2>1. Replies \subseteq 1 .. MaxStored
      BY ReplyIds, ReplyConstantsOK DEF RepliesInv
    <2> QED
      BY <2>1 DEF RepliesInv, QuotesStand
  <1> QED
    BY <1>2, <1>3, <1>4 DEF RepliesReachTheCustomer

\* What operators write the customer has, is about to get or has missed by a failure; on
\* Telegram it comes once and in order, and quotes what is a message there: for any number
\* of messages and requests (outbound-delivery.service.ts 31-99).
THEOREM RepliesArrive == RepliesSpec => []RepliesReachTheCustomer
  <1> QED
    BY RepliesInvInit, RepliesStep, RepliesInvImplies, PTL DEF RepliesSpec
-------------------------------------------------------------------------------
(* The types of these parts.                                                *)

\* A customer's conversations are few, and of a status of the schema.
THEOREM ConversationsTypes == ConversationsSpec => []ConversationsTypeOK
  <1>1. ConversationsInv => ConversationsTypeOK
    BY DEF ConversationsInv, ConversationsTypeOK
  <1> QED
    BY <1>1, ConversationsInvInit, ConversationsStep, PTL DEF ConversationsSpec

\* The attempts that are answering an update.
Answerers(u) == {h \in Handlers \cup {Poller} : Answering(attempt[h], u)}

\* A message is answered, and being answered, as often as it was stored at most.
AnswerFollows(u) ==
    /\ IsFiniteSet(Answerers(u))
    /\ Updates[u] = "start" \/ answeredTimes[u] + Cardinality(Answerers(u)) <= storedTimes[u]

LEMMA AnswererMoves ==
  ASSUME UpdatesInv, NEW h \in Handlers \cup {Poller}, NEW r, attempt' = [attempt EXCEPT ![h] = r],
         NEW u
  PROVE  Answerers(u)' = IF Answering(r, u) THEN Answerers(u) \cup {h} ELSE Answerers(u) \ {h}
  <1>1. attempt'[h] = r /\ \A g \in (Handlers \cup {Poller}) \ {h} : attempt'[g] = attempt[g]
    BY DEF UpdatesInv, UpdatesTyped
  <1> QED
    BY <1>1 DEF Answerers, Answering

\* Nobody more answers.
LEMMA AnswersStay ==
  ASSUME UpdatesInv, NEW u \in UpdateIds, AnswerFollows(u), Answerers(u)' \subseteq Answerers(u),
         answeredTimes'[u] = answeredTimes[u], storedTimes'[u] = storedTimes[u]
  PROVE  AnswerFollows(u)'
  <1>1. /\ IsFiniteSet(Answerers(u)') /\ Cardinality(Answerers(u)') \in Nat
        /\ Cardinality(Answerers(u)) \in Nat /\ Cardinality(Answerers(u)') <= Cardinality(Answerers(u))
    BY FS_Subset, FS_CardinalityType DEF AnswerFollows
  <1>2. PICK n : n = Cardinality(Answerers(u))
    OBVIOUS
  <1>3. PICK m : m = Cardinality(Answerers(u)')
    OBVIOUS
  <1>4. m \in Nat /\ n \in Nat /\ m <= n /\ answeredTimes[u] \in Nat /\ storedTimes[u] \in Nat
    BY <1>1, <1>2, <1>3 DEF UpdatesInv, UpdatesTyped
  <1>5. Updates[u] = "start" \/ answeredTimes[u] + n <= storedTimes[u]
    BY <1>2 DEF AnswerFollows
  <1>6. Updates[u] = "start" \/ answeredTimes'[u] + m <= storedTimes'[u]
    BY <1>4, <1>5
  <1>7. Updates[u] = "start" \/ answeredTimes'[u] + Cardinality(Answerers(u)') <= storedTimes'[u]
    BY <1>3, <1>6
  <1> QED
    BY <1>1, <1>7 DEF AnswerFollows

LEMMA AnswerFollowsInit == UpdatesInit => \A u \in UpdateIds : AnswerFollows(u)
  <1> SUFFICES ASSUME UpdatesInit, NEW u \in UpdateIds PROVE AnswerFollows(u)
    OBVIOUS
  <1>1. Answerers(u) = {} /\ answeredTimes[u] = 0 /\ storedTimes[u] = 0
    BY DEF Answerers, Answering, UpdatesInit, IdleAttempt
  <1>2. Cardinality({}) = 0 /\ IsFiniteSet({})
    BY FS_EmptySet
  <1> QED
    BY <1>1, <1>2 DEF AnswerFollows

\* An attempt on an update begins.
LEMMA AnswerStarts ==
  ASSUME UpdatesInv, NEW h \in Handlers \cup {Poller}, NEW w \in UpdateIds, Started(h, w),
         UNCHANGED <<storedTimes, answeredTimes>>, NEW u \in UpdateIds, AnswerFollows(u)
  PROVE  AnswerFollows(u)'
  <1>1. PICK r : r = [phase |-> FirstPhase[Updates[w]], update |-> w]
    OBVIOUS
  <1>2. Answerers(u)' = IF Answering(r, u) THEN Answerers(u) \cup {h} ELSE Answerers(u) \ {h}
    BY <1>1, AnswererMoves DEF Started
  <1>3. CASE ~Answering(r, u)
    BY <1>2, <1>3, AnswersStay
  <1>4. CASE Answering(r, u)
    <2>1. Updates[u] = "start"
      BY <1>1, <1>4, StartedIs DEF Answering
    <2>2. IsFiniteSet(Answerers(u)')
      BY <1>2, <1>4, FS_AddElement DEF AnswerFollows
    <2> QED
      BY <2>1, <2>2 DEF AnswerFollows
  <1> QED
    BY <1>3, <1>4

\* An attempt goes on without answering.
LEMMA AnswerEnds ==
  ASSUME UpdatesInv, NEW h \in Handlers \cup {Poller}, NEW r, attempt' = [attempt EXCEPT ![h] = r],
         r.phase # "answer", UNCHANGED <<storedTimes, answeredTimes>>, NEW u \in UpdateIds, AnswerFollows(u)
  PROVE  AnswerFollows(u)'
  <1>1. ~Answering(r, u)
    BY DEF Answering
  <1>2. Answerers(u)' = IF Answering(r, u) THEN Answerers(u) \cup {h} ELSE Answerers(u) \ {h}
    BY AnswererMoves
  <1>3. answeredTimes'[u] = answeredTimes[u] /\ storedTimes'[u] = storedTimes[u]
    OBVIOUS
  <1> QED
    BY <1>1, <1>2, <1>3, AnswersStay

LEMMA StoreFollows ==
  ASSUME UpdatesInv, NEW h \in Handlers \cup {Poller}, StoreMessage(h), NEW u \in UpdateIds, AnswerFollows(u)
  PROVE  AnswerFollows(u)'
  <1>1. PICK w : w = attempt[h].update
    OBVIOUS
  <1>2. w \in UpdateIds /\ attempt[h].phase = "store" /\ DOMAIN attempt[h] = {"phase", "update"}
    BY <1>1 DEF StoreMessage, UpdatesInv, UpdatesTyped
  <1>3. PICK r : r = [attempt[h] EXCEPT !.phase = "answer"]
    OBVIOUS
  <1>4. r.phase = "answer" /\ r.update = w
    BY <1>1, <1>2, <1>3
  <1>5. Answerers(u)' = IF u = w THEN Answerers(u) \cup {h} ELSE Answerers(u) \ {h}
    <2>1. attempt' = [attempt EXCEPT ![h] = r]
      BY <1>3 DEF StoreMessage
    <2>2. Answering(r, u) <=> u = w
      BY <1>4 DEF Answering
    <2> QED
      BY <2>1, <2>2, AnswererMoves
  <1>6. /\ answeredTimes'[u] = answeredTimes[u] /\ answeredTimes[u] \in Nat /\ storedTimes[u] \in Nat
        /\ storedTimes'[u] = IF u = w THEN storedTimes[u] + 1 ELSE storedTimes[u]
    BY <1>1, <1>2 DEF StoreMessage, UpdatesInv, UpdatesTyped
  <1>7. CASE u # w
    BY <1>5, <1>6, <1>7, AnswersStay
  <1>8. CASE u = w
    <2>1. h \notin Answerers(u)
      BY <1>2 DEF Answerers, Answering
    <2>2. PICK n : n = Cardinality(Answerers(u))
      OBVIOUS
    <2>3. n \in Nat
      BY <2>2, FS_CardinalityType DEF AnswerFollows
    <2>4. IsFiniteSet(Answerers(u)') /\ Cardinality(Answerers(u)') = n + 1
      BY <1>5, <1>8, <2>1, <2>2, FS_AddElement DEF AnswerFollows
    <2>5. Updates[u] = "start" \/ answeredTimes[u] + n <= storedTimes[u]
      BY <2>2 DEF AnswerFollows
    <2>6. Updates[u] = "start" \/ answeredTimes'[u] + (n + 1) <= storedTimes'[u]
      BY <1>6, <1>8, <2>3, <2>5
    <2> QED
      BY <2>4, <2>6 DEF AnswerFollows
  <1> QED
    BY <1>7, <1>8

LEMMA AnswerFollowed ==
  ASSUME UpdatesInv, NEW h \in Handlers \cup {Poller}, NEW taken \in BOOLEAN, Answer(h, taken),
         NEW u \in UpdateIds, AnswerFollows(u)
  PROVE  AnswerFollows(u)'
  <1>1. PICK w : w = attempt[h].update
    OBVIOUS
  <1>2. w \in UpdateIds /\ attempt[h].phase = "answer"
    BY <1>1 DEF Answer, UpdatesInv, UpdatesTyped
  <1>3. Answerers(u)' = Answerers(u) \ {h}
    <2>1. PICK r : r = IdleAttempt
      OBVIOUS
    <2>2. attempt' = [attempt EXCEPT ![h] = r] /\ ~Answering(r, u)
      BY <2>1 DEF Answer, IdleAttempt, Answering
    <2> QED
      BY <2>2, AnswererMoves
  <1>4. /\ storedTimes'[u] = storedTimes[u] /\ answeredTimes[u] \in Nat /\ storedTimes[u] \in Nat
        /\ answeredTimes'[u] = IF taken /\ u = w THEN answeredTimes[u] + 1 ELSE answeredTimes[u]
    BY <1>1, <1>2 DEF Answer, UpdatesInv, UpdatesTyped
  <1>5. CASE u # w
    BY <1>3, <1>4, <1>5, AnswersStay
  <1>6. CASE u = w
    <2>1. h \in Answerers(u)
      BY <1>1, <1>2, <1>6 DEF Answerers, Answering
    <2>2. PICK n : n = Cardinality(Answerers(u))
      OBVIOUS
    <2>3. n \in Nat
      BY <2>2, FS_CardinalityType DEF AnswerFollows
    <2>4. IsFiniteSet(Answerers(u)') /\ Cardinality(Answerers(u)') = n - 1
      BY <1>3, <2>1, <2>2, FS_RemoveElement DEF AnswerFollows
    <2>5. Updates[u] = "start" \/ answeredTimes[u] + n <= storedTimes[u]
      BY <2>2 DEF AnswerFollows
    <2>6. Updates[u] = "start" \/ answeredTimes'[u] + (n - 1) <= storedTimes'[u]
      BY <1>4, <1>6, <2>3, <2>5
    <2> QED
      BY <2>4, <2>6 DEF AnswerFollows
  <1> QED
    BY <1>5, <1>6

LEMMA AnswerFollowsStep ==
  UpdatesInv /\ (\A u \in UpdateIds : AnswerFollows(u)) /\ [UpdatesNext]_updateVars
      => (\A u \in UpdateIds : AnswerFollows(u))'
  <1> SUFFICES ASSUME UpdatesInv, \A u \in UpdateIds : AnswerFollows(u), [UpdatesNext]_updateVars,
                      NEW u \in UpdateIds
               PROVE  AnswerFollows(u)'
    BY DEF UpdateIds
  <1>0. AnswerFollows(u) /\ offset \in Nat
    BY DEF UpdatesInv, UpdatesTyped
  <1>1. ASSUME UNCHANGED <<attempt, storedTimes, answeredTimes>> PROVE AnswerFollows(u)'
    BY <1>0, <1>1 DEF AnswerFollows, Answerers
  <1>2. CASE GetUpdates \/ SaveOffset \/ UNCHANGED updateVars
    BY <1>1, <1>2 DEF GetUpdates, SaveOffset, updateVars
  <1>3. CASE HandleNext
    <2>1. CASE offset \in handed
      BY <1>1, <1>3, <2>1 DEF HandleNext
    <2>2. CASE offset \notin handed
      <3>1. offset \in UpdateIds
        BY <1>3, UpdateIdsAre DEF HandleNext, UpdatesInv, UpdatesTyped
      <3>2. Started(Poller, offset) /\ UNCHANGED <<storedTimes, answeredTimes>>
        BY <1>3, <2>2 DEF HandleNext
      <3> QED
        BY <1>0, <3>1, <3>2, AnswerStarts
    <2> QED
      BY <2>1, <2>2
  <1>4. CASE ChatRestarts
    <2>1. Answerers(u)' = {} /\ UNCHANGED <<storedTimes, answeredTimes>>
      <3>1. attempt' = [h \in Handlers \cup {Poller} |-> IdleAttempt]
        BY <1>4 DEF ChatRestarts, UpdatesInv, UpdatesTyped
      <3> QED
        BY <1>4, <3>1 DEF ChatRestarts, Answerers, Answering, IdleAttempt
    <2> QED
      BY <1>0, <2>1, AnswersStay
  <1>5. ASSUME NEW h \in Handlers, NEW w \in UpdateIds, Webhook(h, w) PROVE AnswerFollows(u)'
    BY <1>0, <1>5, AnswerStarts DEF Webhook
  <1>6. ASSUME NEW h \in Handlers \cup {Poller}, CheckDuplicate(h) PROVE AnswerFollows(u)'
    <2>1. PICK r : r = IF Duplicate(attempt[h].update) THEN IdleAttempt ELSE [attempt[h] EXCEPT !.phase = "store"]
      OBVIOUS
    <2>2. DOMAIN attempt[h] = {"phase", "update"}
      BY DEF UpdatesInv, UpdatesTyped
    <2>3. r.phase # "answer"
      BY <2>1, <2>2 DEF IdleAttempt
    <2>4. attempt' = [attempt EXCEPT ![h] = r]
      BY <1>6, <2>1 DEF CheckDuplicate
    <2>5. UNCHANGED <<storedTimes, answeredTimes>>
      BY <1>6 DEF CheckDuplicate
    <2> QED
      BY <1>0, <2>3, <2>4, <2>5, AnswerEnds
  <1>7. ASSUME NEW h \in Handlers \cup {Poller}, Acknowledge(h) PROVE AnswerFollows(u)'
    <2>1. PICK r : r = [attempt[h] EXCEPT !.phase = "check"]
      OBVIOUS
    <2>2. DOMAIN attempt[h] = {"phase", "update"}
      BY DEF UpdatesInv, UpdatesTyped
    <2>3. r.phase # "answer"
      BY <2>1, <2>2
    <2>4. attempt' = [attempt EXCEPT ![h] = r] /\ UNCHANGED <<storedTimes, answeredTimes>>
      BY <1>7, <2>1 DEF Acknowledge
    <2> QED
      BY <1>0, <2>3, <2>4, AnswerEnds
  <1>8. ASSUME NEW h \in Handlers \cup {Poller}, AttemptFails(h) PROVE AnswerFollows(u)'
    <2>1. PICK r : r = IdleAttempt
      OBVIOUS
    <2>2. attempt' = [attempt EXCEPT ![h] = r] /\ r.phase # "answer" /\ UNCHANGED <<storedTimes, answeredTimes>>
      BY <1>8, <2>1 DEF AttemptFails, IdleAttempt
    <2> QED
      BY <1>0, <2>2, AnswerEnds
  <1> QED
    BY <1>0, <1>2, <1>3, <1>4, <1>5, <1>6, <1>7, <1>8, StoreFollows, AnswerFollowed DEF UpdatesNext

\* The offsets keep their order, and no message is answered more often than it was stored.
THEOREM UpdatesTypes == UpdatesSpec => []UpdatesTypeOK
  <1> DEFINE Follow == \A u \in UpdateIds : AnswerFollows(u)
  <1>1. UpdatesInv /\ Follow => UpdatesTypeOK
    <2> SUFFICES ASSUME UpdatesInv, Follow PROVE UpdatesTypeOK
      OBVIOUS
    <2>1. ASSUME NEW u \in UpdateIds PROVE answeredTimes[u] <= storedTimes[u] \/ Updates[u] = "start"
      <3>1. PICK n : n = Cardinality(Answerers(u))
        OBVIOUS
      <3>2. n \in Nat /\ answeredTimes[u] \in Nat /\ storedTimes[u] \in Nat
        BY <3>1, FS_CardinalityType DEF AnswerFollows, UpdatesInv, UpdatesTyped
      <3>3. Updates[u] = "start" \/ answeredTimes[u] + n <= storedTimes[u]
        BY <3>1 DEF AnswerFollows
      <3> QED
        BY <3>2, <3>3
    <2> QED
      BY <2>1 DEF UpdatesInv, UpdatesTyped, UpdatesTypeOK
  <1>2. UpdatesInit => Follow
    BY AnswerFollowsInit
  <1>3. UpdatesInv /\ Follow /\ [UpdatesNext]_updateVars => Follow'
    BY AnswerFollowsStep
  <1> QED
    BY <1>1, <1>2, <1>3, UpdatesInvInit, UpdatesStep, PTL DEF UpdatesSpec
\* What is counted as missed is a reply.
LEMMA MissedStep ==
  RepliesInv /\ missed \subseteq Replies /\ [RepliesNext]_replyVars => (missed \subseteq Replies)'
  <1> SUFFICES ASSUME RepliesInv, missed \subseteq Replies, [RepliesNext]_replyVars PROVE missed' \subseteq Replies'
    OBVIOUS
  <1>1. /\ message \in Seq(ChatMessage) /\ Len(message) \in Nat /\ Replies \subseteq 1 .. Len(message)
        /\ \A h \in ReplyRequests :
              IF replying[h].phase \in {"deliver", "send"} THEN replying[h].id \in Replies ELSE replying[h].id = NoMessage
    BY ReplyIds DEF RepliesInv, RepliesTyped
  <1>2. ASSUME message' = message PROVE Replies' = Replies
    BY <1>2 DEF Replies, StoredIds
  <1>3. ASSUME NEW m, message' = Append(message, m) PROVE Replies \subseteq Replies'
    <2>1. /\ StoredIds = 1 .. Len(message) /\ DOMAIN message' = 1 .. Len(message) + 1
          /\ \A i \in 1 .. Len(message) : message'[i] = message[i]
      BY <1>1, <1>3 DEF StoredIds
    <2>2. \A i \in 1 .. Len(message) : i \in DOMAIN message'
      BY <1>1, <2>1
    <2> QED
      BY <2>1, <2>2 DEF Replies, StoredIds
  <1>4. ASSUME NEW inChat \in BOOLEAN, CustomerSends(inChat) PROVE missed' \subseteq Replies'
    BY <1>3, <1>4 DEF CustomerSends
  <1>5. ASSUME NEW h \in ReplyRequests, NEW target, HandleReply(h, target) PROVE missed' \subseteq Replies'
    BY <1>2, <1>5 DEF HandleReply
  <1>6. ASSUME NEW h \in ReplyRequests, StoreReply(h) PROVE missed' \subseteq Replies'
    BY <1>3, <1>6 DEF StoreReply
  <1>7. ASSUME NEW h \in ReplyRequests, NEW taken \in BOOLEAN, EmitReply(h) \/ SendMessage(h, taken) \/ QuoteMessage(h)
        PROVE  missed' \subseteq Replies'
    <2>1. message' = message /\ replying[h].id \in Replies
      BY <1>1, <1>7 DEF EmitReply, SendMessage, QuoteMessage
    <2>2. missed' = missed \/ missed' = missed \cup {replying[h].id}
      BY <1>7 DEF EmitReply, SendMessage, QuoteMessage
    <2> QED
      BY <1>2, <2>1, <2>2
  <1>8. ASSUME NEW h \in ReplyRequests, ReplyFails(h) PROVE missed' \subseteq Replies'
    <2>1. replying[h].id = NoMessage \/ replying[h].id \in Replies
      BY <1>1
    <2> QED
      BY <1>2, <1>8, <2>1 DEF ReplyFails
  <1>9. CASE HandleConnection \/ UNCHANGED replyVars
    BY <1>2, <1>9 DEF HandleConnection, replyVars
  <1>10. CASE GetHistory
    BY <1>10 DEF GetHistory
  <1> QED
    BY <1>4, <1>5, <1>6, <1>7, <1>8, <1>9, <1>10 DEF RepliesNext

\* What the customer has, has missed, or is about to get is a reply stored.
THEOREM RepliesTypes == RepliesSpec => []RepliesTypeOK
  <1>1. RepliesInv /\ missed \subseteq Replies => RepliesTypeOK
    <2> SUFFICES ASSUME RepliesInv, missed \subseteq Replies PROVE RepliesTypeOK
      OBVIOUS
    <2>1. Range(seen) \subseteq Replies
      BY DEF RepliesInv, RepliesTyped, Range
    <2>2. \A h \in ReplyRequests : replying[h].id \in Replies \cup {NoMessage}
      BY DEF RepliesInv, RepliesTyped
    <2> QED
      BY <2>1, <2>2 DEF RepliesInv, RepliesTypeOK
  <1>2. RepliesInit => missed \subseteq Replies
    BY DEF RepliesInit
  <1> QED
    BY <1>1, <1>2, MissedStep, RepliesInvInit, RepliesStep, PTL DEF RepliesSpec
-------------------------------------------------------------------------------
(* Dialog: what the engine offers to choose from is few.                     *)

DialogSpec == DialogInit /\ [][DialogNext]_dialogVars

AllTerms == NameTerms \cup AttributeTerms

FewGoods == {c \in SUBSET Goods : Cardinality(c) <= MaxOptions}

Questions == {"none", "AWAITING_NARROWER_SEARCH", "AWAITING_PRODUCT_CODE", "AWAITING_OPTION_SELECTION"}

Pendings == [type : Questions, intent : Intents, candidates : FewGoods, query : SUBSET AllTerms]

DialogMessages ==
    [from : {"CUSTOMER", "ENGINE", "OPERATOR"}, text : Texts, pending : Pendings, about : Goods \cup {NoGood}]

GoodReply(r) ==
    r.pending \in Pendings /\ r.about \in Goods \cup {NoGood} /\ r.operator \in BOOLEAN

DialogInv ==
    /\ dialog \in Seq(DialogMessages) /\ Len(dialog) <= MaxTurns /\ published \subseteq Goods
    /\ lastProductId \in Goods \cup {NoGood} /\ withHuman \in BOOLEAN

LEMMA NothingPends == {} \in FewGoods /\ NoPending \in Pendings /\ NoText \in Texts
  <1>1. Cardinality({}) = 0 /\ MaxOptions \in Nat
    BY FS_EmptySet, DialogConstantsOK
  <1>2. {} \in FewGoods
    BY <1>1 DEF FewGoods
  <1>3. NoPending \in Pendings
    BY <1>2 DEF NoPending, Pendings, Questions, Intents
  <1>4. NoText \in Texts
    BY <1>1 DEF NoText, Texts, Intents, NoGood
  <1> QED
    BY <1>2, <1>3, <1>4

LEMMA ReplyFields ==
  ASSUME NEW pending, NEW about, NEW operator
  PROVE  /\ Reply(pending, about, operator).pending = pending
         /\ Reply(pending, about, operator).about = about
         /\ Reply(pending, about, operator).operator = operator
  BY DEF Reply

LEMMA ReplyGood ==
  ASSUME NEW pending \in Pendings, NEW about \in Goods \cup {NoGood}, NEW operator \in BOOLEAN
  PROVE  GoodReply(Reply(pending, about, operator))
  BY ReplyFields DEF GoodReply

LEMMA TellsGood == ASSUME NEW g \in Goods \cup {NoGood} PROVE GoodReply(Tells(g))
  BY NothingPends, ReplyGood DEF Tells

LEMMA AsksGood ==
  ASSUME NEW type \in Questions, NEW intent \in Intents, NEW candidates \in FewGoods, NEW query \in SUBSET AllTerms
  PROVE  GoodReply(Asks(type, intent, candidates, query))
  <1>1. [type |-> type, intent |-> intent, candidates |-> candidates, query |-> query] \in Pendings
    BY DEF Pendings
  <1> QED
    BY <1>1, ReplyGood DEF Asks

LEMMA FindsGood == ASSUME DialogInv, NEW g PROVE Find(g) \in Goods \cup {NoGood}
  BY DEF Find, DialogInv

\* A search never offers more than MAX_OPTIONS.
LEMMA SearchAsks ==
  ASSUME DialogInv, NEW intent \in Intents, NEW query \in SUBSET AllTerms
  PROVE  GoodReply(PerformSearchStep(intent, query))
  <1>1. PICK found : found = Search(query)
    OBVIOUS
  <1>2. found \subseteq Goods
    BY <1>1 DEF Search, DialogInv
  <1>3. IsFiniteSet(found)
    BY <1>2, FS_Subset, DialogConstantsOK
  <1>4. PICK n : n = Cardinality(found)
    OBVIOUS
  <1>5. n \in Nat /\ MaxOptions \in Nat
    BY <1>3, <1>4, FS_CardinalityType, DialogConstantsOK
  <1>6. ~(n > MaxOptions) => found \in FewGoods
    BY <1>2, <1>4, <1>5 DEF FewGoods
  <1>7. \/ PerformSearchStep(intent, query) = Asks("AWAITING_NARROWER_SEARCH", intent, {}, {})
        \/ PerformSearchStep(intent, query) = Asks("AWAITING_PRODUCT_CODE", intent, {}, query)
        \/ PerformSearchStep(intent, query) = Asks("AWAITING_NARROWER_SEARCH", intent, {}, query)
        \/ /\ PerformSearchStep(intent, query) = Asks("AWAITING_OPTION_SELECTION", intent, found, query)
           /\ ~(n > MaxOptions)
    BY <1>1, <1>4, Zenon DEF PerformSearchStep
  <1>8. {} \in FewGoods /\ {} \in SUBSET AllTerms
    BY NothingPends
  <1>9. {"AWAITING_NARROWER_SEARCH", "AWAITING_PRODUCT_CODE", "AWAITING_OPTION_SELECTION"} \subseteq Questions
    BY DEF Questions
  <1>10. GoodReply(Asks("AWAITING_NARROWER_SEARCH", intent, {}, {}))
    BY <1>8, <1>9, AsksGood
  <1>11. GoodReply(Asks("AWAITING_PRODUCT_CODE", intent, {}, query))
    BY <1>8, <1>9, AsksGood
  <1>12. GoodReply(Asks("AWAITING_NARROWER_SEARCH", intent, {}, query))
    BY <1>8, <1>9, AsksGood
  <1>13. found \in FewGoods => GoodReply(Asks("AWAITING_OPTION_SELECTION", intent, found, query))
    BY <1>9, AsksGood
  <1> QED
    BY <1>6, <1>7, <1>10, <1>11, <1>12, <1>13

LEMMA NoReplyGood == GoodReply(NoReply)
  <1>1. NoGood \in Goods \cup {NoGood} /\ TRUE \in BOOLEAN
    OBVIOUS
  <1> QED
    BY <1>1, NothingPends, ReplyGood DEF NoReply

LEMMA PendingIsTyped == DialogInv => ExtractPendingAction \in Pendings
  <1> SUFFICES ASSUME DialogInv PROVE ExtractPendingAction \in Pendings
    OBVIOUS
  <1>1. ASSUME dialog # <<>> PROVE Last(dialog).pending \in Pendings
    <2>1. Last(dialog) \in DialogMessages
      BY <1>1 DEF Last, DialogInv
    <2> QED
      BY <2>1 DEF DialogMessages
  <1> QED
    BY <1>1, NothingPends DEF ExtractPendingAction

LEMMA ResolvedGood ==
  ASSUME DialogInv, NEW text \in Texts, NEW pending \in Pendings
  PROVE  GoodReply(ResolvePendingAction(text, pending))
  <1>1. PICK asked : asked = IF pending.type = "AWAITING_PRODUCT_CODE" THEN Find(text.code)
                 ELSE IF /\ pending.type = "AWAITING_OPTION_SELECTION"
                         /\ text.option \in 1 .. Cardinality(pending.candidates)
                 THEN Find(Option(pending.candidates, text.option))
                 ELSE NoGood
    OBVIOUS
  <1>2. asked \in Goods \cup {NoGood}
    BY <1>1, FindsGood
  <1>3. ResolvePendingAction(text, pending) =
          IF pending.type = "AWAITING_NARROWER_SEARCH"
          THEN PerformSearchStep(pending.intent, pending.query \cup text.terms)
          ELSE IF asked = NoGood THEN NoReply ELSE Tells(asked)
    BY <1>1 DEF ResolvePendingAction
  <1>4. pending.intent \in Intents /\ pending.query \cup text.terms \in SUBSET AllTerms
    BY DEF Pendings, Texts, AllTerms
  <1>5. GoodReply(PerformSearchStep(pending.intent, pending.query \cup text.terms))
    BY <1>4, SearchAsks
  <1>6. GoodReply(Tells(asked))
    BY <1>2, TellsGood
  <1> QED
    BY <1>3, <1>5, <1>6, NoReplyGood

LEMMA IntentGood ==
  ASSUME DialogInv, NEW text \in Texts
  PROVE  GoodReply(ReplyToIntent(text))
  <1>1. PICK product : product = IF Find(text.code) # NoGood THEN Find(text.code) ELSE Find(lastProductId)
    OBVIOUS
  <1>2. PICK b \in BOOLEAN : b = (text.intent = "CONTACT_SUPPORT")
    BY Zenon
  <1>3. product \in Goods \cup {NoGood}
    BY <1>1, FindsGood
  <1>4. \/ ReplyToIntent(text) = Reply(NoPending, NoGood, b)
        \/ ReplyToIntent(text) = Tells(product)
        \/ ReplyToIntent(text) = PerformSearchStep(text.intent, text.terms)
    BY <1>1, <1>2, Zenon DEF ReplyToIntent
  <1>5. text.intent \in Intents /\ text.terms \in SUBSET AllTerms
    BY DEF Texts, AllTerms
  <1>6. GoodReply(Reply(NoPending, NoGood, b))
    BY NothingPends, ReplyGood
  <1>7. GoodReply(Tells(product))
    BY <1>3, TellsGood
  <1>8. GoodReply(PerformSearchStep(text.intent, text.terms))
    BY <1>5, SearchAsks
  <1> QED
    BY <1>4, <1>6, <1>7, <1>8

LEMMA RepliesAreGood ==
  ASSUME DialogInv, NEW text \in Texts, NEW reply \in EngineReplies(text)
  PROVE  GoodReply(reply)
  <1>1. ExtractPendingAction \in Pendings
    BY PendingIsTyped
  <1>2. PICK pending \in Pendings : pending = ExtractPendingAction
    BY <1>1
  <1>3. \/ reply = NoReply \/ reply = ResolvePendingAction(text, pending) \/ reply = ReplyToIntent(text)
        \/ \E operator \in BOOLEAN : reply = Reply(NoPending, NoGood, operator)
    BY <1>2 DEF EngineReplies
  <1>4. \A operator \in BOOLEAN : GoodReply(Reply(NoPending, NoGood, operator))
    BY NothingPends, ReplyGood
  <1> QED
    BY <1>3, <1>4, NoReplyGood, ResolvedGood, IntentGood

\* A message more.
LEMMA DialogGrows ==
  ASSUME DialogInv, Len(dialog) < MaxTurns, NEW from \in {"CUSTOMER", "ENGINE", "OPERATOR"}, NEW text \in Texts,
         NEW pending \in Pendings, NEW about \in Goods \cup {NoGood}
  PROVE  /\ Append(dialog, Stored(from, text, pending, about)) \in Seq(DialogMessages)
         /\ Len(Append(dialog, Stored(from, text, pending, about))) = Len(dialog) + 1
         /\ Stored(from, text, pending, about) \in DialogMessages
         /\ Len(dialog) \in Nat /\ MaxTurns \in Nat
  <1>1. Stored(from, text, pending, about) \in DialogMessages
    BY DEF Stored, DialogMessages
  <1> QED
    BY <1>1, DialogConstantsOK DEF DialogInv

LEMMA WritesKeeps ==
  ASSUME DialogInv, NEW text \in PlainTexts, CustomerWrites(text)
  PROVE  DialogInv'
  <1>1. text \in Texts
    BY DEF PlainTexts
  <1>2. PICK reply \in EngineReplies(text) :
          /\ dialog' = dialog \o <<Stored("CUSTOMER", text, NoPending, NoGood),
                                   Stored("ENGINE", NoText, reply.pending, reply.about)>>
          /\ withHuman' = reply.operator
          /\ lastProductId' = IF reply.about = NoGood THEN lastProductId ELSE reply.about
    BY DEF CustomerWrites
  <1>3. GoodReply(reply)
    BY <1>1, RepliesAreGood
  <1>4. PICK a : a = Stored("CUSTOMER", text, NoPending, NoGood)
    OBVIOUS
  <1>5. PICK b : b = Stored("ENGINE", NoText, reply.pending, reply.about)
    OBVIOUS
  <1>6. a \in DialogMessages
    BY <1>1, <1>4, NothingPends DEF Stored, DialogMessages
  <1>7. b \in DialogMessages
    BY <1>3, <1>5, NothingPends DEF Stored, DialogMessages, GoodReply
  <1>8. dialog' = dialog \o <<a, b>> /\ dialog \in Seq(DialogMessages)
    BY <1>2, <1>4, <1>5 DEF DialogInv
  <1>9. dialog' \in Seq(DialogMessages) /\ Len(dialog') = Len(dialog) + 2 /\ Len(dialog) \in Nat
    BY <1>6, <1>7, <1>8
  <1>10. Len(dialog) + 1 < MaxTurns /\ MaxTurns \in Nat /\ published' = published
    BY DialogConstantsOK DEF CustomerWrites
  <1>11. Len(dialog') <= MaxTurns
    BY <1>9, <1>10
  <1>12. withHuman' \in BOOLEAN
    BY <1>2, <1>3, Zenon DEF GoodReply
  <1>13. lastProductId' \in Goods \cup {NoGood}
    BY <1>2, <1>3 DEF GoodReply, DialogInv
  <1> QED
    BY <1>9, <1>10, <1>11, <1>12, <1>13 DEF DialogInv

LEMMA DialogStep == DialogInv /\ [DialogNext]_dialogVars => DialogInv'
  <1> SUFFICES ASSUME DialogInv, [DialogNext]_dialogVars PROVE DialogInv'
    OBVIOUS
  <1>1. NoText \in Texts /\ NoPending \in Pendings /\ NoGood \in Goods \cup {NoGood}
    BY NothingPends
  <1>2. ASSUME CustomerWritesToHuman(NoText) PROVE DialogInv'
    <2>1. /\ Len(dialog) < MaxTurns /\ UNCHANGED <<lastProductId, withHuman, published>>
          /\ dialog' = Append(dialog, Stored("CUSTOMER", NoText, NoPending, NoGood))
      BY <1>2 DEF CustomerWritesToHuman
    <2>2. dialog' \in Seq(DialogMessages) /\ Len(dialog') = Len(dialog) + 1 /\ Len(dialog) \in Nat /\ MaxTurns \in Nat
      BY <1>1, <2>1, DialogGrows
    <2>3. Len(dialog') <= MaxTurns
      BY <2>1, <2>2
    <2> QED
      BY <2>1, <2>2, <2>3 DEF DialogInv
  <1>3. ASSUME OperatorWrites PROVE DialogInv'
    <2>1. /\ Len(dialog) < MaxTurns /\ withHuman' = TRUE /\ UNCHANGED <<lastProductId, published>>
          /\ dialog' = Append(dialog, Stored("OPERATOR", NoText, NoPending, NoGood))
      BY <1>3 DEF OperatorWrites
    <2>2. dialog' \in Seq(DialogMessages) /\ Len(dialog') = Len(dialog) + 1 /\ Len(dialog) \in Nat /\ MaxTurns \in Nat
      BY <1>1, <2>1, DialogGrows
    <2>3. Len(dialog') <= MaxTurns
      BY <2>1, <2>2
    <2> QED
      BY <2>1, <2>2, <2>3 DEF DialogInv
  <1>4. ASSUME ReleasedToEngine PROVE DialogInv'
    BY <1>4 DEF ReleasedToEngine, DialogInv
  <1>5. ASSUME NEW g \in Goods, PublicationChanges(g) PROVE DialogInv'
    BY <1>5 DEF PublicationChanges, DialogInv
  <1>6. CASE UNCHANGED dialogVars
    BY <1>6 DEF dialogVars, DialogInv
  <1> QED
    BY <1>2, <1>3, <1>4, <1>5, <1>6, WritesKeeps DEF DialogNext

\* The engine offers MAX_OPTIONS products at most, whatever is searched for and however
\* products come and go.
THEOREM DialogTypes == DialogSpec => []DialogTypeOK
  <1>1. DialogInv => DialogTypeOK
    <2> SUFFICES ASSUME DialogInv PROVE DialogTypeOK
      OBVIOUS
    <2>1. ASSUME NEW t \in DOMAIN dialog
          PROVE  /\ dialog[t].from \in {"CUSTOMER", "ENGINE", "OPERATOR"}
                 /\ Cardinality(dialog[t].pending.candidates) <= MaxOptions
      <3>1. dialog[t] \in DialogMessages
        BY DEF DialogInv
      <3> QED
        BY <3>1 DEF DialogMessages, Pendings, FewGoods
    <2> QED
      BY <2>1 DEF DialogInv, DialogTypeOK
  <1>2. DialogInit => DialogInv
    <2> SUFFICES ASSUME DialogInit PROVE DialogInv
      OBVIOUS
    <2>1. dialog = <<>> /\ lastProductId = NoGood /\ withHuman = FALSE /\ published = Goods
      BY DEF DialogInit
    <2>2. dialog \in Seq(DialogMessages) /\ Len(dialog) <= MaxTurns
      BY <2>1, DialogConstantsOK
    <2> QED
      BY <2>1, <2>2 DEF DialogInv
  <1> QED
    BY <1>1, <1>2, DialogStep, PTL DEF DialogSpec
===============================================================================
