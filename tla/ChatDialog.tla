------------------------------ MODULE ChatDialog ------------------------------
(***************************************************************************)
(* One customer's dialog with the engine, turn by turn: what a message is  *)
(* taken for depends on the question the engine's last message asked and   *)
(* on the product the conversation is about.  Texts are abstracted to what *)
(* the engine finds in them.                                               *)
(***************************************************************************)
EXTENDS Integers, Sequences, SequencesExt, FiniteSets

CONSTANTS
    Goods,             \* the store's products, the numbers 1 .. n in the order a search lists them
    NameTerms,         \* words found in names
    AttributeTerms,    \* colours and sizes
    Describes,         \* the terms that match each product
    MaxOptions,        \* MAX_OPTIONS
    MaxTurns           \* bound: messages of the dialog

ASSUME DialogConstantsOK ==
    /\ MaxOptions \in Nat \ {0} /\ MaxTurns \in Nat
    /\ NameTerms \cap AttributeTerms = {} /\ 0 \notin Goods /\ IsFiniteSet(Goods)
    /\ Describes \in [Goods -> SUBSET (NameTerms \cup AttributeTerms)]

VARIABLES
    dialog,            \* the messages by createdAt
    lastProductId,     \* of the conversation
    withHuman,         \* its status is NEEDS_OPERATOR or WITH_OPERATOR
    published          \* the products with status PUBLISHED

dialogVars == <<dialog, lastProductId, withHuman, published>>
-------------------------------------------------------------------------------
NoGood == 0

\* INTENT_PRIORITY by kind: INFO and another intent of PRODUCT_SCOPED_INTENTS.
Intents == {"CONTACT_SUPPORT", "SHIPPING", "INFO", "PRICE", "none"}
ProductScoped(intent) == intent \in {"INFO", "PRICE"}

\* What the engine finds in a text: an intent, the code of a product, a number, terms.
Texts == [intent : Intents, code : Goods \cup {NoGood}, option : 0 .. MaxOptions,
          terms : SUBSET (NameTerms \cup AttributeTerms)]

\* Bound: the texts with one of these at a time, and an intent.
PlainTexts ==
    {m \in Texts : /\ Cardinality(m.terms) <= 1
                   /\ m.code # NoGood => m.terms = {} /\ m.option = 0
                   /\ m.option # 0 => m.terms = {} /\ m.intent = "none"}

\* A stored message: who wrote it, its pendingAction, the product it is about.
Stored(from, text, pending, about) == [from |-> from, text |-> text, pending |-> pending, about |-> about]

NoText == [intent |-> "none", code |-> NoGood, option |-> 0, terms |-> {}]

NoPending == [type |-> "none", intent |-> "none", candidates |-> {}, query |-> {}]

\* An EngineReply: what it asks next, the product it tells of, whether a human is called.
Reply(pending, about, operator) == [pending |-> pending, about |-> about, operator |-> operator]
NoReply == Reply(NoPending, NoGood, TRUE)

Tells(product) == Reply(NoPending, product, FALSE)

Asks(type, intent, candidates, query) ==
    Reply([type |-> type, intent |-> intent, candidates |-> candidates, query |-> query], NoGood, FALSE)

\* findByShortCode, findById: published products only.
Find(product) == IF product \in published THEN product ELSE NoGood

\* searchByParsedQuery: any of the names, all of the attributes; nothing for no terms.
Search(query) ==
    LET names == query \cap NameTerms
        found(g) == /\ names # {} => names \cap Describes[g] # {}
                    /\ query \cap AttributeTerms \subseteq Describes[g]
    IN  IF query = {} THEN {} ELSE {g \in published : found(g)}

PerformSearchStep(intent, query) ==
    LET found == Search(query)
    IN  IF query = {} /\ intent = "INFO" THEN Asks("AWAITING_NARROWER_SEARCH", intent, {}, {})
        ELSE IF found = {} THEN Asks("AWAITING_PRODUCT_CODE", intent, {}, query)
        ELSE IF Cardinality(found) > MaxOptions
        THEN Asks("AWAITING_NARROWER_SEARCH", intent, {}, query)
        ELSE Asks("AWAITING_OPTION_SELECTION", intent, found, query)

\* The option of this number, as the products were listed.
Option(goods, number) == CHOOSE g \in goods : Cardinality({f \in goods : f <= g}) = number

\* resolvePendingAction: NoReply when the text does not answer the question.
ResolvePendingAction(text, pending) ==
    LET asked == IF pending.type = "AWAITING_PRODUCT_CODE" THEN Find(text.code)
                 ELSE IF /\ pending.type = "AWAITING_OPTION_SELECTION"
                         /\ text.option \in 1 .. Cardinality(pending.candidates)
                 THEN Find(Option(pending.candidates, text.option))
                 ELSE NoGood
    IN  IF pending.type = "AWAITING_NARROWER_SEARCH"
        THEN PerformSearchStep(pending.intent, pending.query \cup text.terms)
        ELSE IF asked = NoGood THEN NoReply ELSE Tells(asked)

\* runKeywordLayer once no question is pending.
ReplyToIntent(text) ==
    LET product == IF Find(text.code) # NoGood THEN Find(text.code) ELSE Find(lastProductId)
    IN  IF ~ProductScoped(text.intent) THEN Reply(NoPending, NoGood, text.intent = "CONTACT_SUPPORT")
        ELSE IF product # NoGood THEN Tells(product)
        ELSE PerformSearchStep(text.intent, text.terms)

\* isPendingAction.
AcceptedQuestions == {"AWAITING_PRODUCT_CODE", "AWAITING_OPTION_SELECTION"}

\* extractPendingAction: of the last message, when the engine wrote it.
ExtractPendingAction ==
    IF /\ dialog # <<>> /\ Last(dialog).from = "ENGINE"
       /\ Last(dialog).pending.type \in AcceptedQuestions
    THEN Last(dialog).pending ELSE NoPending

\* runEnginePipeline: the keywords, then the AI, which may answer or not.
EngineReplies(text) ==
    LET pending == ExtractPendingAction
        resolved == IF pending = NoPending THEN NoReply ELSE ResolvePendingAction(text, pending)
    IN  IF resolved # NoReply THEN {resolved}
        ELSE IF text.intent # "none" THEN {ReplyToIntent(text)}
        ELSE {Reply(NoPending, NoGood, operator) : operator \in BOOLEAN}
-------------------------------------------------------------------------------
DialogInit ==
    /\ dialog = <<>>
    /\ lastProductId = NoGood
    /\ withHuman = FALSE
    /\ published = Goods

\* processIncomingMessage, from the context it reads to the document it saves.
CustomerWrites(text) ==
    /\ ~withHuman /\ Len(dialog) + 1 < MaxTurns
    /\ \E reply \in EngineReplies(text) :
          /\ dialog' = dialog \o <<Stored("CUSTOMER", text, NoPending, NoGood),
                                   Stored("ENGINE", NoText, reply.pending, reply.about)>>
          /\ withHuman' = reply.operator
          /\ lastProductId' = IF reply.about = NoGood THEN lastProductId ELSE reply.about
    /\ UNCHANGED published

\* The same for a conversation that is in an operator's hands.
CustomerWritesToHuman(text) ==
    /\ withHuman /\ Len(dialog) < MaxTurns
    /\ dialog' = Append(dialog, Stored("CUSTOMER", text, NoPending, NoGood))
    /\ UNCHANGED <<lastProductId, withHuman, published>>

\* appendOperatorMessage, whoever had the conversation.
OperatorWrites ==
    /\ Len(dialog) < MaxTurns
    /\ dialog' = Append(dialog, Stored("OPERATOR", NoText, NoPending, NoGood))
    /\ withHuman' = TRUE
    /\ UNCHANGED <<lastProductId, published>>

\* releaseConversation.
ReleasedToEngine ==
    /\ withHuman /\ withHuman' = FALSE
    /\ UNCHANGED <<dialog, lastProductId, published>>

\* The store publishes a product or takes it back.
PublicationChanges(g) ==
    /\ published' = IF g \in published THEN published \ {g} ELSE published \cup {g}
    /\ UNCHANGED <<dialog, lastProductId, withHuman>>

DialogNext ==
    \/ \E text \in PlainTexts : CustomerWrites(text)
    \/ CustomerWritesToHuman(NoText) \/ OperatorWrites \/ ReleasedToEngine
    \/ \E g \in Goods : PublicationChanges(g)
-------------------------------------------------------------------------------
DialogTypeOK ==
    /\ Len(dialog) <= MaxTurns /\ published \subseteq Goods
    /\ lastProductId \in Goods \cup {NoGood} /\ withHuman \in BOOLEAN
    /\ \A t \in DOMAIN dialog :
          /\ dialog[t].from \in {"CUSTOMER", "ENGINE", "OPERATOR"}
          /\ Cardinality(dialog[t].pending.candidates) <= MaxOptions

\* What is appended to a request to be more precise is searched together with what had
\* been said before, as the comments of layer1-keywords/index.ts 144-147 and 211-213 and
\* of types.ts 61-64 say.
AnswerNarrowsSearch ==
    \A t \in 1 .. Len(dialog) - 2 :
        /\ dialog[t].pending.type = "AWAITING_NARROWER_SEARCH"
        /\ dialog[t + 1].from = "CUSTOMER" /\ dialog[t + 1].text.terms # {}
        /\ dialog[t + 2].from = "ENGINE"
        => dialog[t + 2].pending.query = dialog[t].pending.query \cup dialog[t + 1].text.terms
===============================================================================
