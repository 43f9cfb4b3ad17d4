-------------------------------- MODULE Platform -------------------------------
(***************************************************************************)
(* The parts of the platform that share no state with the shop's money and *)
(* goods, side by side: a behaviour is one of its part only.               *)
(***************************************************************************)
EXTENDS Sessions, OneTimeCodes, LoginGuard, JobLock, Tickets, MediaLibrary, Conversations,
        TelegramUpdates, ChatDialog, Categories, CachedPages, OperatorReplies

CONSTANT Parts         \* the parts to look at

VARIABLE part

vars1 == <<sessionsVars, otpVars, guardVars>>
vars2 == <<lockVars, ticketVars, mediaVars>>
vars3 == <<conversationVars, updateVars, dialogVars>>
vars4 == <<treeVars, pagesVars, replyVars>>

platformVars == <<part, vars1, vars2, vars3, vars4>>
-------------------------------------------------------------------------------
\* What a part chooses at its start is fixed in the runs of the others.
PlatformInit ==
    /\ part \in Parts
    /\ SessionsInit /\ OtpInit /\ GuardInit /\ LockInit /\ TicketsInit /\ MediaInit
    /\ ConversationsInit /\ UpdatesInit /\ DialogInit /\ CategoriesInit /\ PagesInit /\ RepliesInit
    /\ part # "otp" => otpRedisUp
    /\ part # "lock" => lockRedisUp
    /\ part # "telegram" => mode = "polling"
    /\ part # "categories" => nextId = 1
    /\ part # "replies" => channel = "WEBSITE" /\ botToken
    /\ part # "pages" => kind = "setting" /\ content = NoRow /\ pageKey.prefix = "landing-page"

PlatformNext ==
    /\ UNCHANGED part
    /\ \/ /\ UNCHANGED <<vars2, vars3, vars4>>
          /\ \/ part = "sessions" /\ SessionsNext /\ UNCHANGED <<otpVars, guardVars>>
             \/ part = "otp" /\ OtpNext /\ UNCHANGED <<sessionsVars, guardVars>>
             \/ part = "guard" /\ GuardNext /\ UNCHANGED <<sessionsVars, otpVars>>
       \/ /\ UNCHANGED <<vars1, vars3, vars4>>
          /\ \/ part = "lock" /\ LockNext /\ UNCHANGED <<ticketVars, mediaVars>>
             \/ part = "tickets" /\ TicketsNext /\ UNCHANGED <<lockVars, mediaVars>>
             \/ part = "media" /\ MediaNext /\ UNCHANGED <<lockVars, ticketVars>>
       \/ /\ UNCHANGED <<vars1, vars2, vars4>>
          /\ \/ part = "conversations" /\ ConversationsNext /\ UNCHANGED <<updateVars, dialogVars>>
             \/ part = "telegram" /\ UpdatesNext /\ UNCHANGED <<conversationVars, dialogVars>>
             \/ part = "dialog" /\ DialogNext /\ UNCHANGED <<conversationVars, updateVars>>
       \/ /\ UNCHANGED <<vars1, vars2, vars3>>
          /\ \/ part = "categories" /\ CategoriesNext /\ UNCHANGED <<pagesVars, replyVars>>
             \/ part = "pages" /\ PagesNext /\ UNCHANGED <<treeVars, replyVars>>
             \/ part = "replies" /\ RepliesNext /\ UNCHANGED <<treeVars, pagesVars>>

PlatformSpec == PlatformInit /\ [][PlatformNext]_platformVars
-------------------------------------------------------------------------------
\* The types of all parts: every counter, document, job and message is what the code's
\* schemas and classes allow.
PlatformTypeOK ==
    /\ part = "sessions" => SessionsTypeOK
    /\ part = "otp" => OtpTypeOK
    /\ part = "guard" => GuardTypeOK
    /\ part = "lock" => LockTypeOK
    /\ part = "tickets" => TicketsTypeOK
    /\ part = "media" => MediaTypeOK
    /\ part = "conversations" => ConversationsTypeOK
    /\ part = "telegram" => UpdatesTypeOK
    /\ part = "dialog" => DialogTypeOK
    /\ part = "categories" => CategoriesTypeOK
    /\ part = "pages" => PagesTypeOK
    /\ part = "replies" => RepliesTypeOK

\* A user's sessions are few, and none is of an old password, but for logins in flight and
\* a process that ends between two writes (session.service.ts 18-81, auth.service.ts 212-238).
SessionsHold == SessionsWithinLimit /\ SessionsFollowPassword

\* What customers write to the bot is in the chat, and what operators answer comes to them,
\* but for failures the code lets pass (telegram-update-handler.service.ts 37-143,
\* outbound-delivery.service.ts 31-99).
MessagesArrive == UpdatesReachTheChat /\ RepliesReachTheCustomer

\* What Redis holds under the tree's key and under the keys of pages is what the
\* database has, but for what the services leave to the expiry (lib/cache.ts 17-67).
CachedContentIsCurrent == CachedTreeIsCurrent /\ CachedPagesAreCurrent
===============================================================================
