------------------------------ MODULE MCPlatform ------------------------------
(***************************************************************************)
(* The parts of the platform on small instances: an instance runs one of   *)
(* them at a time.                                                         *)
(***************************************************************************)
EXTENDS Platform, TLC

CONSTANTS x, y         \* slugs

\* A callback, a text and the command that greets.
UpdateKinds == <<"callback", "text", "start">>

\* Two shoes, one of them black, and a bag.
TermsOf == <<{"shoe", "black"}, {"shoe"}, {"bag"}>>

MCContentInputs ==
    {[slug |-> x, shown |-> TRUE, text |-> "new"], [slug |-> y, text |-> "new"],
     [shown |-> TRUE, text |-> "new"], [shown |-> FALSE], [text |-> "new"]}

\* Requests in flight are alike (the two handlers of every part are the same values).
Alike == Permutations(LoginRequests)

\* So are the two slugs: a page's row begins with the first.
MCInit ==
    /\ PlatformInit
    /\ part = "pages" => content = NoRow \/ content.slug \in {x, AnySlug}

MCSpec == MCInit /\ [][PlatformNext]_platformVars
===============================================================================
