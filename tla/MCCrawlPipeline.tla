--------------------------- MODULE MCCrawlPipeline ---------------------------
(***************************************************************************)
(* A small site for two workers. The home page links to page a, and that   *)
(* to a resource under its own url, requested by HEAD; a redirects to c,   *)
(* whose resource type the options filter and to which home links, too,    *)
(* but robots.txt blocks the link.                                         *)
(***************************************************************************)
EXTENDS CrawlPipeline
CONSTANTS home, a, aHead, c
MCRequests == {home, a, aHead, c}
MCLimits == {-1}
MCLinks == home :> <<{a}>> @@ a :> <<{aHead}>> @@ [r \in MCRequests |-> <<>>]
MCHops == a :> <<c>> @@ [r \in MCRequests |-> <<>>]
MCBlocked == home :> <<c>> @@ [r \in MCRequests |-> <<>>]
MCPageUrl == aHead :> a @@ [r \in MCRequests |-> r]
=============================================================================
