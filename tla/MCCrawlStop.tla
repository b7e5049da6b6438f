----------------------------- MODULE MCCrawlStop -----------------------------
(***************************************************************************)
(* The home page links to page a, and two workers crawl them. The user     *)
(* stops the crawl at any moment and may start it again. The loaders are   *)
(* throttled as soon as one page is under way.                             *)
(***************************************************************************)
EXTENDS CrawlPipeline
CONSTANTS home, a
MCRequests == {home, a}
MCLimits == {-1}
MCLinks == home :> <<{a}>> @@ a :> <<>>
MCNoPages == [r \in MCRequests |-> <<>>]
MCPageUrl == [r \in MCRequests |-> r]
=============================================================================
