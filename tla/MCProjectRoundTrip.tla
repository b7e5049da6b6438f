-------------------------- MODULE MCProjectRoundTrip --------------------------
(***************************************************************************)
(* One worker. The home page links to page a, which redirects back to it.  *)
(* The crawl is stopped or ends, is cleared, or is saved, closed and       *)
(* loaded, and is started again.                                           *)
(***************************************************************************)
EXTENDS ProjectRoundTrip
CONSTANTS home, a
MCRequests == {home, a}
MCLimits == {-1}
MCLinks == home :> <<{a}>> @@ [r \in MCRequests |-> <<>>]
MCHops == a :> <<home>> @@ [r \in MCRequests |-> <<>>]
MCNoPages == [r \in MCRequests |-> <<>>]
MCPageUrl == [r \in MCRequests |-> r]
=============================================================================
