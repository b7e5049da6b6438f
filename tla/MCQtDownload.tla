------------------------------ MODULE MCQtDownload ----------------------------
(***************************************************************************)
(* Two requests, one of them of a worker, and a server whose pages         *)
(* redirect to themselves.                                                 *)
(***************************************************************************)
EXTENDS QtDownload
CONSTANTS page, robots, u
MCRequests == {page, robots}
MCUrls == {u}
=============================================================================
