----------------------------- MODULE UniqueWork -----------------------------
(***************************************************************************)
(* What a crawl promises about its work: a request is offered, handed out  *)
(* or claimed at most once, until everything is forgotten.                 *)
(*                                                                         *)
(* The specification says nothing of sets of pending or active urls, of    *)
(* limits or of counters: UniqueLinkStore is shown to implement it.        *)
(***************************************************************************)

CONSTANT Requests  (* The requests a crawl may issue.                      *)

VARIABLES
  todo,    (* Offered, and neither handed out nor claimed.                 *)
  taken    (* Handed out to a worker or claimed, once and for all.         *)

workVars == <<todo, taken>>

WorkInit == todo = {} /\ taken = {}

(* New work, never work that was taken. *)
Offer(rs) ==
  /\ rs \intersect taken = {}
  /\ todo' = todo \union rs
  /\ UNCHANGED taken

(* One offered request goes to one worker. *)
Take(r) ==
  /\ r \in todo
  /\ todo' = todo \ {r}
  /\ taken' = taken \union {r}

(* A request whose answer is known without a download. *)
Claim(r) ==
  /\ r \notin taken
  /\ todo' = todo \ {r}
  /\ taken' = taken \union {r}

(* Offered work may be withdrawn. *)
Withdraw == todo' = {} /\ UNCHANGED taken

Reset == todo' = {} /\ taken' = {}

WorkNext ==
  \/ \E rs \in SUBSET Requests : Offer(rs)
  \/ \E r \in Requests : Take(r) \/ Claim(r)
  \/ Withdraw
  \/ Reset

WorkSpec == WorkInit /\ [][WorkNext]_workVars
=============================================================================
