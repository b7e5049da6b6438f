------------------------------ MODULE AnswersOnce ------------------------------
(***************************************************************************)
(* What a worker may expect of a download handler: it asks for a page, and *)
(* some time later it is answered, once. CrawlPipeline supposes this of    *)
(* the handler that its loaders ask.                                       *)
(***************************************************************************)

EXTENDS FiniteSets

CONSTANT Requests

VARIABLES
  waiting,   (* The requests that were asked.                              *)
  answered   (* Those that were answered.                                  *)

answersVars == <<waiting, answered>>

AnswersInit == waiting = {} /\ answered = {}

Ask == \E r \in Requests \ (waiting \union answered) :
         waiting' = waiting \union {r} /\ UNCHANGED answered

(* A timer may answer several requests at once.                            *)
Answer == \E S \in SUBSET waiting :
            waiting' = waiting \ S /\ answered' = answered \union S

AnswersSpec == AnswersInit /\ [][Ask \/ Answer]_answersVars
=============================================================================
