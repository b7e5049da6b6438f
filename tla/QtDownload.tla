------------------------------- MODULE QtDownload -------------------------------
(***************************************************************************)
(* QtBasedDownloadHandler: the download handler that is used when libcurl  *)
(* does not start, on a thread of its own, with Qt's network access.       *)
(*                                                                         *)
(* A request gets a QNetworkReply, and another one for every redirect that *)
(* is followed. Three things can end a reply, in any order:                *)
(*                                                                         *)
(*   it finishes                          urlDownloaded, called at once    *)
(*   its headers say that it is no page   metaDataChanged, a queued call   *)
(*   it takes too long                    onTimeoutTimerTicked             *)
(*                                                                         *)
(* and each of them looks whether the reply was processed already. Between *)
(* requests there may be a pause: then they queue for a timer. A crawl     *)
(* that is started or continued sets the pause, the timeout and the number *)
(* of redirects from the options, while requests of before are under way.  *)
(*                                                                         *)
(* Left out: stopRequestHandling, as nothing stops a download, and the     *)
(* progress of a reply. What a server answers, and when, is open.          *)
(***************************************************************************)

EXTENDS Integers, FiniteSets, Sequences

CONSTANTS
  Requests,    (* The requesters; each asks once.                          *)
  Urls,        (* Where a redirect may lead.                               *)
  Timed,       (* Requests with useTimeout, as a worker's are.             *)
  AutoDetect,  (* Requests with CommandAutoDetectionBodyLoading.           *)
  Redirects,   (* The values of the option; none is negative, zero is none.*)
  MaxSettings  (* Bound of the model: how often the options are set.       *)

Headers == {"none", "page", "other"}

ASSUME DownloadAssumption ==
  /\ Urls \intersect Headers = {}
  /\ Timed \subseteq Requests /\ AutoDetect \subseteq Requests
  /\ Redirects \subseteq Nat /\ MaxSettings \in Nat

VARIABLES
  requesterQueue,  (* m_requesterQueue: they wait for the pause to end.    *)
  activeRequests,  (* m_activeRequests, m_requesters and                   *)
                   (* m_activeRequestersReplies, which change together.    *)
  hopsChain,       (* m_responses: the urls of the hops so far.            *)
  (* The reply a request has last got, its number among them, and what it  *)
  (* has received: nothing, the headers of a page or of something else, or *)
  (* the url it is redirected to.                                          *)
  replyUrl, replyNumber, header,
  unprocessed,     (* The requests whose last reply is not processed.      *)
  activeReplies,   (* m_activeReplies: their last replies may time out.    *)
  metaDataCalls,   (* The queued calls of metaDataChanged.                 *)
  (* The options of the handler.                                           *)
  pauseRange, timeout, maxRedirects, settings,
  (* History, for the properties only.                                     *)
  asked,           (* The requests that were made.                         *)
  answers,         (* How often each was answered.                         *)
  overtaken        (* maxRedirects was set below the hops they had.        *)

replyVars == <<replyUrl, replyNumber, header>>
optionVars == <<pauseRange, timeout, maxRedirects, settings>>
downloadVars == <<requesterQueue, activeRequests, hopsChain, replyVars, unprocessed,
                  activeReplies, metaDataCalls, optionVars, asked, answers,
                  overtaken>>

Init ==
  /\ requesterQueue = <<>> /\ activeRequests = {}
  /\ hopsChain = [r \in Requests |-> <<>>]
  /\ replyUrl \in [Requests -> Urls]   (* What each request asks for.      *)
  /\ replyNumber = [r \in Requests |-> 0]
  /\ header = [r \in Requests |-> "none"]
  /\ unprocessed = {} /\ activeReplies = {} /\ metaDataCalls = {}
  (* The first start of a crawl has set the options.                       *)
  /\ pauseRange \in BOOLEAN /\ timeout \in BOOLEAN /\ maxRedirects \in Redirects
  /\ settings = 0
  /\ asked = {} /\ answers = [r \in Requests |-> 0] /\ overtaken = {}

-----------------------------------------------------------------------------
(***************************************************************************)
(* A request is made, and waits for the pause to end.                      *)
(***************************************************************************)

load(r) ==
  /\ activeRequests' = activeRequests \union {r}
  /\ replyNumber' = [replyNumber EXCEPT ![r] = 1]
  /\ unprocessed' = unprocessed \union {r}
  /\ activeReplies' = activeReplies \union ({r} \intersect Timed)
  /\ UNCHANGED <<hopsChain, replyUrl, header, metaDataCalls, optionVars, answers,
                 overtaken>>

handleRequest(r) ==
  /\ r \notin asked /\ asked' = asked \union {r}
  /\ \/ /\ ~pauseRange
        /\ load(r) /\ UNCHANGED requesterQueue
     \/ /\ pauseRange
        /\ requesterQueue' = Append(requesterQueue, r)
        /\ UNCHANGED <<activeRequests, hopsChain, replyVars, unprocessed, activeReplies,
                       metaDataCalls, optionVars, answers, overtaken>>

(* The timer of the pause runs only while there is one.                    *)
onTimerTicked ==
  /\ pauseRange /\ requesterQueue # <<>>
  /\ requesterQueue' = Tail(requesterQueue)
  /\ load(Head(requesterQueue))
  /\ UNCHANGED asked

-----------------------------------------------------------------------------
(***************************************************************************)
(* A reply ends.                                                           *)
(***************************************************************************)

(* processReply, unless it follows a redirect: the last hop is added, and  *)
(* the answer is posted.                                                   *)
Respond(S) ==
  /\ unprocessed' = unprocessed \ S /\ activeReplies' = activeReplies \ S
  /\ activeRequests' = activeRequests \ S
  /\ hopsChain' = [r \in Requests |-> IF r \in S THEN Append(hopsChain[r], replyUrl[r])
                                      ELSE hopsChain[r]]
  /\ answers' = [r \in Requests |-> IF r \in S THEN answers[r] + 1 ELSE answers[r]]
  /\ UNCHANGED <<requesterQueue, replyVars, optionVars, asked, overtaken>>

(* A mutant of TooManyRedirections: the hops are counted too late. *)
TooManyRedirectionsLate(r) ==
  maxRedirects > 0 /\ Len(hopsChain[r]) = maxRedirects + 1

TooManyRedirections(r) == maxRedirects > 0 /\ Len(hopsChain[r]) = maxRedirects

(* How often the url is in the chain, the reply at hand not counted.       *)
urlsInChain(r, url) == Cardinality({i \in DOMAIN hopsChain[r] : hopsChain[r][i] = url})

(* A mutant of Followed: a redirect that closes a cycle is followed. *)
FollowedInCycles(r) == header[r] \in Urls /\ ~TooManyRedirections(r)

Followed(r) ==
  /\ header[r] \in Urls
  /\ ~TooManyRedirections(r) /\ urlsInChain(r, header[r]) <= 2

(* A mutant of followRedirect: the new reply is not watched for its time. *)
followRedirectUntimed(r) ==
  /\ hopsChain' = [hopsChain EXCEPT ![r] = Append(@, replyUrl[r])]
  /\ replyUrl' = [replyUrl EXCEPT ![r] = header[r]]
  /\ replyNumber' = [replyNumber EXCEPT ![r] = @ + 1]
  /\ header' = [header EXCEPT ![r] = "none"]
  /\ activeReplies' = activeReplies \ {r}
  /\ UNCHANGED <<requesterQueue, activeRequests, unprocessed, metaDataCalls,
                 optionVars, asked, answers, overtaken>>

(* processReply, when it follows a redirect: the request goes on with      *)
(* another reply, whose time starts anew.                                  *)
followRedirect(r) ==
  /\ hopsChain' = [hopsChain EXCEPT ![r] = Append(@, replyUrl[r])]
  /\ replyUrl' = [replyUrl EXCEPT ![r] = header[r]]
  /\ replyNumber' = [replyNumber EXCEPT ![r] = @ + 1]
  /\ header' = [header EXCEPT ![r] = "none"]
  /\ UNCHANGED <<requesterQueue, activeRequests, unprocessed, activeReplies,
                 metaDataCalls, optionVars, asked, answers, overtaken>>

(* The reply finishes: finished is told by the reply to the access manager *)
(* and by that to the handler, at once. After an error, at any moment, the *)
(* status is not that of a redirect, whatever the headers were.            *)
urlDownloaded(r) ==
  /\ r \in unprocessed
  /\ \/ Followed(r) /\ followRedirect(r)
     \/ Respond({r}) /\ UNCHANGED metaDataCalls

(* The headers arrive, which the reply tells by a queued call.             *)
headersArrive(r) ==
  /\ r \in unprocessed /\ header[r] = "none"
  /\ \E h \in (Headers \ {"none"}) \union Urls : header' = [header EXCEPT ![r] = h]
  /\ metaDataCalls' = metaDataCalls \union {<<r, replyNumber[r]>>}
  /\ UNCHANGED <<requesterQueue, activeRequests, hopsChain, replyUrl, replyNumber,
                 unprocessed, activeReplies, optionVars, asked, answers, overtaken>>

(* A mutant of isReplyProcessed: the reply's mark is not looked at. *)
isReplyProcessedNever(r, n) == FALSE

(* A processed reply stays so; the request may go on with another one.     *)
isReplyProcessed(r, n) == r \notin unprocessed \/ n < replyNumber[r]

(* What is neither page nor redirect is answered without its body, and     *)
(* then aborted.                                                           *)
metaDataChanged(r, n) ==
  /\ <<r, n>> \in metaDataCalls /\ metaDataCalls' = metaDataCalls \ {<<r, n>>}
  /\ IF ~isReplyProcessed(r, n) /\ r \in AutoDetect /\ header[r] = "other"
     THEN Respond({r})
     ELSE UNCHANGED <<requesterQueue, activeRequests, hopsChain, replyVars, unprocessed,
                      activeReplies, optionVars, asked, answers, overtaken>>

(* The replies that have taken too long are aborted, by which they finish. *)
onTimeoutTimerTicked(S) ==
  /\ timeout /\ S # {} /\ S \subseteq activeReplies
  /\ Respond(S) /\ UNCHANGED metaDataCalls

-----------------------------------------------------------------------------
(***************************************************************************)
(* Crawler::startCrawling sets the options, by one blocking call each.     *)
(***************************************************************************)

AtStart ==
  /\ settings < MaxSettings /\ settings' = settings + 1
  /\ UNCHANGED <<requesterQueue, activeRequests, hopsChain, replyVars, unprocessed,
                 activeReplies, metaDataCalls, asked, answers>>

(* setPauseRange and resetPauseRange. What queues is not looked at.        *)
setPauseRange(on) ==
  /\ pauseRange' = on /\ AtStart /\ UNCHANGED <<timeout, maxRedirects, overtaken>>

setTimeout(on) ==
  /\ timeout' = on /\ AtStart /\ UNCHANGED <<pauseRange, maxRedirects, overtaken>>

setMaxRedirects(redirects) ==
  /\ maxRedirects' = redirects /\ AtStart
  /\ overtaken' = overtaken \union
       {r \in activeRequests : redirects > 0 /\ redirects < Len(hopsChain[r])}
  /\ UNCHANGED <<pauseRange, timeout>>

-----------------------------------------------------------------------------
Next ==
  \/ onTimerTicked
  \/ \E r \in Requests :
       \/ handleRequest(r) \/ headersArrive(r) \/ urlDownloaded(r)
       \/ \E n \in 1..replyNumber[r] : metaDataChanged(r, n)
  \/ \E S \in SUBSET activeReplies : onTimeoutTimerTicked(S)
  \/ \E on \in BOOLEAN : setPauseRange(on) \/ setTimeout(on)
  \/ \E redirects \in Redirects : setMaxRedirects(redirects)

Spec == Init /\ [][Next]_downloadVars

(* The handler's timers tick, and a reply whose time is over is aborted.   *)
(* A server, and the network, owe nothing.                                 *)
TimesOut(r) == \E S \in SUBSET activeReplies : r \in S /\ onTimeoutTimerTicked(S)

FairSpec ==
  /\ Spec /\ WF_downloadVars(onTimerTicked)
  /\ \A r \in Requests : WF_downloadVars(TimesOut(r))

-----------------------------------------------------------------------------
(***************************************************************************)
(* Properties.                                                             *)
(***************************************************************************)

Queued == {requesterQueue[i] : i \in DOMAIN requesterQueue}

(* The types; and a request that waits for an answer has a requester and a *)
(* reply that may still end, so that no event of a reply looks for a       *)
(* requester that was removed.                                             *)
QtTypeOK ==
  /\ requesterQueue \in Seq(Requests) /\ activeRequests \subseteq Requests
  /\ hopsChain \in [Requests -> Seq(Urls)] /\ replyUrl \in [Requests -> Urls]
  /\ replyNumber \in [Requests -> Nat] /\ header \in [Requests -> Headers \union Urls]
  /\ activeReplies \subseteq Timed /\ metaDataCalls \subseteq Requests \X Nat
  /\ pauseRange \in BOOLEAN /\ timeout \in BOOLEAN
  /\ maxRedirects \in Redirects /\ settings \in Nat
  /\ asked \subseteq Requests /\ answers \in [Requests -> Nat]
  /\ overtaken \subseteq Requests
  /\ unprocessed = activeRequests /\ activeReplies = unprocessed \intersect Timed

(* The number of redirects followed keeps to the option, as long as it is  *)
(* not set below what a request has followed already: from then on nothing *)
(* but a cycle ends its redirects.                                         *)
RedirectLimitKept ==
  maxRedirects > 0 =>
    \A r \in activeRequests \ overtaken : Len(hopsChain[r]) <= maxRedirects

(* However a server redirects, no url is asked for more than three times   *)
(* more after the first: a chain of redirects always ends.                 *)
RedirectsEnd ==
  \A r \in Requests, url \in Urls :
    Cardinality({i \in DOMAIN hopsChain[r] : hopsChain[r][i] = url}) <= 4

(* The handler answers what it is asked, once. *)
Handler == INSTANCE AnswersOnce
             WITH waiting <- Queued \union activeRequests,
                  answered <- {r \in Requests : answers[r] = 1}
AnsweredOnce == Handler!AnswersSpec

(* While replies time out, a request is answered; unless the pause it      *)
(* queues for is switched off, for then nothing ends its wait.             *)
EveryRequestAnswered ==
  \A r \in Timed :
    r \in asked ~> answers[r] > 0 \/ ~timeout \/ (~pauseRange /\ r \in Queued)
=============================================================================
