# A TLA+ model of the SEO spider's crawler engine

The program crawls a web site: it downloads the start page, takes the links out
of it, downloads those, and shows every page it got. The engine
(`src/crawlerengine`) is a multi-threaded Qt program, and this directory holds
TLA+ modules that model how its threads share work, how a crawl comes to its
end, how it is stopped, cleared, saved and loaded, how pages are downloaded and
how a project gets to its file, the TLC runs that check these models on small
instances, and proofs of what holds for every instance.

## The system

| component | state | operations | who talks to it |
|---|---|---|---|
| link store, `unique_link_store.cpp` | pending, crawled and active urls, refresh queue, limit; one recursive mutex | add, extract, claim, clear, save and load the lists | every worker, the main thread |
| shared counters, `crawler_shared_state.cpp` | one atomic integer per thread's progress, and the turn of the crawl | set, add, load | everyone |
| crawler worker, `crawler_worker.cpp` | running or not, what is left of the answer in hand | start, stop, clear, extract and download, handle an answer | store, loader, model |
| page loader, `qt_page_loader.cpp` | at most one requester | can it take more?, load, answer, clear | worker, downloader |
| model controller, `model_controller.cpp` | about sixty storages of pages | handle a result, clear | workers (queued), main thread (blocking) |
| collections, `unordered_` and `sequenced_data_collection.cpp` | the storages of the model's thread and those of the view | add, clear | queued signals |
| crawler, `crawler.cpp` | state (Pending, Working, Pause, PreChecking, Serialization, ...), session, options | start, stop, clear, refresh, save, load, close, two 100 ms timers | user interface, everyone |
| checks before a crawl, `host_info_provider.cpp`, `robots_txt_loader.cpp`, `xml_sitemap_loader.cpp` | one requester and one ready flag each | start, answer | crawler |
| requesters and dispatch, `requester.cpp`, `thread_message_dispatcher.cpp`, `message_queue.cpp` | weak references to requesters; a queue per thread, drained every 21 ms | post, cancel, answer | loaders, handlers |
| download handlers, `*_download_handler.cpp`, `multi_request_page_loader.cpp` | pending, active and paused requesters, replies and their times, the hops of a request, the pause between requests | load, redirect, time out, stop, pause, reset | dispatcher |
| project files, `serializer.cpp`, `serialization_tasks.cpp` | a temporary and a backup file | save, load | crawler, a task thread |
| parsers, link filter, robots.txt rules, site map | none that outlives a call | pure functions | workers |
| licence, data feeds, screenshot maker, interface, services | see PROJECT.json | | |

Threads talk by queued Qt signals, which keep their order per receiver, by
blocking queued calls (stop, clear of the model), and by shared atomic counters
and the locked store. Nothing makes the calls that one slot makes a single step.

What is hard here, and what a correct crawler needs:

- *The link store.* Many workers at once. No url is handed out twice, a pending
  url is never a crawled one, the counters are the sizes of the lists, no limit
  is outgrown.
- *The end of a crawl.* The main thread infers from six counters of three
  threads that nothing is left to do. The counters must account for every page,
  the inference must be sound, and a crawl must come to its end.
- *Stop and start.* A stop must reach every worker before the user may go on;
  what was loading is still handled.
- *Clear.* Requests, answers, results and signals of the old crawl are still
  under way when the new one starts, and must not mix with it.
- *Checks before a crawl.* Each answer comes late, and nothing asks whether it is
  still wanted. One operation at a time; no workers before the checks; a window
  that is blocked is given back.
- *Project files.* A crawl that is saved and loaded goes on "from this point". No
  crash and no failing rename may lose what was reported as saved.
- *Requests.* Weak references, queues that reverse or strand requests, replies
  that finish, time out and are redirected in any order. Every request is
  answered, and once.

`PROJECT.json` lists every hazard at its line.

## Modules

| module | models |
|---|---|
| `UniqueWork` | what a crawl promises about its work: a request is offered, handed out or claimed at most once, until everything is forgotten |
| `UniqueLinkStore` | the link store: one action per public method, and the two counters it moves |
| `UniqueLinkStoreProofs` | theorems about it |
| `CrawlPipeline` | main thread, workers, loaders and model controller from the start of a crawl to its end, with stop and clear; it EXTENDS the store |
| `CrawlPipelineProofs` | theorems about it: its types, stop, turns, and the view |
| `CrawlBalanceProofs` | that its counters account for every page, and that equal counters mean a complete crawl |
| `ProjectRoundTrip` | save, close and load on top of `CrawlPipeline` |
| `ProjectRoundTripProofs` | theorems about it |
| `MultiSocketDownload` | a worker's loader with many requests at once, the message queues between threads, the download handler and libcurl's transfers |
| `MultiSocketDownloadProofs` | theorems about it |
| `CrawlerSession` | the state machine of `Crawler`: the checks before a crawl, start, stop, clear, page refresh, save, load and close, and the frame that blocks the window |
| `CrawlerSessionProofs` | theorems about it |
| `ProjectVault` | what a user may expect of a directory that projects are saved to |
| `ProjectFileSave` | the save task's calls on the file system, a load, and crashes between any two of them |
| `ProjectFileSaveProofs` | theorems about it, and that it implements `ProjectVault` |
| `AnswersOnce` | what a worker needs of a download handler: a request is answered once |
| `QtDownload` | the download handler that is used without libcurl: replies, timeouts, redirects, options |
| `QtDownloadProofs` | theorems about it, and that it implements `AnswersOnce` |
| `MC...` | small instances for TLC |

`CrawlPipeline`, `MultiSocketDownload` and `QtDownload` meet at the page loader. The program has
two of them, each with its download handler: when libcurl starts, workers use the
one of `MultiSocketDownload` (`application.cpp:56`), otherwise, and in the tests,
the one of `CrawlPipeline`, which holds one request. `CrawlPipeline` needs of
either that a request gets one answer, and that a stopped worker may still get
it. `QtDownload` implements just that (`AnswersOnce`); `MultiSocketDownload` says
how far it goes with libcurl. `CrawlerSession` starts and stops
what `CrawlPipeline` does in between, and has no more of it than whether the
workers run and a page is shown; `ProjectRoundTrip` says what a project holds,
`ProjectFileSave` how it gets to the disk.

### How the state and the actions correspond to the code

*Store.* Variables carry the names of the members without `m_`. A public method
holds the mutex throughout, so it is one action. The counters move in
`IncrementGuardExt`, a guard whose destructor runs before the lock is given up.
They are atomics that others read without the lock, and the two guards of
`extractUrl` move them one after another; the only reader that combines the two
is `onAboutCrawlingState`, which loads the crawled counter before the pending
one, so what it can see between the two moves it can also see around one step.
A list of links is one action: which of its links get in before a limit stops it
depends on the order of the list, so any subset of the right size may.

*Workers.* What a worker does with an answer is a list of calls (`job`), one
action each, in the order of the code: take the answer off the active list,
extract the next url, add each list of links to the store, emit the result,
count it, claim the blocked links, then claim and handle each redirect hop. What
is in a page is a constant (`Links`, `Blocked`, `Hops`), and so is whether the
options filter it (`Filtered`). `workerQueue` is the worker's queued events.
`extractDue` stands for a queued `urlAdded` and for the armed timer alike: both
call the same function, and a second one finds nothing that the first did not.

*Loader and downloader.* `requester` is the loader's one requester, `inFlight`
the requests the download handler will answer: it holds them by shared pointer,
so an answer arrives also after the loader has forgotten its requester, and it
frees the loader whatever it asked for meanwhile.

*Model.* `handleWorkerResult` checks the turn of a result, then `modelAdd` puts
the page into the Crawled storage and signals it, `modelAccept` moves the
accepted counter, `modelCount` the crawled one. Pages of one url share an entry.

*Main thread.* `mainPc` is what it is in the middle of: the loads of
`onAboutCrawlingState` one by one (`snapshot`), a blocking stop, the three parts
of `clearData`. The user's commands are guarded by what the interface enables.

*Projects.* `saveFile` and `loadFromFile` change the state and wait for
`isReadyForSerialization`; the three reads of the save are three actions; the
file is what was collected. Qt delivers posted calls before the user's next
input, so a save begins only when the view has handled the `cleared` signal of the
clear before (`saveFile`): its pages are those of one crawl.

*Loader and handler of libcurl.* The worker's variables are the loader's members;
`messages` is the vector that `ThreadMessageDispatcher::execute` empties from its
end, one message per action, while the handler posts to it. `handlerQueue` is the
handler's queue of Qt calls, oldest first: requests, and the `loaded` signals of
transfers that are done. Requests to pause, unpause and reset name requesters by
raw pointer, so the model allocates requesters at addresses and frees them with
their last shared pointer (`Alive`). `stillRunning` is libcurl's count as the
handler last saw it: `doAction` compares it and starts a pending request,
`timeoutAction` and `resetConnection` do not. libcurl itself is not in the
repository; whether `curl_multi_add_handle` counts before it returns is left open
(`CurlRefreshes`), and so is when a transfer ends. What comes back is an end or a
redirect, up to `maxRedirects`.

*Session.* `state`, `prevState`, `session`, `crawlingFinished` are members of
`Crawler`; `frame` is the `WaitOperationFrame` that covers the window while an
operation runs. A loader is three facts: is it ready, was its file there, and
whose file it is. `readyCalls` are the posted calls of
`onCrawlingSessionInitialized`. Qt handles posted calls before the user's next
input, so a command waits for them (`InWindow`). The menu of the tray icon is not
covered by the frame: with `TrayMenu` TRUE, Start and Stop come at any time.

*Files.* Each call of `SerializationTask::run` on the file system is an action of
its own that may fail, and each outcome goes where the code's `try` block takes
it. `project`, `tmp` and `old` are the files on the disk; what a file holds is the
version of the data it was written from, or a part of one (`Cut`). `Crash` forgets
everything but the disk.

*Qt handler.* A request goes through replies that are numbered, so that a queued
`metaDataChanged` can be told from the present one. `unprocessed` and
`activeReplies` are the marks that `isReplyProcessed` and the timeout read. What
the network sends is open: `headersArrive` and the finish come in any order, or
never.

## Runs

| run | asks | instance | result |
|---|---|---|---|
| `store` | does any order of the store's calls hand a url out twice, lose count or outgrow a limit? | 3 requests; limits -1, 0, 1, 2; trial cap 2; 1 refresh | holds |
| `crawl` | do the counters always account for every page, and do equal counters mean that the crawl is complete? | 2 workers; a home page, a GET and a HEAD of one link, a redirect and a blocked link to a filtered page; with and without trial licence; a clear when the crawl has ended | holds, when no worker is in the middle of a response |
| `crawl_stop` | stop at any moment and start again: does a stopped worker start anything, does the crawl end, is every taken page shown? | 2 workers, 2 pages, throttle 0 | holds, under fairness |
| `project` | clear while the old crawl's answers and signals are under way, or save, close, load, and go on: do the counters stay balanced, is anything loaded twice, do view and model agree, and is what a save waits for enough? | 1 worker; a home page, and a page that redirects back to it | holds; the last when no worker is in the middle of a response |
| `download` | stop, clear and start while requests are queued, pending, paused, loading, redirected or answered: is any lost, loaded or answered twice? | 2 requests, 1 connection, up to 2 redirects each, with and without a pause between requests | holds |
| `session` | do operations overlap, do workers run outside of the Working state or before the checks, does a blocked window stay blocked? | 2 hosts, 4 starts, commands of the window | holds, the last under fairness |
| `file_save` | can a crash or a failing call lose a saved project or put an old one in its place; does every task end? | 3 saves, 3 versions, 2 crashes | holds, the last under fairness |
| `qt_download` | is a request answered twice, or never; do redirects end, and keep to their limit? | 2 requests, one of a worker; a page that redirects to itself; limit 2 or none; options set twice | holds, under fairness where it asks for an answer |
| `crawl_finish` | "has ended crawling": is the crawl complete then? | as `crawl` | **no** |
| `download_asleep` | can the handler sleep while a running worker waits? | nobody stops or clears | **yes** |
| `file_save_clear` | is data that is to be saved and then cleared only cleared when it was saved? | as `file_save` | **no** |
| `session_robots` | does a crawl obey the robots.txt of its site? | 2 hosts, 3 starts | **no** |

The bounds are on the user's commands (`MaxStarts`, `MaxStops`, `MaxClears`,
`MaxSaves`, `MaxLoads`), on queued refreshes and on the site. Two workers are
enough for every race between workers, because a worker keeps nothing of the
others but the store and the counters; one is enough where the question is about
the main thread and the model. Two starts are what it takes for one crawl to
meet the leftovers of another. The download runs have one connection, so that the
second request meets the limit, and clear once. A second clear before the first
is answered is out of what `NothingLost` says: `m_onAboutClearData` is
overwritten (`multi_request_page_loader.cpp:101`), which frees requesters that the
first reset still names, and a request of the new crawl at such an address is
reset. It takes two clears and a start within one tick of 21 ms. The site of each run has the links that its
question needs: a resource that shares its url with a page, a hop, a blocked
link, a filtered page. A limit of 2, or a trial cap of 2, is met in the middle
of it. Two hosts are what a stale robots.txt takes, and each command of the window
can precede any other within four starts. Three saves are a first, one beside
whose file the first has left something, and one more after a crash; two crashes
hit a save and the recovery from it. The Qt handler keeps nothing that two
requests share but its queue and its options, so two requests are enough; with
two changes of the options a limit can be lowered and a pause switched off.

Deadlock is checked in every run of the crawl and of the session: `AtRest` is the
only stuttering the crawl may rest in. The runs of the handlers end when every
request was made, those of the files when saves and versions are used up, and
those that look for one violation stop at it; they do not check it.

### What the violations show

- `crawl_finish`: a worker emits and counts a page after it has told the store of
  its links, but a redirect hop or a blocked link is claimed only after that, and
  the six counters are read one by one. In between they can all agree, and the
  crawl stops itself with pages to come.
- `download_asleep`: a request waits for a connection, and the last transfer ends
  by libcurl's timer, for example because its host has no address. Nobody is told.
  A stop and a start within one tick of the queue (the newest first: unpause, then
  pause), and a pause range that is switched off while requests wait for its
  timer, have the same end.
- `file_save_clear`: the end of a save is told by `serializationProcessDone` alone,
  which does not say whether it was written, and the window clears on it.
- `session_robots`: `m_isReady` of the loader is never reset. The second crawl finds
  both loaders ready, loads nothing, and its workers get the rules of the host
  before; so does the first crawl after a project was loaded.

Some behaviour is in the models, and stated by no property, since it is known to
go wrong there: a worker's late clear zeroes a counter that another worker has
moved (`crawler_worker.cpp:152`), so that a crawl after a clear may never end; a
project that is saved while a page loads comes back with that page both crawled
and pending (`crawler.cpp:662`); a save while a stopped worker handles its last
answer, as it begins or between its three reads, writes the page's request down as
crawled and neither the page nor a pending url (`crawler.cpp:352` compares counters
only, and the worker takes the request off the active urls first and emits the page
last), so a crawl that goes on from the file never comes to it
(`SaveConditionSound` says that nothing else is missing when a save of the first
crawl begins); a loaded crawl with a filtered page never ends
(`crawler.cpp:588`). And with `TrayMenu` TRUE none of the invariants of
`CrawlerSession` holds: a stop from the tray ends no check, no save and no
refresh, and the late answer takes the crawler to a state nobody asked for.

### Fairness

`FairSpec` of `CrawlPipeline` assumes weak fairness of each worker's event loop, of
the model's, of the main thread's and of each download, and strong fairness of
the main thread's queued signals. Event loops run until the program ends; a
download ends in an answer, or in its timeout where there is one
(`qt_based_download_handler.cpp` gives each reply one as long as the option is not
0 and the caller wants it; with the option off, the assumption is that the server
answers or the connection ends); the main thread's loop serves its timers and its queued
signals both, so a timer that always fires again does not starve the signals.
Nothing is assumed of the user.

`CrawlerSession` assumes that some answer that can come does come (weak fairness
of `Answer` as a whole): lookups end in an answer, downloads as said above, the
event loop handles posted calls, and a task ends. The crawl and the user owe
nothing, so `WindowComesBack` does not rest on a stop.

`ProjectFileSave` assumes that the task's thread goes on, and that its answer is
handled. `TaskEnds` excepts the reading of a file that was cut, which does not end.

`QtDownload` assumes only the handler's two timers. The network may stay silent
for ever; `EveryRequestAnswered` therefore speaks of requests with a timeout while
the option sets one, and excepts what waits for a pause that was switched off.

## Proofs

`UniqueLinkStoreProofs` proves, for every finite set of requests, every limit
and every trial cap:

| theorem | property |
|---|---|
| `StoreAlwaysConsistent` | `StoreInv`, the inductive invariant |
| `StoreTypeCorrect` | `StoreTypeOK` |
| `PendingNeverCrawled` | `ListsConsistent` |
| `CountersAlwaysExact` | `CountersExact` |
| `LimitsAlwaysRespected` | `LimitRespected`, an action property |
| `StoreImplementsUniqueWork` | `HandedOutOnce`, the refinement of `UniqueWork` |

`StoreInv` is the conjunction of the three invariants, and none of them is
inductive alone. That a counter does not drop below zero needs that it is the
size of its list; that it stays that size when `addUrlList` adds `n` links at
once needs that the new links are in neither list and the lists are finite
(`AddedCount`); that the guard moves it by one needs that one call changes a list
by at most one element (`OneElement`, `GuardFollows`); that extracting a url
keeps pending and crawled apart needs that they were. `LimitRespected` follows
from `FittingBounds`: what fits is never more than the room there is. The
refinement maps `todo` to the pending and `taken` to the crawled urls; `Take` is
possible at all because a pending url was never crawled.

The only assumption is `StoreAssumption`: finitely many requests, a natural cap,
integer limits, a natural bound on refreshes. The proofs are about `StoreSpec`,
the store called by anyone in any order, without `setUrls`, which replaces the
lists by saved ones, and after which a pending url may be a crawled one.

`ProjectFileSaveProofs` proves, for any number of saves, versions and crashes:

| theorem | property |
|---|---|
| `FileTypeCorrect` | `FileTypeOK` |
| `ProjectNeverStale` | `NeverStale` |
| `SavedProjectSurvives` | `ACopySurvives` |
| `FilesAreAVault` | `ImplementsVault`, the refinement of `ProjectVault` |

The inductive invariant `FileInv` adds three things to the types and `NeverStale`.
`UpToNewest`: nothing on the disk or in memory is newer than the newest version.
`SaveInOrder`: the names that a save takes are free, and at each call of the task
what the calls before it have left where. `HeldWhole`, unless a device has cut a
file: what is written is complete and no older than what was reported or is in
the project's file, and until the task ends it is in one of its two places. The
rename to the project's name may fail unseen, and then the last version is in
the file `_tmp_`: the promise is kept on the disk, though not to a user who
looks for it under the project's name.

`CrawlerSessionProofs` proves, for any hosts and any number of starts, under the
assumption `~TrayMenu`:

| theorem | property |
|---|---|
| `SessionTypeCorrect` | `SessionTypeOK` |
| `WorkersAsStateSays` | `WorkersFollowState` |
| `CrawlWaitsForChecks` | `ChecksBeforeWorkers` |
| `OperationsExclude` | `OneThingAtATime` |

Their conjunction is not inductive. `SessionInv` adds `FrameBlocks` (every state
that waits for an answer shows the frame, so no command of the window comes in
it), `ChecksInOrder` (at most one check is under way, and what was answered before
it) and `PauseKnowsHost` (a paused crawl has its host, so a continued one asks for
nothing). The assumption is necessary, see above.

`CrawlPipelineProofs` and, on top of it, `CrawlBalanceProofs` prove, for any site,
options, number of workers and of commands, under `StoreAssumption` and
`PipelineAssumption`:

| theorem | property |
|---|---|
| `PipelineTypeCorrect` | `PipelineTypeOK` |
| `StopControl` | `ClearInv` and `ControlInv`, the inductive invariants of the blocking calls |
| `StoppedStartsNothing` | `StoppedStartNothing`, an action property |
| `ViewFollowsModel` | `ViewMatchesModel` |
| `PagesBalanced` | `PipelineBalanced` |
| `EndConditionHolds` | `EndConditionSound` |

*Stop.* `ControlInv` says what a blocked main thread knows: the workers before the
one that it waits for are quiet, the one it waits for has exactly one stop in its
queue, behind every start (`StopReaches`), and when no stop is under way no worker
of a crawler that does not work is about to run. The order within a queue is
needed: a start behind the stop would wake a stopped worker. Most steps are
`Milder`: they add neither a start nor a stop.

*View.* The main thread clears in three steps, and signals of the old crawl arrive
in between. `TurnInv` says that nothing under way is of a turn to come and that,
from the reset of the counters to the end of the clear, nothing is of the present
turn; so a late result is refused. `ViewInv` splits a queue of signals at its last
`cleared`: what was added behind it (`FreshIn`), with what is shown if no clear is
under way, is the model's storage, without overlap.

*Balance.* `BalanceInv`, until data is first cleared: the store is consistent
(`StoreInv`), everything is of the first turn (`FirstTurn`), and the three
equations of `PipelineBalanced` hold (`Balanced`). They can be counted because
the calls a handler has still to make come in pairs, a result and its counter
(`Paired`). That `PipelineBalanced` says no more after a clear is not for want of
an invariant: a worker's late clear zeroes a counter that others have moved.

*Completeness.* `CrawlInv` follows each page that was claimed. It is on its way to
the model or there, or filtered (`AccountedInv`); what it leads to is in the store,
or the call that puts it there is due, unless a limit was reached
(`FollowedInv`); and nothing is on its way that was not claimed (`SourcesInv`).
When all counters agree at one moment, the balance leaves nothing on its way, so
the crawled pages are closed under links and shown.

`ProjectRoundTripProofs` proves, for any number of clears, closes, saves and loads
too, under `ProjectAssumption` in addition:

| theorem | property |
|---|---|
| `ProjectPipelineTypeCorrect` | `PipelineTypeOK` |
| `ProjectTypeCorrect` | `ProjectTypeOK` |
| `ProjectStopControl` | `ProjectControl`, the inductive invariant of the blocking calls |
| `ProjectStoppedStartsNothing` | `StoppedStartNothing` |
| `ProjectViewFollowsModel` | `ViewMatchesModel` |
| `PagesLoadedOnce` | `NothingLoadedTwice` |
| `SavesLoseNothing` | `SaveConditionSound` |
| `ProjectPagesBalanced` | `PipelineBalanced` |
| `ProjectEndCondition` | `EndConditionSound` |

*What carries over.* The crawler's steps are those of `CrawlPipeline` and keep its
invariants by its lemmas. A close, and the first half of a load, begin as every
clear does (`ClearBegins`), so the lemmas on a clear hold of them. `PhaseInv` says
which part of a save or a load is under way, and that no crawl is started or
cleared meanwhile. Two steps are new: the clear of a load ends without telling the
workers, and the pages of a file come into model, view and counters in one call.

*View.* `LoadInv`: from the clear of a load until its pages come in, the model is
empty, nothing is active, and what is still under way is of an earlier turn, so
that it is refused. The pages then go behind the last `cleared` of the queue, and
`ViewInv` holds of what is fresh there.

*Loaded once.* Call a request owned when it was handed out and does not wait, and
settled when it is no longer active either. `SettledInv`: what loads is owned; what
is reported, queued or stored of this turn is settled. Within a crawl nothing that
is settled is given back, so the three reads of a save fit together although
workers go on between them (`SaveInv`): the pages read first are settled; what is
read next, pending and active, is none of them; and what is read last, the
crawled, still has them. Neither is inductive without the turns, since an answer
to the crawl before names a request that the crawl of now may not have handed out.
That active requests are saved both as crawled and as pending does no harm to
this: no page of theirs is saved.

*Balance.* `UnloadedInv`: before the first clear nothing is loaded, because what was
saved has a session with a name, and a load is refused while there is one. So
saves are all that is added to the first crawl, and `BalanceInv` and `CrawlInv` hold.

*What a save waits for.* `LoadsActive`: in the first crawl a page is on its way to
one worker, once, and active as long. That it loads once must be part of it, since
an answer takes its page off the active urls whether or not another is to come.
When workers, model and view have counted the same and no worker handles a
response, nothing is on its way to the view (`NothingToShow`), so a page that is
accounted for (`AccountedInv`) and does not load is shown.

`MultiSocketDownloadProofs` proves, for any requesters, addresses, limits and
commands, under `DownloadAssumption`:

| theorem | property |
|---|---|
| `DownloadTypeCorrect` | `DownloadTypeOK` |
| `DownloadsOnce` | `NothingTwice` |
| `DownloadsNotLost` | `NothingLost`, of the crawl up to its second clear |
| `OrphansAfterClear` | `OrphansOnlyAfterClear` |

The handler does not know a page by name: libcurl knows ids, redirects lead ids
to a first id, first ids lead to requesters that may be dead, and pauses and
resets name addresses that are used again. `DownloadInv` therefore adds to the
types and `NothingTwice`: a transfer ends in one signal (`LoadedOnce`); roots of
redirect chains are first requests, and the last redirect of a first request is
bound to it (`Bound`); a requester not yet made is nowhere (`Unused`); and an
address means one living requester (`Distinct`). `ClearInv`, for one clear: at most
one reset or its answer is under way, it names only requesters the worker has let
go of, and what the worker waits for is in one place (`LetGo`). `KnownInv`: before
any clear a live transfer has a requester, and the worker waits for it. A redirect
gives a request a new id, so the proofs follow chains of ids by their roots
(`Root`), with lemmas on how a chain changes when a link is added or removed.

`QtDownloadProofs` proves, for any requests, urls, limits and changes of options:

| theorem | property |
|---|---|
| `QtTypeCorrect` | `QtTypeOK` |
| `RedirectsLimited` | `RedirectLimitKept` |
| `RedirectsBounded` | `RedirectsEnd` |
| `HandlerAnswersOnce` | `AnsweredOnce`, the refinement of `AnswersOnce` |

`QtInv` adds `InOnePlace` (a request queues, or is active, or was answered, once)
and `HopsAfterLoad` (it has no hops before it is active), without which a request
could start beyond its limit. `StepKinds` reduces every step to one of seven kinds,
as whatever ends a reply ends in an answer or in another reply. `RedirectsEnd` is
proved from `VisitsBounded`: a url is in the chain of a request four times at most,
and three times while its own reply is awaited.

Induction over naturals, which the library's theorems offer only for an operator
as parameter, is replaced by a least counterexample where a proof needs it (the
chains of redirects, the elements a queue keeps).

Only model-checked:

- Liveness (`CrawlEnds`, `TakenIsShown`, `WindowComesBack`, `TaskEnds`,
  `EveryRequestAnswered`), which is out of the prover's reach, as are ENABLED and
  induction over data. Every invariant and every action property that a run finds
  to hold has a theorem, and so have the refinements.

## Not modelled

- Parsing of pages, urls, robots.txt and options, and the rules by which links are
  kept: pure functions on strings, whose outcome per link is a constant of the
  runs of `CrawlPipeline`.
- The sixty report storages, duplicates and the table models: data that no
  decision of the crawl reads. What a worker and the model do with a page that is
  refreshed belongs here too, as it replaces such data.
- Details of the host, the picture of its start page, licence checks, data feeds,
  statistics, crash reports and the interface's widgets: they keep no state of a
  crawl.
- The XML of a project: elements and attributes are data, but for the loops that
  read them, which `ReadProject` has.
- `stopRequestHandling` of the Qt handler, as nothing in the program stops one of
  its downloads; proxies and progress of both handlers.
- Libraries that are kept in the repository (gumbo, myhtml, googletest and others).
  They are most of the lines under `src/`, so the share of the whole that the
  models map is small, although they cover the engine's concurrent part.

`PROJECT.json` gives the reason for each component.

## Plan

1. Pure rules as functions with a reference definition: which robots.txt rule wins
   (`robots_txt_base_strategy.cpp`), which links the options keep
   (`options_link_filter.cpp`).
2. The refresh of a page through worker and model in `CrawlPipeline`.

A refinement of `AnswersOnce` by `MultiSocketDownload` is not planned: there, the
requests that wait and those that were answered are sets, so a second answer would
be a stutter of `AnswersOnce`, and the refinement would say less than `NothingTwice`
and `NothingLost` do.
