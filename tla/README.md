# CheapCrawler in TLA+

CheapCrawler is a C++ crawler library: `Crawler` fetches lists of URLs from a
dispatcher, downloads the `robots.txt` of each host and then its URLs, one
download per host at a time and with a pause between two downloads of one host,
and calls each URL's callback with the result. `CurlAsioDownloader` makes the
transfers with libcurl's multi-socket interface on one Boost.Asio thread. A
sample driver writes the results to files through a small task system, and the
command line program around it configures a logger all threads write to.

The modules here model that program, its concurrent core first; TLC checks them on
small instances and TLAPS proves every invariant, and all the refinements, for
every value of the constants. Paths below are those of the repository.

## Inventory

| Component | Source | State | Operations | Hard behaviour |
|---|---|---|---|---|
| Crawler | `src/crawler/crawler.cpp` | active counter, and per round: queues, heap, action queue | rounds of `crawl`, finish actions | two threads share the queues without a lock; when does a round end; who wakes the crawl thread |
| RobotsLogic | `src/crawler/RobotsLogic.cpp` | map of robots to URL lists, shared lists in callbacks | populate, robots.txt callback, URL callback | callbacks of the io thread extend the queues |
| DownloadQueues | `src/crawler/DownloadQueues.h` | map host to vector | find-or-insert, add, pop, erase | a pop of an empty queue throws; iterators are kept in closures |
| TimeHeap | `src/crawler/TimeHeap.h` | heap of (time, popper) | construct, push, pop, topTime | ties, stale clock value |
| ActionQueue | `src/crawler/ActionQueue.h` | vector, mutex, condition variable | push, three ways to execute | lost wake-ups, lifetime, batches run once |
| CurlAsioDownloader | `src/crawler/CurlAsioDownloader.cpp` | sockets and their watches, timer, list of transfers | post, open/close socket, socket and timer events, finish | events for closed and reused descriptors, error paths, shutdown |
| DownloadManager, HeaderHandler | `src/utils/curl/` | a pointer to a Pimpl; in it content, header state, error text | construction, moves, swap, header and write callbacks, finish, reuse | split header lines, content limit, a reuse that fails half way |
| curl wrappers | `src/utils/curl/Curl*` | handles, a released flag | add, remove, release, reuse | who takes a handle out of the multi handle |
| TaskSystem, JobQueue | `src/utils/TaskSystem.h`, `JobQueue.h` | one queue, flag and worker per thread | constructor, async_, worker loop, shutdown | try-lock stealing, shutdown with jobs left, a thread that is refused |
| Driver | `src/crawler/main.cpp` | options, list of URLs, results processor, task system | reading options and the list, one crawl, one task per answer | order of destruction, exceptions of the constructors |
| URL validation | `src/utils/uriUtils/` | none | isValid | letter case |
| Logger | `src/utils/Logger.*` | registry of components, log file, mutex | enable, setOutput, the macros | messages that log, configuration without the mutex |
| Utilities | `src/utils/` | none | handleExceptions, ProgramLogic | |

Interaction: the dispatcher and the predicate `keepCrawling` are called by the
crawl thread. It posts downloads to the io thread of the downloader. That thread
runs the callbacks, which append to the `DownloadQueues` of the round and push a
finish action on its `ActionQueue`; the crawl thread runs the finish actions,
which put a queue back into the heap or erase it. The driver's URL callbacks hand
the results to the task system's worker. All three threads call the logger.

What makes each component correct: every valid URL is answered exactly once, in
the round it was given in, after its robots.txt (Crawler with RobotsLogic);
nobody uses a queue another thread uses (DownloadQueues); a host is left alone
for the delay and at most `maxActiveQueues` hosts are asked at once (TimeHeap,
counter); an action that was pushed is run exactly once, promptly, and the
queue outlives its users (ActionQueue); every transfer ends and is reported
once, and every socket event reaches the socket it was for (downloader); libcurl
holds no handle of a manager that is gone, and a result follows from its own
response (DownloadManager); every task is run once, before the task system is
gone (TaskSystem), and before what it uses is (Driver); results have files of
their own in the order of the answers, and `main` returns, with no thread left
(Driver); what was asked to be shown is shown, and logging never deadlocks
(Logger).

## Modules

| Module | Models | Uses |
|---|---|---|
| `Urls` | elements, robots keys, which host a job belongs to | |
| `DownloadQueues` | `DownloadQueues`, as operators on a function from hosts to sequences | |
| `TimeHeap` | `TimeHeap`, as operators on a set of entries | |
| `Crawler` | `Crawler::crawl`, `populateDownloadQueuesWithRobots`, the callbacks and the finish action | the three above |
| `CrawlService` | abstract: what a user of the crawler sees | `Urls` |
| `CrawlerRefinement` | the mapping from `Crawler` to `CrawlService` | `Crawler`, `CrawlService` |
| `CrawlerProofs` | the theorems about the queues of `Crawler` | `Crawler` |
| `CrawlerRefinementProofs` | the theorems about its jobs, and that it implements `CrawlService` | `CrawlerRefinement`, `CrawlerProofs` |
| `MCCrawler` | instances for TLC | `CrawlerRefinement` |
| `CrawlerClaims` | documented properties the crawler does not have | `MCCrawler` |
| `ActionQueue` | `ActionQueue` with its mutex and condition variable | `AtomicActionQueue` (instance) |
| `AtomicActionQueue` | abstract: the indivisible queue that `Crawler` takes for granted | |
| `ActionQueueProofs` | the theorems about `ActionQueue` | `ActionQueue` |
| `TaskSystem` | `TaskSystem` and `JobQueue` | `TaskService` (instance) |
| `TaskService` | abstract: what a user of the task system sees | |
| `TaskSystemProofs` | the theorems about `TaskSystem` | `TaskSystem`, `Vectors` |
| `Driver` | `driverLoadLogic`, `CrawlOnce`, `WriteDownloadResultToFile`, `readUrlsFromFile` | `TaskSystem` |
| `Logger` | class `Logger` and the `LOG_` macros | |
| `Main` | `main`, `readCommandLineArgs`, `processLogging`, `handleExceptions`; three threads that log | `Driver`, `Logger` |
| `MCMain` | the instance for TLC | `Main` |
| `MainProofs` | the theorems about `Main`, `Driver` and `Logger` | `Main`, `TaskSystemProofs` |
| `CurlAsioDownloader` | the class, with libcurl and the reactor as actors | `Downloader` (instance) |
| `Downloader` | abstract: the interface `Downloader`, as `Crawler` relies on it | |
| `CurlAsioDownloaderProofs` | the theorems about `CurlAsioDownloader` | `CurlAsioDownloader`, `Vectors` |
| `Transfer` | the transfers of one `DownloadManager::Pimpl`, with `HeaderHandler` | |
| `DownloadManager` | `DownloadManager` objects and the `CurlEasyMultiManager` in each Pimpl | `Transfer` |
| `DownloadManagerProofs` | the theorems about both | `DownloadManager` |
| `Vectors` | lemmas about what a sequence contains after `Append`, `Tail`, a swap of its ends | |

### Crawler

Two threads act. `pc` is the position of the crawl thread in `Crawler::crawl`:
`keep` (calling `keepCrawling`), `populate` (in
`populateDownloadQueuesWithRobots`, one action per element), `loop` (the inner
`while`), `wait` and `waitUntil` (in the two blocking methods of the action
queue), `add` (the `do` loop, one download per action), `drain` (`execute`),
`execute` (running a batch of finish actions) and `done`. A job on the io side is
`flying` (posted and not ended), `calling` (its callback is running) or
`notifying` (at the callback's call of `onFinishedDownload`). The robots.txt
callback adds one URL per action. `finishActions` is the content of the action
queue, an action being named by the queue it carries.

A map is a function, an iterator is the key it points to, a vector is a
sequence whose back is its last element: each host's queue is a stack, as
`popDownload` takes the back. The heap is a set of entries; ties are broken in
any way, because `std::pop_heap` breaks them by layout. Two equal entries would
merge in the set; `QueueOwnership`, proved, says that a host never has two.

All times are relative to the present: `Tick` moves the due times, the clock value
read and nothing else one unit into the past. An entry older than `Horizon` is
just as due as one of that age, so time may stop there; the comparison
`crtTime >= topTime` keeps its value because both are aged together and stop
together. Between the reading of the clock and its use time may pass.

Elements whose URL does not pass `isValid` are skipped, as in the code, which
logs them and never calls their callback. The dispatcher returns elements it has
not returned before; elements may have equal URL texts, since only scheme and
host matter here.

The history variables `dispatched`, `ended`, `failed`, `since` and `callCount`
are read by properties only.

### ActionQueue

One action is one step of a thread between two points where another can see a
difference. Blocking and releasing the mutex are one step, as the condition
variable guarantees; a blocked thread wakes by a notification, by its time or for
no reason, and takes the mutex again. `execute` is the method that never blocks.
`ran` counts how often each action was run; that it is never twice is part of
`TypeOK`. `Destroy` is the end of the round in `crawl`: it happens once every action that
will be pushed has been run and no thread is in an executing method, and does not
wait for a thread inside `push`.

### TaskSystem

A critical section of `JobQueue` is one action, the notification after the
unlock another. `try_lock` may fail spuriously by the standard, and fails when
another thread is inside, so a try may always fail; this covers every contention.
`m_jobIndex` wraps at `IndexLimit`. The constructor starts one thread per action
and may be refused one; its exception then runs the releasers that exist (the
queue whose thread was refused has one already), and the members' destructors
join the threads that were started. `opc` is where the owner is.

`TaskService` knows tasks that are new, submitted, running and done, and that
closing waits. A task is submitted once it is in a queue, runs while it is a
worker's local job, and is done when that is reset; the service is closed once
all workers are joined.

### Driver, Logger and Main

In `Driver` the crawl is one call of `async_` for each valid URL, which
`AnsweredOnce` and `RoundEnds` of `Crawler` justify, and the locals of
`driverLoadLogic` die in reverse order. `dpc` is where that function is:
`readUrls`, `taskSystem` (its constructor), `keepCrawling`, `crawl` (a round),
`return` (crawler and downloader are destroyed), `destroyTaskSystem`, `end`;
`thrown` says how it ended. The list may be empty, the file may be missing, the
constructors of task system, downloader and crawler may throw, and a file may fail to open.
A file name is reduced to what decides whether two are equal, the digits of its
number that are left after the cut. `log10` of an empty list is undefined in the
code and is left so: nothing may ask for a file name then.

In `Logger` a component is its place in the registry, since names may repeat.
`Enable` has the two branches of `enable`: the empty name, which `--debug ""` gives,
stands for every component, and any other name for those that have it.
`logging` is the stack of the log calls of each thread: a call evaluates its
message, which may call another, takes the mutex, writes, returns. Which level
and component a call has is left open where it writes.

`mainAt` is where `main` is before and after the driver. Which option is given is
chosen where the code looks at it. `MainTypeOK` joins the types of `TaskSystem`,
`Driver`, `Logger` and `Main`. Main, io thread and worker may log whenever
their code does, and a thread inside a log call takes no other step. The build
modelled is one in which `LOG_DEBUG` is compiled in.

### CurlAsioDownloader

Three actors: the io thread with its reactor, libcurl while the io thread is
inside it, and the owner who posts downloads and calls the destructor. `pc` is
where the io thread is: `run` (between two handlers, where the reactor may queue
events), `newDownload`, `curl` (inside `curl_multi_socket_action`), `finish` (in
the loop of `processFinishedDownloads`) and `callback`. Inside libcurl any number
of sockets may be opened, watched differently and closed and any transfer may
end, each by the callback into the class; on leaving, libcurl asks for a time-out
if it needs one. What it knows is `conn`, the transfer that uses each of its open
sockets, and `asked`. What is assumed of it: it closes only sockets it has opened,
calls the socket callback only for a change, and, having an active transfer, never
leaves with no time-out asked for (every transfer has `CURLOPT_TIMEOUT`).

A wait is a count for a descriptor and a direction, an event a record in the queue
`handlers`; neither knows which socket it was for, as in the code. Closing a socket
turns its waits into events with an error at the end of the queue. `mpc` is where the
owner is, the destructor being one action for each group of members. After
`Join` the events that are left are dropped at once, and with them the waits, though
the code drops them with their containers, since nothing can see them any more.
Once the `io_context` is stopped `openSocket` returns descriptor 0 (`Stdin`), which
`m_sockets` does not know, and libcurl goes on with it as with any other: the
socket callback and `closeSocket` may be called for it. An exception out of a
callback sends the io thread to `threw`.
`CURL_POLL_NONE` is only ever the initial action; libcurl never asks for it.
Descriptors of the c-ares resolver never enter `m_sockets` and are left out.

### Transfer and DownloadManager

`Transfer` follows one Pimpl, used at most `Uses` times, also in the middle of a
transfer. libcurl is a server's response in its order (a header that begins with a
status line, body, trailers) that may break off at any point, or a body alone: the
libcurl that `src/conanfile.txt` pins, 7.61.1, takes answers of HTTP/0.9 by default.

Header text comes in pieces, and only CRLF ends a line for `HeaderHandler`. libcurl
passes a line that ends in LF alone on as it came, so such a line is to the handler
a piece that has not ended: it stays in `m_buffer`, unprocessed, and whatever the
next calls bring joins it until a CRLF comes (`Appended`, `Rest`). A line is what
`process` makes of its beginning, where the matches are anchored; the body is its
length. `lines` (the header text, cut at each CRLF), `body` and `failure` are history
variables that only the property reads: `ResultTellsResponse` says what the result
must be from the response as a whole, while the code sees it in pieces. What
it asks for is what the code promises, not what one might wish: the status and
the media type are those of the lines that CRLF has ended, and a response whose
status line never ends so, or that has no header, is a success unless its body is too
long or libcurl meets an error.

`DownloadManager` adds the objects around it: `m_pimpl` of each variable,
which Pimpls live and where, their released flags, and libcurl's set of easy
handles. The Pimpl at the address `Followed` has its transfers followed. A `reuse`
that fails after `release()` leaves the manager unusable, as every later one throws
"already released"; destruction must then leave the multi handle alone.

## Runs

| Run | Instance | Shows |
|---|---|---|
| `crawler_slots` | 3 hosts, one with both schemes, one round or two (one of a single URL), 2 slots, delay 2 | `TypeOK`, `ActiveCount`, `PopSafe`, `WaitHasWaker`, `PoliteWithinRound`, `ImplementsService` |
| `crawler_batches` | all lists of up to 2 of 4 elements and some of 3, one with an invalid element, 2 hosts, 2 schemes, 1 slot | `QueueOwnership`, `AnsweredOnce`, `RobotsFirst`, `RoundEnds`, `EveryUrlAnswered` |
| `action_queue` | 2 pushing threads, twice each, 2 executing | `TypeOK`, `NoLostWakeup`, `DestroySafe`, `ImplementsAtomic`, `EveryActionRuns` |
| `task_system` | 2 posting threads, once each, 2 workers | `TypeOK`, `JobsKept`, `NoSleepingWorker`, `ImplementsService`, `EveryJobRuns`, `DestructorReturns` |
| `driver` | `Main`: up to 3 URLs, numbers of 2 digits, 3 components of which 2 share a name | `MainTypeOK`, `SeparateFiles`, `NumberedInOrder`, `DebugAsAsked`, `ExitMeansDone`, `ProgramEnds` |
| `downloader` | 2 downloads, 1 descriptor number | `TypeOK`, `WatchKept`, `TransferTimed`, `MessagesRead`, `TimerStaysDestroyed`, `NoHandlerThrows`, `ImplementsDownloader`, `EveryDownloadEnds` |
| `transfer` | `DownloadManager`: 2 objects, 2 addresses; 3 pieces of header text or none, 5 bytes, limit 3, 2 uses | `TypeOK`, `ResultTellsResponse`, `PimplsOwned`, `HandlesLive` |
| `claim_polite` | | the delay is not kept across rounds |
| `claim_robots_error` | | a failed robots.txt does not stop its URLs |
| `claim_lifetime` | | tasks run after the results processor is destroyed |
| `claim_files` | | a long prefix makes results overwrite each other |
| `claim_callback` | | a callback starts after the downloader's destructor was called |

The claims are properties the documentation or a comment states and the code
does not have; each run ends in a counterexample. Three smaller disagreements met on
the way have no run of their own: `maxUrls`, "the maximum number of URLs to be
downloaded" (`main.cpp:60`), limits the lines of the file, and a URL given beside it
is one more; "each download result is saved" (`main.cpp:49`), but a result whose
file cannot be opened is lost without a message; and "if content type not
supported return with error" (`HeaderHandler.cpp:76-77`), but an answer whose header
lines end in LF alone, or that has no header, is a success with neither its status
nor its media type checked (`Wanted` in `Transfer` says so).

Bounds. Two hosts make queues independent and two schemes of one host make two
robots.txt downloads share a queue; a third host with two slots makes hosts compete
for a slot while one is in flight and one waits for its delay, and a second round
of one URL returns to a host of the first. With the five elements of
`crawler_batches` a second round can repeat hosts of the first, and one host can have two
URLs of one scheme. `Delay` 2 (in `crawler_slots`) tells a host that is due from
one that is half way; `crawler_batches`, about what does not depend on time, has
1. `Horizon` is a bound of the model, explained above. `Passes` is 32 in the code
and 1 or 2 in the runs: a longer search repeats the same tries. `IndexLimit` is
2^32 in the code and 2 in `task_system`, so that the index wraps. In `driver` names
have numbers to the base `Radix`, 10 in the code and 2 in the run, so that three
results have numbers of two digits; a `PrefixLength` of 48 leaves room for just these.
`MaxUrls` 2 and a URL beside the file make three. `MaxLogs` 2 lets two threads
contend for the mutex, and `MaxDepth` 2 a message log within another. In `downloader`
one descriptor number is enough for a number to be given out again, and the two
downloads use it in turn or share its connection; `MaxWaits` 2 lets a socket have
both a wait and the event of another, or two waits of a direction. The timer has
one event in the queue at a time. In `transfer` the limit is reached, met exactly
and passed by the chunks, and two uses let the first leave something behind; three
pieces of header text are enough for a line in two pieces and another, or for a line left
in the buffer that a next one joins; two
variables and two addresses let a Pimpl change hands while another lives.

Fairness. The crawl thread and the io thread are scheduled (weak fairness of each
thread as a whole). Every transfer ends because `CURLOPT_TIMEOUT` bounds it
(`CurlEasyDownloadManager.cpp`). Time passes. `keepCrawling`, the dispatcher and
new posts are assumed nothing of. In the downloader the io thread is weakly fair, which
includes that libcurl returns and that callbacks do; so is a destructor that was
called. The timer's end is strongly fair: libcurl may set the timer anew, but for the
same moment, so it cannot put it off for ever. That a transfer ends is assumed
of timer events only (strong fairness, by `CURLOPT_TIMEOUT`), never of socket
events, so that `EveryDownloadEnds` rests on the timer. Taking a mutex is strongly fair for each thread
of the action queue, since other threads may hold it in between; nothing is
assumed of spurious wake-ups or time-outs. The workers, the posting threads and
the owner of the task system are weakly fair once inside it. In `Main` each thread is
weakly fair, which includes that transfers and the crawl end, as shown by the other
modules; taking the logger's mutex is strongly fair for each thread. Nothing is
assumed of calls that log. Options are finite: naming a component again with
`--debug` changes nothing.

## Proofs

Eight modules hold theorems; each proof module EXTENDS the model it is about. Every
invariant that a passing run checks is proved for every value of the constants, and
so are the refinements and the two action properties of the crawler. The bounds
of the runs (`Uses`, `MaxHeader`, `MaxBody`, `MaxWaits`, `Posts`, `Passes`,
`MaxLogs`, `MaxDepth`, `Horizon`) are constants of the theorems, that is any
natural number.

Each proof has the same form: an inductive invariant, one lemma for each action
(or group of actions with the same effect) that says it is kept, `NextInv` that
joins them, and the properties as consequences. TLC checked each inductive
invariant on the run's instance before it was proved. A refinement is a
lemma for the initial states, one for each action that is not a stutter, and one
that joins them.

| Module | Theorem | States |
|---|---|---|
| `CrawlerProofs` | `TypeCorrectness`, `Ownership`, `Counting`, `PopNeverThrows`, `SleeperIsWoken`, `Politeness` | `TypeOK`, `QueueOwnership`, `ActiveCount`, `PopSafe`, `WaitHasWaker`, `PoliteWithinRound` |
| `CrawlerRefinementProofs` | `UrlsAnsweredOnce`, `RobotsGoFirst`, `ServiceRefinement` | `AnsweredOnce`, `RobotsFirst`, `ImplementsService` |
| `ActionQueueProofs` | `TypeCorrectness`, `WakeUpsKept`, `OneHoldsMutex`, `DestructionSafe`, `AtomicRefinement` | `TypeOK`, `NoLostWakeup`, mutual exclusion, `DestroySafe`, `ImplementsAtomic` |
| `TaskSystemProofs` | `TypeCorrectness`, `WorkersWakeUp`, `NoJobLost`, `ServiceRefinement` | `TypeOK`, `NoSleepingWorker`, `JobsKept`, `ImplementsService` |
| `MainProofs` | `MainTypeCorrectness`, `NothingIsLeft`, `DebugShown`, `OneFileEach`, `InOrderOfAnswers`, `DriverUsesTaskSystem`, `ProgramKeepsJobs` | `MainTypeOK`, `ExitMeansDone`, `DebugAsAsked`, `SeparateFiles`, `NumberedInOrder`, that the program's steps are the task system's, `JobsKept` |
| `CurlAsioDownloaderProofs` | `TypeCorrectness`, `WatchIsKept`, `TransfersTimed`, `AllMessagesRead`, `TimerLeftAlone`, `CloseSocketFinds`, `DownloaderRefinement` | `TypeOK`, `WatchKept`, `TransferTimed`, `MessagesRead`, `TimerStaysDestroyed`, `NoHandlerThrows`, `ImplementsDownloader` |
| `DownloadManagerProofs` | `TypeCorrectness`, `ResultsTell`, `DeletedOnce`, `NobodyGoneIsCalled`, `OneTransfer` | `TypeOK`, `ResultTellsResponse`, `PimplsOwned`, `HandlesLive`, that the steps are those of `Transfer` |
| `Vectors` | | lemmas the others use |

### The inductive invariants

`Crawler`, queues. `QueueOwnership` alone is not inductive: that an erased queue
has no owner left needs to know that the owner running the finish action was the
only one, and `ActiveCount` and `PopSafe` need to know what is in each queue and
where the crawl thread is. `IInv` joins the types, the ownership, what the queues
contain (`QueueContents`: a queue in the heap is not empty, the URLs a robots.txt
will release belong to its host) and what each `pc` implies (`PcInvariant`). The
wake-up argument is: in `wait` either no slot is free, and the owners counted by
`active` are not zero, or the heap is empty, and some queue exists; either way a
busy host exists that is not in the action queue, so its job is in flight.

`Crawler`, jobs. "Answered once" needs to know where a URL is until it is
answered. `JobInv` says that the batch, the lists of the robots keys, the queues
and the io thread's hands are disjoint and hold nothing twice (`OnePlace`), that the
valid URLs without an answer are exactly those in them (`NoneLost`), that a list that is
not empty has its robots.txt before it (`RobotsOrder`), and what a round
leaves to the next. A round ends with no queue, hence with nothing in any place. The
mapping of `ServiceRefinement` reads these places.

`ActionQueue`. `NoLostWakeup` is a statement about the moments between an append and
its notification, so it needs to know who is between them: `MutexHeld`. That no
action is run twice needs to know where an action is until then: in the vector or
in one batch, once (`OnePlace`, and `NotYetRun`: no action still there has been
run). That
the queue may die although nobody waits for a `push` to return rests on
`PushNotTaken`: the action of a push that still holds the mutex is neither in a
batch nor run, so not all actions can have been run.

`TaskSystem`. `OnePlace` and `NoneLost` are the content of `JobsKept` without its
cardinalities, which the last step adds. `NoSleepingWorker` must know that a closed
queue was closed by an owner who still has to notify (`ClosedInOrder`), and the
constructor that is refused a thread that the workers that run are the first ones
(`ThreadsStarted`) and that nobody has posted yet (`CallersKnow`). That a
stolen or tried index is one of a queue rests on `a % b < b`, whatever `IndexLimit` is.

`Main` and `Driver`. The theorems of `TaskSystemProofs` are used as they are: each step
of the program is a step of `TaskSystem` or leaves it alone. `RunInOrder` is the reason why
numbers follow the answers: the one worker runs the one poster's tasks in the
order of their posting (so many done, at most one in its hands, the others
queued in order). `OwnerInStep` ties the driver's place to the task system's, `CrawledOnce`
says when the posts are all made, and `DriverInside`, `LogsWithin` and `ExitKnown`
lift this to `main`. `OneFileEach` and `InOrderOfAnswers` hold under
`RoomForNumbers`: the prefix and the digits of the largest number fit into
`MAX_FILENAME_LENGTH`. The program does not check that, and the run `claim_files` shows what
happens without.

`CurlAsioDownloader`. `WatchKept` and `TransferTimed` hold between two handlers; within
one, the event just taken still counts (`Watched`, `Timed`). `Counted` says that
the number of transfers the io thread goes by is right whenever it may cancel the
timer by it. `SocketsKnown`, true until the `io_context` is stopped, is why
`closeSocket` does not throw.

`Transfer` and `DownloadManager`. `HeaderFollows` says that the state of the header
handler and its media type are functions of the lines that have ended so far, and that
`m_buffer` is what came after the last CRLF. `CutByCrlf` says that of the history, and
hence of the buffer, only the last line may not have ended: therefore the loop of
`operator()` makes one call of `process`, or none when the text that comes does not
end the line (lemma `HandleOneLine`). `RunsWell` and `EndedForReason` say the same of content
and errors. Of the objects, `PointersUnique` is the ownership; `HandlesLive` is
inductive with it.

### Assumptions

Each module's constants have one named assumption, and TLC evaluates it in the
runs. Beyond types, `QueueAssumption` asks for an executing thread, since with
none the last push notifies nobody and nothing is ever run; `DriverAssumption` says what
the driver is (one posting thread, one worker, room for the URLs);
`DownloaderAssumption` keeps descriptor 0 out of the numbers the system gives
away, as standard input is open. `PowerAssumption` of `Driver` is not about the code: it
says of the powers of `Radix` up to the number of URLs what arithmetic says of every
radix above 1 (they are positive, the zeroth is 1, every number lies between
two of them), because the provers know nothing of `^`.

### Only model-checked

Liveness is out of the prover's reach, as are ENABLED and fairness: `RoundEnds`,
`EveryUrlAnswered`, `EveryActionRuns`, `EveryJobRuns`, `DestructorReturns`,
`ProgramEnds` and `EveryDownloadEnds` are checked by TLC on the runs' instances. The
claims are violated, so there is nothing to prove.

## Plan

1. Done: the model of every component, the runs, the proofs above.
2. To prove: the joints between the modules. `Crawler` takes an indivisible action
   queue, a downloader and one round at a time for granted: that its steps are
   steps of `AtomicActionQueue` and of `Downloader`, as `DriverUsesTaskSystem` shows of the
   driver and the task system, and that the crawl of `Driver` is `CrawlService`.
3. To model: the composition of `Crawler` with `Downloader` in place of the io side
   it assumes now.

## Not modelled

* The moves of `CurlEasyMultiManager`: its only user keeps it in a Pimpl that does
  not move. The options set on an easy handle. `CurlMultiManager` and
  `CurlGlobalManager` are moments of the downloader's destructor.
* The finished callback of `DownloadManager` as a value: `CurlAsioDownloader` has
  its call as a step, and nothing sets it a second time.
* Parsing URLs: an element's host, scheme and validity are given.
* Disabling debug messages, which no caller does; the texts and columns of
  messages; `printUrls`; the contents of files.
* The vendored `unique_resource` as code of its own, of which the releasers of the
  task system and the handles use what is modelled there; hashing and printing; the
  test helper `NotifyBox`.
* The debug build evaluates log texts that read the queues of other threads
  (`crawler.cpp:62`); `Crawler` describes the release build.
