------------------------------- MODULE Driver -------------------------------
(***************************************************************************)
(* driverLoadLogic of main.cpp: the list of URLs, the task system, the     *)
(* results processor, and one crawl whose URL callbacks, on the io thread  *)
(* of the downloader, hand every result to the task system.                *)
(*                                                                         *)
(* Crawler skips invalid URLs, answers every other once and returns after  *)
(* the last callback has (its AnsweredOnce), so the crawl is here one call *)
(* of async_ for each valid URL.  When driverLoadLogic returns, its locals *)
(* are destroyed in reverse order of declaration: crawler, downloader,     *)
(* resultsProcessor, and then taskSystem, whose destructor runs what is    *)
(* left.  An exception destroys those that exist in the same order.        *)
(***************************************************************************)
EXTENDS TaskSystem

CONSTANTS
  MaxUrls,            \* options.maxUrls
  PrefixLength,       \* the length of options.prefix
  MaxFilenameLength,  \* MAX_FILENAME_LENGTH
  Radix               \* the radix of the numbers in the names: 10

ASSUME DriverAssumption ==
  /\ \E io \in Poster : Poster = {io}
  /\ NrThreads = 1
  /\ MaxUrls \in 0 .. Posts - 1
  /\ PrefixLength \in Nat
  /\ MaxFilenameLength \in Nat
  /\ Radix \in Nat \ {0, 1}

(* What proofs use of powers, of which the provers know nothing.           *)
ASSUME PowerAssumption ==
  /\ Radix^0 = 1
  /\ \A n \in 1 .. MaxUrls + 1 :
       /\ Radix^n \in Nat \ {0}
       /\ \E d \in 1..n : Radix^(d - 1) <= n /\ n < Radix^d

VARIABLES
  dpc,            \* where the main thread is
  thrown,         \* whether driverLoadLogic ends by an exception
  nrUrls,         \* urlList.size()
  nrValid,        \* how many of them are valid
  m_hasCrawled,   \* of CrawlOnce
  processorAlive, \* whether resultsProcessor exists
  m_seq,          \* its counter of results
  files,          \* the result each file holds, by the name's number
  unsaved         \* history: how many results no file could be opened for

lists == <<nrUrls, nrValid, m_hasCrawled>>
processor == <<processorAlive, m_seq, files, unsaved>>
driver == <<dpc, thrown, lists, processor>>
dvars == <<vars, driver>>

DriverInit ==
  /\ Init
  /\ dpc = "readUrls" /\ thrown = FALSE
  /\ nrUrls = 0 /\ nrValid = 0
  /\ m_hasCrawled = FALSE
  /\ processorAlive = FALSE
  /\ m_seq = 0
  /\ files = [name \in {} |-> {}]
  /\ unsaved = 0

-----------------------------------------------------------------------------
(* WriteDownloadResultToFile *)

(* static_cast<int>(log10(nrDownloads)) + 1, undefined for no download. *)
MaxNumberOfDigits ==
  CHOOSE d \in 1..nrUrls : Radix^(d - 1) <= nrUrls /\ nrUrls < Radix^d

(* Mutant: the end of the name is cut one character early. *)
KeptDigitsLess ==
  {d \in 0..MaxNumberOfDigits : d = 0 \/ PrefixLength + d < MaxFilenameLength}

(* How many of the number's digits may be left by the cut. *)
KeptDigits ==
  {d \in 0..MaxNumberOfDigits : d = 0 \/ PrefixLength + d <= MaxFilenameLength}

(***************************************************************************)
(* generateFilename: prefix, padded number and URL, cut at the maximal     *)
(* length.  Two names are equal when the digits left of their numbers are, *)
(* for the URL follows only when all digits are left.                      *)
(***************************************************************************)
FileName(seq) ==
  LET kept == CHOOSE d \in KeptDigits : \A k \in KeptDigits : k <= d
  IN  seq \div Radix^(MaxNumberOfDigits - kept)

(* The task: the processor takes the next name and writes the result, if   *)
(* the file can be opened.                                                 *)
SaveResult(w, opened) ==
  /\ processorAlive
  /\ RunJob(w)
  /\ m_seq' = m_seq + 1
  /\ files' = IF opened
              THEN [name \in DOMAIN files \cup {FileName(m_seq)} |->
                      IF name = FileName(m_seq) THEN worker[w].job ELSE files[name]]
              ELSE files
  /\ unsaved' = unsaved + IF opened THEN 0 ELSE 1
  /\ UNCHANGED <<dpc, thrown, lists, processorAlive>>

(* What a destroyed processor does is undefined, and not followed further. *)
UseDestroyed(w) ==
  /\ ~processorAlive
  /\ RunJob(w)
  /\ UNCHANGED driver

WriteResult(w) ==
  \/ \E opened \in BOOLEAN : SaveResult(w, opened)
  \/ UseDestroyed(w)

-----------------------------------------------------------------------------
(* driverLoadLogic *)

MainGoes(from, to) ==
  /\ dpc = from /\ dpc' = to
  /\ UNCHANGED <<lists, processor>>

(* Mutant: maxUrls is not looked at. *)
ReadUrlsWhole ==
  /\ dpc = "readUrls" /\ dpc' = "taskSystem"
  /\ \E lines \in 0 .. MaxUrls + 1, url \in 0..1 : nrUrls' = lines + url
  /\ UNCHANGED <<vars, thrown, nrValid, m_hasCrawled, processor>>

(* The file's first lines, if a file is given, and the URL, if one is. *)
ReadUrls ==
  /\ dpc = "readUrls" /\ dpc' = "taskSystem"
  /\ \E lines \in 0 .. MaxUrls + 1, url \in 0..1 :
       nrUrls' = (IF lines < MaxUrls THEN lines ELSE MaxUrls) + url
  /\ UNCHANGED <<vars, thrown, nrValid, m_hasCrawled, processor>>

(* readUrlsFromFile throws when the file cannot be opened. *)
ReadUrlsFails ==
  /\ MainGoes("readUrls", "end")
  /\ thrown' = TRUE
  /\ UNCHANGED vars

(* The constructors of the task system, ... *)
BuildTaskSystem ==
  /\ dpc = "taskSystem"
  /\ StartThread \/ StartThreadFails \/ OwnerCloses
  /\ UNCHANGED driver

(* ... which has destroyed itself when it threw, ... *)
TaskSystemFails ==
  /\ opc = "gone"
  /\ MainGoes("taskSystem", "end")
  /\ thrown' = TRUE
  /\ UNCHANGED vars

(* ... of the processor, and of downloader and crawler, which may throw. *)
BuildCrawler(fails) ==
  /\ dpc = "taskSystem" /\ opc = "use"
  /\ dpc' = IF fails THEN "return" ELSE "keepCrawling"
  /\ thrown' = fails
  /\ processorAlive' = TRUE
  /\ UNCHANGED <<vars, lists, m_seq, files, unsaved>>

(* CrawlOnce: true at the first call only.  The dispatcher gives all URLs, *)
(* some of which may be invalid.                                           *)
KeepCrawling ==
  /\ dpc = "keepCrawling"
  /\ dpc' = IF m_hasCrawled THEN "return" ELSE "crawl"
  /\ m_hasCrawled' = TRUE
  /\ nrValid' \in IF m_hasCrawled THEN {nrValid} ELSE 0..nrUrls
  /\ UNCHANGED <<vars, thrown, nrUrls, processor>>

(* A URL's callback on the io thread. *)
Callback(io) ==
  /\ dpc = "crawl" /\ poster[io].posted < nrValid
  /\ Async(io)
  /\ UNCHANGED driver

(* The round ends when every URL's callback has returned. *)
EndOfRound ==
  /\ \A io \in Poster : poster[io].posted = nrValid /\ poster[io].at = "idle"
  /\ MainGoes("crawl", "keepCrawling")
  /\ UNCHANGED <<vars, thrown>>

DestroyProcessor ==
  /\ dpc = "return" /\ dpc' = "destroyTaskSystem"
  /\ processorAlive' = FALSE
  /\ UNCHANGED <<vars, thrown, lists, m_seq, files, unsaved>>

DestroyTaskSystem ==
  /\ dpc = "destroyTaskSystem"
  /\ StartDestructor \/ OwnerCloses
  /\ UNCHANGED driver

Return ==
  /\ opc = "gone"
  /\ MainGoes("destroyTaskSystem", "end")
  /\ UNCHANGED <<vars, thrown>>

MainStep ==
  \/ ReadUrls \/ ReadUrlsFails
  \/ BuildTaskSystem \/ TaskSystemFails
  \/ \E fails \in BOOLEAN : BuildCrawler(fails)
  \/ KeepCrawling \/ EndOfRound
  \/ DestroyProcessor \/ DestroyTaskSystem \/ Return

IoStep(io) == Callback(io) \/ (AsyncStep(io) /\ UNCHANGED driver)

WorkerStep(w) ==
  \/ WriteResult(w)
  \/ (WorkerSearch(w) \/ WakeSpuriously(w)) /\ UNCHANGED driver

DriverEnded == dpc = "end" /\ UNCHANGED dvars

DriverNext ==
  \/ MainStep
  \/ \E io \in Poster : IoStep(io)
  \/ \E w \in Thread : WorkerStep(w)
  \/ DriverEnded

DriverSpec == DriverInit /\ [][DriverNext]_dvars

-----------------------------------------------------------------------------
(***************************************************************************)
(* "e.g. write each download result into separate file": no result that    *)
(* was saved has been overwritten by a later one.                          *)
(***************************************************************************)
SeparateFiles == Cardinality(DOMAIN files) + unsaved = m_seq

(***************************************************************************)
(* "Process your own downloads sequentially here": the number in a file's  *)
(* name is the place of its result in the order of the answers, whatever   *)
(* became of the results before it.                                        *)
(***************************************************************************)
NumberedInOrder ==
  \A io \in Poster : \A name \in DOMAIN files : files[name] = {<<io, name + 1>>}

(***************************************************************************)
(* "The TaskSystem destructor waits for all the tasks to finish, only      *)
(* after that dependent objects can be destroyed": no task runs after the  *)
(* results processor it uses has been destroyed.                           *)
(***************************************************************************)
ProcessorOutlivesTasks ==
  \A w \in Thread : worker[w].at = "run" => processorAlive
=============================================================================
