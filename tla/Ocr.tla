-------------------------------- MODULE Ocr --------------------------------
(***************************************************************************)
(* The text recognition of scanned statements: for each run the main       *)
(* process makes a task directory, lets a renderer process write the page  *)
(* images into it, starts a worker thread that runs one recogniser process *)
(* per page, collects the pages it posts, stops the thread and removes the *)
(* directory.  Timeouts, cancellations, failing processes and failing      *)
(* removals may come at any point, and the application may die.            *)
(***************************************************************************)
EXTENDS Integers, Sequences, FiniteSets

CONSTANTS
    Runs,      \* task ids (crypto.randomUUID): each run gets its own
    MaxPages,  \* limits.maxPages
    MaxEvents  \* bound: events of a thread that are under way at a time

ASSUME OcrAssumption == MaxPages \in Nat \ {0} /\ MaxEvents \in Nat \ {0}

VARIABLES
    stage,       \* where run() stands, see Stages
    wanted,      \* pages asked for: 1..pageCount
    outcome,     \* how run() settles: "none" so far, "completed" or "failed"
    dir,         \* the task directory with its files, see Files; {} is no directory
    renderer,    \* whether the renderer process lives
    thread,      \* the worker thread: "none", "live" or "gone"
    mapped,      \* whether the port's map has the run
    job,         \* the page the thread is at: 0 before the start message, then the end
    recogniser,  \* whether the recogniser process lives
    events,      \* posted by the thread and not yet handled
    pages        \* how often each page was pushed on the result

ocrVars == <<stage, wanted, outcome, dir, renderer, thread, mapped, job, recogniser, events, pages>>

\* The directory itself, source.pdf, and page-n.png for each n
Folder == -1
Source == 0
Files == -1..MaxPages

AllPages == 1..MaxPages
Ended == MaxPages + 1

Stages == {"idle", "made", "rendering", "starting", "racing", "stopping", "removing", "again",
           "done", "dead"}
InProgress == Stages \ {"idle", "done", "dead"}

Event == [type : {"page"}, page : AllPages \cup {Ended}]
           \cup {[type |-> "completed"], [type |-> "failed"], [type |-> "invalid"]}
Page(p) == [type |-> "page", page |-> p]
Completed == [type |-> "completed"]
Failed == [type |-> "failed"]

\* The pages the result has: "seen" of the code
Seen(r) == {p \in AllPages : pages[r][p] > 0}

-----------------------------------------------------------------------------
(* Preparation: LocalPdfOcrPipeline.run and the renderer *)

\* cleanupStale: directories more than a day old go.  A run lasts two timeouts of a minute,
\* so only those of runs that ended or died are that old.  Then r makes its own.
Leftover(r) == stage[r] \in {"done", "dead"} /\ dir[r] # {}

MakeDirectory(r, files) ==
    \E stale \in SUBSET {s \in Runs : Leftover(s)} :
       dir' = [s \in Runs |-> IF s = r THEN files ELSE IF s \in stale THEN {} ELSE dir[s]]

\* What a removal of r's directory leaves: nothing, or when it fails some of the files.
AfterRemoval(r) == {left \in SUBSET dir[r] : left = {} \/ Folder \in left}

\* run: clean up and make the directory of a new task, for the pages of the document.
Begin(r) ==
    /\ stage[r] = "idle"
    /\ MakeDirectory(r, {Folder})
    /\ \E n \in 1..MaxPages : wanted' = [wanted EXCEPT ![r] = 1..n]
    /\ stage' = [stage EXCEPT ![r] = "made"]
    /\ UNCHANGED <<outcome, renderer, thread, mapped, job, recogniser, events, pages>>

\* run: the clean-up or the making of the directory fails, before the try; what was made stays.
BeginFails(r) ==
    /\ stage[r] = "idle"
    /\ \E made \in {{}, {Folder}} : MakeDirectory(r, made)
    /\ stage' = [stage EXCEPT ![r] = "done"]
    /\ outcome' = [outcome EXCEPT ![r] = "failed"]
    /\ UNCHANGED <<wanted, renderer, thread, mapped, job, recogniser, events, pages>>

\* run goes to its finally with an error, when no thread was started.
GiveUp(r) ==
    /\ stage' = [stage EXCEPT ![r] = "again"]
    /\ outcome' = [outcome EXCEPT ![r] = "failed"]
    /\ UNCHANGED <<wanted, thread, mapped, job, recogniser, events, pages>>

\* render: source.pdf is written and the renderer spawned.
Render(r) ==
    /\ stage[r] = "made"
    /\ dir' = [dir EXCEPT ![r] = dir[r] \cup {Source}]
    /\ stage' = [stage EXCEPT ![r] = "rendering"]
    /\ renderer' = [renderer EXCEPT ![r] = TRUE]
    /\ UNCHANGED <<wanted, outcome, thread, mapped, job, recogniser, events, pages>>

\* render: the document, its pages or the limits are refused, or source.pdf is not written.
RenderRefused(r) == stage[r] = "made" /\ GiveUp(r) /\ UNCHANGED <<dir, renderer>>

\* source.pdf is unlinked in the end, or stays when that fails.
UnlinkSource(r) ==
    \E kept \in SUBSET {Source} : dir' = [dir EXCEPT ![r] = (dir[r] \ {Source}) \cup kept]

\* The renderer process writes a page, while its directory is there.
RendererWrites(r) ==
    /\ renderer[r] /\ Folder \in dir[r]
    /\ \E p \in wanted[r] \ dir[r] : dir' = [dir EXCEPT ![r] = dir[r] \cup {p}]
    /\ UNCHANGED <<stage, wanted, outcome, renderer, thread, mapped, job, recogniser, events, pages>>

\* Every page asked for is there, with the header of a PNG within the limits.
Readable(r) == wanted[r] \subseteq dir[r]

\* The renderer process closes with code 0, and the pages are read.
Rendered(r) ==
    /\ stage[r] = "rendering" /\ Readable(r)
    /\ renderer' = [renderer EXCEPT ![r] = FALSE]
    /\ UnlinkSource(r)
    /\ stage' = [stage EXCEPT ![r] = "starting"]
    /\ UNCHANGED <<wanted, outcome, thread, mapped, job, recogniser, events, pages>>

\* The renderer cannot be spawned, fails, complains too much, is cancelled or times out (the
\* last three kill it); or a page cannot be read.
RendererFails(r) ==
    /\ stage[r] = "rendering"
    /\ renderer' = [renderer EXCEPT ![r] = FALSE]
    /\ UnlinkSource(r) /\ GiveUp(r)

-----------------------------------------------------------------------------
(* Recognition: runOcrTask and ThreadOcrWorkerPort *)

\* start: a new thread, which is sent the start message.
StartThread(r) ==
    /\ stage[r] = "starting"
    /\ stage' = [stage EXCEPT ![r] = "racing"]
    /\ thread' = [thread EXCEPT ![r] = "live"]
    /\ mapped' = [mapped EXCEPT ![r] = TRUE]
    /\ UNCHANGED <<wanted, outcome, dir, renderer, job, recogniser, events, pages>>

\* The limits are exceeded, or the caller has cancelled: runOcrTask throws before its try.
\* Or start throws, in the try, before anything is in the map.
StartFails(r) ==
    /\ stage[r] = "starting"
    /\ \E next \in {"again", "removing"} : stage' = [stage EXCEPT ![r] = next]
    /\ outcome' = [outcome EXCEPT ![r] = "failed"]
    /\ UNCHANGED <<wanted, dir, renderer, thread, mapped, job, recogniser, events, pages>>

\* The race is over; in the same turn terminate takes the run from the map, sends the
\* cancellation and asks the thread to stop.
EndRace(r, result) ==
    /\ outcome' = [outcome EXCEPT ![r] = result]
    /\ stage' = [stage EXCEPT ![r] = "stopping"]
    /\ mapped' = [mapped EXCEPT ![r] = FALSE]

\* A bug to check against: OCR_INCOMPLETE compares nothing.
VerdictOfWorker(r) == "completed"

\* What runOcrTask settles with when the thread says it has completed.
Verdict(r) == IF Seen(r) = wanted[r] THEN "completed" ELSE "failed"

\* onEvent of a page: one that was not asked for, or comes again, is an error.
AcceptsPage(r, p) == p \in wanted[r] /\ p \notin Seen(r)

\* The thread's "message" handler with the race it may decide.  After the race only onEvent's
\* own effect is left: the array that was returned is the one it pushes to.
HandleEvent(r) ==
    /\ events[r] # <<>>
    /\ LET e == Head(events[r])
           accepted == e.type = "page" /\ AcceptsPage(r, e.page)
       IN  /\ events' = [events EXCEPT ![r] = Tail(events[r])]
           /\ pages' = IF accepted
                       THEN [pages EXCEPT ![r] = [pages[r] EXCEPT ![e.page] = @ + 1]]
                       ELSE pages
           /\ IF stage[r] = "racing" /\ ~accepted
              THEN EndRace(r, IF e.type = "completed" THEN Verdict(r) ELSE "failed")
              ELSE UNCHANGED <<outcome, stage, mapped>>
    /\ UNCHANGED <<wanted, dir, renderer, thread, job, recogniser>>

\* A bug to check against: no timeout, only the thread's end is heard.
RaceFailsWithThread(r) ==
    /\ stage[r] = "racing" /\ thread[r] = "gone"
    /\ EndRace(r, "failed")
    /\ UNCHANGED <<wanted, dir, renderer, thread, job, recogniser, events, pages>>

\* The timeout or the caller's signal aborts the race; or the thread's error or exit is heard,
\* once all it had posted was handled; or the start message cannot be sent.
RaceFails(r) ==
    /\ stage[r] = "racing"
    /\ EndRace(r, "failed")
    /\ UNCHANGED <<wanted, dir, renderer, thread, job, recogniser, events, pages>>

\* A bug to check against: terminate is not waited for.
StoppedUnheard(r) ==
    /\ stage[r] = "stopping"
    /\ stage' = [stage EXCEPT ![r] = "removing"]
    /\ UNCHANGED <<wanted, outcome, dir, renderer, thread, mapped, job, recogniser, events, pages>>

\* worker.terminate() resolves: the thread is gone with what it had posted, and with its
\* cancellation if it had not come to that.  The recogniser is a process, and goes on.
Stopped(r) ==
    /\ stage[r] = "stopping"
    /\ stage' = [stage EXCEPT ![r] = "removing"]
    /\ thread' = [thread EXCEPT ![r] = "gone"]
    /\ events' = [events EXCEPT ![r] = <<>>]
    /\ UNCHANGED <<wanted, outcome, dir, renderer, mapped, job, recogniser, pages>>

\* The clean-up of runOcrTask, whose error is swallowed.  A removal that fails has removed
\* some of the files.
RemoveDirectory(r) ==
    /\ stage[r] = "removing"
    /\ stage' = [stage EXCEPT ![r] = "again"]
    /\ \E left \in AfterRemoval(r) : dir' = [dir EXCEPT ![r] = left]
    /\ UNCHANGED <<wanted, outcome, renderer, thread, mapped, job, recogniser, events, pages>>

\* A bug to check against: the second removal is as lenient as the first.
RemoveAgainLeniently(r) ==
    /\ stage[r] = "again"
    /\ stage' = [stage EXCEPT ![r] = "done"]
    /\ \E left \in AfterRemoval(r) : dir' = [dir EXCEPT ![r] = left]
    /\ UNCHANGED <<wanted, outcome, renderer, thread, mapped, job, recogniser, events, pages>>

\* The finally of run: the map has the run no more, so terminate returns at once, and the
\* directory is removed once more.  An error of this removal becomes run's.
RemoveAgain(r) ==
    /\ stage[r] = "again"
    /\ stage' = [stage EXCEPT ![r] = "done"]
    /\ \E left \in AfterRemoval(r), failed \in BOOLEAN :
          /\ left # {} => failed
          /\ dir' = [dir EXCEPT ![r] = left]
          /\ outcome' = IF failed THEN [outcome EXCEPT ![r] = "failed"] ELSE outcome
    /\ UNCHANGED <<wanted, renderer, thread, mapped, job, recogniser, events, pages>>

-----------------------------------------------------------------------------
(* The worker thread and its recogniser *)

\* The thread posts events and goes to page p, whose recogniser it spawns.
Post(r, news, p) ==
    /\ Len(events[r]) + Len(news) <= MaxEvents
    /\ events' = [events EXCEPT ![r] = events[r] \o news]
    /\ job' = [job EXCEPT ![r] = p]
    /\ recogniser' = [recogniser EXCEPT ![r] = p # Ended]
    /\ UNCHANGED <<stage, wanted, outcome, dir, renderer, thread, mapped, pages>>

\* The start message: the first page's recogniser is spawned.
WorkerBegins(r) == thread[r] = "live" /\ job[r] = 0 /\ Post(r, <<>>, 1)

\* The recogniser of a page closes with code 0: the page is posted and the next one begun,
\* or the end is posted too.
Recognized(r) ==
    /\ thread[r] = "live" /\ recogniser[r]
    /\ IF job[r] + 1 \in wanted[r] THEN Post(r, <<Page(job[r])>>, job[r] + 1)
                                   ELSE Post(r, <<Page(job[r]), Completed>>, Ended)

\* The page's recogniser cannot be spawned, fails, prints too much or times out; what is left
\* of it is killed, and the failure posted.
RecogniserFails(r) == thread[r] = "live" /\ recogniser[r] /\ Post(r, <<Failed>>, Ended)

\* A start message that is refused; or the cancellation, if the thread comes to it.
WorkerFails(r) ==
    /\ thread[r] = "live"
    /\ job[r] = 0 \/ (recogniser[r] /\ stage[r] = "stopping")
    /\ Post(r, <<Failed>>, Ended)

\* Another worker behind the port, or one gone wrong: any event at any time.
Strays(r) ==
    /\ thread[r] = "live" /\ Len(events[r]) < MaxEvents
    /\ \E e \in Event : events' = [events EXCEPT ![r] = Append(events[r], e)]
    /\ UNCHANGED <<stage, wanted, outcome, dir, renderer, thread, mapped, job, recogniser, pages>>

\* The thread dies by itself.
ThreadDies(r) ==
    /\ thread[r] = "live"
    /\ thread' = [thread EXCEPT ![r] = "gone"]
    /\ UNCHANGED <<stage, wanted, outcome, dir, renderer, mapped, job, recogniser, events, pages>>

\* A recogniser whose thread is gone comes to its own end.
OrphanEnds(r) ==
    /\ thread[r] # "live" /\ recogniser[r]
    /\ recogniser' = [recogniser EXCEPT ![r] = FALSE]
    /\ UNCHANGED <<stage, wanted, outcome, dir, renderer, thread, mapped, job, events, pages>>

\* The application dies with its threads; directories and processes stay, and those of the
\* renderer come to their end.
OcrCrash ==
    /\ \E r \in Runs : stage[r] \in InProgress
    /\ stage' = [r \in Runs |-> IF stage[r] \in InProgress THEN "dead" ELSE stage[r]]
    /\ thread' = [r \in Runs |-> IF thread[r] = "live" THEN "gone" ELSE thread[r]]
    /\ mapped' = [r \in Runs |-> FALSE]
    /\ events' = [r \in Runs |-> <<>>]
    /\ renderer' = [r \in Runs |-> FALSE]
    /\ UNCHANGED <<wanted, outcome, dir, job, recogniser, pages>>

-----------------------------------------------------------------------------

\* Runs of an earlier process that died may have left their directories.
OcrInit ==
    /\ stage \in [Runs -> {"idle", "dead"}]
    /\ wanted = [r \in Runs |-> {}]
    /\ outcome = [r \in Runs |-> "none"]
    /\ dir \in {d \in [Runs -> SUBSET Files] :
                   \A r \in Runs : IF stage[r] = "idle" THEN d[r] = {} ELSE Folder \in d[r]}
    /\ renderer = [r \in Runs |-> FALSE]
    /\ thread = [r \in Runs |-> "none"]
    /\ mapped = [r \in Runs |-> FALSE]
    /\ job = [r \in Runs |-> 0]
    /\ recogniser = [r \in Runs |-> FALSE]
    /\ events = [r \in Runs |-> <<>>]
    /\ pages = [r \in Runs |-> [p \in AllPages |-> 0]]

RunStep(r) ==
    \/ Begin(r) \/ BeginFails(r)
    \/ Render(r) \/ RenderRefused(r)
    \/ RendererWrites(r) \/ Rendered(r) \/ RendererFails(r)
    \/ StartThread(r) \/ StartFails(r) \/ HandleEvent(r) \/ RaceFails(r)
    \/ Stopped(r) \/ RemoveDirectory(r) \/ RemoveAgain(r)
    \/ WorkerBegins(r) \/ Recognized(r) \/ RecogniserFails(r) \/ WorkerFails(r)
    \/ Strays(r) \/ ThreadDies(r) \/ OrphanEnds(r)

OcrNext == OcrCrash \/ \E r \in Runs : RunStep(r)

\* The renderer and the race have a timer each, and the event loop takes the other steps.
OcrFairness ==
    \A r \in Runs :
       /\ WF_ocrVars(Render(r) \/ RenderRefused(r))
       /\ WF_ocrVars(RendererFails(r))
       /\ WF_ocrVars(StartThread(r) \/ StartFails(r))
       /\ WF_ocrVars(RaceFails(r))
       /\ WF_ocrVars(Stopped(r))
       /\ WF_ocrVars(RemoveDirectory(r))
       /\ WF_ocrVars(RemoveAgain(r))

OcrSpec == OcrInit /\ [][OcrNext]_ocrVars /\ OcrFairness

-----------------------------------------------------------------------------
(* Properties *)

\* The types of the variables.
OcrTypeOK ==
    /\ stage \in [Runs -> Stages]
    /\ wanted \in [Runs -> SUBSET AllPages]
    /\ outcome \in [Runs -> {"none", "completed", "failed"}]
    /\ dir \in [Runs -> SUBSET Files]
    /\ renderer \in [Runs -> BOOLEAN]
    /\ thread \in [Runs -> {"none", "live", "gone"}]
    /\ mapped \in [Runs -> BOOLEAN]
    /\ job \in [Runs -> 0..Ended]
    /\ recogniser \in [Runs -> BOOLEAN]
    /\ events \in [Runs -> Seq(Event)]
    /\ pages \in [Runs -> [AllPages -> Nat]]

\* A run that has completed answers every page it was asked for, each once, and none else,
\* whatever the thread has posted, and posts while it is being stopped.
PagesExact ==
    \A r \in Runs :
       outcome[r] = "completed" =>
          \A p \in AllPages : pages[r][p] = IF p \in wanted[r] THEN 1 ELSE 0

\* When a run has settled, its thread is gone and the port has forgotten it; one that
\* has completed has left no file of the statement behind.
NothingLeft ==
    \A r \in Runs :
       stage[r] = "done" =>
          /\ thread[r] # "live" /\ ~mapped[r]
          /\ outcome[r] = "completed" => dir[r] = {}

\* No file is removed from the directory of a thread that lives.
StoppedBeforeRemoval ==
    [][\A r \in Runs : thread[r] = "live" => dir'[r] = dir[r]]_ocrVars

\* Every run settles, unless the application dies.
RunSettles == \A r \in Runs : stage[r] \in InProgress ~> stage[r] \in {"done", "dead"}

=============================================================================
