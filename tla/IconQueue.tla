------------------------------ MODULE IconQueue ------------------------------
(***************************************************************************)
(* The icon downloads of the Remote page (source/ui/remoteInstPage.cpp):   *)
(* the UI thread queues what the page shows, one worker fetches it, and a  *)
(* generation keeps the requests of an earlier page apart.  What both lock *)
(* iconDownloadMutex for is one action; a worker that has found nothing to *)
(* do holds it until the condition variable has put it to sleep.  A theme  *)
(* switch makes another page object; the callbacks bound to the old one    *)
(* keep it, so its worker goes on beside the new one, on the same files.   *)
(***************************************************************************)
EXTENDS Naturals, Sequences

CONSTANTS
  Icons,         \* items with an icon
  MaxPages,      \* bound: pages drawn
  MaxSwitches    \* bound: theme switches in a launch

ASSUME IconAssumption == MaxPages \in Nat /\ MaxSwitches \in Nat

Objects == 1..(MaxSwitches + 1)   \* page objects of a launch, each with its worker

VARIABLES
  ui,            \* where the UI thread is; "gone": it left, "terminated": std::terminate
  looking,       \* the item it is about to queue, or installs
  page,          \* mainApp->remoteinstPage
  onPage, shown, \* items of the page, those whose picture was put on it
  queuedKeys, generation, wantedCount, completed,  \* iconDownload... of this page
  dirty,         \* iconDownloadUiDirty
  stopRequested, \* iconDownloadStopRequested
  queue, worker, job, \* of every page object: iconDownloadQueue, the worker, its request
  icons, parts,  \* icon files and their .part files
  missed,        \* history: items of this page whose download failed or whose file was removed
  late           \* history: the last notification met a worker not yet asleep

uiVars == <<ui, looking, page, onPage, shown>>
countVars == <<queuedKeys, generation, wantedCount, completed>>
workVars == <<queue, worker, job>>
fileVars == <<icons, parts, missed>>
iconVars == <<uiVars, countVars, dirty, stopRequested, workVars, fileVars, late>>

\* A request before it is taken from the queue, and after it was answered.
NoRequest == <<>>

\* A launch of the program: the files are those of the last one.
Launched ==
  /\ ui' = "ready" /\ page' = 1 /\ onPage' = {} /\ shown' = {}
  /\ queuedKeys' = {} /\ generation' = 0 /\ wantedCount' = 0 /\ completed' = 0
  /\ dirty' = FALSE /\ stopRequested' = FALSE
  /\ queue' = [w \in Objects |-> <<>>] /\ job' = [w \in Objects |-> NoRequest]
  /\ worker' = [w \in Objects |-> IF w = 1 THEN "check" ELSE "none"]
  /\ missed' = {} /\ late' = FALSE

IconsInit ==
  /\ ui = "ready" /\ looking \in Icons /\ page = 1 /\ onPage = {} /\ shown = {}
  /\ queuedKeys = {} /\ generation = 0 /\ wantedCount = 0 /\ completed = 0
  /\ dirty = FALSE /\ stopRequested = FALSE
  /\ queue = [w \in Objects |-> <<>>] /\ job = [w \in Objects |-> NoRequest]
  /\ worker = [w \in Objects |-> IF w = 1 THEN "check" ELSE "none"]
  /\ icons = {} /\ parts = {} /\ missed = {} /\ late = FALSE

\* iconDownloadMutex of the page, which the UI thread never keeps over an action.
MutexFree == worker[page] # "dozing"

\* Whoever sleeps is woken; a notification nobody waits for is lost.
Notified == worker' = [worker EXCEPT ![page] = IF @ = "asleep" THEN "check" ELSE @]

\* Mutant: the keys of the old page keep the new one from queueing.
ResetQueueOnly == queue' = [queue EXCEPT ![page] = <<>>] /\ UNCHANGED queuedKeys
ResetQueue == queue' = [queue EXCEPT ![page] = <<>>] /\ queuedKeys' = {}

\* resetIconDownloadState; iconDownloadUiDirty is cleared after the unlock.
OpenPage ==
  /\ ui = "ready" /\ MutexFree /\ generation + page <= MaxPages
  /\ generation' = generation + 1 /\ ResetQueue
  /\ wantedCount' = 0 /\ completed' = 0
  /\ ui' = "clean" /\ onPage' = {} /\ shown' = {} /\ missed' = {}
  /\ UNCHANGED <<looking, page, dirty, stopRequested, worker, job, icons, parts, late>>

CleanDirty ==
  /\ ui = "clean" /\ ui' = "ready" /\ dirty' = FALSE
  /\ UNCHANGED <<looking, page, onPage, shown, countVars, stopRequested, workVars, fileVars, late>>

\* The grid adds a tile; the list shows one picture, of the selected item.
Look(i) ==
  /\ ui = "ready"
  /\ onPage' \in {onPage \cup {i}, {i}}
  /\ shown' = (IF i \in icons THEN shown \cup {i} ELSE shown \ {i}) \cap onPage'
  /\ ui' = IF i \in icons THEN "ready" ELSE "queue"
  /\ looking' = i
  /\ UNCHANGED <<page, countVars, dirty, stopRequested, workVars, fileVars, late>>

QueueIcon ==
  /\ ui = "queue" /\ ui' = "ready" /\ MutexFree
  /\ IF looking \in queuedKeys THEN UNCHANGED <<queue, queuedKeys, wantedCount, worker>>
     ELSE /\ queuedKeys' = queuedKeys \cup {looking}
          /\ queue' = [queue EXCEPT ![page] =
                         Append(@, [generation |-> generation, icon |-> looking])]
          /\ wantedCount' = wantedCount + 1
          /\ Notified
  /\ UNCHANGED <<looking, page, onPage, shown, generation, completed, dirty, stopRequested,
                 job, fileVars, late>>

\* Every frame ends with a look at iconDownloadUiDirty.
ShowArrived ==
  /\ ui = "ready" /\ dirty
  /\ dirty' = FALSE /\ shown' = shown \cup (onPage \cap icons)
  /\ UNCHANGED <<ui, looking, page, onPage, countVars, stopRequested, workVars, fileVars, late>>

\* refreshImageLoadingText, when "Fetching images n/n" has been up for long.
TextOver ==
  /\ ui = "ready" /\ MutexFree /\ wantedCount > 0 /\ completed >= wantedCount
  /\ wantedCount' = 0 /\ completed' = 0 /\ queuedKeys' = {}
  /\ UNCHANGED <<uiVars, generation, dirty, stopRequested, workVars, fileVars, late>>

\* A file of an icon goes, and with it the picture a page may wait for.
Removed(i) ==
  /\ icons' = icons \ {i}
  /\ missed' = IF i \in icons THEN missed \cup {i} ELSE missed

\* UpdateInstallIcon: an installation loads the picture straight into its file.
InstallIcon(i) ==
  /\ ui = "ready" /\ i \notin icons
  /\ ui' = "install" /\ looking' = i
  /\ icons' \in {icons, icons \cup {i}}
  /\ UNCHANGED <<page, onPage, shown, countVars, dirty, stopRequested, workVars, parts,
                 missed, late>>

InstallEnds ==
  /\ ui = "install" /\ ui' = "ready"
  /\ Removed(looking) \/ UNCHANGED <<icons, missed>>
  /\ UNCHANGED <<looking, page, onPage, shown, countVars, dirty, stopRequested, workVars,
                 parts, late>>

\* The theme switch: the option page makes a new Remote page.
Switch ==
  /\ ui = "ready" /\ page <= MaxSwitches
  /\ page' = page + 1 /\ worker' = [worker EXCEPT ![page + 1] = "check"]
  /\ onPage' = {} /\ shown' = {} /\ queuedKeys' = {} /\ generation' = 0
  /\ wantedCount' = 0 /\ completed' = 0 /\ dirty' = FALSE /\ missed' = {}
  /\ UNCHANGED <<ui, looking, stopRequested, queue, job, icons, parts, late>>

\* MainApplication::Close calls stopIconDownloadWorker, of this page only:
\* store, notify_all, join, none under the mutex.
RequestStop ==
  /\ ui = "ready" /\ ui' = "notify" /\ stopRequested' = TRUE
  /\ UNCHANGED <<looking, page, onPage, shown, countVars, dirty, workVars, fileVars, late>>

NotifyStop ==
  /\ ui = "notify" /\ ui' = "join" /\ Notified
  /\ late' = (worker[page] = "dozing")
  /\ UNCHANGED <<looking, page, onPage, shown, countVars, dirty, stopRequested, queue, job,
                 fileVars>>

Joined ==
  /\ ui = "join" /\ worker[page] = "ended" /\ ui' = "gone"
  /\ UNCHANGED <<looking, page, onPage, shown, countVars, dirty, stopRequested, workVars,
                 fileVars, late>>

Running == ui \notin {"gone", "terminated"}

Relaunch ==
  /\ ~Running /\ Launched
  /\ UNCHANGED <<looking, icons, parts>>
-----------------------------------------------------------------------------
(* The worker of page object w: iconDownloadThreadMain                     *)

Runs(w, at) == Running /\ worker[w] = at
Goes(w, to) == worker' = [worker EXCEPT ![w] = to]

\* Its request is of what this page shows now.
Current(w) == w = page /\ job[w].generation = generation

\* Mutant: woken only for work.
StopUnseen(w) == FALSE
StopSeen(w) == w = page /\ stopRequested

Check(w) ==
  /\ Runs(w, "check")
  /\ \/ StopSeen(w) /\ Goes(w, "ended") /\ UNCHANGED <<queue, job>>
     \/ /\ ~StopSeen(w) /\ queue[w] # <<>> /\ Goes(w, "look")
        /\ job' = [job EXCEPT ![w] = Head(queue[w])]
        /\ queue' = [queue EXCEPT ![w] = Tail(@)]
     \/ ~StopSeen(w) /\ queue[w] = <<>> /\ Goes(w, "dozing") /\ UNCHANGED <<queue, job>>
  /\ UNCHANGED <<uiVars, countVars, dirty, stopRequested, fileVars, late>>

FallAsleep(w) ==
  /\ Runs(w, "dozing") /\ Goes(w, "asleep")
  /\ UNCHANGED <<uiVars, countVars, dirty, stopRequested, queue, job, fileVars, late>>

\* A condition variable may wake without a reason.
WakeSpuriously(w) ==
  /\ Runs(w, "asleep") /\ Goes(w, "check")
  /\ UNCHANGED <<uiVars, countVars, dirty, stopRequested, queue, job, fileVars, late>>

\* An icon that is there is kept; else the .part of an earlier download goes
\* and a new one is opened, which may fail.
LookForIcon(w) ==
  /\ Runs(w, "look")
  /\ \/ job[w].icon \in icons /\ Goes(w, "tidy") /\ UNCHANGED parts
     \/ job[w].icon \notin icons /\ Goes(w, "load") /\ parts' = parts \cup {job[w].icon}
     \/ job[w].icon \notin icons /\ Goes(w, "drop") /\ parts' = parts \ {job[w].icon}
  /\ UNCHANGED <<uiVars, countVars, dirty, stopRequested, queue, job, icons, missed, late>>

\* A download ends within 8 s; one that failed takes its .part with it.
LoadIcon(w) ==
  /\ Runs(w, "load")
  /\ \/ Goes(w, "move") /\ UNCHANGED parts
     \/ Goes(w, "drop") /\ parts' = parts \ {job[w].icon}
  /\ UNCHANGED <<uiVars, countVars, dirty, stopRequested, queue, job, icons, missed, late>>

\* rename replaces nothing.
MoveIcon(w) ==
  /\ Runs(w, "move")
  /\ \/ /\ job[w].icon \in parts \ icons /\ Goes(w, "tidy")
        /\ icons' = icons \cup {job[w].icon} /\ parts' = parts \ {job[w].icon}
     \/ Goes(w, "drop") /\ UNCHANGED <<icons, parts>>
  /\ UNCHANGED <<uiVars, countVars, dirty, stopRequested, queue, job, missed, late>>

DropPart(w) ==
  /\ \/ Runs(w, "tidy") /\ Goes(w, "count")
     \/ Runs(w, "drop") /\ Goes(w, "undo")
  /\ parts' = parts \ {job[w].icon}
  /\ UNCHANGED <<uiVars, countVars, dirty, stopRequested, queue, job, icons, missed, late>>

\* After a failure an icon file goes, whoever made it.
UndoIcon(w) ==
  /\ Runs(w, "undo") /\ Goes(w, "count")
  /\ icons' = icons \ {job[w].icon}
  /\ missed' = IF Current(w) \/ job[w].icon \in icons THEN missed \cup {job[w].icon} ELSE missed
  /\ UNCHANGED <<uiVars, countVars, dirty, stopRequested, queue, job, parts, late>>

\* exists and remove throw: a file the other worker has open, a failing card.
FileError(w) ==
  /\ \E at \in {"look", "tidy", "drop", "undo"} : Runs(w, at)
  /\ ui' = "terminated"
  /\ UNCHANGED <<looking, page, onPage, shown, countVars, dirty, stopRequested, workVars,
                 fileVars, late>>

\* What an old page counts, nobody sees.
CountIcon(w) ==
  /\ Runs(w, "count")
  /\ IF Current(w) THEN completed' = completed + 1 /\ Goes(w, "mark")
     ELSE Goes(w, "check") /\ UNCHANGED completed
  /\ job' = [job EXCEPT ![w] = NoRequest]
  /\ UNCHANGED <<uiVars, queuedKeys, generation, wantedCount, dirty, stopRequested, queue,
                 fileVars, late>>

MarkDirty(w) ==
  /\ Runs(w, "mark") /\ Goes(w, "check") /\ dirty' = (dirty \/ w = page)
  /\ UNCHANGED <<uiVars, countVars, stopRequested, queue, job, fileVars, late>>

UiSteps ==
  \/ OpenPage \/ CleanDirty \/ QueueIcon \/ ShowArrived \/ TextOver
  \/ InstallEnds \/ Switch \/ RequestStop \/ NotifyStop \/ Joined \/ Relaunch
  \/ \E i \in Icons : Look(i) \/ InstallIcon(i)

\* What the UI thread does without being asked; the mutex comes free again
\* and again, and is then got.
UiGoesOn == CleanDirty \/ QueueIcon \/ InstallEnds \/ NotifyStop \/ Joined

WorkerGoesOn(w) ==
  \/ Check(w) \/ FallAsleep(w) \/ LookForIcon(w) \/ LoadIcon(w) \/ MoveIcon(w)
  \/ DropPart(w) \/ UndoIcon(w) \/ CountIcon(w) \/ MarkDirty(w)

IconSteps ==
  UiSteps \/ \E w \in Objects : WorkerGoesOn(w) \/ WakeSpuriously(w) \/ FileError(w)

IconSpec ==
  /\ IconsInit /\ [][IconSteps]_iconVars
  /\ SF_iconVars(UiGoesOn) /\ SF_iconVars(ShowArrived)
  /\ \A w \in Objects : WF_iconVars(WorkerGoesOn(w))
-----------------------------------------------------------------------------
(* Properties                                                              *)

\* An item on the page gets its picture, unless its download failed, its file
\* was removed by whoever shares it (the worker of an older page, an
\* installation), or the page changed, closed or crashed before: no request
\* is lost between the pages, and no picture arrives without the page being told.
IconsAreServed ==
  \A i \in Icons :
    i \in onPage ~> (\/ i \in shown \cup missed \/ i \notin onPage
                     \/ stopRequested \/ ui = "terminated")

\* A program that is closed stops the worker of its page and ends, with two
\* exceptions: the flag is raised without the mutex, so the only notification
\* may come between the worker's look at the flag and its sleep, and then the
\* join waits for ever; and a worker may bring the program down.
StopEndsOrIsMissed == stopRequested ~> (ui \in {"gone", "terminated"} \/ late)
==============================================================================
