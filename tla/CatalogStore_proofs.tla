------------------------ MODULE CatalogStore_proofs ------------------------
(***************************************************************************)
(* Proofs about CatalogStore: its control invariant, and that it           *)
(* implements DurableCell, hence that a Store is atomic across crashes.    *)
(* About IconQueue: no request is lost, and a join hangs in one case only. *)
(***************************************************************************)
EXTENDS CatalogStore, IconQueue, SequenceTheorems, TLAPS

\* Load always finds a catalog: the bundled one is the last resort.
LEMMA LoadedIsVersion == Loaded \in Versions
BY CatalogAssumption DEF Loaded

\* The control invariant holds initially.
LEMMA InitTypeOK == Init => CatalogTypeOK
BY CatalogAssumption DEF Init, CatalogTypeOK, Paths

\* Every step keeps the control invariant.
LEMMA StepTypeOK == CatalogTypeOK /\ [Next]_vars => CatalogTypeOK'
<1> SUFFICES ASSUME CatalogTypeOK, [Next]_vars PROVE CatalogTypeOK'
  OBVIOUS
<1> USE CatalogAssumption
<1>1. CASE OpenDiscovery
  BY <1>1, LoadedIsVersion DEF OpenDiscovery, CatalogTypeOK
<1>2. CASE Crash
  BY <1>2 DEF Crash, CatalogTypeOK
<1>3. CASE Refresh
  BY <1>3 DEF Refresh, CatalogTypeOK
<1>4. CASE OpenStaged
  BY <1>4 DEF OpenStaged, Fail, CatalogTypeOK, Paths
<1>5. CASE WriteStaged
  BY <1>5 DEF WriteStaged, Fail, CatalogTypeOK, Paths
<1>6. CASE Preserve
  <2>1. CASE Exists(fs, "cache")
    BY <1>6, <2>1 DEF Preserve, Exists, Removals, CatalogTypeOK, Paths
  <2>2. CASE ~Exists(fs, "cache")
    BY <1>6, <2>2 DEF Preserve, Exists, CatalogTypeOK
  <2> QED BY <2>1, <2>2
<1>7. CASE MoveAside
  <2>1. CASE Fail /\ UNCHANGED <<fs, preserved>>
    BY <1>7, <2>1 DEF MoveAside, Fail, CatalogTypeOK
  <2>2. CASE CanRename(fs, "cache", preserved) /\ fs' = Renamed(fs, "cache", preserved)
             /\ pc' = "install" /\ UNCHANGED <<text, current, preserved>>
    BY <1>7, <2>2 DEF MoveAside, CanRename, Renamed, Exists, CatalogTypeOK, Paths
  <2> QED BY <1>7, <2>1, <2>2 DEF MoveAside
<1>8. CASE Install
  BY <1>8 DEF Install, CanRename, Renamed, Exists, CatalogTypeOK, Paths
<1>9. CASE InstallFails
  BY <1>9 DEF InstallFails, Fail, CanRename, Renamed, Exists, CatalogTypeOK, Paths
<1>10. CASE UNCHANGED vars
  BY <1>10 DEF vars, CatalogTypeOK
<1> QED
  BY <1>1, <1>2, <1>3, <1>4, <1>5, <1>6, <1>7, <1>8, <1>9, <1>10 DEF Next, Store

\* Type correctness of the catalog store.
THEOREM CatalogTypeCorrect == Spec => []CatalogTypeOK
BY InitTypeOK, StepTypeOK, PTL DEF Spec

\* Store does what the abstract cell does: every step of a run, a crash or a
\* failed rename included, is a step of DurableCell or leaves it alone.
LEMMA StepImplements ==
  CatalogTypeOK /\ ShownIsStored /\ [Next]_vars => [Cell!CellNext]_<<Loaded, text, current>>
<1> SUFFICES ASSUME CatalogTypeOK, ShownIsStored, [Next]_vars
             PROVE  Cell!CellNext \/ UNCHANGED <<Loaded, text, current>>
  OBVIOUS
<1> USE CatalogAssumption
<1>1. CASE OpenDiscovery
  BY <1>1 DEF OpenDiscovery, CatalogTypeOK, ShownIsStored, Loaded, Cell!CellNext, Cell!CellStart
<1>2. CASE Crash
  BY <1>2 DEF Crash, CatalogTypeOK, Loaded, Cell!CellNext, Cell!CellCrash
<1>3. CASE Refresh
  BY <1>3 DEF Refresh, CatalogTypeOK, Loaded, Cell!CellNext, Cell!CellRequest
<1>a. ASSUME Fail, CatalogTypeOK, text \in Versions, UNCHANGED Loaded
      PROVE  Cell!CellGiveUp
  BY <1>a DEF Fail, Cell!CellGiveUp
<1>4. CASE OpenStaged
  <2>1. UNCHANGED Loaded
    BY <1>4 DEF OpenStaged, Fail, CatalogTypeOK, Loaded, Paths
  <2> QED
    BY <1>4, <1>a, <2>1 DEF OpenStaged, CatalogTypeOK, Cell!CellNext
<1>5. CASE WriteStaged
  <2>1. UNCHANGED Loaded
    BY <1>5 DEF WriteStaged, Fail, CatalogTypeOK, Loaded, Paths
  <2> QED
    BY <1>5, <1>a, <2>1 DEF WriteStaged, CatalogTypeOK, Cell!CellNext
<1>6. CASE Preserve
  <2>1. UNCHANGED Loaded
    BY <1>6 DEF Preserve, Exists, Removals, CatalogTypeOK, Loaded, Paths
  <2> QED
    BY <1>6, <2>1 DEF Preserve
<1>7. CASE MoveAside
  <2>1. UNCHANGED Loaded
    BY <1>7 DEF MoveAside, Fail, CanRename, Renamed, Exists, CatalogTypeOK, Loaded, Paths
  <2> QED
    BY <1>7, <1>a, <2>1 DEF MoveAside, CatalogTypeOK, Cell!CellNext
<1>8. CASE Install
  <2>1. Loaded' = text
    BY <1>8 DEF Install, CanRename, Renamed, Exists, CatalogTypeOK, Loaded, Paths
  <2> QED
    BY <1>8, <2>1 DEF Install, CatalogTypeOK, Cell!CellNext, Cell!CellStore
<1>9. CASE InstallFails
  <2>1. UNCHANGED Loaded
    BY <1>9 DEF InstallFails, Fail, CanRename, Renamed, Exists, CatalogTypeOK, Loaded, Paths
  <2> QED
    BY <1>9, <1>a, <2>1 DEF InstallFails, CatalogTypeOK, Cell!CellNext
<1>10. CASE UNCHANGED vars
  BY <1>10 DEF vars, Loaded
<1> QED
  BY <1>1, <1>2, <1>3, <1>4, <1>5, <1>6, <1>7, <1>8, <1>9, <1>10 DEF Next, Store

\* What the page shows is what the next start loads.
THEOREM Shown == Spec => []ShownIsStored
<1>1. Init => ShownIsStored
  BY DEF Init, ShownIsStored
<1>2. CatalogTypeOK /\ CatalogTypeOK' /\ ShownIsStored /\ [Next]_vars => ShownIsStored'
  <2> SUFFICES ASSUME CatalogTypeOK, CatalogTypeOK', ShownIsStored, [Next]_vars PROVE ShownIsStored'
    OBVIOUS
  <2>1. [Cell!CellNext]_<<Loaded, text, current>>
    BY StepImplements
  <2>2. (current = NoVersion) <=> (pc = "off")
    BY DEF CatalogTypeOK
  <2>3. (current' = NoVersion) <=> (pc' = "off")
    BY DEF CatalogTypeOK
  <2> QED
    BY <2>1, <2>2, <2>3, CatalogAssumption
    DEF ShownIsStored, Cell!CellNext, Cell!CellStart, Cell!CellRequest, Cell!CellStore,
        Cell!CellGiveUp, Cell!CellCrash
<1> QED
  BY <1>1, <1>2, CatalogTypeCorrect, PTL DEF Spec

\* The refinement: storing a catalog is atomic for every set of catalogs,
\* with a crash possible between any two calls.
THEOREM Atomic == Spec => StoreIsAtomic
<1>1. Init => Cell!CellInit
  BY LoadedIsVersion DEF Init, Cell!CellInit
<1> QED
  BY <1>1, StepImplements, CatalogTypeCorrect, Shown, PTL DEF Spec, StoreIsAtomic, Cell!CellSpec

\* Only a cache that could be parsed becomes the backup.
THEOREM BackupValid == Spec => BackupStaysValid
<1>1. CatalogTypeOK /\ [Next]_vars => [fs["bak"] # Bad => fs'["bak"] # Bad]_fs
  <2> SUFFICES ASSUME CatalogTypeOK, [Next]_vars, fs["bak"] # Bad PROVE fs'["bak"] # Bad \/ fs' = fs
    OBVIOUS
  <2> USE CatalogAssumption DEF CatalogTypeOK, Paths
  <2>1. CASE OpenStaged \/ WriteStaged
    BY <2>1 DEF OpenStaged, WriteStaged, Fail
  <2>2. CASE Preserve
    BY <2>2 DEF Preserve, Removals
  <2>3. CASE MoveAside
    <3>1. fs' = fs \/ (pc = "move" /\ CanRename(fs, "cache", preserved)
                       /\ fs' = Renamed(fs, "cache", preserved))
      BY <2>3 DEF MoveAside, Fail
    <3>2. pc = "move" /\ preserved = "bak" => fs["cache"] # Bad
      OBVIOUS
    <3> QED
      BY <3>1, <3>2 DEF Renamed, CanRename, Exists
  <2>4. CASE Install \/ InstallFails
    BY <2>4 DEF Install, InstallFails, Fail, CanRename, Renamed, Exists
  <2>5. CASE OpenDiscovery \/ Crash \/ Refresh \/ UNCHANGED vars
    BY <2>5 DEF OpenDiscovery, Crash, Refresh, vars
  <2> QED
    BY <2>1, <2>2, <2>3, <2>4, <2>5 DEF Next, Store
<1> QED
  BY <1>1, CatalogTypeCorrect, PTL DEF Spec, BackupStaysValid
-----------------------------------------------------------------------------
(* IconQueue                                                               *)

Requests == [generation : Nat, icon : Icons]
Phases == {"none", "check", "dozing", "asleep", "look", "load", "move", "tidy", "drop",
           "undo", "count", "mark", "ended"}

\* The worker has a request, and has not brought its picture yet.
Fetching(w) == worker[w] \in {"look", "load", "move", "drop", "undo"}

\* Types; a worker at a request has one.
IconTypes ==
  /\ page \in Objects
  /\ queue \in [Objects -> Seq(Requests)]
  /\ worker \in [Objects -> Phases]
  /\ job \in [Objects -> Requests \cup {NoRequest}]
  /\ \A w \in Objects : Fetching(w) \/ worker[w] \in {"tidy", "count"} => job[w] \in Requests
  /\ generation \in Nat /\ looking \in Icons
  /\ onPage \in SUBSET Icons /\ shown \subseteq onPage /\ icons \in SUBSET Icons
  /\ ui \in {"ready", "clean", "queue", "install", "notify", "join", "gone", "terminated"}

\* A request for the picture of i is in the page's queue, or its worker has it.
RequestFor(i) == [generation |-> generation, icon |-> i]
Queued(i) == \E k \in 1..Len(queue[page]) : queue[page][k] = RequestFor(i)
Taken(i) == Fetching(page) /\ job[page] = RequestFor(i)
Pending(i) == Queued(i) \/ Taken(i)

\* The page will be told that a picture has come.
Announced ==
  \/ dirty \/ worker[page] = "mark"
  \/ worker[page] \in {"tidy", "count"} /\ job[page].generation = generation

\* No request is lost while the program runs: an item of the page has its
\* picture, or failed, or is on its way to one.
NoRequestLost ==
  ui # "terminated" =>
    \A i \in onPage :
      \/ i \in shown \cup missed \/ Pending(i) \/ (ui = "queue" /\ looking = i)
      \/ (i \in icons /\ Announced)

\* A key that keeps its item from being queued again was answered, or will be.
KeysAnswered ==
  \A i \in queuedKeys :
    \/ i \in missed \/ Pending(i)
    \/ (i \in icons /\ (i \in shown \/ i \notin onPage \/ Announced))

\* Nobody sleeps over a request.
SleepsOnEmpty == worker[page] \in {"dozing", "asleep"} => queue[page] = <<>>

\* The page is empty while the flag is being cleared.
CleanIsEmpty == ui = "clean" => onPage = {} /\ queuedKeys = {}

\* A worker that sleeps once the page has sent its notification missed it.
StopPhases ==
  /\ ui \in {"notify", "join", "gone"} => stopRequested
  /\ stopRequested => ui \in {"notify", "join", "gone", "terminated"}
  /\ ui \in {"join", "gone"} /\ worker[page] \in {"dozing", "asleep"} => late

IconInv ==
  /\ IconTypes /\ NoRequestLost /\ KeysAnswered
  /\ SleepsOnEmpty /\ CleanIsEmpty /\ StopPhases

\* What the page shows when nothing is going on: every item has its picture,
\* unless its download failed or its file was removed.
RestIsServed ==
  ui = "ready" /\ ~dirty /\ worker[page] \in {"dozing", "asleep"} =>
    onPage \subseteq shown \cup missed

\* Who waits for the worker waits for one that goes on, but for a missed
\* notification.
JoinEnds == ui = "join" /\ worker[page] = "asleep" => late

\* A step that stays on the page takes nothing from it: pictures that are
\* shown stay, files that go are noticed, requests stay or are answered.
TakesNothing ==
  /\ page' = page /\ generation' = generation
  /\ onPage' = onPage /\ queuedKeys' \subseteq queuedKeys
  /\ shown \subseteq shown' /\ missed \subseteq missed' /\ icons \subseteq icons' \cup missed'
  /\ \A i : Pending(i) => Pending(i)' \/ i \in missed' \/ (i \in icons' /\ Announced')
  /\ Announced => Announced' \/ onPage \cap icons \subseteq shown' \cup missed'
  /\ ui # "terminated" /\ (ui = "queue" => ui' = "queue" /\ looking' = looking)

\* Such a step keeps what was promised.
LEMMA PromisesKept ==
  ASSUME NoRequestLost, KeysAnswered, TakesNothing
  PROVE  NoRequestLost' /\ KeysAnswered'
<1>1. NoRequestLost'
  BY DEF NoRequestLost, TakesNothing
<1>2. KeysAnswered'
  BY DEF KeysAnswered, TakesNothing
<1> QED BY <1>1, <1>2

\* A new request goes behind the ones that wait.
LEMMA AppendKeeps ==
  ASSUME NEW R, NEW q \in Seq(R), NEW r \in R
  PROVE  /\ \A k \in 1..Len(q) : k \in 1..Len(Append(q, r)) /\ Append(q, r)[k] = q[k]
         /\ Len(Append(q, r)) \in 1..Len(Append(q, r))
         /\ Append(q, r)[Len(Append(q, r))] = r
         /\ Append(q, r) \in Seq(R)
OBVIOUS

\* The worker takes the first request; the others move up.
LEMMA TailKeeps ==
  ASSUME NEW R, NEW q \in Seq(R), q # <<>>
  PROVE  /\ \A k \in 1..Len(q) :
              q[k] = Head(q) \/ (k - 1 \in 1..Len(Tail(q)) /\ Tail(q)[k - 1] = q[k])
         /\ Tail(q) \in Seq(R) /\ Head(q) \in R
<1>1. /\ Tail(q) \in Seq(R) /\ Len(Tail(q)) = Len(q) - 1
      /\ \A k \in 1..Len(Tail(q)) : Tail(q)[k] = q[k + 1]
      /\ Head(q) = q[1] /\ Head(q) \in R /\ Len(q) \in Nat
  BY HeadTailProperties
<1>2. ASSUME NEW k \in 1..Len(q), k # 1
      PROVE  k - 1 \in 1..Len(Tail(q)) /\ Tail(q)[k - 1] = q[k]
  <2>1. k - 1 \in 1..Len(Tail(q)) /\ (k - 1) + 1 = k
    BY <1>1, <1>2
  <2> QED BY <1>1, <2>1
<1> QED BY <1>1, <1>2

\* The icon invariant holds initially.
LEMMA IconsBegin == IconsInit => IconInv
<1> SUFFICES ASSUME IconsInit PROVE IconInv
  OBVIOUS
<1>1. page \in Objects /\ 1 \in Objects
  BY IconAssumption DEF IconsInit, Objects
<1>2. <<>> \in Seq(Requests)
  OBVIOUS
<1>3. IconTypes
  BY <1>1, <1>2 DEF IconsInit, IconTypes, Phases, Fetching
<1> QED
  BY <1>1, <1>3 DEF IconsInit, IconInv, NoRequestLost, KeysAnswered, SleepsOnEmpty,
     CleanIsEmpty, StopPhases

\* A program that is started again starts as one that is started.
LEMMA LaunchKept ==
  ASSUME IconInv, Relaunch
  PROVE  IconInv'
<1>1. page' \in Objects /\ 1 \in Objects
  BY IconAssumption DEF Relaunch, Launched, Objects
<1>2. <<>> \in Seq(Requests)
  OBVIOUS
<1>3. IconTypes'
  BY <1>1, <1>2 DEF Relaunch, Launched, IconInv, IconTypes, Phases, Fetching
<1> QED
  BY <1>1, <1>3 DEF Relaunch, Launched, IconInv, NoRequestLost, KeysAnswered, SleepsOnEmpty,
     CleanIsEmpty, StopPhases

\* What a worker of the page or of an older one leaves alone.
LEMMA WorkerTypes ==
  ASSUME IconTypes, NEW w \in Objects, WorkerGoesOn(w) \/ WakeSpuriously(w)
  PROVE  IconTypes'
<1>t. /\ page \in Objects /\ queue \in [Objects -> Seq(Requests)]
      /\ worker \in [Objects -> Phases] /\ job \in [Objects -> Requests \cup {NoRequest}]
      /\ \A v \in Objects : Fetching(v) \/ worker[v] \in {"tidy", "count"} => job[v] \in Requests
      /\ icons \in SUBSET Icons
  BY DEF IconTypes
<1>1. CASE Check(w)
  <2>1. CASE (Goes(w, "ended") \/ Goes(w, "dozing")) /\ UNCHANGED <<queue, job>>
    BY <1>t, <1>1, <2>1 DEF Check, Goes, IconTypes, Phases, Fetching, uiVars, countVars,
         fileVars
  <2>2. CASE /\ queue[w] # <<>> /\ Goes(w, "look")
             /\ job' = [job EXCEPT ![w] = Head(queue[w])]
             /\ queue' = [queue EXCEPT ![w] = Tail(@)]
    <3>1. Tail(queue[w]) \in Seq(Requests) /\ Head(queue[w]) \in Requests
      BY <1>t, <2>2, TailKeeps
    <3> QED
      BY <1>t, <1>1, <2>2, <3>1 DEF Check, Goes, IconTypes, Phases, Fetching, uiVars, countVars,
         fileVars
  <2> QED BY <1>1, <2>1, <2>2 DEF Check
<1>2. CASE FallAsleep(w)
  BY <1>t, <1>2 DEF FallAsleep, Runs, Goes, IconTypes, Phases, Fetching, uiVars, countVars, fileVars
<1>3. CASE WakeSpuriously(w)
  BY <1>t, <1>3 DEF WakeSpuriously, Runs, Goes, IconTypes, Phases, Fetching, uiVars, countVars,
     fileVars
<1>4. CASE LookForIcon(w)
  BY <1>t, <1>4 DEF LookForIcon, Runs, Goes, IconTypes, Phases, Fetching, uiVars, countVars
<1>5. CASE LoadIcon(w)
  BY <1>t, <1>5 DEF LoadIcon, Runs, Goes, IconTypes, Phases, Fetching, uiVars, countVars
<1>6. CASE MoveIcon(w)
  <2>1. job[w] \in Requests
    BY <1>t, <1>6 DEF MoveIcon, Runs, Fetching
  <2>2. job[w].icon \in Icons
    BY <2>1 DEF Requests
  <2> QED
    BY <1>t, <1>6, <2>2 DEF MoveIcon, Runs, Goes, IconTypes, Phases, Fetching, uiVars, countVars
<1>7. CASE DropPart(w)
  BY <1>t, <1>7 DEF DropPart, Runs, Goes, IconTypes, Phases, Fetching, uiVars, countVars
<1>8. CASE UndoIcon(w)
  BY <1>t, <1>8 DEF UndoIcon, Runs, Goes, IconTypes, Phases, Fetching, uiVars, countVars
<1>9. CASE CountIcon(w)
  BY <1>t, <1>9 DEF CountIcon, Runs, Goes, IconTypes, Phases, Fetching, uiVars, fileVars
<1>10. CASE MarkDirty(w)
  BY <1>t, <1>10 DEF MarkDirty, Runs, Goes, IconTypes, Phases, Fetching, uiVars, countVars, fileVars
<1> QED
  BY <1>1, <1>2, <1>3, <1>4, <1>5, <1>6, <1>7, <1>8, <1>9, <1>10 DEF WorkerGoesOn

\* What no step of a worker changes, and what it does to files and flags.
LEMMA WorkerFrame ==
  ASSUME IconTypes, NEW w \in Objects, WorkerGoesOn(w) \/ WakeSpuriously(w)
  PROVE  /\ ui # "terminated"
         /\ UNCHANGED <<page, generation, onPage, shown, looking, ui, queuedKeys,
                        stopRequested, late>>
         /\ dirty => dirty'
         /\ missed \subseteq missed' /\ icons \subseteq icons' \cup missed'
         /\ \A v \in Objects \ {w} :
              worker'[v] = worker[v] /\ queue'[v] = queue[v] /\ job'[v] = job[v]
<1>t. /\ queue \in [Objects -> Seq(Requests)] /\ worker \in [Objects -> Phases]
      /\ job \in [Objects -> Requests \cup {NoRequest}]
  BY DEF IconTypes
<1> USE DEF Runs, Running, Goes, uiVars, countVars, fileVars
<1>1. CASE Check(w)
  BY <1>t, <1>1 DEF Check
<1>2. CASE FallAsleep(w) \/ WakeSpuriously(w)
  BY <1>t, <1>2 DEF FallAsleep, WakeSpuriously
<1>3. CASE LookForIcon(w) \/ LoadIcon(w) \/ DropPart(w)
  BY <1>t, <1>3 DEF LookForIcon, LoadIcon, DropPart
<1>4. CASE MoveIcon(w)
  BY <1>t, <1>4 DEF MoveIcon
<1>5. CASE UndoIcon(w)
  BY <1>t, <1>5 DEF UndoIcon
<1>6. CASE CountIcon(w)
  BY <1>t, <1>6 DEF CountIcon
<1>7. CASE MarkDirty(w)
  BY <1>t, <1>7 DEF MarkDirty
<1> QED
  BY <1>1, <1>2, <1>3, <1>4, <1>5, <1>6, <1>7 DEF WorkerGoesOn

\* The worker of an older page takes nothing from this one but files, and
\* that is noticed.
LEMMA OldWorkerKeeps ==
  ASSUME IconInv, NEW w \in Objects, w # page, WorkerGoesOn(w) \/ WakeSpuriously(w)
  PROVE  IconInv'
<1>1. IconTypes /\ page \in Objects \ {w}
  BY DEF IconInv, IconTypes
<1>2. /\ ui # "terminated"
      /\ UNCHANGED <<page, generation, onPage, shown, looking, ui, queuedKeys,
                     stopRequested, late>>
      /\ dirty => dirty'
      /\ missed \subseteq missed' /\ icons \subseteq icons' \cup missed'
      /\ worker'[page] = worker[page] /\ queue'[page] = queue[page] /\ job'[page] = job[page]
  BY <1>1, WorkerFrame
<1>3. \A i : Pending(i)' = Pending(i)
  BY <1>2 DEF Pending, Queued, Taken, Fetching, RequestFor
<1>4. Announced => Announced'
  BY <1>2 DEF Announced
<1>5. TakesNothing
  BY <1>2, <1>3, <1>4 DEF TakesNothing
<1>6. NoRequestLost' /\ KeysAnswered'
  BY <1>5, PromisesKept DEF IconInv
<1>7. SleepsOnEmpty' /\ CleanIsEmpty' /\ StopPhases'
  BY <1>2 DEF IconInv, SleepsOnEmpty, CleanIsEmpty, StopPhases
<1> QED BY <1>1, <1>6, <1>7, WorkerTypes DEF IconInv

\* The worker of the page answers the request it has, and only then.
LEMMA PageWorkerKeeps ==
  ASSUME IconInv, WorkerGoesOn(page) \/ WakeSpuriously(page)
  PROVE  IconInv'
<1>t. /\ IconTypes /\ page \in Objects
      /\ queue \in [Objects -> Seq(Requests)] /\ worker \in [Objects -> Phases]
      /\ job \in [Objects -> Requests \cup {NoRequest}]
      /\ Fetching(page) => job[page] \in Requests
  BY DEF IconInv, IconTypes
<1>f. /\ ui # "terminated"
      /\ UNCHANGED <<page, generation, onPage, shown, looking, ui, queuedKeys,
                     stopRequested, late>>
      /\ dirty => dirty'
      /\ missed \subseteq missed' /\ icons \subseteq icons' \cup missed'
  BY <1>t, WorkerFrame
<1>k. IconTypes'
  BY <1>t, WorkerTypes
<1> DEFINE P == \A i : Pending(i) => Pending(i)' \/ i \in missed' \/ (i \in icons' /\ Announced')
           A == Announced => Announced'
           S == SleepsOnEmpty' /\ StopPhases'
<1>1. ASSUME Check(page), queue[page] # <<>>, ~StopSeen(page) PROVE P /\ A /\ S
  <2>1. /\ queue[page] \in Seq(Requests) /\ worker'[page] = "look" /\ worker[page] = "check"
        /\ job'[page] = Head(queue[page]) /\ queue'[page] = Tail(queue[page])
        /\ dirty' = dirty /\ page' = page /\ generation' = generation
    BY <1>t, <1>f, <1>1 DEF Check, Goes, Runs
  <2>2. \A k \in 1..Len(queue[page]) :
            \/ queue[page][k] = job'[page]
            \/ k - 1 \in 1..Len(queue'[page]) /\ queue'[page][k - 1] = queue[page][k]
    BY <1>1, <2>1, TailKeeps
  <2>3. P
    <3>1. SUFFICES ASSUME NEW i, Pending(i) PROVE Pending(i)'
      OBVIOUS
    <3>2. PICK k \in 1..Len(queue[page]) : queue[page][k] = RequestFor(i)
      BY <2>1, <3>1 DEF Pending, Queued, Taken, Fetching
    <3>3. RequestFor(i)' = RequestFor(i)
      BY <1>f DEF RequestFor
    <3>4. CASE queue[page][k] = job'[page]
      BY <2>1, <3>2, <3>3, <3>4 DEF Pending, Taken, Fetching
    <3>5. CASE k - 1 \in 1..Len(queue'[page]) /\ queue'[page][k - 1] = queue[page][k]
      <4>1. queue'[page'][k - 1] = RequestFor(i)' /\ k - 1 \in 1..Len(queue'[page'])
        BY <2>1, <3>2, <3>3, <3>5
      <4> QED BY <4>1 DEF Pending, Queued
    <3> QED BY <2>2, <3>4, <3>5
  <2>4. A
    BY <2>1 DEF Announced
  <2>5. S
    BY <1>f, <2>1 DEF IconInv, SleepsOnEmpty, StopPhases
  <2> QED BY <2>3, <2>4, <2>5
<1>2. ASSUME Check(page), queue[page] = <<>> \/ StopSeen(page) PROVE P /\ A /\ S
  <2>1. /\ worker[page] = "check" /\ UNCHANGED <<queue, job, dirty, page, generation>>
        /\ \/ StopSeen(page) /\ worker'[page] = "ended"
           \/ queue[page] = <<>> /\ ~StopSeen(page) /\ worker'[page] = "dozing"
    BY <1>t, <1>f, <1>2 DEF Check, Goes, Runs
  <2>2. P /\ A
    BY <2>1 DEF Pending, Queued, Taken, Fetching, RequestFor, Announced
  <2>3. S
    BY <1>f, <2>1 DEF IconInv, SleepsOnEmpty, StopPhases, StopSeen
  <2> QED BY <2>2, <2>3
<1>3. ASSUME FallAsleep(page) \/ WakeSpuriously(page) PROVE P /\ A /\ S
  <2>1. /\ UNCHANGED <<queue, job, dirty, page, generation>>
        /\ \/ worker[page] = "dozing" /\ worker'[page] = "asleep"
           \/ worker[page] = "asleep" /\ worker'[page] = "check"
    BY <1>t, <1>f, <1>3 DEF FallAsleep, WakeSpuriously, Goes, Runs
  <2>2. P /\ A
    BY <2>1 DEF Pending, Queued, Taken, Fetching, RequestFor, Announced
  <2>3. S
    BY <1>f, <2>1 DEF IconInv, SleepsOnEmpty, StopPhases
  <2> QED BY <2>2, <2>3
<1>4. ASSUME LookForIcon(page) \/ LoadIcon(page) \/ MoveIcon(page) PROVE P /\ A /\ S
  <2>1. /\ UNCHANGED <<queue, job, dirty, page, generation>> /\ Fetching(page)
        /\ \/ worker'[page] \in {"load", "move", "drop"}
           \/ worker'[page] = "tidy" /\ job[page].icon \in icons'
    BY <1>t, <1>f, <1>4
       DEF LookForIcon, LoadIcon, MoveIcon, Goes, Runs, Fetching, uiVars, countVars
  <2>2. \A i : job[page] = RequestFor(i) => job[page].icon = i /\ job[page].generation = generation
    BY DEF RequestFor
  <2>3. P
    BY <2>1, <2>2 DEF Pending, Queued, Taken, Fetching, RequestFor, Announced
  <2>4. A /\ S
    BY <1>f, <2>1 DEF IconInv, SleepsOnEmpty, StopPhases, Announced, Fetching
  <2> QED BY <2>3, <2>4
<1>5. ASSUME DropPart(page) PROVE P /\ A /\ S
  <2>1. /\ UNCHANGED <<queue, job, dirty, page, generation>>
        /\ \/ worker[page] = "tidy" /\ worker'[page] = "count"
           \/ worker[page] = "drop" /\ worker'[page] = "undo"
    BY <1>t, <1>f, <1>5 DEF DropPart, Goes, Runs
  <2>2. P /\ A /\ S
    BY <1>f, <2>1 DEF IconInv, SleepsOnEmpty, StopPhases, Pending, Queued, Taken, Fetching,
                RequestFor, Announced
  <2> QED BY <2>2
<1>6. ASSUME UndoIcon(page) PROVE P /\ A /\ S
  <2>1. /\ UNCHANGED <<queue, job, dirty, page, generation>>
        /\ worker[page] = "undo" /\ worker'[page] = "count"
        /\ Current(page) => job[page].icon \in missed'
    BY <1>t, <1>f, <1>6 DEF UndoIcon, Goes, Runs
  <2>2. \A i : job[page] = RequestFor(i) => job[page].icon = i /\ Current(page)
    BY DEF RequestFor, Current
  <2>3. P
    BY <2>1, <2>2 DEF Pending, Queued, Taken, Fetching, RequestFor
  <2>4. A /\ S
    BY <1>f, <2>1 DEF IconInv, SleepsOnEmpty, StopPhases, Announced
  <2> QED BY <2>3, <2>4
<1>7. ASSUME CountIcon(page) PROVE P /\ A /\ S
  <2>1. /\ UNCHANGED <<queue, dirty, page, generation>> /\ worker[page] = "count"
        /\ \/ Current(page) /\ worker'[page] = "mark"
           \/ ~Current(page) /\ worker'[page] = "check"
    BY <1>t, <1>f, <1>7 DEF CountIcon, Goes, Runs
  <2>2. P /\ A /\ S
    BY <1>f, <2>1 DEF IconInv, SleepsOnEmpty, StopPhases, Pending, Queued, Taken, Fetching,
                RequestFor, Announced, Current
  <2> QED BY <2>2
<1>8. ASSUME MarkDirty(page) PROVE P /\ A /\ S
  <2>1. /\ UNCHANGED <<queue, job, page, generation>> /\ dirty'
        /\ worker[page] = "mark" /\ worker'[page] = "check"
    BY <1>t, <1>f, <1>8 DEF MarkDirty, Goes, Runs
  <2>2. P /\ A /\ S
    BY <1>f, <2>1 DEF IconInv, SleepsOnEmpty, StopPhases, Pending, Queued, Taken, Fetching,
                RequestFor, Announced
  <2> QED BY <2>2
<1>9. P /\ A /\ S
  BY <1>1, <1>2, <1>3, <1>4, <1>5, <1>6, <1>7, <1>8 DEF WorkerGoesOn
<1>10. TakesNothing
  BY <1>f, <1>9 DEF TakesNothing
<1>11. NoRequestLost' /\ KeysAnswered'
  BY <1>10, PromisesKept DEF IconInv
<1>12. CleanIsEmpty'
  BY <1>f DEF IconInv, CleanIsEmpty
<1> QED BY <1>k, <1>9, <1>11, <1>12 DEF IconInv

\* A step of the page that stays on it.
LEMMA PageKeeps ==
  ASSUME IconInv,
         \/ CleanDirty \/ ShowArrived \/ TextOver \/ InstallEnds \/ RequestStop \/ NotifyStop
         \/ Joined \/ (\E i \in Icons : InstallIcon(i)) \/ UNCHANGED iconVars
  PROVE  IconInv'
<1>t. /\ IconTypes /\ NoRequestLost /\ KeysAnswered /\ SleepsOnEmpty /\ CleanIsEmpty /\ StopPhases
      /\ page \in Objects /\ worker \in [Objects -> Phases]
  BY DEF IconInv, IconTypes
<1>1. CASE CleanDirty
  <2>1. /\ ui = "clean" /\ ui' = "ready"
        /\ UNCHANGED <<looking, page, onPage, shown, generation, queuedKeys, stopRequested,
                       queue, worker, job, icons, late>>
    BY <1>1 DEF CleanDirty, countVars, workVars, fileVars
  <2> QED
    BY <1>t, <2>1 DEF IconInv, IconTypes, Fetching, NoRequestLost, KeysAnswered, SleepsOnEmpty,
       CleanIsEmpty, StopPhases
<1>2. CASE NotifyStop
  <2>1. /\ ui = "notify" /\ ui' = "join" /\ late' = (worker[page] = "dozing")
        /\ UNCHANGED <<looking, page, onPage, shown, generation, queuedKeys, dirty,
                       stopRequested, queue, job, icons, missed>>
    BY <1>2 DEF NotifyStop, countVars, fileVars
  <2>2. /\ worker'[page] = IF worker[page] = "asleep" THEN "check" ELSE worker[page]
        /\ \A w \in Objects \ {page} : worker'[w] = worker[w]
        /\ worker' \in [Objects -> Phases]
    BY <1>t, <1>2 DEF NotifyStop, Notified, Phases
  <2>3. \A i : Pending(i)' = Pending(i)
    BY <2>1, <2>2 DEF Pending, Queued, Taken, Fetching, RequestFor
  <2>4. Announced' = Announced
    BY <2>1, <2>2 DEF Announced
  <2>5. IconTypes'
    BY <1>t, <2>1, <2>2 DEF IconTypes, Fetching
  <2>6. NoRequestLost' /\ KeysAnswered'
    BY <1>t, <2>1, <2>3, <2>4 DEF NoRequestLost, KeysAnswered
  <2>7. SleepsOnEmpty' /\ CleanIsEmpty' /\ StopPhases'
    BY <1>t, <2>1, <2>2 DEF SleepsOnEmpty, CleanIsEmpty, StopPhases
  <2> QED BY <2>5, <2>6, <2>7 DEF IconInv
<1>3. ASSUME \/ ShowArrived \/ TextOver \/ InstallEnds \/ RequestStop \/ Joined
             \/ (\E i \in Icons : InstallIcon(i)) \/ UNCHANGED iconVars
      PROVE  IconInv'
  <2>1. /\ UNCHANGED <<page, generation, onPage, queue, worker, job, late>>
        /\ queuedKeys' \subseteq queuedKeys /\ missed \subseteq missed'
        /\ icons \subseteq icons' \cup missed' /\ shown \subseteq shown'
        /\ icons' \in SUBSET Icons /\ shown' \subseteq onPage'
    BY <1>3, <1>t DEF ShowArrived, TextOver, InstallEnds, Removed, RequestStop, Joined,
       InstallIcon, uiVars, countVars, workVars, fileVars, iconVars, IconTypes
  <2>2. dirty => dirty' \/ onPage \cap icons \subseteq shown'
    BY <1>3 DEF ShowArrived, TextOver, InstallEnds, RequestStop, Joined, InstallIcon,
       uiVars, countVars, workVars, fileVars, iconVars
  <2>3. /\ looking' \in Icons
        /\ \/ ui' = ui /\ looking' = looking /\ stopRequested' = stopRequested
           \/ /\ ui = "ready" /\ ui' = "install" /\ stopRequested' = stopRequested
           \/ /\ ui = "install" /\ ui' = "ready" /\ stopRequested' = stopRequested
           \/ /\ ui = "ready" /\ ui' = "notify" /\ stopRequested'
           \/ /\ ui = "join" /\ ui' = "gone" /\ stopRequested' = stopRequested
    BY <1>3, <1>t DEF ShowArrived, TextOver, InstallEnds, RequestStop, Joined, InstallIcon,
       uiVars, countVars, workVars, fileVars, iconVars, IconTypes
  <2>4. \A i : Pending(i)' = Pending(i)
    BY <2>1 DEF Pending, Queued, Taken, Fetching, RequestFor
  <2>5. Announced => Announced' \/ onPage \cap icons \subseteq shown'
    BY <2>1, <2>2 DEF Announced
  <2>6. NoRequestLost'
    BY <1>t, <2>1, <2>3, <2>4, <2>5 DEF NoRequestLost
  <2>7. KeysAnswered'
    BY <1>t, <2>1, <2>4, <2>5 DEF KeysAnswered
  <2>8. IconTypes'
    BY <1>t, <2>1, <2>3 DEF IconTypes, Fetching
  <2>9. SleepsOnEmpty' /\ CleanIsEmpty' /\ StopPhases'
    BY <1>t, <2>1, <2>3 DEF SleepsOnEmpty, CleanIsEmpty, StopPhases
  <2> QED BY <2>6, <2>7, <2>8, <2>9 DEF IconInv
<1> QED BY <1>1, <1>2, <1>3

\* Every step of the page or of a worker keeps the icon invariant.
LEMMA IconStep == IconInv /\ [IconSteps]_iconVars => IconInv'
<1> SUFFICES ASSUME IconInv, [IconSteps]_iconVars PROVE IconInv'
  OBVIOUS
<1>t. /\ IconTypes /\ NoRequestLost /\ KeysAnswered /\ SleepsOnEmpty /\ CleanIsEmpty /\ StopPhases
      /\ page \in Objects /\ queue \in [Objects -> Seq(Requests)]
      /\ worker \in [Objects -> Phases] /\ job \in [Objects -> Requests \cup {NoRequest}]
      /\ <<>> \in Seq(Requests)
  BY DEF IconInv, IconTypes
<1>1. CASE OpenPage
  <2>1. IconTypes'
    BY <1>t, <1>1 DEF OpenPage, ResetQueue, IconTypes, Fetching
  <2>2. queue'[page] = <<>>
    BY <1>t, <1>1 DEF OpenPage, ResetQueue
  <2> QED
    BY <1>t, <1>1, <2>1, <2>2 DEF OpenPage, ResetQueue, IconInv, NoRequestLost, KeysAnswered,
       SleepsOnEmpty, CleanIsEmpty, StopPhases
<1>2. CASE Switch
  <2>1. page' \in Objects /\ page' = page + 1
    BY <1>t, <1>2, IconAssumption DEF Switch, Objects
  <2>2. IconTypes' /\ worker'[page'] = "check"
    BY <1>t, <1>2, <2>1 DEF Switch, IconTypes, Phases, Fetching
  <2> QED
    BY <1>t, <1>2, <2>2 DEF Switch, IconInv, NoRequestLost, KeysAnswered,
       SleepsOnEmpty, CleanIsEmpty, StopPhases
<1>3. CASE QueueIcon
  <2> DEFINE r == RequestFor(looking)
  <2> USE <1>3 DEF QueueIcon
  <2>1. CASE looking \in queuedKeys
    <3>1. IconTypes' /\ SleepsOnEmpty' /\ CleanIsEmpty' /\ StopPhases'
      BY <1>t, <2>1 DEF IconTypes, Fetching, SleepsOnEmpty, CleanIsEmpty, StopPhases, fileVars
    <3>2. NoRequestLost' /\ KeysAnswered'
      BY <1>t, <2>1 DEF NoRequestLost, KeysAnswered, Pending, Queued, Taken, Fetching,
         RequestFor, Announced, fileVars
    <3> QED BY <3>1, <3>2 DEF IconInv
  <2>2. CASE looking \notin queuedKeys
    <3>1. r \in Requests /\ queue[page] \in Seq(Requests)
      BY <1>t DEF IconTypes, RequestFor, Requests
    <3>2. queue' = [queue EXCEPT ![page] = Append(queue[page], r)]
      BY <2>2 DEF RequestFor
    <3>3. queue'[page] = Append(queue[page], r)
      BY <1>t, <3>2
    <3>4. /\ \A k \in 1..Len(queue[page]) :
                k \in 1..Len(queue'[page]) /\ queue'[page][k] = queue[page][k]
          /\ Len(queue'[page]) \in 1..Len(queue'[page])
          /\ queue'[page][Len(queue'[page])] = r
          /\ queue'[page] \in Seq(Requests)
      BY <3>1, <3>3, AppendKeeps
    <3>5. /\ worker' \in [Objects -> Phases] /\ worker'[page] \notin {"dozing", "asleep"}
          /\ \A w \in Objects :
                worker'[w] = worker[w] \/ (worker[w] = "asleep" /\ worker'[w] = "check")
      <4>1. worker[page] # "dozing" /\ Notified
        BY <2>2 DEF MutexFree
      <4>2. /\ worker'[page] = IF worker[page] = "asleep" THEN "check" ELSE worker[page]
            /\ \A w \in Objects \ {page} : worker'[w] = worker[w]
            /\ worker' \in [Objects -> Phases]
        BY <1>t, <4>1 DEF Notified, Phases
      <4> QED BY <1>t, <4>1, <4>2
    <3>6. /\ page' = page /\ generation' = generation /\ looking' = looking
          /\ UNCHANGED <<dirty, job, onPage, shown, icons, missed, stopRequested, late>>
          /\ queuedKeys' = queuedKeys \cup {looking} /\ ui = "queue" /\ ui' = "ready"
      BY <2>2 DEF fileVars
    <3>7. queue' \in [Objects -> Seq(Requests)]
      BY <1>t, <3>2, <3>3, <3>4
    <3>8. IconTypes'
      BY <1>t, <3>5, <3>6, <3>7 DEF IconTypes, Fetching
    <3>9. SleepsOnEmpty' /\ CleanIsEmpty' /\ StopPhases'
      BY <1>t, <3>5, <3>6 DEF SleepsOnEmpty, CleanIsEmpty, StopPhases
    <3>10. \A i : RequestFor(i)' = RequestFor(i)
      BY <3>6 DEF RequestFor
    <3>11. Pending(looking)'
      BY <3>4, <3>6, <3>10 DEF Pending, Queued
    <3>12. \A i : Pending(i) => Pending(i)'
      BY <1>t, <3>4, <3>5, <3>6, <3>10 DEF Pending, Queued, Taken, Fetching
    <3>13. Announced => Announced'
      BY <1>t, <3>5, <3>6 DEF Announced
    <3>14. NoRequestLost' /\ KeysAnswered'
      BY <1>t, <3>6, <3>11, <3>12, <3>13 DEF NoRequestLost, KeysAnswered
    <3> QED BY <3>8, <3>9, <3>14 DEF IconInv
  <2> QED BY <2>1, <2>2
<1>4. ASSUME NEW j \in Icons, Look(j) PROVE IconInv'
  <2>1. /\ ui = "ready" /\ ui' \in {"ready", "queue"} /\ looking' = j
        /\ ui' = "queue" <=> j \notin icons
        /\ onPage' \in {onPage \cup {j}, {j}}
        /\ shown' = (IF j \in icons THEN shown \cup {j} ELSE shown \ {j}) \cap onPage'
        /\ UNCHANGED <<page, generation, queuedKeys, dirty, stopRequested, queue, worker, job,
                       icons, missed, late>>
    BY <1>4 DEF Look, countVars, workVars, fileVars
  <2>2. IconTypes' /\ SleepsOnEmpty' /\ CleanIsEmpty' /\ StopPhases'
    BY <1>t, <2>1 DEF IconTypes, Fetching, SleepsOnEmpty, CleanIsEmpty, StopPhases
  <2>3. \A i : Pending(i)' = Pending(i)
    BY <2>1 DEF Pending, Queued, Taken, Fetching, RequestFor
  <2>4. Announced' = Announced
    BY <2>1 DEF Announced
  <2>5. NoRequestLost'
    BY <1>t, <2>1, <2>3, <2>4 DEF IconTypes, NoRequestLost
  <2>6. KeysAnswered'
    BY <1>t, <2>1, <2>3, <2>4 DEF IconTypes, KeysAnswered
  <2> QED BY <2>2, <2>5, <2>6 DEF IconInv
<1>5. CASE Relaunch
  BY <1>5, LaunchKept
<1>6. ASSUME NEW w \in Objects, WorkerGoesOn(w) \/ WakeSpuriously(w) PROVE IconInv'
  BY <1>6, OldWorkerKeeps, PageWorkerKeeps
<1>7. ASSUME NEW w \in Objects, FileError(w) PROVE IconInv'
  <2>1. /\ ui' = "terminated"
        /\ UNCHANGED <<looking, page, onPage, shown, generation, queuedKeys, dirty,
                       stopRequested, queue, worker, job, icons, missed, late>>
    BY <1>7 DEF FileError, countVars, workVars, fileVars
  <2>2. \A i : Pending(i)' = Pending(i)
    BY <2>1 DEF Pending, Queued, Taken, Fetching, RequestFor
  <2>3. Announced' = Announced
    BY <2>1 DEF Announced
  <2> QED
    BY <1>t, <2>1, <2>2, <2>3 DEF IconInv, IconTypes, Fetching, NoRequestLost, KeysAnswered,
       SleepsOnEmpty, CleanIsEmpty, StopPhases
<1> QED
  BY <1>1, <1>2, <1>3, <1>4, <1>5, <1>6, <1>7, PageKeeps DEF IconSteps, UiSteps

\* No request for a picture is lost: not when the page changes under a running
\* download, nor when the text is reset, nor when an old download finds a
\* picture the new page wants, nor when the worker of a page from before a
\* theme switch or an installation works on the same files: what they remove
\* is a picture the page knows nothing of (queueIconDownload,
\* iconDownloadThreadMain, UpdateInstallIcon).
THEOREM RequestsKept == IconSpec => []NoRequestLost
BY IconsBegin, IconStep, PTL DEF IconSpec, IconInv

\* When the page's worker sleeps and the page has looked at iconDownloadUiDirty,
\* all pictures that could be downloaded, and that nobody removed, are shown.
THEOREM RestServed == IconSpec => []RestIsServed
<1>1. IconInv => RestIsServed
  <2> SUFFICES ASSUME IconInv, ui = "ready", ~dirty, worker[page] \in {"dozing", "asleep"}
               PROVE  onPage \subseteq shown \cup missed
    BY DEF RestIsServed
  <2>1. ~Announced /\ \A i : ~Pending(i)
    BY DEF IconInv, SleepsOnEmpty, Announced, Pending, Queued, Taken, Fetching
  <2> QED BY <2>1 DEF IconInv, NoRequestLost
<1> QED BY <1>1, IconsBegin, IconStep, PTL DEF IconSpec

\* stopIconDownloadWorker joins a worker that is awake or whose notification
\* was missed; there is no other way to wait for ever.
THEOREM JoinAnswered == IconSpec => []JoinEnds
<1>1. IconInv => JoinEnds
  BY DEF IconInv, StopPhases, JoinEnds
<1> QED BY <1>1, IconsBegin, IconStep, PTL DEF IconSpec
=============================================================================
