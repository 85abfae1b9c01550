----------------------------- MODULE MtpStream -----------------------------
(***************************************************************************)
(* A package that a host PC copies to the console by MTP is installed      *)
(* while it arrives (source/mtp_install.cpp, FsInstallProxy and            *)
(* StopInstallServer of source/mtp_server.cpp).  Three threads share       *)
(* g_stream under g_stream_mutex: libhaze's responder, which opens, writes *)
(* and closes the file; the worker that installs an XCI from the           *)
(* MtpStreamBuffer; the UI thread, which may stop the server at any time.  *)
(* What the installers do to the storage is StreamInstall's business.      *)
(***************************************************************************)
EXTENDS Naturals

CONSTANTS
  FileSize,    \* what the host sends of a file, at most
  Needed,      \* the XCI up to the last entry of its secure partition
  BufferMax,   \* m_max_size, 8 MiB
  MaxWrite,    \* the largest write of the responder
  MaxFiles,    \* bound: files the host copies
  MaxStarts    \* bound: times the server is started

ASSUME MtpAssumption ==
  /\ FileSize \in Nat /\ Needed \in 1 .. FileSize
  /\ BufferMax \in Nat \ {0} /\ MaxWrite \in Nat \ {0}
  /\ MaxFiles \in Nat /\ MaxStarts \in Nat

VARIABLES
  gStream, closing,    \* g_stream; the stream CloseStreamInstall moved out
  mutex,               \* who holds g_stream_mutex
  running, complete,   \* g_stream_active, g_stream_complete
  services,            \* open handles of ns, es, spl (initInstallServices)
  pushed, taken,       \* bytes put into the buffer, and read from it
  bufActive,           \* m_active of the buffer
  sleeping,            \* threads waiting for m_can_write or m_can_read
  worker, wok,         \* the worker thread; m_ok
  hpc, rest, verdict,  \* the responder; what is left of its write; Finalize's result
  spc,                 \* StopInstallServer, on the UI thread
  bar,                 \* the page shows the progress bar
  files, starts,       \* bounds
  broke,               \* history: the worker failed for a reason of its own
  overtaken            \* history: a stop cancelled a stream that was being opened

streamVars == <<gStream, closing, mutex, running, complete, services>>
bufferVars == <<pushed, taken, bufActive, sleeping>>
workerVars == <<worker, wok, broke>>
hostVars == <<hpc, rest, verdict, files>>
stopVars == <<spc, starts, bar>>
mtpVars == <<streamVars, bufferVars, workerVars, hostVars, stopVars, overtaken>>

MtpInit ==
  /\ gStream = "none" /\ closing = "none" /\ mutex = "free"
  /\ running = FALSE /\ complete = FALSE /\ services = 0
  /\ pushed = 0 /\ taken = 0 /\ bufActive = FALSE /\ sleeping = {}
  /\ worker = "none" /\ wok = TRUE /\ broke = FALSE
  /\ hpc = "idle" /\ rest = 0 /\ verdict = FALSE /\ files = 0
  /\ spc = "running" /\ starts = 1 /\ bar = FALSE /\ overtaken = FALSE

\* std::terminate: an exception left the worker's thread function, or the
\* destructor of a stream, which closes the writers of its unfinished entries.
Terminated == "terminated" \in {worker, hpc, spc}

Buffered == pushed - taken
Released == IF services > 0 THEN services - 1 ELSE 0   \* a libnx service guard
HazeExiting == spc = "exit"

\* Mutant: only a reader is woken.
DisableReaderOnly == bufActive' = FALSE /\ sleeping' = sleeping \ {"worker"}

\* MtpStreamBuffer::Disable
Disable == bufActive' = FALSE /\ sleeping' = {}

-----------------------------------------------------------------------------
(* The responder: OpenFile, WriteFile and CloseFile of FsInstallProxy.     *)

\* StartStreamInstall up to the new stream; an XCI's worker runs from now on.
\* The thread closes a file before it opens the next one.
OpenFile ==
  /\ hpc = "idle" /\ ~HazeExiting /\ spc # "stopped" /\ files < MaxFiles
  /\ mutex = "free"
  /\ \/ gStream' = "nsp" /\ UNCHANGED worker
     \/ gStream' = "xci" /\ worker' = "read"
  /\ pushed' = 0 /\ taken' = 0 /\ bufActive' = TRUE /\ sleeping' = {}
  /\ wok' = TRUE /\ broke' = FALSE
  /\ hpc' = "opened" /\ files' = files + 1
  /\ UNCHANGED <<closing, mutex, running, complete, services, rest, verdict, stopVars, overtaken>>

\* Its flags, then initInstallServices.
StreamStarted ==
  /\ hpc = "opened"
  /\ running' = TRUE /\ complete' = FALSE /\ services' = services + 1
  /\ overtaken' = (overtaken \/ gStream = "none")
  /\ hpc' = "transfer"
  /\ UNCHANGED <<gStream, closing, mutex, bufferVars, workerVars, rest, verdict, files, stopVars>>

\* WriteStreamInstall: an error ends the transfer.  MtpNspStream::Feed installs
\* the data at once, MtpXciStreamPull::Feed pushes it with the mutex held.
WriteFile ==
  /\ hpc = "transfer" /\ mutex = "free"
  /\ \E n \in 1 .. MaxWrite :
       /\ pushed + n <= FileSize
       /\ \/ /\ gStream = "none"
             /\ hpc' = "close" /\ UNCHANGED <<mutex, rest, pushed, taken>>
          \/ /\ gStream = "nsp"
             /\ pushed' = pushed + n /\ taken' = taken + n
             /\ hpc' \in {"transfer", "close"} /\ UNCHANGED <<mutex, rest>>
          \/ /\ gStream = "xci"
             /\ mutex' = "host" /\ rest' = n
             /\ hpc' = "push" /\ UNCHANGED <<pushed, taken>>
  /\ UNCHANGED <<gStream, closing, running, complete, services, bufActive, sleeping,
                 workerVars, verdict, files, stopVars, overtaken>>

\* A turn of the loop in Push.
Push ==
  /\ hpc = "push" /\ "host" \notin sleeping
  /\ \/ /\ ~bufActive
        /\ mutex' = "free" /\ rest' = 0 /\ hpc' = "close"
        /\ UNCHANGED <<pushed, sleeping>>
     \/ /\ bufActive /\ Buffered = BufferMax
        /\ sleeping' = sleeping \cup {"host"}
        /\ UNCHANGED <<mutex, rest, hpc, pushed>>
     \/ /\ bufActive /\ Buffered < BufferMax
        /\ LET room == BufferMax - Buffered
               chunk == IF rest < room THEN rest ELSE room
           IN  /\ pushed' = pushed + chunk /\ rest' = rest - chunk
               /\ IF rest = chunk THEN mutex' = "free" /\ hpc' = "transfer"
                                  ELSE UNCHANGED <<mutex, hpc>>
        /\ sleeping' = sleeping \ {"worker"}
  /\ UNCHANGED <<gStream, closing, running, complete, services, taken, bufActive,
                 workerVars, verdict, files, stopVars, overtaken>>

\* The host has sent the file, gave up, was unplugged, or haze::Exit cancels.
EndTransfer ==
  /\ hpc = "transfer"
  /\ hpc' = "close"
  /\ UNCHANGED <<streamVars, bufferVars, workerVars, rest, verdict, files, stopVars, overtaken>>

\* CloseFile, however the transfer ended: CloseStreamInstall moves the stream out.
CloseFile ==
  /\ hpc = "close" /\ mutex = "free"
  /\ closing' = gStream /\ gStream' = "none"
  /\ hpc' = IF gStream = "none" THEN "idle" ELSE "finalize"
  /\ UNCHANGED <<mutex, running, complete, services, bufferVars, workerVars, rest, verdict,
                 files, stopVars, overtaken>>

\* Mutant: the services are given back before the stream is finalized.
ReleaseThenFinalize ==
  /\ hpc = "finalize"
  /\ services' = Released
  /\ \/ closing = "xci" /\ Disable /\ hpc' = "join" /\ UNCHANGED verdict
     \/ /\ closing = "nsp" /\ hpc' = "settle" /\ verdict' \in BOOLEAN
        /\ UNCHANGED <<bufActive, sleeping>>
  /\ UNCHANGED <<gStream, closing, mutex, running, complete, pushed, taken, workerVars, rest,
                 files, stopVars, overtaken>>

\* MtpNspStream::Finalize commits; MtpXciStreamPull::Finalize ends the buffer ...
Finalize ==
  /\ hpc = "finalize"
  /\ \/ closing = "xci" /\ Disable /\ hpc' = "join" /\ UNCHANGED verdict
     \/ /\ closing = "nsp" /\ hpc' = "settle" /\ verdict' \in BOOLEAN
        /\ UNCHANGED <<bufActive, sleeping>>
  /\ UNCHANGED <<streamVars, pushed, taken, workerVars, rest, files, stopVars, overtaken>>

\* Mutant: m_ok is read, the worker still at work.
ReadVerdictEarly ==
  /\ hpc = "join"
  /\ verdict' = wok /\ worker' = "none" /\ hpc' = "settle"
  /\ UNCHANGED <<streamVars, bufferVars, wok, broke, rest, files, stopVars, overtaken>>

\* ... and joins the worker.
JoinWorker ==
  /\ hpc = "join" /\ worker = "exit"
  /\ verdict' = wok /\ worker' = "none" /\ hpc' = "settle"
  /\ UNCHANGED <<streamVars, bufferVars, wok, broke, rest, files, stopVars, overtaken>>

\* The rest of CloseStreamInstall, and then the stream is destroyed.
StreamClosed ==
  /\ hpc = "settle" /\ mutex = "free"
  /\ running' = FALSE /\ complete' = verdict /\ services' = Released
  /\ hpc' = "destroy"
  /\ UNCHANGED <<gStream, closing, mutex, bufferVars, workerVars, rest, verdict, files, stopVars,
                 overtaken>>

DestroyStream ==
  /\ hpc = "destroy"
  /\ \/ closing' = "none" /\ hpc' = "idle"
     \/ closing = "nsp" /\ hpc' = "terminated" /\ UNCHANGED closing
  /\ UNCHANGED <<gStream, mutex, running, complete, services, bufferVars, workerVars, rest,
                 verdict, files, stopVars, overtaken>>

ResponderExits ==
  /\ hpc = "idle" /\ HazeExiting
  /\ hpc' = "exit"
  /\ UNCHANGED <<streamVars, bufferVars, workerVars, rest, verdict, files, stopVars, overtaken>>

-----------------------------------------------------------------------------
(* The worker: MtpXciStreamPull's thread.                                  *)

EndOfStream == ~bufActive /\ Buffered = 0

\* MtpStreamBuffer::ReadChunk, for MtpStreamSource::Read.
ReadChunk ==
  /\ worker = "read" /\ "worker" \notin sleeping /\ taken < Needed
  /\ \/ /\ bufActive /\ Buffered = 0
        /\ sleeping' = sleeping \cup {"worker"}
        /\ UNCHANGED <<worker, wok, taken>>
     \/ /\ EndOfStream
        /\ wok' = FALSE /\ worker' = "finish"
        /\ UNCHANGED <<sleeping, taken>>
     \/ /\ Buffered > 0 /\ ~EndOfStream
        /\ \E n \in 1 .. Buffered : taken + n <= Needed /\ taken' = taken + n
        /\ sleeping' = sleeping \ {"host"}
        /\ worker' = "write" /\ UNCHANGED wok
  /\ UNCHANGED <<streamVars, pushed, bufActive, broke, hostVars, stopVars, overtaken>>

Fails == wok' = FALSE /\ broke' = TRUE /\ worker' = "finish"

\* WriteEntryData: false for an entry it does not know; an exception of the
\* NCA writer is caught by nobody.
WriteEntry ==
  /\ worker = "write"
  /\ \/ worker' \in {"read", "terminated"} /\ UNCHANGED <<wok, broke>>
     \/ Fails
  /\ UNCHANGED <<streamVars, bufferVars, hostVars, stopVars, overtaken>>

\* Everything was read: tickets, then CommitAll.
CommitRecords ==
  /\ worker = "read" /\ taken = Needed
  /\ \/ wok' = TRUE /\ worker' = "finish" /\ UNCHANGED broke
     \/ Fails
  /\ UNCHANGED <<streamVars, bufferVars, hostVars, stopVars, overtaken>>

\* The entries of an XCI that failed are destroyed before the buffer ends.
WorkerEnds ==
  /\ worker = "finish"
  /\ \/ Disable /\ worker' = "exit"
     \/ ~wok /\ worker' = "terminated" /\ UNCHANGED <<bufActive, sleeping>>
  /\ UNCHANGED <<streamVars, pushed, taken, wok, broke, hostVars, stopVars, overtaken>>

-----------------------------------------------------------------------------
(* The UI thread: StopInstallServer and StartInstallServer.                *)

\* A frame looks at the stream: the bar is shown while one is active and when
\* one is complete (ConsumeStreamInstallComplete).
ShowFrame ==
  /\ spc \in {"running", "stopped"} /\ (running \/ complete)
  /\ bar' = TRUE /\ complete' = FALSE
  /\ UNCHANGED <<gStream, closing, mutex, running, services, bufferVars, workerVars, hostVars,
                 spc, starts, overtaken>>

\* B on the page.  While the bar shows an active stream it only raises the
\* flag no MTP installer looks at; but a stream may be opened at that moment.
StopServer ==
  /\ spc = "running" /\ ~(bar /\ running)
  /\ spc' = "cancel"
  /\ UNCHANGED <<streamVars, bufferVars, workerVars, hostVars, starts, bar, overtaken>>

\* CancelStreamInstall: g_stream.reset() with the mutex held ends the buffer ...
CancelStream ==
  /\ spc = "cancel" /\ mutex = "free"
  /\ \/ /\ gStream = "xci"
        /\ mutex' = "ui" /\ Disable /\ spc' = "join" /\ UNCHANGED gStream
     \/ /\ gStream # "xci"
        /\ \/ gStream' = "none" /\ spc' = "flags"
           \/ gStream = "nsp" /\ spc' = "terminated" /\ UNCHANGED gStream
        /\ UNCHANGED <<mutex, bufActive, sleeping>>
  /\ UNCHANGED <<closing, running, complete, services, pushed, taken, workerVars, hostVars,
                 starts, bar, overtaken>>

\* ... and joins the worker;
CancelJoins ==
  /\ spc = "join" /\ worker = "exit"
  /\ gStream' = "none" /\ worker' = "none" /\ mutex' = "free"
  /\ spc' = "flags"
  /\ UNCHANGED <<closing, running, complete, services, bufferVars, wok, broke, hostVars,
                 starts, bar, overtaken>>

\* then the flags and deinitInstallServices, whether there was a stream or not.
CancelFlags ==
  /\ spc = "flags"
  /\ running' = FALSE /\ complete' = FALSE /\ services' = Released
  /\ spc' = "haze"
  /\ UNCHANGED <<gStream, closing, mutex, bufferVars, workerVars, hostVars, starts, bar, overtaken>>

HazeExit ==
  /\ spc = "haze" /\ spc' = "exit"
  /\ UNCHANGED <<streamVars, bufferVars, workerVars, hostVars, starts, bar, overtaken>>

\* Mutant: haze::Exit does not wait for the responder's thread.
StopWithoutWaiting ==
  /\ spc = "exit" /\ spc' = "stopped"
  /\ UNCHANGED <<streamVars, bufferVars, workerVars, hostVars, starts, bar, overtaken>>

\* haze::Exit has joined the responder.
ServerStopped ==
  /\ spc = "exit" /\ hpc = "exit"
  /\ spc' = "stopped"
  /\ UNCHANGED <<streamVars, bufferVars, workerVars, hostVars, starts, bar, overtaken>>

StartServer ==
  /\ spc = "stopped" /\ starts < MaxStarts
  /\ spc' = "running" /\ starts' = starts + 1 /\ bar' = FALSE /\ hpc' = "idle"
  /\ UNCHANGED <<streamVars, bufferVars, workerVars, rest, verdict, files, overtaken>>

-----------------------------------------------------------------------------

\* What the responder's thread does without waiting for the host.
ResponderSteps ==
  \/ StreamStarted \/ Push \/ CloseFile \/ Finalize \/ JoinWorker \/ StreamClosed
  \/ DestroyStream
  \/ ResponderExits \/ (HazeExiting /\ EndTransfer)
HostSteps == OpenFile \/ WriteFile \/ EndTransfer
WorkerSteps == ReadChunk \/ WriteEntry \/ CommitRecords \/ WorkerEnds
StopSteps == CancelStream \/ CancelJoins \/ CancelFlags \/ HazeExit \/ ServerStopped
UserSteps == ShowFrame \/ StopServer \/ StartServer

MtpNext ==
  /\ ~Terminated
  /\ ResponderSteps \/ HostSteps \/ WorkerSteps \/ StopSteps \/ UserSteps

MtpSpec == MtpInit /\ [][MtpNext]_mtpVars

Running(steps) == ~Terminated /\ steps

\* The three threads are scheduled.  Nothing is assumed of the host: it may
\* send nothing for ever, until haze::Exit cancels the transfer.
MtpFairness ==
  /\ WF_mtpVars(Running(ResponderSteps))
  /\ WF_mtpVars(Running(WorkerSteps))
  /\ WF_mtpVars(Running(StopSteps))

-----------------------------------------------------------------------------
(* Properties                                                              *)

\* Finalize disables the buffer while the worker may have much to read: an
\* XCI counts as installed exactly if the host sent every entry of it and the
\* worker met no failure, wherever the two threads were when the file ended.
XciVerdictIsRight ==
  hpc = "settle" /\ closing = "xci" => (verdict <=> pushed >= Needed /\ ~broke)

\* A step that talks to NCM, NS or ES is next.
AtStorage ==
  \/ worker = "write" \/ (worker = "read" /\ taken = Needed)
  \/ (hpc = "transfer" /\ gStream = "nsp")
  \/ (hpc \in {"finalize", "destroy"} /\ closing = "nsp")

\* The services are open whenever an installer uses them, though the worker
\* starts before they are opened and the UI thread closes them; the exceptions
\* are a stop that overtakes a file being closed or opened at that moment, and
\* the stream CloseStreamInstall destroys after it has given them back.
ServicesOpenInUse ==
  AtStorage /\ services = 0 => spc \in {"haze", "exit"} \/ hpc = "destroy"

\* When the server has stopped, every stream is gone, its worker joined and
\* the mutex free.  g_stream_active and the services are back as well, unless
\* the stop came between the two halves of StartStreamInstall.
StopLeavesNothing ==
  spc = "stopped" =>
    /\ gStream = "none" /\ closing = "none" /\ worker = "none" /\ mutex = "free"
    /\ overtaken \/ (~running /\ services = 0)

\* Stopping ends: the write that holds the mutex while it waits for room, the
\* worker that waits for data and the join of either never wait in a circle.
StopEnds == spc = "cancel" ~> (spc = "stopped" \/ Terminated)
=============================================================================
