--------------------------- MODULE InstallSession ---------------------------
(***************************************************************************)
(* tin::install::Install::Prepare and Begin (source/install/install.cpp)   *)
(* with the ReadCNMT and InstallNCA of NSPInstall (install_nsp.cpp) and    *)
(* XCIInstallTask (install_xci.cpp, the same code for another container).  *)
(* One package is installed over and over: sessions succeed, fail, are     *)
(* cancelled or die, and the next one meets what they left on the storage. *)
(***************************************************************************)
EXTENDS ContentStorage

CONSTANT MaxSessions  \* bound: how many sessions are run

ASSUME SessionAssumption == MaxSessions \in Nat

VARIABLES
  pc, nca, ret,  \* where the session is; the NCA of InstallNCA, its caller
  i, j,          \* loop positions: CNMT, content of that CNMT
  tracked,       \* m_sessionInstalledNcas
  sessions       \* bound: sessions begun

loopVars == <<i, j>>
callVars == <<nca, ret>>
pastVars == <<sessions, before>>
sessionVars == <<pc, callVars, loopVars, tracked, sessions>>
vars == <<diskVars, cancel, before, sessionVars>>

SessionInit ==
  /\ pc = "idle" /\ nca = Cnmts[1] /\ ret = "read"
  /\ i = 1 /\ j = 1 /\ tracked = {} /\ sessions = 0

Init == StorageInit /\ SessionInit

\* The install page is loaded (the flag is cleared), the task constructed.
StartSession ==
  /\ pc \in {"idle", "ok", "failed"} /\ sessions < MaxSessions
  /\ pc' = "read" /\ i' = 1 /\ j' = 1
  /\ Opens /\ tracked' = {} /\ sessions' = sessions + 1
  /\ UNCHANGED <<diskVars, callVars>>

\* B on the install page, seen while a transfer redraws it.
UserCancels ==
  /\ pc = "stream" /\ ~cancel
  /\ cancel' = TRUE
  /\ UNCHANGED <<diskVars, pc, callVars, loopVars, tracked, pastVars>>

\* The console loses power or the process aborts: memory is gone.
Crash ==
  /\ pc \notin {"idle", "ok", "failed"}
  /\ pc' = "idle" /\ tracked' = {}
  /\ UNCHANGED <<diskVars, cancel, callVars, loopVars, pastVars>>

Call(n, caller) == pc' = "leftover" /\ nca' = n /\ ret' = caller

-----------------------------------------------------------------------------
(* InstallNCA(nca)                                                         *)

\* A placeholder left by an earlier attempt is deleted, if there is one.  The
\* storage may not open: that throws past the handlers below.
DeleteLeftover ==
  /\ pc = "leftover"
  /\ \/ placeholders' \in Deleted(placeholders, {nca}) /\ pc' = "stream"
     \/ UNCHANGED placeholders /\ pc' = "cleanup"
  /\ UNCHANGED <<registered, metaDb, appRecs, cancel, callVars, loopVars, tracked, pastVars>>

\* The NCA header is checked (the user may refuse) and the content streamed;
\* a cancelled HTTP transfer throws, the SD card and USB ones run to the end.
\* CreatePlaceholder throws where there is one; less than a header makes none.
StreamToPlaceholder ==
  /\ pc = "stream"
  /\ \/ nca \notin placeholders /\ placeholders' = placeholders \cup {nca} /\ pc' = "register"
     \/ nca \in Empty \cup Unregisterable /\ UNCHANGED placeholders /\ pc' = "register"
     \/ placeholders' \in {placeholders, placeholders \cup {nca}} /\ pc' = "catch"
  /\ UNCHANGED <<registered, metaDb, appRecs, cancel, callVars, loopVars, tracked, pastVars>>

\* Register moves the placeholder; a failure is swallowed.
Register ==
  /\ pc = "register"
  /\ IF CanRegister(nca)
       THEN registered' = registered \cup {nca} /\ placeholders' = placeholders \ {nca}
       ELSE UNCHANGED <<registered, placeholders>>
  /\ pc' = "unplace"
  /\ UNCHANGED <<metaDb, appRecs, cancel, callVars, loopVars, tracked, pastVars>>

\* Mutant: a placeholder that could not be registered stays.
KeepPlaceholder ==
  /\ pc = "unplace"
  /\ pc' = ret
  /\ UNCHANGED <<diskVars, cancel, callVars, loopVars, tracked, pastVars>>

\* DeletePlaceholder after Register; if it fails, the placeholder stays.
DeletePlaceholder ==
  /\ pc = "unplace"
  /\ placeholders' \in Deleted(placeholders, {nca})
  /\ pc' = ret
  /\ UNCHANGED <<registered, metaDb, appRecs, cancel, callVars, loopVars, tracked, pastVars>>

\* catch (...): the placeholder and whatever is registered under this id go,
\* in two calls; then the exception travels on to the session's catch.
CatchPlaceholder ==
  /\ pc = "catch"
  /\ placeholders' \in Deleted(placeholders, {nca})
  /\ pc' = "catchNca"
  /\ UNCHANGED <<registered, metaDb, appRecs, cancel, callVars, loopVars, tracked, pastVars>>

CatchNca ==
  /\ pc = "catchNca"
  /\ registered' \in Deleted(registered, {nca})
  /\ pc' = "cleanup"
  /\ UNCHANGED <<placeholders, metaDb, appRecs, cancel, callVars, loopVars, tracked, pastVars>>

InstallNCA ==
  \/ DeleteLeftover \/ StreamToPlaceholder \/ Register \/ DeletePlaceholder
  \/ CatchPlaceholder \/ CatchNca

-----------------------------------------------------------------------------
(* Prepare                                                                 *)

\* ReadCNMT installs every CNMT NCA, present or not ...
ReadCNMT ==
  /\ pc = "read"
  /\ IF i <= Len(Cnmts)
       THEN Call(Cnmts[i], "readMeta") /\ UNCHANGED i
       ELSE pc' = "records" /\ i' = 1 /\ UNCHANGED callVars
  /\ UNCHANGED <<diskVars, cancel, j, tracked, pastVars>>

\* ... and mounts it: GetPath throws if it is not registered, and mounting
\* or parsing may throw.
ReadMeta ==
  /\ pc = "readMeta"
  /\ \/ nca \in registered /\ pc' = "read" /\ i' = i + 1
     \/ pc' = "cleanup" /\ UNCHANGED i
  /\ UNCHANGED <<diskVars, cancel, callVars, j, tracked, pastVars>>

\* The per-CNMT loop: cancelled or without a storage to ask, install and
\* track, or go on.
PrepareCnmt ==
  /\ pc = "records" /\ i <= Len(Cnmts)
  /\ \/ pc' = "cleanup" /\ UNCHANGED callVars
     \/ ~cancel /\ Cnmts[i] \notin registered /\ Call(Cnmts[i], "track")
     \/ ~cancel /\ Cnmts[i] \in registered /\ pc' = "meta" /\ UNCHANGED callVars
  /\ UNCHANGED <<diskVars, cancel, loopVars, tracked, pastVars>>

\* InstallContentMetaRecords: Set and Commit, or an error that throws.
CommitMeta ==
  /\ pc = "meta"
  /\ \/ metaDb' = metaDb \cup {Cnmts[i]} /\ pc' = "app"
     \/ UNCHANGED metaDb /\ pc' = "cleanup"
  /\ UNCHANGED <<registered, placeholders, appRecs, cancel, callVars, loopVars, tracked, pastVars>>

\* Mutant: an error of NS goes unnoticed.
PushAppRecordUnchecked ==
  /\ pc = "app"
  /\ appRecs' \in {appRecs, appRecs \cup {Cnmts[i]}}
  /\ pc' = "records" /\ i' = i + 1
  /\ UNCHANGED <<registered, placeholders, metaDb, cancel, callVars, j, tracked, pastVars>>

\* InstallApplicationRecord
PushAppRecord ==
  /\ pc = "app"
  /\ \/ appRecs' = appRecs \cup {Cnmts[i]} /\ pc' = "records" /\ i' = i + 1
     \/ UNCHANGED <<appRecs, i>> /\ pc' = "cleanup"
  /\ UNCHANGED <<registered, placeholders, metaDb, cancel, callVars, j, tracked, pastVars>>

\* Begin: tickets first; an error importing them is only logged.
InstallTicketCert ==
  /\ pc = "records" /\ i > Len(Cnmts)
  /\ pc' = "contents" /\ i' = 1 /\ j' = 1
  /\ UNCHANGED <<diskVars, cancel, callVars, tracked, pastVars>>

Prepare == ReadCNMT \/ ReadMeta \/ PrepareCnmt \/ CommitMeta \/ PushAppRecord

-----------------------------------------------------------------------------
(* Begin                                                                   *)

Content == Contents[Cnmts[i]][j]

NextCnmt ==
  /\ pc = "contents" /\ i <= Len(Cnmts) /\ j > Len(Contents[Cnmts[i]])
  /\ i' = i + 1 /\ j' = 1
  /\ UNCHANGED <<diskVars, cancel, pc, callVars, tracked, pastVars>>

\* Mutant: a content that is there already is installed over again.
InstallAlways ==
  /\ pc = "contents" /\ i <= Len(Cnmts) /\ j <= Len(Contents[Cnmts[i]])
  /\ \/ pc' = "cleanup" /\ UNCHANGED <<callVars, j>>
     \/ ~cancel /\ Call(Content, "track") /\ UNCHANGED j
  /\ UNCHANGED <<diskVars, cancel, i, tracked, pastVars>>

\* The per-content loop: cancelled or without a storage to ask, skipped, or
\* installed and tracked.
InstallContent ==
  /\ pc = "contents" /\ i <= Len(Cnmts) /\ j <= Len(Contents[Cnmts[i]])
  /\ \/ pc' = "cleanup" /\ UNCHANGED <<callVars, j>>
     \/ ~cancel /\ Content \in registered /\ j' = j + 1 /\ UNCHANGED <<callVars, pc>>
     \/ ~cancel /\ Content \notin registered /\ Call(Content, "track") /\ UNCHANGED j
  /\ UNCHANGED <<diskVars, cancel, i, tracked, pastVars>>

\* Mutant: the NCA is not remembered.
ForgetNca ==
  /\ pc = "track"
  /\ IF nca \in CnmtIds THEN pc' = "meta" /\ UNCHANGED j
                        ELSE pc' = "contents" /\ j' = j + 1
  /\ UNCHANGED <<diskVars, cancel, callVars, i, tracked, pastVars>>

\* TrackSessionInstalledNca, after InstallNCA returned to either loop.
TrackNca ==
  /\ pc = "track"
  /\ tracked' = tracked \cup {nca}
  /\ IF nca \in CnmtIds THEN pc' = "meta" /\ UNCHANGED j
                        ELSE pc' = "contents" /\ j' = j + 1
  /\ UNCHANGED <<diskVars, cancel, callVars, i, pastVars>>

Succeed ==
  /\ pc = "contents" /\ i > Len(Cnmts)
  /\ pc' = "ok"
  /\ UNCHANGED <<diskVars, cancel, callVars, loopVars, tracked, pastVars>>

\* CleanupSessionInstalledNcas: nothing to do, or the storage does not open,
\* or one tracked NCA at a time goes; then the rethrow.
Cleanup ==
  /\ pc = "cleanup"
  /\ pc' = "failed" \/ (tracked # {} /\ pc' = "delete")
  /\ UNCHANGED <<diskVars, cancel, callVars, loopVars, tracked, pastVars>>

DeleteTracked ==
  /\ pc = "delete"
  /\ \E n \in tracked :
       /\ placeholders' \in Deleted(placeholders, {n})
       /\ registered' \in Deleted(registered, {n})
       /\ tracked' = tracked \ {n}
  /\ pc' = IF tracked' = {} THEN "failed" ELSE "delete"
  /\ UNCHANGED <<metaDb, appRecs, cancel, callVars, loopVars, pastVars>>

Begin == InstallTicketCert \/ NextCnmt \/ InstallContent \/ TrackNca \/ Succeed

SessionSteps ==
  UserCancels \/ Crash \/ Prepare \/ Begin \/ InstallNCA \/ Cleanup \/ DeleteTracked

Next == StartSession \/ SessionSteps

Spec == Init /\ [][Next]_vars
-----------------------------------------------------------------------------
(* Properties                                                              *)

\* Types.
InstallTypeOK ==
  /\ registered \subseteq Ncas /\ placeholders \subseteq Ncas
  /\ metaDb \subseteq CnmtIds /\ appRecs \subseteq metaDb
  /\ cancel \in BOOLEAN /\ nca \in Ncas /\ ret \in {"read", "readMeta", "track"}
  /\ pc \in {"idle", "read", "readMeta", "records", "meta", "app", "contents", "track",
             "leftover", "stream", "register", "unplace", "catch", "catchNca",
             "cleanup", "delete", "ok", "failed"}
  /\ i \in 1 .. Len(Cnmts) + 1 /\ j \in Nat \ {0}
  /\ tracked \subseteq Ncas /\ sessions \in 0 .. MaxSessions
  /\ before \in [reg : SUBSET Ncas, place : SUBSET Ncas, meta : SUBSET CnmtIds, apps : SUBSET CnmtIds]

\* A session that reports success leaves a whole title, whatever the sessions
\* before it, or the streams of StreamInstall, left behind: both records, every
\* NCA registered but the empty ones and those whose Register failed ("It may
\* already exist", install_nsp.cpp), and no placeholder but one that cannot be
\* deleted, or that a stream left beside a content that was registered
\* already, which a session skips.
SuccessIsInstalled ==
  pc = "ok" =>
    /\ Ncas \ (Empty \cup Unregisterable) \subseteq registered
    /\ placeholders \ Undeletable \subseteq before.place \cap before.reg \cap ContentIds
    /\ metaDb = CnmtIds /\ appRecs = CnmtIds

\* A content NCA that was registered when the session began, maybe shared
\* with another title, survives the session and its cleanup.
ContentsKept == pc # "idle" => before.reg \cap ContentIds \subseteq registered

\* Whichever way a session ends, it leaves no placeholder it made itself and
\* could delete.
NoNewPlaceholder ==
  pc \in {"ok", "failed"} => placeholders \ Undeletable \subseteq before.place

\* A failed session takes back every content NCA it registered and can delete;
\* what it leaves is CNMT NCAs and the records (see CancelRestoresStorage).  If
\* the storage does not open for the cleanup, it leaves what it still tracks.
FailureTakesBackContents ==
  pc = "failed" => registered \ Undeletable \subseteq before.reg \cup CnmtIds \cup tracked

\* What the dialog promises (source/ui/instPage.cpp): "Stop the current
\* install and clean up partial data?" -- after a cancelled session the storage
\* is as it was, without records and CNMT NCAs of the title, and with
\* everything that was installed before.
CancelRestoresStorage == pc = "failed" /\ cancel => Disk = before
=============================================================================
