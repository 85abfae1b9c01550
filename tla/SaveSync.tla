------------------------------ MODULE SaveSync ------------------------------
(***************************************************************************)
(* inst::save_sync (source/util/save_sync.cpp): DownloadSaveToConsole      *)
(* clears a title's save data and fills it from a backup of the Remote,    *)
(* UploadSaveToServer makes a backup of it, DeleteSaveFromServer deletes   *)
(* one.  The save file system is journaled: what was written since the     *)
(* last fsdevCommitDevice is lost when it is unmounted.  A save, like an   *)
(* archive of one, is a function from its paths to what is there.          *)
(***************************************************************************)
EXTENDS Naturals, FiniteSets

CONSTANTS
  SavePaths,     \* paths a file of the save may have
  Unflushable,   \* those whose last buffered bytes may not be writable
  CommitEvery,   \* kSaveSyncCommitEveryFiles
  MaxCalls       \* bound: how many of the three calls are made

ASSUME SaveAssumption ==
  CommitEvery \in Nat \ {0} /\ MaxCalls \in Nat /\ Unflushable \subseteq SavePaths

Nothing == "nothing"
Cut == "cut"                             \* a file that ends too early
Versions == {"old", "new", Cut}
Saves == [SavePaths -> Versions \cup {Nothing}]
EmptySave == [p \in SavePaths |-> Nothing]

VARIABLES
  saved,         \* the committed save data
  view,          \* what the mounted file system shows
  backups,       \* the backups the Remote keeps
  chosen,        \* the backup that is being restored, or was made
  zip,           \* save_sync_tmp/<title>.zip: "none", "damaged" or "whole"
  archived,      \* what it holds
  spc,           \* where the call is
  todo,          \* paths of the archive not yet extracted
  filesSinceCommit,
  left,          \* history: what the wipe left of the save
  wiped,         \* history: it was committed
  old,           \* history: the save when the call began
  calls          \* bound: calls made

zipVars == <<zip, archived>>
extractVars == <<todo, filesSinceCommit>>
historyVars == <<left, wiped, old, calls>>
saveVars == <<saved, view, backups, chosen, zipVars, spc, extractVars, historyVars>>

SaveInit ==
  /\ saved \in [SavePaths -> {"old", Nothing}] /\ view = saved
  /\ backups \in SUBSET [SavePaths -> {"new", Nothing}]
  /\ chosen = EmptySave /\ zip = "none" /\ archived = EmptySave
  /\ spc = "idle" /\ todo = {} /\ filesSinceCommit = 0
  /\ left = EmptySave /\ wiped = FALSE /\ old = saved /\ calls = 0

AtRest == {"idle", "failed", "restored", "uploaded"}

\* Both transfers begin by removing save_sync_tmp.
BeginCall(next) ==
  /\ spc \in AtRest /\ calls < MaxCalls
  /\ spc' = next /\ calls' = calls + 1
  /\ zip' = "none" /\ archived' = EmptySave
  /\ left' = EmptySave /\ wiped' = FALSE /\ old' = saved
  /\ UNCHANGED <<saved, view, backups, extractVars>>

\* Every error after mounting unmounts.
SaveFails == spc' = "failed" /\ view' = saved

SaveCrash ==
  /\ spc \notin AtRest
  /\ spc' = "idle" /\ view' = saved
  /\ UNCHANGED <<saved, backups, chosen, zipVars, extractVars, historyVars>>

-----------------------------------------------------------------------------
(* DownloadSaveToConsole                                                   *)

\* A version of the list is picked; it may have been deleted since.
StartRestore ==
  /\ BeginCall("fetch")
  /\ chosen' \in backups \cup {EmptySave}

\* Any 2xx body is taken for the archive.
Fetch ==
  /\ spc = "fetch"
  /\ \/ chosen \in backups /\ zip' = "whole" /\ archived' = chosen /\ spc' = "wipe"
     \/ zip' = "damaged" /\ spc' \in {"wipe", "failed"} /\ UNCHANGED archived
  /\ UNCHANGED <<saved, view, backups, chosen, extractVars, historyVars>>

\* ClearDirectoryContents, one entry at a time, or an error; mounting as well.
\* The error of opening the directory is looked at in the body of the loop
\* only, which then has no turn: nothing is cleared, and nobody told.
Wipe ==
  /\ spc = "wipe"
  /\ \/ \E p \in SavePaths : view[p] # Nothing /\ view' = [view EXCEPT ![p] = Nothing]
        /\ UNCHANGED <<spc, left>>
     \/ view \in {EmptySave, saved} /\ spc' = "commitWipe" /\ left' = view /\ UNCHANGED view
     \/ SaveFails /\ UNCHANGED left
  /\ UNCHANGED <<saved, backups, chosen, zipVars, extractVars, wiped, old, calls>>

\* Mutant: the wipe is not committed before the save is unmounted.
CommitWipeLater ==
  /\ spc = "commitWipe"
  /\ spc' = "remount" /\ view' = saved
  /\ UNCHANGED <<saved, backups, chosen, zipVars, extractVars, historyVars>>

CommitWipe ==
  /\ spc = "commitWipe"
  /\ \/ saved' = view /\ wiped' = TRUE /\ spc' = "remount" /\ UNCHANGED view
     \/ SaveFails /\ UNCHANGED <<saved, wiped>>
  /\ UNCHANGED <<backups, chosen, zipVars, extractVars, left, old, calls>>

\* "remount fresh after wipe+commit, then import": the archive is opened.
Remount ==
  /\ spc = "remount"
  /\ \/ /\ zip = "whole" /\ spc' = "extract" /\ UNCHANGED view
        /\ todo' = {p \in SavePaths : archived[p] # Nothing} /\ filesSinceCommit' = 0
     \/ /\ zip = "damaged" /\ spc' = "extract" /\ UNCHANGED view
        /\ todo' = SavePaths /\ filesSinceCommit' = 0
     \/ SaveFails /\ UNCHANGED extractVars
  /\ UNCHANGED <<saved, backups, chosen, zipVars, historyVars>>

\* What the archive holds of a file; a damaged one holds any version of it.
Extracted(p) == IF zip = "damaged" THEN {"new"} ELSE {archived[p]}

\* What is written of it.  The stream is asked before its last bytes leave the
\* buffer, and neither flush nor close is looked at: the end may be missing.
Written(p) == Extracted(p) \cup (IF p \in Unflushable THEN {Cut} ELSE {})

\* A file of the archive; after 64 files, or 8 MiB, the save is committed.
\* Reading the last file of a damaged archive, at the latest, is an error.
ExtractFile ==
  /\ spc = "extract"
  /\ \E p \in todo :
       /\ zip = "damaged" => Cardinality(todo) > 1
       /\ \E content \in Written(p) : view' = [view EXCEPT ![p] = content]
       /\ todo' = todo \ {p}
  /\ \/ filesSinceCommit + 1 < CommitEvery
        /\ filesSinceCommit' = filesSinceCommit + 1 /\ UNCHANGED saved
     \/ filesSinceCommit' = 0 /\ saved' = view'
  /\ UNCHANGED <<backups, chosen, zipVars, spc, historyVars>>

ExtractFails ==
  /\ spc = "extract" /\ SaveFails
  /\ UNCHANGED <<saved, backups, chosen, zipVars, extractVars, historyVars>>

\* Mutant: the final commit's error is not looked at.
FinalCommitUnchecked ==
  /\ spc = "extract" /\ todo = {} /\ zip = "whole"
  /\ saved' \in {saved, view} /\ view' = saved'
  /\ spc' = "restored" /\ zip' = "none"
  /\ UNCHANGED <<backups, chosen, archived, extractVars, historyVars>>

\* The last commit; then save_sync_tmp is removed.
FinalCommit ==
  /\ spc = "extract" /\ todo = {} /\ zip = "whole"
  /\ saved' = view /\ spc' = "restored" /\ zip' = "none"
  /\ UNCHANGED <<view, backups, chosen, archived, extractVars, historyVars>>

-----------------------------------------------------------------------------
(* UploadSaveToServer and DeleteSaveFromServer                             *)

StartUpload ==
  /\ BeginCall("pack")
  /\ chosen' = EmptySave

\* CreateZipFromDirectory reads until the stream is no longer good: an error
\* in the middle of a file passes for its end.
Packed == {a \in Saves : \A p \in SavePaths :
             IF saved[p] = Nothing THEN a[p] = Nothing ELSE a[p] \in {saved[p], Cut}}

Pack ==
  /\ spc = "pack"
  /\ \/ archived' \in Packed /\ chosen' = archived' /\ zip' = "whole" /\ spc' = "send"
     \/ zip' = "damaged" /\ spc' = "failed" /\ UNCHANGED <<archived, chosen>>
  /\ UNCHANGED <<saved, view, backups, extractVars, historyVars>>

\* The upload arrives and is confirmed, or its answer is lost, or it is not.
Send ==
  /\ spc = "send"
  /\ \/ backups' = backups \cup {archived} /\ zip' = "none" /\ spc' = "uploaded"
     \/ backups' \in {backups, backups \cup {archived}} /\ spc' = "failed" /\ UNCHANGED zip
  /\ UNCHANGED <<saved, view, chosen, archived, extractVars, historyVars>>

\* One call, confirmed or not.
DeleteBackup ==
  /\ spc \in AtRest /\ calls < MaxCalls
  /\ \E b \in backups : backups' = backups \ {b}
  /\ calls' = calls + 1 /\ spc' = "idle"
  /\ UNCHANGED <<saved, view, chosen, zipVars, extractVars, left, wiped, old>>

SaveSteps ==
  \/ StartRestore \/ Fetch \/ Wipe \/ CommitWipe \/ Remount
  \/ ExtractFile \/ ExtractFails \/ FinalCommit
  \/ StartUpload \/ Pack \/ Send \/ DeleteBackup \/ SaveCrash

SaveSpec == SaveInit /\ [][SaveSteps]_saveVars
-----------------------------------------------------------------------------
(* Properties                                                              *)

\* Whatever fails, and wherever the process dies, the committed save is never
\* a mix of two: it is the one the call found until the wipe is committed, and
\* has only files of the downloaded archive from then on.  The exceptions are a
\* save that could not be listed, which is not cleared at all, and a file whose
\* end could not be flushed, which is committed without it.
NeverMixed ==
  /\ left \in {EmptySave, old}
  /\ IF wiped THEN \A p \in SavePaths : saved[p] \in {left[p]} \cup Written(p)
              ELSE saved = old

\* A file of a save as a backup and what was left before make it.
IsRestored(save, backup, p) ==
  IF backup[p] = Nothing THEN save[p] = left[p]
  ELSE save[p] = backup[p] \/ (p \in Unflushable /\ save[p] = Cut)

\* A restore that reports success leaves exactly the backup that was chosen,
\* and beside its files nothing but what the wipe left.  Only a file whose end
\* could not be flushed may be cut short, unnoticed.
RestoreIsWhole ==
  spc = "restored" =>
    /\ \A p \in SavePaths : IsRestored(saved, chosen, p)
    /\ view = saved
=============================================================================
