--------------------------- MODULE OfflineDbUpdate ---------------------------
(***************************************************************************)
(* ApplyUpdate (source/util/offline_db_update.cpp): titles.pack,           *)
(* icons.pack and manifest.json are downloaded beside the old ones and     *)
(* replaced one after the other (CommitReplace), all rolled back if one    *)
(* fails (RollbackReplace).  The manifest's version decides whether the    *)
(* next check finds an update.  The application may die between any two    *)
(* file system calls.                                                      *)
(***************************************************************************)
EXTENDS FileOps, Naturals, Sequences

CONSTANTS
  MaxVersion,    \* bound: versions are published in the order 1, 2, ...
  Torn           \* a manifest that was not written completely

ASSUME DbAssumption ==
  MaxVersion \in Nat /\ Absent \notin Nat /\ Torn \notin Nat /\ Torn # Absent

Names == <<"titles", "icons", "manifest">>
Live(k) == <<Names[k], "live">>
Temp(k) == <<Names[k], "download">>
Bak(k) == <<Names[k], "bak">>
Alias == <<"alias", "live">>
Paths == {Live(k) : k \in 1 .. 3} \cup {Temp(k) : k \in 1 .. 3}
           \cup {Bak(k) : k \in 1 .. 3} \cup {Alias}
Manifest == 3

VARIABLES
  fs,            \* the files under offline_db
  remote,        \* the version now published
  pc, k,         \* where ApplyUpdate is; the file it works on
  fetched,       \* the version of the manifest it fetched
  movedOriginal, installedNew,   \* ReplaceState, per file
  result,
  was            \* history: the live files when the update began

callVars == <<k, fetched, movedOriginal, installedNew>>
vars == <<fs, remote, pc, callVars, result, was>>

Fresh == [n \in 1 .. 3 |-> FALSE]
LiveFiles == [n \in 1 .. 3 |-> fs[Live(n)]]

Init ==
  /\ fs = [p \in Paths |-> Absent]
  /\ remote = 1
  /\ pc = "idle" /\ k = 1 /\ fetched = 1
  /\ movedOriginal = Fresh /\ installedNew = Fresh
  /\ result = "none" /\ was = LiveFiles

\* A new database is published.
Publish ==
  /\ remote < MaxVersion
  /\ remote' = remote + 1
  /\ UNCHANGED <<fs, pc, callVars, result, was>>

Crash ==
  /\ pc # "idle"
  /\ pc' = "idle" /\ result' = "crashed"
  /\ UNCHANGED <<fs, remote, callVars, was>>

\* GetInstalledVersion: the manifest's, else the alias'; 0 for neither.
InstalledVersion ==
  IF fs[Live(Manifest)] \in Nat THEN fs[Live(Manifest)]
  ELSE IF fs[Alias] \in Nat THEN fs[Alias] ELSE 0

HasInstalledPacks == Exists(fs, Live(1)) /\ Exists(fs, Live(2))

\* Mutant: a version is enough, whether the packs are there or not.
NeedsUpdateByVersion(version) == InstalledVersion # version

NeedsUpdate(version) == ~HasInstalledPacks \/ InstalledVersion # version

\* The manifest is fetched; the update is needed, or forced by the user.
ApplyUpdate ==
  /\ pc = "idle"
  /\ fetched' = remote
  /\ was' = LiveFiles
  /\ movedOriginal' = Fresh /\ installedNew' = Fresh
  /\ k' = 1
  /\ \/ pc' = "download" /\ result' = "none"
     \/ ~NeedsUpdate(remote) /\ pc' = "idle" /\ result' = "current"
  /\ UNCHANGED <<fs, remote>>

\* Mutant: what was downloaded is not verified.
AcceptedUnverified == {fetched, remote, Torn}

\* Size and SHA-256 must be those of the manifest.
Accepted == {fetched}

\* DownloadAndVerify of a pack; a failure removes the temporaries.
Download ==
  /\ pc = "download" /\ k < Manifest
  /\ \/ \E pack \in Accepted : fs' = [fs EXCEPT ![Temp(k)] = pack]
        /\ k' = k + 1 /\ UNCHANGED <<pc, result>>
     \/ /\ fs' = [p \in Paths |-> IF p \in {Temp(n) : n \in 1 .. k} THEN Absent ELSE fs[p]]
        /\ pc' = "idle" /\ result' = "failed" /\ UNCHANGED k
  /\ UNCHANGED <<remote, fetched, movedOriginal, installedNew, was>>

\* The manifest is written; the stream is tested before it is flushed, so a
\* torn one may go unnoticed.
WriteManifest ==
  /\ pc = "download" /\ k = Manifest
  /\ \/ \E written \in {fetched, Torn} : fs' = [fs EXCEPT ![Temp(k)] = written]
        /\ pc' = "unbackup" /\ k' = 1 /\ UNCHANGED result
     \/ /\ fs' = [p \in Paths |-> IF p \in {Temp(n) : n \in 1 .. k} THEN Absent ELSE fs[p]]
        /\ pc' = "idle" /\ result' = "failed" /\ UNCHANGED k
  /\ UNCHANGED <<remote, fetched, movedOriginal, installedNew, was>>

-----------------------------------------------------------------------------
(* CommitReplace(k), for titles, icons and manifest in turn                *)

RemoveBackup ==
  /\ pc = "unbackup"
  /\ fs' \in Removals(fs, Bak(k))
  /\ pc' = IF Exists(fs, Live(k)) THEN "backup" ELSE "install"
  /\ UNCHANGED <<remote, callVars, result, was>>

\* Moving the original back, which may fail, if it was moved aside.
Restorations ==
  IF movedOriginal[k] /\ CanRename(fs, Bak(k), Live(k))
    THEN {fs, Renamed(fs, Bak(k), Live(k))} ELSE {fs}

\* The commit of k failed: the files after k lose their temporaries, k and
\* the files before it are rolled back, in that order.
GiveUp(disk) ==
  /\ fs' = [p \in Paths |-> IF p \in {Temp(n) : n \in k + 1 .. 3} THEN Absent ELSE disk[p]]
  /\ pc' = "rollback"

MoveAside ==
  /\ pc = "backup"
  /\ \/ /\ CanRename(fs, Live(k), Bak(k))
        /\ fs' = Renamed(fs, Live(k), Bak(k))
        /\ movedOriginal' = [movedOriginal EXCEPT ![k] = TRUE]
        /\ pc' = "install"
     \/ GiveUp(fs) /\ UNCHANGED movedOriginal
  /\ UNCHANGED <<remote, k, fetched, installedNew, result, was>>

Install ==
  /\ pc = "install"
  /\ CanRename(fs, Temp(k), Live(k))
  /\ fs' = Renamed(fs, Temp(k), Live(k))
  /\ installedNew' = [installedNew EXCEPT ![k] = TRUE]
  /\ IF k < 3 THEN pc' = "unbackup" /\ k' = k + 1
              ELSE pc' = "cleanup" /\ k' = 1
  /\ UNCHANGED <<remote, fetched, movedOriginal, result, was>>

\* CommitReplace moves the original back itself, if that works.
InstallFails ==
  /\ pc = "install"
  /\ \E disk \in Restorations : GiveUp(disk)
  /\ UNCHANGED <<remote, callVars, result, was>>

\* RollbackReplace(k): the new file is removed ...
RollbackRemove ==
  /\ pc = "rollback"
  /\ fs' \in IF installedNew[k] THEN Removals(fs, Live(k)) ELSE {fs}
  /\ pc' = "restore"
  /\ UNCHANGED <<remote, callVars, result, was>>

\* Mutant: the rollback tidies up like CleanupReplace, the backup included.
RollbackAndCleanup ==
  /\ pc = "restore"
  /\ \E disk \in Restorations :
       fs' = [p \in Paths |-> IF p \in {Temp(k), Bak(k)} THEN Absent ELSE disk[p]]
  /\ IF k = 1 THEN pc' = "idle" /\ result' = "failed" /\ UNCHANGED k
              ELSE pc' = "rollback" /\ k' = k - 1 /\ UNCHANGED result
  /\ UNCHANGED <<remote, fetched, movedOriginal, installedNew, was>>

\* ... the original moved back if there is a backup, the temporary removed;
\* then the file before k.
RollbackRestore ==
  /\ pc = "restore"
  /\ \E disk \in Restorations : fs' \in Removals(disk, Temp(k))
  /\ IF k = 1 THEN pc' = "idle" /\ result' = "failed" /\ UNCHANGED k
              ELSE pc' = "rollback" /\ k' = k - 1 /\ UNCHANGED result
  /\ UNCHANGED <<remote, fetched, movedOriginal, installedNew, was>>

\* CleanupReplace(k) for the three.
Cleanup ==
  /\ pc = "cleanup"
  /\ \E disk \in Removals(fs, Bak(k)) : fs' \in Removals(disk, Temp(k))
  /\ IF k < 3 THEN k' = k + 1 /\ UNCHANGED pc ELSE pc' = "alias" /\ UNCHANGED k
  /\ UNCHANGED <<remote, fetched, movedOriginal, installedNew, result, was>>

\* The manifest is copied to its alias; an error is ignored.
CopyAlias ==
  /\ pc = "alias"
  /\ \/ fs' = [fs EXCEPT ![Alias] = fs[Live(Manifest)]]
     \/ fs' = [fs EXCEPT ![Alias] = Torn]
     \/ UNCHANGED fs
  /\ pc' = "idle" /\ result' = "updated"
  /\ UNCHANGED <<remote, callVars, was>>

Commit ==
  \/ RemoveBackup \/ MoveAside \/ Install \/ InstallFails
  \/ RollbackRemove \/ RollbackRestore \/ Cleanup \/ CopyAlias

Next == Publish \/ Crash \/ ApplyUpdate \/ Download \/ WriteManifest \/ Commit

Spec == Init /\ [][Next]_vars
-----------------------------------------------------------------------------
(* Properties                                                              *)

\* Types: a file holds a version, or is torn; packs are verified, never torn.
DbTypeOK ==
  /\ fs \in [Paths -> Nat \cup {Absent, Torn}] /\ was \in [1 .. 3 -> Nat \cup {Absent, Torn}]
  /\ \A n \in 1 .. 2 : fs[Live(n)] # Torn
  /\ remote \in Nat \ {0} /\ fetched \in 1 .. remote /\ k \in 1 .. 3
  /\ movedOriginal \in [1 .. 3 -> BOOLEAN] /\ installedNew \in [1 .. 3 -> BOOLEAN]

\* No crash, failed rename, failed rollback or torn manifest leaves packs that
\* the next check takes for the published version although one is not.
UpToDateIsWhole ==
  pc = "idle" /\ ~NeedsUpdate(remote) => fs[Live(1)] = remote /\ fs[Live(2)] = remote

\* A failed update leaves every file as it was, or its old copy as a backup
\* where undoing the replacement failed as well.
FailureKeepsFiles ==
  pc = "idle" /\ result = "failed" =>
    \A n \in 1 .. 3 : was[n] # Absent => was[n] \in {fs[Live(n)], fs[Bak(n)]}

\* An update that reports success has replaced both packs by the version whose
\* manifest it fetched, even when a newer one was published meanwhile.
SuccessIsFetched ==
  pc = "idle" /\ result = "updated" => fs[Live(1)] = fetched /\ fs[Live(2)] = fetched
==============================================================================
