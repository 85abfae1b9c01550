------------------------------ MODULE AppUpdate ------------------------------
(***************************************************************************)
(* InstallUpdate (source/util/update.cpp): download the checksum list and  *)
(* the NRO of a release, verify, and replace the running NRO through .new  *)
(* and .bak.  Updates repeat; the application may die between any two      *)
(* file system calls, and is then started again if there is an NRO to start.*)
(***************************************************************************)
EXTENDS FileOps, Naturals

CONSTANTS
  Releases,      \* NROs as published, each with its checksum list
  Installed,     \* the NRO the user starts with
  Damaged,       \* a download that is incomplete or not the published file
  MaxUpdates     \* bound

ASSUME UpdateAssumption ==
  /\ Installed \notin Releases /\ Absent \notin Releases \cup {Installed}
  /\ Damaged \notin Releases \cup {Installed, Absent}
  /\ MaxUpdates \in Nat

Good == Releases \cup {Installed}
NroPaths == {"running", "new", "bak"}

VARIABLES
  nros,            \* <running>, <running>.new, <running>.bak
  upc,            \* "none": no NRO runs
  release,       \* the release CheckForUpdate found
  expectedHash,  \* the release the checksum list names
  result,        \* of the last InstallUpdate
  image,         \* history: the NRO that was at <running> when it began
  updates        \* bound

updateVars == <<nros, upc, release, expectedHash, result, image, updates>>

UpdateInit ==
  /\ nros = [p \in NroPaths |-> IF p = "running" THEN Installed ELSE Absent]
  /\ upc = "none" /\ release = Installed /\ expectedHash = Installed
  /\ result = "none" /\ image = Installed /\ updates = 0

\* hbloader starts <running>; without it there is nothing to start.
Launch ==
  /\ upc = "none" /\ Exists(nros, "running")
  /\ upc' = "idle" /\ result' = "none"
  /\ UNCHANGED <<nros, release, expectedHash, image, updates>>

UpdateCrash ==
  /\ upc # "none"
  /\ upc' = "none"
  /\ UNCHANGED <<nros, release, expectedHash, result, image, updates>>

\* The user accepts an update to r; left-over .new and checksum file go.
InstallUpdate ==
  /\ upc = "idle" /\ updates < MaxUpdates
  /\ updates' = updates + 1
  /\ release' \in Releases
  /\ nros' \in Removals(nros, "new")
  /\ upc' = "checksum" /\ result' = "none" /\ image' = nros["running"]
  /\ UNCHANGED expectedHash

UpdateFails == upc' = "idle" /\ result' = "failed"

\* SHA256SUMS.txt: fetched and parsed, or not.
FetchChecksum ==
  /\ upc = "checksum"
  /\ \/ expectedHash' = release /\ upc' = "download" /\ UNCHANGED result
     \/ UpdateFails /\ UNCHANGED expectedHash
  /\ UNCHANGED <<nros, release, image, updates>>

\* The NRO is streamed to .new; what arrives may still be damaged.  GetFile
\* removes what a failed request leaves.
Download ==
  /\ upc = "download"
  /\ \/ \E nro \in {release, Damaged} : nros' = [nros EXCEPT !["new"] = nro]
        /\ upc' = "verify" /\ UNCHANGED result
     \/ nros' \in Removals([nros EXCEPT !["new"] = Damaged], "new") /\ UpdateFails
  /\ UNCHANGED <<release, expectedHash, image, updates>>

\* Mutant: only the size is looked at.
VerifiedBySize == TRUE

Verified == nros["new"] = expectedHash

\* Size and SHA-256, and an existing NRO to replace.
Verify ==
  /\ upc = "verify"
  /\ \/ Verified /\ Exists(nros, "running") /\ upc' = "unbackup" /\ UNCHANGED <<nros, result>>
     \/ nros' \in Removals(nros, "new") /\ UpdateFails
  /\ UNCHANGED <<release, expectedHash, image, updates>>

RemoveNroBackup ==
  /\ upc = "unbackup"
  /\ nros' \in Removals(nros, "bak")
  /\ upc' = "backup"
  /\ UNCHANGED <<release, expectedHash, result, image, updates>>

BackupNro ==
  /\ upc = "backup"
  /\ \/ /\ CanRename(nros, "running", "bak")
        /\ nros' = Renamed(nros, "running", "bak")
        /\ upc' = "install" /\ UNCHANGED result
     \/ nros' \in Removals(nros, "new") /\ UpdateFails
  /\ UNCHANGED <<release, expectedHash, image, updates>>

InstallNro ==
  /\ upc = "install"
  /\ CanRename(nros, "new", "running")
  /\ nros' = Renamed(nros, "new", "running")
  /\ upc' = "idle" /\ result' = "ok"
  /\ UNCHANGED <<release, expectedHash, image, updates>>

InstallNroFails ==
  /\ upc = "install"
  /\ upc' = "restore"
  /\ UNCHANGED <<nros, release, expectedHash, result, image, updates>>

\* Mutant: nothing is moved back.
RestoreNothing ==
  /\ upc = "restore"
  /\ nros' \in Removals(nros, "new")
  /\ UpdateFails
  /\ UNCHANGED <<release, expectedHash, image, updates>>

\* Rollback: the message tells whether it worked.
RestoreNro ==
  /\ upc = "restore"
  /\ \/ /\ CanRename(nros, "bak", "running")
        /\ nros' \in Removals(Renamed(nros, "bak", "running"), "new")
        /\ UpdateFails
     \/ /\ nros' \in Removals(nros, "new")
        /\ upc' = "idle" /\ result' = "rollback failed"
  /\ UNCHANGED <<release, expectedHash, image, updates>>

UpdateNext ==
  \/ Launch \/ UpdateCrash \/ InstallUpdate \/ FetchChecksum \/ Download \/ Verify
  \/ RemoveNroBackup \/ BackupNro \/ InstallNro \/ InstallNroFails \/ RestoreNro

UpdateSpec == UpdateInit /\ [][UpdateNext]_updateVars
-----------------------------------------------------------------------------
(* Properties                                                              *)

\* Types; the last rename finds a verified NRO and its destination free.
UpdateTypeOK ==
  /\ nros \in [NroPaths -> Good \cup {Absent, Damaged}]
  /\ upc \in {"none", "idle", "checksum", "download", "verify", "unbackup", "backup",
             "install", "restore"}
  /\ release \in Good /\ expectedHash \in Good /\ image \in Good \cup {Absent}
  /\ result \in {"none", "ok", "failed", "rollback failed"}
  /\ updates \in 0 .. MaxUpdates
  /\ upc = "install" => nros["new"] = release /\ nros["running"] = Absent

\* Only a verified NRO is ever started, and at any moment, wherever the
\* application dies, a whole one is at <running> or, if not, at <running>.bak.
AlwaysAnNro ==
  /\ nros["running"] \in Good \cup {Absent}
  /\ Exists(nros, "running") \/ nros["bak"] \in Good

\* What the messages claim: "The previous NRO was restored", "Installed
\* PersonaFoil was not changed"; "The backup remains" if the rollback failed;
\* and after a success the release is installed and the old NRO is the backup.
ResultIsTrue ==
  upc = "idle" =>
    /\ result = "ok" => nros["running"] = release /\ nros["bak"] = image
    /\ result = "failed" => nros["running"] = image
    /\ result = "rollback failed" => nros["bak"] = image
==============================================================================
