---------------------------- MODULE CatalogStore ----------------------------
(***************************************************************************)
(* The discovery catalog (source/util/catalog.cpp): Load falls back from   *)
(* the cache to its backup to the catalog in romfs; Refresh downloads,     *)
(* parses and Stores; the application may die between any two calls.       *)
(***************************************************************************)
EXTENDS FileOps

CONSTANTS
  Versions,      \* catalogs that Parse accepts
  Bundled,       \* the one in romfs
  Bad,           \* a file that Parse rejects, or a torn write
  NoVersion

ASSUME CatalogAssumption ==
  /\ Bundled \in Versions
  /\ Bad \notin Versions /\ Absent \notin Versions /\ NoVersion \notin Versions
  /\ Bad # Absent

Paths == {"cache", "bak", "invalid", "new"}

VARIABLES
  fs,            \* the four files next to catalog-v1.json
  pc,
  text,          \* the catalog being stored
  preserved,     \* where Store moves the previous cache, "none" if there is none
  current        \* optionsPage's discoveryCatalog

vars == <<fs, pc, text, preserved, current>>

\* Load: the first of the three that can be read and parsed.
Loaded ==
  IF fs["cache"] \in Versions THEN fs["cache"]
  ELSE IF fs["bak"] \in Versions THEN fs["bak"] ELSE Bundled

Init ==
  /\ fs \in [Paths -> Versions \cup {Absent, Bad}]
  /\ pc = "off" /\ text = NoVersion /\ preserved = "none" /\ current = NoVersion

\* The discovery page is opened: for the first time in a run, or again.
OpenDiscovery ==
  /\ pc \in {"off", "idle"}
  /\ current' = Loaded /\ pc' = "idle"
  /\ UNCHANGED <<fs, text, preserved>>

\* Home button, power: the files stay as they are.
Crash ==
  /\ pc # "off"
  /\ pc' = "off" /\ current' = NoVersion /\ text' = NoVersion
  /\ UNCHANGED <<fs, preserved>>

\* Refresh: a response that does not parse stores nothing, so only v counts.
Refresh ==
  /\ pc = "idle"
  /\ text' \in Versions
  /\ pc' = "open"
  /\ UNCHANGED <<fs, preserved, current>>

\* Store returns false; Refresh leaves `current` alone.
Fail == pc' = "idle" /\ text' = NoVersion /\ UNCHANGED current

\* The staged file is opened, which truncates it ...
OpenStaged ==
  /\ pc = "open"
  /\ \/ fs' = [fs EXCEPT !["new"] = Bad] /\ pc' = "write" /\ UNCHANGED <<text, current>>
     \/ Fail /\ UNCHANGED fs
  /\ UNCHANGED preserved

\* ... written, closed, read back and compared.
WriteStaged ==
  /\ pc = "write"
  /\ \/ fs' = [fs EXCEPT !["new"] = text] /\ pc' = "preserve" /\ UNCHANGED <<text, current>>
     \/ Fail /\ UNCHANGED fs
  /\ UNCHANGED preserved

\* Mutant: whatever the cache holds becomes the backup.
PreserveAsBackup ==
  /\ pc = "preserve"
  /\ IF Exists(fs, "cache")
       THEN /\ preserved' = "bak"
            /\ fs' \in Removals(fs, preserved')
            /\ pc' = "move"
       ELSE preserved' = "none" /\ pc' = "install" /\ UNCHANGED fs
  /\ UNCHANGED <<text, current>>

\* A valid cache is to become the backup, an invalid one goes elsewhere.
Preserve ==
  /\ pc = "preserve"
  /\ IF Exists(fs, "cache")
       THEN /\ preserved' = IF fs["cache"] \in Versions THEN "bak" ELSE "invalid"
            /\ fs' \in Removals(fs, preserved')
            /\ pc' = "move"
       ELSE preserved' = "none" /\ pc' = "install" /\ UNCHANGED fs
  /\ UNCHANGED <<text, current>>

MoveAside ==
  /\ pc = "move"
  /\ \/ /\ CanRename(fs, "cache", preserved)
        /\ fs' = Renamed(fs, "cache", preserved)
        /\ pc' = "install" /\ UNCHANGED <<text, current>>
     \/ Fail /\ UNCHANGED fs
  /\ UNCHANGED preserved

\* The rename that makes the new catalog the cache; Store returns true.
Install ==
  /\ pc = "install"
  /\ CanRename(fs, "new", "cache")
  /\ fs' = Renamed(fs, "new", "cache")
  /\ current' = text /\ text' = NoVersion /\ pc' = "idle"
  /\ UNCHANGED preserved

\* It fails: the previous file, if there was one, is moved back if that works.
InstallFails ==
  /\ pc = "install"
  /\ Fail
  /\ \/ /\ preserved # "none" /\ CanRename(fs, preserved, "cache")
        /\ fs' = Renamed(fs, preserved, "cache")
     \/ UNCHANGED fs
  /\ UNCHANGED preserved

Store == OpenStaged \/ WriteStaged \/ Preserve \/ MoveAside \/ Install \/ InstallFails

Next == OpenDiscovery \/ Crash \/ Refresh \/ Store

Spec == Init /\ [][Next]_vars
-----------------------------------------------------------------------------
(* Properties                                                              *)

\* Types, and the files each step of Store can count on: the staged copy is
\* complete once verified, the previous cache is out of the way at the end.
CatalogTypeOK ==
  /\ fs \in [Paths -> Versions \cup {Absent, Bad}]
  /\ pc \in {"off", "idle", "open", "write", "preserve", "move", "install"}
  /\ text \in Versions \cup {NoVersion}
  /\ (text \in Versions) <=> (pc \in {"open", "write", "preserve", "move", "install"})
  /\ preserved \in {"none", "bak", "invalid"}
  /\ current \in Versions \cup {NoVersion}
  /\ (current = NoVersion) <=> (pc = "off")
  /\ pc \in {"preserve", "move", "install"} => fs["new"] = text
  /\ pc = "move" => preserved = (IF fs["cache"] \in Versions THEN "bak" ELSE "invalid")
  /\ pc = "install" => fs["cache"] = Absent
  /\ pc = "install" /\ preserved = "invalid" => fs["invalid"] \notin Versions

\* At every moment of a run, in the middle of a Store and after a failed one
\* too, the catalog on the page is the one the next start will load.
ShownIsStored == pc # "off" => current = Loaded

\* ".bak recovery" (docs/DISCOVERY.md): a backup that could be parsed is never
\* replaced by one that cannot.
BackupStaysValid == [][fs["bak"] # Bad => fs'["bak"] # Bad]_fs

\* Store is one atomic step for whoever Loads, before or after a crash
\* anywhere inside it.
Cell == INSTANCE DurableCell WITH
          Values <- Versions, NoValue <- NoVersion,
          value <- Loaded, request <- text, shown <- current

StoreIsAtomic == Cell!CellSpec
=============================================================================
