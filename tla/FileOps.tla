------------------------------- MODULE FileOps -------------------------------
(***************************************************************************)
(* The file system calls of the stores that replace a file by way of a     *)
(* temporary and a backup.  A file system is a function from paths to      *)
(* contents; a call that fails changes nothing.  "FatFs rejects            *)
(* rename-over-an-existing-file" (source/cheat_manager.cpp).               *)
(***************************************************************************)
CONSTANT Absent    \* the content of a path where there is no file

Exists(fs, path) == fs[path] # Absent

CanRename(fs, from, to) == Exists(fs, from) /\ ~Exists(fs, to)

Renamed(fs, from, to) == [fs EXCEPT ![to] = fs[from], ![from] = Absent]

\* remove: an error is ignored by every caller.
Removals(fs, path) == {fs, [fs EXCEPT ![path] = Absent]}
==============================================================================
