------------------------------ MODULE CheatFile ------------------------------
(***************************************************************************)
(* WriteAtomically and Remove (source/cheat_manager.cpp) on one cheat file *)
(* of Atmosphere: a new text is written to <target>.tmp, the old file is   *)
(* moved to .bak and the new one renamed into its place.  Calls repeat;    *)
(* the application may die between any two file system calls.              *)
(***************************************************************************)
EXTENDS FileOps, Naturals

CONSTANTS
  Texts,         \* cheat texts
  TornText,      \* a file whose write did not finish
  MaxWrites      \* bound

ASSUME CheatAssumption ==
  TornText \notin Texts \cup {Absent} /\ Absent \notin Texts /\ MaxWrites \in Nat

CheatPaths == {"target", "tmp", "bak"}

VARIABLES
  cheats,        \* the three files
  at,            \* where the call is
  asked,         \* what the last call is to leave at the target
  was,           \* history: what it found there
  answer,        \* of the last call; "none" while it runs or after a crash
  writes         \* bound

cheatVars == <<cheats, at, asked, was, answer, writes>>

CheatInit ==
  /\ \E text \in Texts \cup {Absent} :
       /\ cheats = [p \in CheatPaths |-> IF p = "target" THEN text ELSE Absent]
       /\ asked = text /\ was = text
  /\ at = "idle" /\ answer = "none" /\ writes = 0

CheatCall(wanted) ==
  /\ at = "idle" /\ writes < MaxWrites /\ writes' = writes + 1
  /\ asked' = wanted /\ was' = cheats["target"]

Goes(step) == at' = step /\ UNCHANGED answer
Answers(a) == at' = "idle" /\ answer' = a
GivesUp == cheats' \in Removals(cheats, "tmp") /\ Answers("failed")

\* Without its directory or its temporary file the call has done nothing.
WriteCheat(text) ==
  /\ CheatCall(text)
  /\ \/ cheats' = [cheats EXCEPT !["tmp"] = TornText] /\ at' = "fill" /\ answer' = "none"
     \/ Answers("failed") /\ UNCHANGED cheats

RemoveCheat ==
  /\ CheatCall(Absent)
  /\ \/ cheats' = [cheats EXCEPT !["target"] = Absent]
        /\ Answers(IF Exists(cheats, "target") THEN "ok" ELSE "failed")
     \/ Answers("failed") /\ UNCHANGED cheats

FillTemporary ==
  /\ at = "fill"
  /\ \/ cheats' = [cheats EXCEPT !["tmp"] = asked] /\ Goes("unbackup")
     \/ GivesUp
  /\ UNCHANGED <<asked, was, writes>>

DropOldBackup ==
  /\ at = "unbackup"
  /\ cheats' \in Removals(cheats, "bak") /\ Goes("aside")
  /\ UNCHANGED <<asked, was, writes>>

\* Mutant: the old file is deleted to make room.
MoveAsideByRemoving ==
  /\ at = "aside"
  /\ cheats' = [cheats EXCEPT !["target"] = Absent] /\ Goes("promote")
  /\ UNCHANGED <<asked, was, writes>>

\* Neither the look at the target nor the rename need succeed.
MoveCheatAside ==
  /\ at = "aside"
  /\ \/ ~Exists(cheats, "target") /\ UNCHANGED cheats /\ Goes("promote")
     \/ CanRename(cheats, "target", "bak") /\ cheats' = Renamed(cheats, "target", "bak")
        /\ Goes("promote")
     \/ GivesUp
  /\ UNCHANGED <<asked, was, writes>>

\* replacing: there was a file, now moved aside.
Replacing == was # Absent

Promote ==
  /\ at = "promote" /\ CanRename(cheats, "tmp", "target")
  /\ cheats' = Renamed(cheats, "tmp", "target")
  /\ IF Replacing THEN Goes("clear") ELSE Answers("ok")
  /\ UNCHANGED <<asked, was, writes>>

PromoteFails ==
  /\ at = "promote"
  /\ IF Replacing THEN Goes("undo") /\ UNCHANGED cheats ELSE GivesUp
  /\ UNCHANGED <<asked, was, writes>>

\* The error of this rename is not looked at.
Undo ==
  /\ at = "undo"
  /\ \/ CanRename(cheats, "bak", "target") /\ cheats' = Renamed(cheats, "bak", "target")
     \/ UNCHANGED cheats
  /\ Goes("untemp")
  /\ UNCHANGED <<asked, was, writes>>

DropTemporary ==
  /\ at = "untemp" /\ GivesUp /\ UNCHANGED <<asked, was, writes>>

ClearBackup ==
  /\ at = "clear"
  /\ cheats' \in Removals(cheats, "bak") /\ Answers("ok")
  /\ UNCHANGED <<asked, was, writes>>

CheatCrash ==
  /\ at # "idle" /\ at' = "idle"
  /\ UNCHANGED <<cheats, asked, was, answer, writes>>

CheatSteps ==
  \/ \E text \in Texts : WriteCheat(text)
  \/ RemoveCheat \/ FillTemporary \/ DropOldBackup \/ MoveCheatAside \/ Promote
  \/ PromoteFails \/ Undo \/ DropTemporary \/ ClearBackup \/ CheatCrash

CheatSpec == CheatInit /\ [][CheatSteps]_cheatVars
-----------------------------------------------------------------------------
(* Properties                                                              *)

\* "Atomically": Atmosphere never finds a part of a text.  At every moment,
\* a crash included, the text that a call found is still at the target or
\* kept in the .bak, unless what the call was asked for has taken its place;
\* after "failed" nothing new is at the target.  (A write that finds no
\* target drops the .bak of an interrupted one: that text was not found.)
WriteIsAllOrNothing ==
  /\ cheats["target"] \in Texts \cup {Absent}
  /\ was \in {cheats["target"], cheats["bak"], Absent} \/ cheats["target"] = asked
  /\ answer = "ok" => cheats["target"] = asked
  /\ answer = "failed" => cheats["target"] \in {was, Absent}
==============================================================================
