--------------------------- MODULE MCReplacedFiles ---------------------------
(* TLC instance of IdentityStore, AppUpdate and CheatFile, the three that  *)
(* replace one file through a temporary and a .bak.  They share nothing: a *)
(* run takes one of them, chosen at the start.                             *)
EXTENDS IdentityStore, AppUpdate, CheatFile

VARIABLE replaces    \* "identity", "nro" or "cheat"

replaceVars == <<vars, updateVars, cheatVars, replaces>>

ReplaceInit ==
  /\ replaces \in {"identity", "nro", "cheat"}
  /\ Init /\ (replaces # "identity" => fs["target"] = Absent)
  /\ UpdateInit
  /\ CheatInit /\ (replaces # "cheat" => asked = Absent)

ReplaceNext ==
  \/ replaces = "identity" /\ Next /\ UNCHANGED <<updateVars, cheatVars, replaces>>
  \/ replaces = "nro" /\ UpdateNext /\ UNCHANGED <<vars, cheatVars, replaces>>
  \/ replaces = "cheat" /\ CheatSteps /\ UNCHANGED <<vars, updateVars, replaces>>

ReplaceSpec == ReplaceInit /\ [][ReplaceNext]_replaceVars
==============================================================================
