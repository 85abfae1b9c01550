-------------------------- MODULE MCOfflineDbUpdate --------------------------
(* TLC instance of OfflineDbUpdate and SaveSync, the two downloads that    *)
(* replace data of the console in several steps.  They share nothing: a    *)
(* run takes one of the two, chosen at the start.                          *)
EXTENDS OfflineDbUpdate, SaveSync

VARIABLE download    \* "database" or "save"

downloadVars == <<vars, saveVars, download>>

DownloadInit ==
  /\ download \in {"database", "save"}
  /\ Init
  /\ SaveInit /\ (download = "database" => saved = EmptySave /\ backups = {})

DownloadNext ==
  \/ download = "database" /\ Next /\ UNCHANGED <<saveVars, download>>
  \/ download = "save" /\ SaveSteps /\ UNCHANGED <<vars, download>>

DownloadSpec == DownloadInit /\ [][DownloadNext]_downloadVars
==============================================================================
