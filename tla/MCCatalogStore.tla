--------------------------- MODULE MCCatalogStore ---------------------------
(* TLC instance of CatalogStore and IconQueue, the stores behind two pages *)
(* of the program: the Discovery catalog and the icons of a Remote.  They  *)
(* share nothing: a run takes one of the two, chosen at the start, and of  *)
(* the icons either one with all pages, installations and theme switches,  *)
(* or all of them on one page.                                             *)
EXTENDS CatalogStore, IconQueue

VARIABLE screen    \* "discovery", "one icon" or "one page"

screenVars == <<vars, iconVars, screen>>

Some(S) == CHOOSE x \in S : TRUE

Bounded ==
  \/ screen = "one icon" /\ looking' = Some(Icons)
  \/ screen = "one page" /\ page' = 1 /\ generation' < 2 /\ ui' # "install"

OnDiscovery(steps) == screen = "discovery" /\ steps /\ UNCHANGED <<iconVars, screen>>
OnRemote(steps) == screen # "discovery" /\ steps /\ Bounded /\ UNCHANGED <<vars, screen>>

ScreenInit ==
  /\ Init /\ IconsInit /\ looking = Some(Icons)
  /\ screen \in {"discovery", "one icon", "one page"}
  /\ screen # "discovery" => fs = [p \in Paths |-> Absent]

ScreenNext == OnDiscovery(Next) \/ OnRemote(IconSteps)

ScreenSpec ==
  /\ ScreenInit /\ [][ScreenNext]_screenVars
  /\ SF_screenVars(OnRemote(UiGoesOn)) /\ SF_screenVars(OnRemote(ShowArrived))
  /\ \A w \in Objects : WF_screenVars(OnRemote(WorkerGoesOn(w)))
=============================================================================
