----------------------------- MODULE DurableCell -----------------------------
(***************************************************************************)
(* What a store that "replaces a file safely" promises: the stored value   *)
(* changes in one step, to the value asked for, or not at all; a crash     *)
(* changes nothing; after a restart the program sees what is stored.       *)
(***************************************************************************)
CONSTANTS
  Values,
  NoValue    \* not a value

VARIABLES
  value,     \* what is stored
  request,   \* the value being stored, or NoValue
  shown      \* the value the running program works with, NoValue if none runs

CellInit == value \in Values /\ request = NoValue /\ shown = NoValue

\* The program starts and reads the store.
CellStart ==
  /\ shown = NoValue
  /\ shown' = value
  /\ UNCHANGED <<value, request>>

CellRequest ==
  /\ shown # NoValue /\ request = NoValue
  /\ request' \in Values
  /\ UNCHANGED <<value, shown>>

\* The value is stored; the program takes it over when it knows.
CellStore ==
  /\ request # NoValue
  /\ value' = request
  /\ request' = NoValue /\ shown' = request

CellGiveUp ==
  /\ request # NoValue
  /\ request' = NoValue
  /\ UNCHANGED <<value, shown>>

CellCrash ==
  /\ shown # NoValue
  /\ shown' = NoValue /\ request' = NoValue
  /\ UNCHANGED value

CellNext == CellStart \/ CellRequest \/ CellStore \/ CellGiveUp \/ CellCrash

CellSpec == CellInit /\ [][CellNext]_<<value, request, shown>>
==============================================================================
