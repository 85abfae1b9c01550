------------------------ MODULE ReplacedFiles_proofs ------------------------
(***************************************************************************)
(* Proofs about the three parts that replace one file through a temporary  *)
(* and a .bak.  IdentityStore: malformed files are left alone, memory is   *)
(* backed by the card, and no crash loses a persona that a start has not   *)
(* overlooked.  AppUpdate and CheatFile: a crash or a failing rename never *)
(* leaves the card without a whole NRO, or a cheat file torn.  The first   *)
(* two implement DurableCell, the first as long as no start has overlooked *)
(* a backup.  For any personas, releases and texts, and any number of      *)
(* mutations and crashes.                                                  *)
(***************************************************************************)
EXTENDS IdentityStore, AppUpdate, CheatFile, TLAPS

-----------------------------------------------------------------------------
(* The identity store                                                      *)

Mutating == pc \in {"open", "write", "backup", "move", "install"}

\* A mutation runs only on a loaded configuration; once written, the
\* temporary holds its candidate, and identity.json is there until it is
\* moved aside.
StepsFollow ==
  /\ Mutating => gConfigurationLoaded
  /\ pc \in {"backup", "move", "install"} => fs["tmp"] = candidate
  /\ pc = "move" => hadTarget /\ Exists(fs, "target")
  /\ pc = "install" => ~Exists(fs, "target")

\* Only a malformed identity.json is not loaded; it is never backed up, and
\* no persona was created beside it.
MalformedApart ==
  /\ pc # "off" => (gConfigurationLoaded <=> fs["target"] # Malformed)
  /\ fs["target"] = Malformed => owed = {}
  /\ fs["bak"] # Malformed

\* What the program works with is on the card, in the middle of a write too.
MemoryBacked == pc # "off" /\ gConfigurationLoaded => OnDisk(gState) \/ gState = Empty

\* The personas of the file that counts: identity.json or, without it, .bak.
Kept ==
  IF fs["target"] \in States THEN fs["target"].personas
  ELSE IF fs["bak"] \in States THEN fs["bak"].personas ELSE {}

\* Every persona owed to the user is there, in memory and in the candidate.
PersonasBacked ==
  ~forgot =>
    /\ owed \subseteq Kept
    /\ pc # "off" /\ gConfigurationLoaded => owed \subseteq gState.personas
    /\ Mutating => owed \subseteq candidate.personas

IInv ==
  IdentityTypeOK /\ StepsFollow /\ MalformedApart /\ MemoryBacked /\ PersonasBacked

\* States have personas.
LEMMA StateFields ==
  ASSUME NEW s \in States
  PROVE  s.personas \subseteq Ids /\ s.active \in s.personas \cup {Native}
BY DEF States

\* The state of a fresh installation is one.
LEMMA EmptyIsState == Empty \in States /\ Empty.personas = {}
BY DEF States, Empty

\* The invariant holds initially.
LEMMA InitIInv == Init => IInv
<1> SUFFICES ASSUME Init PROVE IInv
  OBVIOUS
<1>1. fs \in [Paths -> States \cup {Absent, Malformed}]
  BY EmptyIsState DEF Init
<1>2. IdentityTypeOK
  <2>1. mutations \in 0 .. MaxMutations /\ crashes \in 0 .. MaxCrashes
    BY IdentityAssumption DEF Init
  <2> QED
    BY <1>1, <2>1, EmptyIsState DEF Init, IdentityTypeOK
<1> QED
  BY <1>2, IdentityAssumption
  DEF Init, IInv, Mutating, StepsFollow, MalformedApart, MemoryBacked, PersonasBacked, Paths

\* A mutation that asks for c begins.
LEMMA MutationStep ==
  ASSUME IInv, NEW c \in States, Mutate(c),
         owed' \subseteq owed, ~forgot => owed' \subseteq c.personas
  PROVE  IInv'
<1> USE DEF Mutate, Save, histVars, memVars
<1>1. mutations' \in 0 .. MaxMutations
  BY IdentityAssumption DEF IInv, IdentityTypeOK
<1>2. IdentityTypeOK'
  BY <1>1 DEF IInv, IdentityTypeOK
<1>3. StepsFollow' /\ MalformedApart' /\ MemoryBacked'
  BY DEF IInv, StepsFollow, Mutating, MalformedApart, MemoryBacked, OnDisk, Exists
<1>4. PersonasBacked'
  BY DEF IInv, Mutating, PersonasBacked, Kept
<1> QED
  BY <1>2, <1>3, <1>4 DEF IInv

\* A step of a write that leaves identity.json and its backup alone.
LEMMA QuietStep ==
  ASSUME IInv, Mutating, fs' \in [Paths -> States \cup {Absent, Malformed}],
         fs'["target"] = fs["target"], fs'["bak"] = fs["bak"],
         pc' \in {"idle", "write", "backup"}, pc' = "backup" => fs'["tmp"] = candidate,
         UNCHANGED <<memVars, candidate, owed, mutations, histVars, hadTarget>>
  PROVE  IInv'
<1> USE DEF histVars, memVars
<1>1. IdentityTypeOK'
  BY DEF IInv, IdentityTypeOK
<1>2. StepsFollow' /\ MalformedApart' /\ MemoryBacked'
  BY DEF IInv, StepsFollow, Mutating, MalformedApart, MemoryBacked, OnDisk, Exists
<1>3. PersonasBacked'
  BY DEF IInv, Mutating, PersonasBacked, Kept
<1> QED
  BY <1>1, <1>2, <1>3 DEF IInv

\* Every step keeps the invariant.
LEMMA StepIInv == IInv /\ [Next]_vars => IInv'
<1> SUFFICES ASSUME IInv, [Next]_vars PROVE IInv'
  OBVIOUS
<1>types. /\ fs \in [Paths -> States \cup {Absent, Malformed}]
          /\ gState \in States /\ candidate \in States
  BY DEF IInv, IdentityTypeOK
<1>1. CASE Initialize
  <2>1. gState' \in States
    BY <1>1, EmptyIsState DEF Initialize, IInv, IdentityTypeOK, Exists, Paths
  <2>2. IdentityTypeOK'
    BY <1>1, <2>1 DEF Initialize, IInv, IdentityTypeOK
  <2>3. StepsFollow' /\ MalformedApart'
    BY <1>1 DEF Initialize, IInv, StepsFollow, Mutating, MalformedApart
  <2>4. MemoryBacked'
    BY <1>1 DEF Initialize, MemoryBacked, OnDisk, Exists
  <2>5. PersonasBacked'
    BY <1>1, <1>types, EmptyIsState, IdentityAssumption
    DEF Initialize, IInv, PersonasBacked, MalformedApart, Mutating, Kept, Exists, Paths
  <2> QED
    BY <2>2, <2>3, <2>4, <2>5 DEF IInv
<1>2. CASE Crash
  <2>1. crashes' \in 0 .. MaxCrashes
    BY <1>2, IdentityAssumption DEF Crash, IInv, IdentityTypeOK
  <2>2. IdentityTypeOK'
    BY <1>2, <2>1 DEF Crash, IInv, IdentityTypeOK, memVars
  <2> QED
    BY <1>2, <2>2
    DEF Crash, IInv, StepsFollow, MalformedApart, MemoryBacked, PersonasBacked, Mutating, Kept, memVars
<1>fresh. pc = "idle" /\ gConfigurationLoaded /\ ~forgot => owed \subseteq gState.personas
  BY DEF IInv, PersonasBacked
<1>3. CASE CreatePersona
  <2>1. PICK id \in Ids \ (owed \cup gState.personas), activate \in BOOLEAN :
          /\ Mutate([personas |-> gState.personas \cup {id},
                     active |-> IF activate THEN id ELSE gState.active])
          /\ UNCHANGED owed
    BY <1>3 DEF CreatePersona
  <2> DEFINE c == [personas |-> gState.personas \cup {id},
                   active |-> IF activate THEN id ELSE gState.active]
  <2>2. c \in States /\ gState.personas \subseteq c.personas
    BY <1>types, StateFields DEF States
  <2> QED
    BY <2>1, <2>2, <1>fresh, MutationStep DEF Mutate, Save
<1>4. CASE ActivatePersona
  <2>1. PICK id \in gState.personas \cup {Native} :
          Mutate([gState EXCEPT !.active = id]) /\ UNCHANGED owed
    BY <1>4 DEF ActivatePersona
  <2> DEFINE c == [gState EXCEPT !.active = id]
  <2>2. c \in States /\ c.personas = gState.personas
    BY <1>types, StateFields DEF States
  <2> QED
    BY <2>1, <2>2, <1>fresh, MutationStep DEF Mutate, Save
<1>5. CASE DeletePersona
  <2>1. PICK id \in gState.personas : Mutate(Deleted(id)) /\ owed' = owed \ {id}
    BY <1>5 DEF DeletePersona
  <2>2. Deleted(id) \in States /\ Deleted(id).personas = gState.personas \ {id}
    BY <1>types, StateFields DEF States, Deleted
  <2> QED
    BY <2>1, <2>2, <1>fresh, MutationStep DEF Mutate, Save
<1>6. CASE RenamePersona
  BY <1>6, <1>types, <1>fresh, MutationStep DEF RenamePersona, Mutate, Save
<1>7. CASE OpenTemporary
  <2>1. fs' = [fs EXCEPT !["tmp"] = Malformed] \/ fs' \in Removals(fs, "tmp")
    BY <1>7 DEF OpenTemporary
  <2>2. /\ fs' \in [Paths -> States \cup {Absent, Malformed}]
        /\ fs'["target"] = fs["target"] /\ fs'["bak"] = fs["bak"]
    BY <2>1, <1>types DEF Removals, Paths
  <2> QED
    BY <1>7, <2>2, QuietStep DEF OpenTemporary, Fail, Mutating
<1>8. CASE WriteTemporary
  <2>1. \/ fs' = [fs EXCEPT !["tmp"] = candidate] /\ pc' = "backup"
        \/ fs' \in Removals(fs, "tmp") /\ pc' = "idle"
    BY <1>8 DEF WriteTemporary, Fail
  <2>2. /\ fs' \in [Paths -> States \cup {Absent, Malformed}]
        /\ fs'["target"] = fs["target"] /\ fs'["bak"] = fs["bak"]
        /\ pc' = "backup" => fs'["tmp"] = candidate
    BY <2>1, <1>types DEF Removals, Paths
  <2> QED
    BY <1>8, <2>1, <2>2, QuietStep DEF WriteTemporary, Fail, Mutating
<1>9. CASE RemoveBackup
  <2>1. CASE Exists(fs, "target")
    <3>1. /\ fs' \in [Paths -> States \cup {Absent, Malformed}]
          /\ fs'["target"] = fs["target"] /\ fs'["tmp"] = fs["tmp"]
          /\ fs'["bak"] \in {Absent, fs["bak"]}
      BY <1>9, <2>1, <1>types DEF RemoveBackup, Removals, Paths
    <3>2. /\ pc = "backup" /\ pc' = "move" /\ hadTarget' = TRUE
          /\ UNCHANGED <<memVars, candidate, owed, mutations, histVars>>
      BY <1>9, <2>1 DEF RemoveBackup
    <3>3. gConfigurationLoaded /\ fs["target"] \in States
      BY <2>1, <3>2, <1>types DEF IInv, StepsFollow, Mutating, MalformedApart, Exists, Paths
    <3>4. IdentityTypeOK'
      BY <3>1, <3>2 DEF IInv, IdentityTypeOK, memVars, histVars
    <3>5. StepsFollow' /\ MalformedApart' /\ MemoryBacked'
      BY <2>1, <3>1, <3>2, IdentityAssumption
      DEF IInv, StepsFollow, Mutating, MalformedApart, MemoryBacked, OnDisk, Exists, memVars, histVars
    <3>6. PersonasBacked'
      BY <3>1, <3>2, <3>3 DEF IInv, Mutating, PersonasBacked, Kept, memVars, histVars
    <3> QED
      BY <3>4, <3>5, <3>6 DEF IInv
  <2>2. CASE ~Exists(fs, "target")
    <3>1. /\ pc = "backup" /\ pc' = "install" /\ hadTarget' = FALSE
          /\ UNCHANGED <<fs, memVars, candidate, owed, mutations, histVars>>
      BY <1>9, <2>2 DEF RemoveBackup
    <3>2. IdentityTypeOK'
      BY <3>1 DEF IInv, IdentityTypeOK, memVars, histVars
    <3>3. StepsFollow' /\ MalformedApart' /\ MemoryBacked'
      BY <2>2, <3>1
      DEF IInv, StepsFollow, Mutating, MalformedApart, MemoryBacked, OnDisk, Exists, memVars, histVars
    <3>4. PersonasBacked'
      BY <3>1 DEF IInv, Mutating, PersonasBacked, Kept, memVars, histVars
    <3> QED
      BY <3>2, <3>3, <3>4 DEF IInv
  <2> QED BY <2>1, <2>2
<1>10. CASE MoveAside
  <2>1. CASE CanRename(fs, "target", "bak") /\ fs' = Renamed(fs, "target", "bak")
             /\ pc' = "install" /\ UNCHANGED <<memVars, owed>>
    <3>1. /\ fs' \in [Paths -> States \cup {Absent, Malformed}]
          /\ fs'["target"] = Absent /\ fs'["tmp"] = fs["tmp"] /\ fs'["bak"] = fs["target"]
      BY <2>1, <1>types DEF Renamed, Paths
    <3>2. pc = "move" /\ UNCHANGED <<candidate, hadTarget, mutations, histVars>>
      BY <1>10 DEF MoveAside
    <3>3. gConfigurationLoaded /\ fs["target"] \in States
      BY <3>2, <1>types DEF IInv, StepsFollow, Mutating, MalformedApart, Exists, Paths
    <3>4. IdentityTypeOK'
      BY <2>1, <3>1, <3>2 DEF IInv, IdentityTypeOK, memVars, histVars
    <3>5. StepsFollow' /\ MalformedApart'
      BY <2>1, <3>1, <3>2, <3>3, IdentityAssumption
      DEF IInv, StepsFollow, Mutating, MalformedApart, Exists, memVars, histVars
    <3>6. MemoryBacked'
      BY <2>1, <3>1, <3>2, <3>3, IdentityAssumption
      DEF IInv, MemoryBacked, OnDisk, Exists, memVars, histVars
    <3>7. PersonasBacked'
      BY <2>1, <3>1, <3>2, <3>3, IdentityAssumption
      DEF IInv, Mutating, PersonasBacked, Kept, memVars, histVars
    <3> QED
      BY <3>4, <3>5, <3>6, <3>7 DEF IInv
  <2>2. CASE fs' \in Removals(fs, "tmp") /\ Fail
    <3>1. /\ fs' \in [Paths -> States \cup {Absent, Malformed}]
          /\ fs'["target"] = fs["target"] /\ fs'["bak"] = fs["bak"]
      BY <2>2, <1>types DEF Removals, Paths
    <3> QED
      BY <1>10, <2>2, <3>1, QuietStep DEF MoveAside, Fail, Mutating
  <2> QED BY <1>10, <2>1, <2>2 DEF MoveAside
<1>11. CASE Install
  <2>1. /\ pc = "install" /\ pc' = "idle" /\ gState' = candidate
        /\ owed' = owed \cup (candidate.personas \ gState.personas)
        /\ UNCHANGED <<gConfigurationLoaded, candidate, hadTarget, mutations, histVars>>
    BY <1>11 DEF Install
  <2>2. fs["tmp"] = candidate
    BY <2>1 DEF IInv, StepsFollow
  <2>3. /\ fs' \in [Paths -> States \cup {Absent, Malformed}]
        /\ fs'["target"] = candidate /\ fs'["bak"] = fs["bak"]
    BY <1>11, <2>2, <1>types DEF Install, Renamed, Paths
  <2>4. IdentityTypeOK'
    BY <2>1, <2>3, <1>types, StateFields DEF IInv, IdentityTypeOK, histVars
  <2>5. StepsFollow' /\ MalformedApart' /\ MemoryBacked'
    BY <2>1, <2>3, <1>types, IdentityAssumption
    DEF IInv, StepsFollow, Mutating, MalformedApart, MemoryBacked, OnDisk
  <2>6. PersonasBacked'
    BY <2>1, <2>3, <1>types DEF IInv, Mutating, PersonasBacked, Kept, histVars
  <2> QED
    BY <2>4, <2>5, <2>6 DEF IInv
<1>12. CASE InstallFails
  <2>1. /\ pc = "install" /\ Fail
        /\ UNCHANGED <<candidate, hadTarget, mutations, histVars>>
    BY <1>12 DEF InstallFails
  <2>2. PICK f \in Restored : fs' \in Removals(f, "tmp")
    BY <1>12 DEF InstallFails
  <2>3. CASE f = fs
    <3>1. /\ fs' \in [Paths -> States \cup {Absent, Malformed}]
          /\ fs'["target"] = fs["target"] /\ fs'["bak"] = fs["bak"]
      BY <2>2, <2>3, <1>types DEF Removals, Paths
    <3> QED
      BY <2>1, <3>1, QuietStep DEF Fail, Mutating
  <2>4. CASE f = Renamed(fs, "bak", "target") /\ CanRename(fs, "bak", "target")
    <3>1. /\ fs' \in [Paths -> States \cup {Absent, Malformed}]
          /\ fs'["target"] = fs["bak"] /\ fs'["bak"] = Absent
      BY <2>2, <2>4, <1>types DEF Removals, Renamed, Paths
    <3>2. fs["target"] = Absent /\ fs["bak"] \in States
      BY <2>1, <2>4, <1>types DEF IInv, MalformedApart, CanRename, Exists, Paths
    <3>3. IdentityTypeOK'
      BY <2>1, <3>1 DEF Fail, IInv, IdentityTypeOK, memVars, histVars
    <3>4. StepsFollow' /\ MalformedApart'
      BY <2>1, <3>1, <3>2, IdentityAssumption
      DEF Fail, IInv, StepsFollow, Mutating, MalformedApart, memVars, histVars
    <3>5. MemoryBacked'
      BY <2>1, <3>1, <3>2, <1>types, IdentityAssumption
      DEF Fail, IInv, MemoryBacked, OnDisk, Exists, memVars, histVars
    <3>6. PersonasBacked'
      BY <2>1, <3>1, <3>2, IdentityAssumption
      DEF Fail, IInv, Mutating, PersonasBacked, Kept, memVars, histVars
    <3> QED
      BY <3>3, <3>4, <3>5, <3>6 DEF IInv
  <2> QED BY <2>2, <2>3, <2>4 DEF Restored
<1>13. CASE UNCHANGED vars
  BY <1>13
  DEF vars, memVars, histVars, IInv, IdentityTypeOK, StepsFollow, MalformedApart, MemoryBacked,
      PersonasBacked, Mutating, Kept, OnDisk
<1> QED
  BY <1>1, <1>2, <1>3, <1>4, <1>5, <1>6, <1>7, <1>8, <1>9, <1>10, <1>11, <1>12, <1>13
  DEF Next, Mutation, WriteState

\* The invariant holds in every reachable state.
LEMMA Invariance == Spec => []IInv
BY InitIInv, StepIInv, PTL DEF Spec

-----------------------------------------------------------------------------
(* What follows from it                                                    *)

\* Type correctness: the active identity is never one that does not exist.
THEOREM IdentityTypeCorrect == Spec => []IdentityTypeOK
<1>1. IInv => IdentityTypeOK
  BY DEF IInv
<1> QED
  BY <1>1, Invariance, PTL

\* The state in memory is on the card whenever no mutation is running.
THEOREM MemorySaved == Spec => []MemoryIsSaved
<1>1. IInv => MemoryIsSaved
  BY DEF IInv, MemoryBacked, MemoryIsSaved
<1> QED
  BY <1>1, Invariance, PTL

\* No crash, at any point, loses a persona: its seed is in identity.json or
\* in the backup until a start overlooks that backup.
THEOREM PersonasKept == Spec => []PersonasKeptUnlessForgotten
<1>1. IInv => PersonasKeptUnlessForgotten
  <2> SUFFICES ASSUME IInv, ~forgot PROVE owed \subseteq Saved
    BY DEF PersonasKeptUnlessForgotten
  <2>1. owed \subseteq Kept
    BY DEF IInv, PersonasBacked
  <2>2. ASSUME NEW p \in {"target", "bak"}, fs[p] \in States
        PROVE  fs[p].personas \subseteq Saved
    BY <2>2, IdentityAssumption DEF Saved
  <2> QED
    BY <2>1, <2>2 DEF Kept
<1> QED
  BY <1>1, Invariance, PTL

\* An identity.json that cannot be read is neither replaced nor produced.
THEOREM MalformedUntouched == Spec => MalformedKept
<1>1. IInv /\ IInv' /\ [Next]_vars => [(fs["target"] = Malformed) <=> (fs'["target"] = Malformed)]_vars
  <2> SUFFICES ASSUME IInv, IInv', [Next]_vars
               PROVE  (fs["target"] = Malformed) <=> (fs'["target"] = Malformed)
    OBVIOUS
  <2>1. UNCHANGED fs \/ (Mutating /\ pc' # "off" /\ UNCHANGED gConfigurationLoaded)
    <3>1. CASE Initialize \/ Crash \/ Mutation
      BY <3>1 DEF Initialize, Crash, Mutation, CreatePersona, ActivatePersona, DeletePersona,
                  RenamePersona, Mutate
    <3>2. CASE WriteState
      BY <3>2 DEF WriteState, OpenTemporary, WriteTemporary, RemoveBackup, MoveAside, Install,
                  InstallFails, Fail, Mutating, memVars
    <3> QED
      BY <3>1, <3>2 DEF Next, vars
  <2>2. Mutating => gConfigurationLoaded /\ pc # "off"
    BY DEF IInv, StepsFollow, Mutating
  <2> QED
    BY <2>1, <2>2 DEF IInv, MalformedApart
<1> QED
  BY <1>1, Invariance, PTL DEF Spec, MalformedKept

-----------------------------------------------------------------------------
(* A mutation is atomic, as long as no start overlooks a backup.           *)

\* The state on the card, read the way an interrupted write leaves it.
IdentityOnCard ==
  IF fs["target"] \in States THEN fs["target"]
  ELSE IF fs["target"] = Absent /\ fs["bak"] \in States THEN fs["bak"] ELSE Empty

IdentityCell == INSTANCE DurableCell WITH
  Values  <- States,
  NoValue <- Absent,
  value   <- IdentityOnCard,
  request <- IF Mutating THEN candidate ELSE Absent,
  shown   <- IF pc = "off" THEN Absent ELSE gState

\* The identity store implements the durable cell: a mutation takes effect on
\* the card in one step, at the rename that installs it, or not at all, and
\* neither a failing call nor a crash in between can be seen.
IdentityIsAtomic == IdentityCell!CellSpec

cellVars == <<IdentityOnCard, IF Mutating THEN candidate ELSE Absent,
              IF pc = "off" THEN Absent ELSE gState>>

\* The card holds a state.
LEMMA CardHoldsState == IdentityOnCard \in States
BY EmptyIsState DEF IdentityOnCard

\* At first that is the empty one.
LEMMA InitIsCell == Init => IdentityCell!CellInit
BY CardHoldsState, IdentityAssumption DEF Init, Mutating, IdentityCell!CellInit

\* A mutation that begins is a request.
LEMMA MutateIsRequest ==
  ASSUME IInv, NEW c \in States, Mutate(c) PROVE IdentityCell!CellRequest
<1>1. /\ pc = "idle" /\ pc' = "open" /\ candidate' = c /\ UNCHANGED <<fs, gState>>
  BY DEF Mutate, Save, memVars
<1>2. gState \in States
  BY DEF IInv, IdentityTypeOK
<1> QED
  BY <1>1, <1>2, IdentityAssumption DEF Mutating, IdentityOnCard, IdentityCell!CellRequest

\* A step of a write that does not change the state on the card goes on with
\* the request, or gives it up.
LEMMA WriteGoesOn ==
  ASSUME IInv, Mutating, UNCHANGED <<IdentityOnCard, gState, candidate>>,
         pc' # "off", Mutating' \/ pc' = "idle"
  PROVE  IdentityCell!CellGiveUp \/ UNCHANGED cellVars
<1>1. candidate # Absent /\ pc # "off"
  BY IdentityAssumption DEF IInv, IdentityTypeOK, Mutating
<1>2. CASE Mutating'
  BY <1>1, <1>2 DEF cellVars
<1>3. CASE pc' = "idle"
  BY <1>1, <1>3 DEF Mutating, IdentityCell!CellGiveUp
<1> QED
  BY <1>2, <1>3

\* What a step does to the card, call by call.
LEMMA CardUnchanged ==
  ASSUME IInv, OpenTemporary \/ WriteTemporary \/ RemoveBackup \/ MoveAside \/ InstallFails
  PROVE  UNCHANGED IdentityOnCard
<1>types. fs \in [Paths -> States \cup {Absent, Malformed}]
  BY DEF IInv, IdentityTypeOK
<1>1. CASE OpenTemporary \/ WriteTemporary
  <2>1. fs'["target"] = fs["target"] /\ fs'["bak"] = fs["bak"]
    BY <1>1, <1>types DEF OpenTemporary, WriteTemporary, Removals, Paths
  <2> QED
    BY <2>1 DEF IdentityOnCard
<1>2. CASE RemoveBackup
  <2>1. CASE Exists(fs, "target")
    <3>1. fs'["target"] = fs["target"]
      BY <1>2, <2>1, <1>types DEF RemoveBackup, Removals, Paths
    <3>2. fs["target"] \in States
      BY <1>2, <2>1, <1>types
      DEF RemoveBackup, IInv, StepsFollow, Mutating, MalformedApart, Exists, Paths
    <3> QED
      BY <3>1, <3>2 DEF IdentityOnCard
  <2>2. CASE ~Exists(fs, "target")
    BY <1>2, <2>2 DEF RemoveBackup, IdentityOnCard
  <2> QED
    BY <2>1, <2>2
<1>3. CASE MoveAside
  <2>1. CASE fs' = Renamed(fs, "target", "bak")
    <3>1. fs'["target"] = Absent /\ fs'["bak"] = fs["target"]
      BY <2>1, <1>types DEF Renamed, Paths
    <3>2. fs["target"] \in States
      BY <1>3, <1>types
      DEF MoveAside, IInv, StepsFollow, Mutating, MalformedApart, Exists, Paths
    <3> QED
      BY <3>1, <3>2, IdentityAssumption DEF IdentityOnCard
  <2>2. CASE fs' \in Removals(fs, "tmp")
    <3>1. fs'["target"] = fs["target"] /\ fs'["bak"] = fs["bak"]
      BY <2>2, <1>types DEF Removals, Paths
    <3> QED
      BY <3>1 DEF IdentityOnCard
  <2> QED
    BY <1>3, <2>1, <2>2 DEF MoveAside
<1>4. CASE InstallFails
  <2>1. PICK f \in Restored : fs' \in Removals(f, "tmp")
    BY <1>4 DEF InstallFails
  <2>2. CASE f = fs
    <3>1. fs'["target"] = fs["target"] /\ fs'["bak"] = fs["bak"]
      BY <2>1, <2>2, <1>types DEF Removals, Paths
    <3> QED
      BY <3>1 DEF IdentityOnCard
  <2>3. CASE f = Renamed(fs, "bak", "target") /\ CanRename(fs, "bak", "target")
    <3>1. fs'["target"] = fs["bak"]
      BY <2>1, <2>3, <1>types DEF Removals, Renamed, Paths
    <3>2. fs["target"] = Absent /\ fs["bak"] \in States
      BY <2>3, <1>types DEF IInv, MalformedApart, CanRename, Exists, Paths
    <3> QED
      BY <3>1, <3>2, IdentityAssumption DEF IdentityOnCard
  <2> QED
    BY <2>1, <2>2, <2>3 DEF Restored
<1> QED
  BY <1>1, <1>2, <1>3, <1>4

\* Every step but a start is a step of the cell.
LEMMA RunIsCell ==
  ASSUME IInv, Crash \/ Mutation \/ WriteState \/ UNCHANGED vars
  PROVE  IdentityCell!CellNext \/ UNCHANGED cellVars
<1>types. gState \in States /\ candidate \in States
  BY DEF IInv, IdentityTypeOK
<1>1. CASE Crash
  <2>1. pc # "off" /\ pc' = "off" /\ UNCHANGED <<fs, gState>>
    BY <1>1 DEF Crash, memVars
  <2> QED
    BY <2>1, <1>types, IdentityAssumption
    DEF Mutating, IdentityOnCard, IdentityCell!CellNext, IdentityCell!CellCrash
<1>2. CASE Mutation
  <2>1. PICK c \in States : Mutate(c)
    <3>1. CASE CreatePersona
      <4>1. PICK id \in Ids, activate \in BOOLEAN :
              Mutate([personas |-> gState.personas \cup {id},
                      active |-> IF activate THEN id ELSE gState.active])
        BY <3>1 DEF CreatePersona
      <4>2. [personas |-> gState.personas \cup {id},
             active |-> IF activate THEN id ELSE gState.active] \in States
        BY <1>types, StateFields DEF States
      <4> QED
        BY <4>1, <4>2
    <3>2. CASE ActivatePersona
      <4>1. PICK id \in gState.personas \cup {Native} : Mutate([gState EXCEPT !.active = id])
        BY <3>2 DEF ActivatePersona
      <4>2. [gState EXCEPT !.active = id] \in States
        BY <1>types, StateFields DEF States
      <4> QED
        BY <4>1, <4>2
    <3>3. CASE DeletePersona
      <4>1. PICK id \in gState.personas : Mutate(Deleted(id))
        BY <3>3 DEF DeletePersona
      <4>2. Deleted(id) \in States
        BY <1>types, StateFields DEF States, Deleted
      <4> QED
        BY <4>1, <4>2
    <3>4. CASE RenamePersona
      BY <3>4, <1>types DEF RenamePersona
    <3> QED
      BY <1>2, <3>1, <3>2, <3>3, <3>4 DEF Mutation
  <2> QED
    BY <2>1, MutateIsRequest DEF IdentityCell!CellNext
<1>3. CASE OpenTemporary \/ WriteTemporary \/ RemoveBackup \/ MoveAside \/ InstallFails
  <2>1. UNCHANGED IdentityOnCard
    BY <1>3, CardUnchanged
  <2>2. Mutating /\ UNCHANGED <<gState, candidate>> /\ pc' # "off" /\ (Mutating' \/ pc' = "idle")
    BY <1>3
    DEF OpenTemporary, WriteTemporary, RemoveBackup, MoveAside, InstallFails, Fail, memVars, Mutating
  <2> QED
    BY <2>1, <2>2, WriteGoesOn DEF IdentityCell!CellNext
<1>4. CASE Install
  <2>1. /\ pc = "install" /\ pc' = "idle" /\ gState' = candidate /\ fs'["target"] = fs["tmp"]
    BY <1>4 DEF Install, Renamed, IInv, IdentityTypeOK, Paths
  <2>2. IdentityOnCard' = candidate
    BY <2>1, <1>types DEF IInv, StepsFollow, IdentityOnCard
  <2> QED
    BY <2>1, <2>2, <1>types, IdentityAssumption
    DEF Mutating, IdentityCell!CellNext, IdentityCell!CellStore
<1>5. CASE UNCHANGED vars
  BY <1>5 DEF vars, memVars, cellVars, IdentityOnCard, Mutating
<1> QED
  BY <1>1, <1>2, <1>3, <1>4, <1>5 DEF WriteState

\* A start that does not overlook a backup shows the state on the card.
LEMMA StartIsCell ==
  ASSUME IInv, ~forgot', Initialize PROVE IdentityCell!CellStart
<1>1. /\ pc = "off" /\ pc' = "idle" /\ UNCHANGED fs
      /\ ~(~Exists(fs, "target") /\ Exists(fs, "bak"))
      /\ gState' = IF Exists(fs, "target") /\ fs["target"] # Malformed THEN fs["target"] ELSE Empty
  BY DEF Initialize
<1>2. gState' = IdentityOnCard
  BY <1>1, IdentityAssumption DEF IInv, IdentityTypeOK, Paths, Exists, IdentityOnCard
<1> QED
  BY <1>1, <1>2 DEF Mutating, IdentityOnCard, IdentityCell!CellStart

\* As long as no start overlooks a backup, the store of the identities keeps
\* the promise of the durable cell, across failing calls and crashes.
THEOREM MutationIsAtomic == Spec /\ []~forgot => IdentityIsAtomic
<1>1. IInv /\ ~forgot' /\ [Next]_vars => [IdentityCell!CellNext]_cellVars
  <2> SUFFICES ASSUME IInv, ~forgot', [Next]_vars
               PROVE  IdentityCell!CellNext \/ UNCHANGED cellVars
    OBVIOUS
  <2> QED
    BY RunIsCell, StartIsCell DEF Next, IdentityCell!CellNext
<1> QED
  BY <1>1, InitIsCell, Invariance, PTL DEF Spec, IdentityIsAtomic, IdentityCell!CellSpec, cellVars

\* Initialize with a fall back on the backup when identity.json is missing.
RestoringInitialize ==
  /\ pc = "off"
  /\ gState' = IdentityOnCard
  /\ gConfigurationLoaded' = (fs["target"] # Malformed)
  /\ pc' = "idle"
  /\ UNCHANGED <<fs, candidate, hadTarget, owed, mutations, histVars>>

RestoringSpec ==
  Init /\ [][RestoringInitialize \/ Crash \/ Mutation \/ WriteState]_vars

\* A start that restores keeps the invariant.
LEMMA RestoringStart == ASSUME IInv, ~forgot, RestoringInitialize PROVE IInv' /\ ~forgot'
<1> USE DEF RestoringInitialize, histVars
<1>1. fs["target"] \in States \cup {Absent, Malformed} /\ fs["bak"] \in States \cup {Absent}
  BY DEF IInv, IdentityTypeOK, MalformedApart, Paths
<1>2. IdentityTypeOK'
  BY CardHoldsState DEF IInv, IdentityTypeOK
<1>3. StepsFollow' /\ MalformedApart'
  BY DEF IInv, StepsFollow, Mutating, MalformedApart
<1>4. MemoryBacked'
  BY <1>1 DEF MemoryBacked, OnDisk, Exists, IdentityOnCard
<1>5. PersonasBacked'
  BY <1>1, EmptyIsState, IdentityAssumption
  DEF IInv, PersonasBacked, MalformedApart, Mutating, Kept, IdentityOnCard
<1> QED
  BY <1>2, <1>3, <1>4, <1>5 DEF IInv

\* With that fall back every mutation is atomic without a condition, and "a
\* persona seed is [...] reused across requests and application restarts".
THEOREM RestoringIsAtomic == RestoringSpec => IdentityIsAtomic /\ []SeedsSurviveRestart
<1> DEFINE RestoringNext == RestoringInitialize \/ Crash \/ Mutation \/ WriteState
<1>1. Init => IInv /\ ~forgot
  BY InitIInv DEF Init
<1>2. IInv /\ ~forgot /\ [RestoringNext]_vars => (IInv /\ ~forgot)'
  <2> SUFFICES ASSUME IInv, ~forgot, [RestoringNext]_vars PROVE IInv' /\ ~forgot'
    OBVIOUS
  <2>1. CASE RestoringInitialize
    BY <2>1, RestoringStart
  <2>2. CASE Crash \/ Mutation \/ WriteState \/ UNCHANGED vars
    <3>1. IInv'
      BY <2>2, StepIInv DEF Next
    <3>2. UNCHANGED forgot
      BY <2>2
      DEF Crash, Mutation, CreatePersona, ActivatePersona, DeletePersona, RenamePersona, Mutate,
          WriteState, OpenTemporary, WriteTemporary, RemoveBackup, MoveAside, Install,
          InstallFails, histVars, vars
    <3> QED
      BY <3>1, <3>2
  <2> QED
    BY <2>1, <2>2
<1>3. RestoringSpec => [](IInv /\ ~forgot)
  <2> HIDE DEF RestoringNext
  <2>1. RestoringSpec => Init /\ [][RestoringNext]_vars
    BY DEF RestoringSpec, RestoringNext
  <2> QED
    BY <1>1, <1>2, <2>1, PTL
<1>4. IInv /\ [RestoringNext]_vars => [IdentityCell!CellNext]_cellVars
  <2> SUFFICES ASSUME IInv, [RestoringNext]_vars
               PROVE  IdentityCell!CellNext \/ UNCHANGED cellVars
    OBVIOUS
  <2>1. CASE RestoringInitialize
    BY <2>1 DEF RestoringInitialize, Mutating, IdentityOnCard, IdentityCell!CellNext,
                IdentityCell!CellStart
  <2>2. CASE Crash \/ Mutation \/ WriteState \/ UNCHANGED vars
    BY <2>2, RunIsCell
  <2> QED
    BY <2>1, <2>2
<1>5. IInv /\ ~forgot => SeedsSurviveRestart
  BY DEF IInv, PersonasBacked, MalformedApart, SeedsSurviveRestart
<1>6. RestoringSpec => [][RestoringNext]_vars /\ Init
  BY DEF RestoringSpec
<1> HIDE DEF RestoringNext
<1>7. RestoringSpec => IdentityIsAtomic
  BY <1>3, <1>4, <1>6, InitIsCell, PTL DEF IdentityIsAtomic, IdentityCell!CellSpec, cellVars
<1>8. RestoringSpec => []SeedsSurviveRestart
  BY <1>3, <1>5, PTL
<1> QED
  BY <1>7, <1>8

-----------------------------------------------------------------------------
(* The application update, and a cheat file                                *)

\* What the steps of InstallUpdate rely on: from the checksum list on it is
\* known which NRO is wanted; past Verify it is at .new and there is one to
\* replace; before the backup <running> is as it was, after it .bak is.
UpdateFollows ==
  /\ upc \in {"checksum", "download", "verify", "unbackup", "backup", "install"} => release \in Releases
  /\ upc \in {"download", "verify", "unbackup", "backup", "install"} => expectedHash = release
  /\ upc \in {"unbackup", "backup"} => nros["new"] = release /\ Exists(nros, "running")
  /\ upc \in {"checksum", "download", "verify", "unbackup", "backup"} => nros["running"] = image
  /\ upc = "restore" => nros["running"] = Absent
  /\ upc \in {"install", "restore"} => nros["bak"] = image /\ image \in Good

UInv == UpdateTypeOK /\ AlwaysAnNro /\ ResultIsTrue /\ UpdateFollows

\* The invariant holds before the first launch.
LEMMA InitUInv == UpdateInit => UInv
BY UpdateAssumption
DEF UpdateInit, UInv, UpdateTypeOK, AlwaysAnNro, ResultIsTrue, UpdateFollows, Exists, Good, NroPaths

\* Counting an update below the bound.
LEMMA Counted ==
  ASSUME NEW n \in 0 .. MaxUpdates, n < MaxUpdates PROVE n + 1 \in 0 .. MaxUpdates
BY UpdateAssumption

\* Every step keeps it.
LEMMA StepUInv == UInv /\ [UpdateNext]_updateVars => UInv'
<1> SUFFICES ASSUME UInv, [UpdateNext]_updateVars PROVE UInv'
  OBVIOUS
<1> USE UpdateAssumption
    DEF UInv, UpdateTypeOK, AlwaysAnNro, ResultIsTrue, UpdateFollows, Exists, Good, NroPaths
<1>1. CASE Launch
  BY <1>1 DEF Launch
<1>2. CASE UpdateCrash
  BY <1>2 DEF UpdateCrash
<1>3. CASE InstallUpdate
  <2>1. /\ nros' \in [NroPaths -> Good \cup {Absent, Damaged}]
        /\ nros'["running"] = nros["running"] /\ nros'["bak"] = nros["bak"]
    BY <1>3 DEF InstallUpdate, Removals
  <2>2. /\ release' \in Releases /\ upc = "idle" /\ upc' = "checksum" /\ result' = "none"
        /\ image' = nros["running"] /\ expectedHash' = expectedHash
    BY <1>3 DEF InstallUpdate
  <2>3. updates' \in 0 .. MaxUpdates
    BY <1>3, Counted DEF InstallUpdate
  <2> QED
    BY <2>1, <2>2, <2>3
<1>4. CASE FetchChecksum
  BY <1>4 DEF FetchChecksum, UpdateFails
<1>5. CASE Download
  <2>1. /\ nros' \in [NroPaths -> Good \cup {Absent, Damaged}]
        /\ nros'["running"] = nros["running"] /\ nros'["bak"] = nros["bak"]
    <3>1. \/ \E nro \in {release, Damaged} : nros' = [nros EXCEPT !["new"] = nro]
          \/ nros' \in Removals([nros EXCEPT !["new"] = Damaged], "new")
      BY <1>5 DEF Download
    <3>2. CASE \E nro \in {release, Damaged} : nros' = [nros EXCEPT !["new"] = nro]
      <4>1. PICK nro \in {release, Damaged} : nros' = [nros EXCEPT !["new"] = nro]
        BY <3>2
      <4>2. nro \in Good \cup {Absent, Damaged}
        OBVIOUS
      <4> QED
        BY <4>1, <4>2
    <3>3. CASE nros' \in Removals([nros EXCEPT !["new"] = Damaged], "new")
      <4>1. \/ nros' = [nros EXCEPT !["new"] = Damaged]
            \/ nros' = [[nros EXCEPT !["new"] = Damaged] EXCEPT !["new"] = Absent]
        BY <3>3 DEF Removals
      <4> QED
        BY <4>1
    <3> QED
      BY <3>1, <3>2, <3>3
  <2>2. /\ upc = "download" /\ UNCHANGED <<release, expectedHash, image, updates>>
        /\ \/ upc' = "verify" /\ result' = result
           \/ upc' = "idle" /\ result' = "failed"
    BY <1>5 DEF Download, UpdateFails
  <2> QED
    BY <2>1, <2>2
<1>6. CASE Verify
  BY <1>6 DEF Verify, UpdateFails, Removals, Verified, Exists
<1>7. CASE RemoveNroBackup
  BY <1>7 DEF RemoveNroBackup, Removals, Exists
<1>8. CASE BackupNro
  BY <1>8 DEF BackupNro, UpdateFails, Removals, CanRename, Renamed, Exists
<1>9. CASE InstallNro
  BY <1>9 DEF InstallNro, CanRename, Renamed, Exists
<1>10. CASE InstallNroFails
  BY <1>10 DEF InstallNroFails
<1>11. CASE RestoreNro
  <2>1. CASE CanRename(nros, "bak", "running")
             /\ nros' \in Removals(Renamed(nros, "bak", "running"), "new") /\ UpdateFails
    <3>1. nros' \in [NroPaths -> Good \cup {Absent, Damaged}] /\ nros'["running"] = nros["bak"]
      <4> DEFINE moved == Renamed(nros, "bak", "running")
      <4>1. moved \in [NroPaths -> Good \cup {Absent, Damaged}] /\ moved["running"] = nros["bak"]
        BY DEF Renamed
      <4> HIDE DEF moved
      <4>2. nros' = moved \/ nros' = [moved EXCEPT !["new"] = Absent]
        BY <2>1 DEF Removals, moved
      <4>3. CASE nros' = [moved EXCEPT !["new"] = Absent]
        <5>1. nros'["running"] = moved["running"]
          BY <4>1, <4>3 DEF NroPaths
        <5>2. nros' \in [NroPaths -> Good \cup {Absent, Damaged}]
          BY <4>1, <4>3
        <5> QED
          BY <4>1, <5>1, <5>2
      <4> QED
        BY <4>1, <4>2, <4>3
    <3> QED
      BY <1>11, <2>1, <3>1 DEF RestoreNro, UpdateFails
  <2>2. CASE nros' \in Removals(nros, "new") /\ upc' = "idle" /\ result' = "rollback failed"
    <3>1. /\ nros' \in [NroPaths -> Good \cup {Absent, Damaged}]
          /\ nros'["running"] = nros["running"] /\ nros'["bak"] = nros["bak"]
      BY <1>11, <2>2 DEF Removals
    <3> QED
      BY <1>11, <2>2, <3>1 DEF RestoreNro
  <2> QED
    BY <1>11, <2>1, <2>2 DEF RestoreNro
<1>12. CASE UNCHANGED updateVars
  <2>1. UpdateTypeOK'
    BY <1>12 DEF updateVars
  <2>2. AlwaysAnNro' /\ ResultIsTrue'
    BY <1>12 DEF updateVars
  <2>3. UpdateFollows'
    BY <1>12 DEF updateVars
  <2> QED
    BY <2>1, <2>2, <2>3
<1> HIDE DEF UInv
<1> QED
  BY <1>1, <1>2, <1>3, <1>4, <1>5, <1>6, <1>7, <1>8, <1>9, <1>10, <1>11, <1>12 DEF UpdateNext

\* The invariant holds in every reachable state.
LEMMA UpdateInvariance == UpdateSpec => []UInv
BY InitUInv, StepUInv, PTL DEF UpdateSpec

\* Type correctness.
THEOREM UpdateTypeCorrect == UpdateSpec => []UpdateTypeOK
<1>1. UInv => UpdateTypeOK
  BY DEF UInv
<1> QED
  BY <1>1, UpdateInvariance, PTL

\* Only a verified NRO is started, and a whole one is always on the card.
THEOREM NroSurvives == UpdateSpec => []AlwaysAnNro
<1>1. UInv => AlwaysAnNro
  BY DEF UInv
<1> QED
  BY <1>1, UpdateInvariance, PTL

\* The messages of InstallUpdate are true.
THEOREM ResultCorrect == UpdateSpec => []ResultIsTrue
<1>1. UInv => ResultIsTrue
  BY DEF UInv
<1> QED
  BY <1>1, UpdateInvariance, PTL

\* The NRO there is to start: <running> or, once the user has moved it back,
\* the .bak.
NroAtHand == IF Exists(nros, "running") THEN nros["running"] ELSE nros["bak"]

\* The program sees the update when it is started next; that is what counts
\* as shown.
UpdateCell == INSTANCE DurableCell WITH
  Values  <- Good,
  NoValue <- Absent,
  value   <- NroAtHand,
  request <- IF upc \in {"none", "idle"} THEN Absent ELSE release,
  shown   <- IF upc = "none" THEN Absent ELSE NroAtHand

\* InstallUpdate implements the durable cell: the NRO there is to start is
\* replaced in one step, by the verified release, or not at all, wherever a
\* download, a check or a rename fails or the application dies.
UpdateIsAtomic == UpdateCell!CellSpec

updateCellVars == <<NroAtHand, IF upc \in {"none", "idle"} THEN Absent ELSE release,
                    IF upc = "none" THEN Absent ELSE NroAtHand>>

\* A step that leaves the NRO at hand alone goes on with the update, or gives
\* it up.
LEMMA UpdateGoesOn ==
  ASSUME UInv, upc \notin {"none", "idle"}, upc' # "none", UNCHANGED <<NroAtHand, release>>
  PROVE  UpdateCell!CellGiveUp \/ UNCHANGED updateCellVars
<1>1. release # Absent
  BY UpdateAssumption DEF UInv, UpdateTypeOK, Good
<1>2. CASE upc' = "idle"
  BY <1>1, <1>2 DEF UpdateCell!CellGiveUp
<1>3. CASE upc' # "idle"
  BY <1>3 DEF updateCellVars
<1> QED
  BY <1>2, <1>3

\* Every step of the update is a step of the cell.
LEMMA UpdateStepIsCell ==
  UInv /\ [UpdateNext]_updateVars => [UpdateCell!CellNext]_updateCellVars
<1> SUFFICES ASSUME UInv, [UpdateNext]_updateVars
             PROVE  UpdateCell!CellNext \/ UNCHANGED updateCellVars
  OBVIOUS
<1>types. /\ nros \in [NroPaths -> Good \cup {Absent, Damaged}] /\ release \in Good
          /\ NroAtHand \in Good /\ Absent \notin Good
  BY UpdateAssumption DEF UInv, UpdateTypeOK, AlwaysAnNro, NroAtHand, Exists, Good
<1>1. CASE Launch
  BY <1>1 DEF Launch, NroAtHand, UpdateCell!CellNext, UpdateCell!CellStart
<1>2. CASE UpdateCrash
  BY <1>2, <1>types DEF UpdateCrash, NroAtHand, UpdateCell!CellNext, UpdateCell!CellCrash
<1>3. CASE InstallUpdate
  <2>1. nros'["running"] = nros["running"] /\ nros'["bak"] = nros["bak"]
    BY <1>3, <1>types DEF InstallUpdate, Removals, NroPaths
  <2>2. UNCHANGED NroAtHand
    BY <2>1 DEF NroAtHand, Exists
  <2>3. upc = "idle" /\ upc' = "checksum" /\ release' \in Good
    BY <1>3 DEF InstallUpdate, Good
  <2> QED
    BY <2>2, <2>3, <1>types DEF UpdateCell!CellNext, UpdateCell!CellRequest
<1>4. CASE FetchChecksum \/ Download \/ Verify
  <2>1. nros'["running"] = nros["running"] /\ nros'["bak"] = nros["bak"]
    BY <1>4, <1>types DEF FetchChecksum, Download, Verify, Removals, NroPaths
  <2>2. UNCHANGED NroAtHand
    BY <2>1 DEF NroAtHand, Exists
  <2>3. upc \notin {"none", "idle"} /\ upc' # "none" /\ UNCHANGED release
    BY <1>4 DEF FetchChecksum, Download, Verify, UpdateFails
  <2> QED
    BY <2>2, <2>3, UpdateGoesOn DEF UpdateCell!CellNext
<1>5. CASE RemoveNroBackup
  <2>1. nros'["running"] = nros["running"] /\ Exists(nros, "running")
    BY <1>5, <1>types DEF RemoveNroBackup, Removals, NroPaths, UInv, UpdateFollows
  <2>2. UNCHANGED NroAtHand
    BY <2>1 DEF NroAtHand, Exists
  <2> QED
    BY <1>5, <2>2, UpdateGoesOn DEF RemoveNroBackup, UpdateCell!CellNext
<1>6. CASE BackupNro
  <2>1. nros' = Renamed(nros, "running", "bak") /\ CanRename(nros, "running", "bak")
          => UNCHANGED NroAtHand
    BY <1>types DEF Renamed, CanRename, NroAtHand, Exists, NroPaths
  <2>2. nros' \in Removals(nros, "new") => UNCHANGED NroAtHand
    BY <1>types DEF Removals, NroAtHand, Exists, NroPaths
  <2>3. UNCHANGED NroAtHand
    BY <1>6, <2>1, <2>2 DEF BackupNro
  <2> QED
    BY <1>6, <2>3, UpdateGoesOn DEF BackupNro, UpdateFails, UpdateCell!CellNext
<1>7. CASE InstallNro
  <2>1. upc = "install" /\ upc' = "idle" /\ nros' = Renamed(nros, "new", "running")
    BY <1>7 DEF InstallNro
  <2>2. nros["new"] = release
    BY <2>1 DEF UInv, UpdateTypeOK
  <2>3. nros'["running"] = release
    BY <2>1, <2>2, <1>types DEF Renamed, NroPaths
  <2>4. NroAtHand' = release
    BY <2>3, <1>types DEF NroAtHand, Exists
  <2> QED
    BY <2>1, <2>4, <1>types DEF UpdateCell!CellNext, UpdateCell!CellStore
<1>8. CASE InstallNroFails
  BY <1>8, UpdateGoesOn DEF InstallNroFails, NroAtHand, UpdateCell!CellNext
<1>9. CASE RestoreNro
  <2>1. upc = "restore" /\ upc' = "idle" /\ UNCHANGED release /\ nros["running"] = Absent
    BY <1>9 DEF RestoreNro, UpdateFails, UInv, UpdateFollows
  <2>2. nros' \in Removals(Renamed(nros, "bak", "running"), "new") => UNCHANGED NroAtHand
    <3> SUFFICES ASSUME nros' \in Removals(Renamed(nros, "bak", "running"), "new")
                 PROVE  UNCHANGED NroAtHand
      OBVIOUS
    <3>1. nros'["running"] = nros["bak"]
      BY <1>types DEF Removals, Renamed, NroPaths
    <3>2. NroAtHand = nros["bak"]
      BY <2>1 DEF NroAtHand, Exists
    <3> QED
      BY <3>1, <3>2, <1>types DEF NroAtHand, Exists
  <2>3. nros' \in Removals(nros, "new") => UNCHANGED NroAtHand
    BY <1>types DEF Removals, NroAtHand, Exists, NroPaths
  <2>4. UNCHANGED NroAtHand
    BY <1>9, <2>2, <2>3 DEF RestoreNro
  <2> QED
    BY <2>1, <2>4, UpdateGoesOn DEF UpdateCell!CellNext
<1>10. CASE UNCHANGED updateVars
  BY <1>10 DEF updateVars, updateCellVars, NroAtHand
<1> QED
  BY <1>1, <1>2, <1>3, <1>4, <1>5, <1>6, <1>7, <1>8, <1>9, <1>10 DEF UpdateNext

\* Replacing the NRO is atomic, for any releases and any number of updates.
THEOREM NroReplacedAtomically == UpdateSpec => UpdateIsAtomic
<1>1. UpdateInit => UpdateCell!CellInit
  BY UpdateAssumption DEF UpdateInit, NroAtHand, Exists, Good, NroPaths, UpdateCell!CellInit
<1> QED
  BY <1>1, UpdateStepIsCell, UpdateInvariance, PTL
  DEF UpdateSpec, UpdateIsAtomic, UpdateCell!CellSpec, updateCellVars

-----------------------------------------------------------------------------
(* CheatFile                                                               *)

CheatPlaces == {"idle", "fill", "unbackup", "aside", "promote", "clear", "undo", "untemp"}

\* What the steps of WriteAtomically rely on: until the old file is moved the
\* target is as it was found, afterwards it is the .bak; past the write the
\* temporary holds the whole text.
CheatFollows ==
  /\ cheats \in [CheatPaths -> Texts \cup {TornText, Absent}] /\ at \in CheatPlaces
  /\ cheats["bak"] \in Texts \cup {Absent}
  /\ asked \in Texts \cup {Absent} /\ was \in Texts \cup {Absent}
  /\ at # "idle" => answer = "none"
  /\ at \in {"fill", "unbackup", "aside", "promote"} => asked \in Texts
  /\ at \in {"fill", "unbackup", "aside"} => cheats["target"] = was
  /\ at \in {"unbackup", "aside", "promote"} => cheats["tmp"] = asked
  /\ at \in {"promote", "undo"} => cheats["target"] = Absent /\ (Replacing => cheats["bak"] = was)
  /\ at = "undo" => Replacing
  /\ at = "untemp" =>
       \/ cheats["target"] = was
       \/ cheats["target"] = Absent /\ cheats["bak"] = was
  /\ at = "clear" => cheats["target"] = asked

CheatInv == CheatFollows /\ WriteIsAllOrNothing

\* The file as the user brings it.
LEMMA InitCheatInv == CheatInit => CheatInv
<1> SUFFICES ASSUME CheatInit PROVE CheatInv
  OBVIOUS
<1>1. PICK text \in Texts \cup {Absent} :
        /\ cheats = [p \in CheatPaths |-> IF p = "target" THEN text ELSE Absent]
        /\ asked = text /\ was = text
  BY DEF CheatInit
<1>2. at = "idle" /\ answer = "none"
  BY DEF CheatInit
<1> QED
  BY <1>1, <1>2, CheatAssumption
  DEF CheatInv, CheatFollows, WriteIsAllOrNothing, CheatPlaces, CheatPaths

\* Giving up touches the temporary file only.
LEMMA GivesUpKeeps ==
  ASSUME CheatFollows, GivesUp
  PROVE  /\ cheats' \in [CheatPaths -> Texts \cup {TornText, Absent}]
         /\ cheats'["target"] = cheats["target"] /\ cheats'["bak"] = cheats["bak"]
         /\ at' = "idle" /\ answer' = "failed"
<1>1. cheats' = cheats \/ cheats' = [cheats EXCEPT !["tmp"] = Absent]
  BY DEF GivesUp, Removals
<1> QED
  BY <1>1 DEF CheatFollows, CheatPaths, GivesUp, Answers

\* Every step keeps the invariant.
LEMMA StepCheatInv == CheatInv /\ [CheatSteps]_cheatVars => CheatInv'
<1> SUFFICES ASSUME CheatInv, [CheatSteps]_cheatVars PROVE CheatInv'
  OBVIOUS
<1> USE CheatAssumption
    DEF CheatInv, CheatFollows, WriteIsAllOrNothing, CheatPlaces, CheatPaths, Replacing
<1>1. ASSUME NEW text \in Texts, WriteCheat(text) PROVE CheatInv'
  BY <1>1 DEF WriteCheat, CheatCall, Answers
<1>2. CASE RemoveCheat
  BY <1>2 DEF RemoveCheat, CheatCall, Answers, Exists
<1>3. CASE FillTemporary
  <2>1. CASE GivesUp
    BY <1>3, <2>1, GivesUpKeeps DEF FillTemporary
  <2>2. CASE cheats' = [cheats EXCEPT !["tmp"] = asked] /\ Goes("unbackup")
    BY <1>3, <2>2 DEF FillTemporary, Goes
  <2> QED
    BY <1>3, <2>1, <2>2 DEF FillTemporary
<1>4. CASE DropOldBackup
  <2>1. cheats' = cheats \/ cheats' = [cheats EXCEPT !["bak"] = Absent]
    BY <1>4 DEF DropOldBackup, Removals
  <2> QED
    BY <1>4, <2>1 DEF DropOldBackup, Goes
<1>5. CASE MoveCheatAside
  <2>1. CASE GivesUp
    BY <1>5, <2>1, GivesUpKeeps DEF MoveCheatAside
  <2>2. CASE ~Exists(cheats, "target") /\ UNCHANGED cheats /\ Goes("promote")
    BY <1>5, <2>2 DEF MoveCheatAside, Goes, Exists
  <2>3. CASE CanRename(cheats, "target", "bak") /\ cheats' = Renamed(cheats, "target", "bak")
             /\ Goes("promote")
    BY <1>5, <2>3 DEF MoveCheatAside, Goes, CanRename, Renamed, Exists
  <2> QED
    BY <1>5, <2>1, <2>2, <2>3 DEF MoveCheatAside
<1>6. CASE Promote
  BY <1>6 DEF Promote, Goes, Answers, CanRename, Renamed, Exists
<1>7. CASE PromoteFails
  <2>1. CASE Replacing
    BY <1>7, <2>1 DEF PromoteFails, Goes
  <2>2. CASE ~Replacing
    BY <1>7, <2>2, GivesUpKeeps DEF PromoteFails
  <2> QED
    BY <2>1, <2>2
<1>8. CASE Undo
  <2>1. cheats["target"] = Absent /\ cheats["bak"] = was /\ was \in Texts
    BY <1>8 DEF Undo
  <2>2. CASE cheats' = Renamed(cheats, "bak", "target")
    <3>1. /\ cheats' \in [CheatPaths -> Texts \cup {TornText, Absent}]
          /\ cheats'["target"] = was /\ cheats'["bak"] = Absent
      BY <2>1, <2>2 DEF Renamed
    <3> QED
      BY <1>8, <3>1 DEF Undo, Goes
  <2>3. CASE UNCHANGED cheats
    BY <1>8, <2>1, <2>3 DEF Undo, Goes
  <2> QED
    BY <1>8, <2>2, <2>3 DEF Undo
<1>9. CASE DropTemporary
  BY <1>9, GivesUpKeeps DEF DropTemporary
<1>10. CASE ClearBackup
  <2>1. cheats' = cheats \/ cheats' = [cheats EXCEPT !["bak"] = Absent]
    BY <1>10 DEF ClearBackup, Removals
  <2> QED
    BY <1>10, <2>1 DEF ClearBackup, Answers
<1>11. CASE CheatCrash
  BY <1>11 DEF CheatCrash
<1>12. CASE UNCHANGED cheatVars
  BY <1>12 DEF cheatVars
<1> HIDE DEF CheatInv
<1> QED
  BY <1>1, <1>2, <1>3, <1>4, <1>5, <1>6, <1>7, <1>8, <1>9, <1>10, <1>11, <1>12 DEF CheatSteps

\* WriteAtomically leaves the old text or the new one, for any texts and any
\* number of calls and crashes.
THEOREM CheatWriteSafe == CheatSpec => []WriteIsAllOrNothing
<1>1. CheatSpec => []CheatInv
  BY InitCheatInv, StepCheatInv, PTL DEF CheatSpec
<1>2. CheatInv => WriteIsAllOrNothing
  BY DEF CheatInv
<1> QED
  BY <1>1, <1>2, PTL
=============================================================================
