---------------------------- MODULE IdentityStore ----------------------------
(***************************************************************************)
(* Personas (source/identity/identity.cpp, identity_core.cpp): the state   *)
(* in memory, identity.json with its .tmp and .bak, the mutations that     *)
(* write a candidate state before they take it over, and restarts.         *)
(* gMutex makes a mutation one step for the readers of the state; a crash  *)
(* can still fall between any two file system calls.                       *)
(***************************************************************************)
EXTENDS FileOps, Naturals

CONSTANTS
  Ids,           \* identifiers of the personas randomGet can produce
  Native,        \* kNativeIdentityId
  Malformed,     \* a file ParseIdentityState rejects; also a torn write
  MaxMutations, MaxCrashes   \* bounds

\* IdentityState: names, seeds and dates go with the identifier.
States == {s \in [personas : SUBSET Ids, active : Ids \cup {Native}] :
             s.active \in s.personas \cup {Native}}

Empty == [personas |-> {}, active |-> Native]

ASSUME IdentityAssumption ==
  /\ Native \notin Ids
  /\ Absent # Malformed /\ Absent \notin States /\ Malformed \notin States
  /\ MaxMutations \in Nat /\ MaxCrashes \in Nat

Paths == {"target", "tmp", "bak"}

VARIABLES
  fs,            \* identity.json, .tmp and .bak
  pc,
  gState, gConfigurationLoaded,
  candidate, hadTarget,      \* locals of a mutation
  owed,          \* history: personas created, and not deleted since
  forgot,        \* history: a start found no identity.json beside a backup
  mutations, crashes         \* bounds

memVars == <<gState, gConfigurationLoaded>>
histVars == <<forgot, crashes>>
vars == <<fs, pc, memVars, candidate, hadTarget, owed, mutations, histVars>>

Init ==
  /\ fs \in [Paths -> {Absent, Malformed, Empty}]
  /\ fs["tmp"] = Absent /\ fs["bak"] = Absent
  /\ pc = "off"
  /\ gState = Empty /\ gConfigurationLoaded = FALSE
  /\ candidate = Empty /\ hadTarget = FALSE /\ owed = {}
  /\ forgot = FALSE /\ mutations = 0 /\ crashes = 0

\* Initialize looks at identity.json only.  Without one it starts empty and
\* counts as loaded; one that cannot be read or parsed blocks mutations.
Initialize ==
  /\ pc = "off"
  /\ gState' = IF Exists(fs, "target") /\ fs["target"] # Malformed THEN fs["target"] ELSE Empty
  /\ gConfigurationLoaded' = (fs["target"] # Malformed)
  /\ forgot' = (forgot \/ (~Exists(fs, "target") /\ Exists(fs, "bak")))
  /\ pc' = "idle"
  /\ UNCHANGED <<fs, candidate, hadTarget, owed, mutations, crashes>>

\* The application ends, or dies at any point.
Crash ==
  /\ pc # "off" /\ crashes < MaxCrashes
  /\ pc' = "off" /\ crashes' = crashes + 1
  /\ UNCHANGED <<fs, memVars, candidate, hadTarget, owed, forgot, mutations>>

\* Mutant: a configuration that was not loaded is written all the same.
SaveUnchecked(c) ==
  candidate' = c /\ pc' = "open"

\* SaveCandidateLocked: blocked unless the configuration was loaded.
Save(c) ==
  /\ gConfigurationLoaded
  /\ candidate' = c /\ pc' = "open"

\* A mutation begins: it holds gMutex until it has failed or returned.
Mutate(c) ==
  /\ pc = "idle" /\ mutations < MaxMutations
  /\ mutations' = mutations + 1
  /\ Save(c)
  /\ UNCHANGED <<fs, memVars, hadTarget, histVars>>

CreatePersona ==
  \E id \in Ids \ (owed \cup gState.personas), activate \in BOOLEAN :
    /\ Mutate([personas |-> gState.personas \cup {id},
               active |-> IF activate THEN id ELSE gState.active])
    /\ UNCHANGED owed

\* ActivatePersona, ActivateNative
ActivatePersona ==
  \E id \in gState.personas \cup {Native} :
    Mutate([gState EXCEPT !.active = id]) /\ UNCHANGED owed

Deleted(id) ==
  [personas |-> gState.personas \ {id},
   active |-> IF gState.active = id THEN Native ELSE gState.active]

\* The user gives the persona up when asking for its deletion.
DeletePersona ==
  \E id \in gState.personas : Mutate(Deleted(id)) /\ owed' = owed \ {id}

\* RenamePersona: another name, which the model does not keep, is written.
RenamePersona ==
  gState.personas # {} /\ Mutate(gState) /\ UNCHANGED owed

-----------------------------------------------------------------------------
(* WriteStateLocked(candidate)                                             *)

\* Mutant: memory takes the candidate over although it is not saved.
FailTakesCandidate ==
  pc' = "idle" /\ gState' = candidate /\ UNCHANGED <<gConfigurationLoaded, owed>>

Fail == pc' = "idle" /\ UNCHANGED <<memVars, owed>>

\* The old .tmp is removed, the new one opened, which truncates it ...
OpenTemporary ==
  /\ pc = "open"
  /\ \/ fs' = [fs EXCEPT !["tmp"] = Malformed] /\ pc' = "write" /\ UNCHANGED <<memVars, owed>>
     \/ fs' \in Removals(fs, "tmp") /\ Fail
  /\ UNCHANGED <<candidate, hadTarget, mutations, histVars>>

\* ... and written and flushed.
WriteTemporary ==
  /\ pc = "write"
  /\ \/ fs' = [fs EXCEPT !["tmp"] = candidate] /\ pc' = "backup" /\ UNCHANGED <<memVars, owed>>
     \/ fs' \in Removals(fs, "tmp") /\ Fail
  /\ UNCHANGED <<candidate, hadTarget, mutations, histVars>>

\* An existing identity.json is to become the .bak: the old one is removed.
RemoveBackup ==
  /\ pc = "backup"
  /\ hadTarget' = Exists(fs, "target")
  /\ IF hadTarget'
       THEN fs' \in Removals(fs, "bak") /\ pc' = "move"
       ELSE pc' = "install" /\ UNCHANGED fs
  /\ UNCHANGED <<memVars, candidate, owed, mutations, histVars>>

\* Mutant: the old file is deleted, not moved.
DeleteTarget ==
  /\ pc = "move"
  /\ fs' = [fs EXCEPT !["target"] = Absent]
  /\ pc' = "install"
  /\ UNCHANGED <<memVars, owed, candidate, hadTarget, mutations, histVars>>

MoveAside ==
  /\ pc = "move"
  /\ \/ /\ CanRename(fs, "target", "bak")
        /\ fs' = Renamed(fs, "target", "bak")
        /\ pc' = "install" /\ UNCHANGED <<memVars, owed>>
     \/ fs' \in Removals(fs, "tmp") /\ Fail
  /\ UNCHANGED <<candidate, hadTarget, mutations, histVars>>

\* The temporary becomes identity.json; the mutation takes effect in memory.
Install ==
  /\ pc = "install"
  /\ CanRename(fs, "tmp", "target")
  /\ fs' = Renamed(fs, "tmp", "target")
  /\ gState' = candidate /\ pc' = "idle"
  /\ owed' = owed \cup (candidate.personas \ gState.personas)
  /\ UNCHANGED <<gConfigurationLoaded, candidate, hadTarget, mutations, histVars>>

\* That rename fails: the previous file is moved back, if that works.
Restored ==
  IF hadTarget /\ CanRename(fs, "bak", "target")
    THEN {fs, Renamed(fs, "bak", "target")} ELSE {fs}

InstallFails ==
  /\ pc = "install"
  /\ \E f \in Restored : fs' \in Removals(f, "tmp")
  /\ Fail
  /\ UNCHANGED <<candidate, hadTarget, mutations, histVars>>

WriteState ==
  \/ OpenTemporary \/ WriteTemporary \/ RemoveBackup \/ MoveAside
  \/ Install \/ InstallFails

Mutation == CreatePersona \/ ActivatePersona \/ DeletePersona \/ RenamePersona

Next == Initialize \/ Crash \/ Mutation \/ WriteState

Spec == Init /\ [][Next]_vars
-----------------------------------------------------------------------------
(* Properties                                                              *)

\* Types: the active identity is native or a persona of the same state.
IdentityTypeOK ==
  /\ fs \in [Paths -> States \cup {Absent, Malformed}]
  /\ pc \in {"off", "idle", "open", "write", "backup", "move", "install"}
  /\ gState \in States /\ candidate \in States
  /\ gConfigurationLoaded \in BOOLEAN /\ hadTarget \in BOOLEAN
  /\ owed \subseteq Ids /\ forgot \in BOOLEAN
  /\ mutations \in 0 .. MaxMutations /\ crashes \in 0 .. MaxCrashes

\* "Malformed or future-schema identity files are preserved and mutations are
\* blocked" (docs/IDENTITY_MODEL.md): identity.json never changes from such a
\* file to another, and no write makes it one.
MalformedKept ==
  [][(fs["target"] = Malformed) <=> (fs'["target"] = Malformed)]_vars

\* What the program works with is on the card: in identity.json or, where a
\* failed rename could not be undone, in its backup.  A state that was never
\* saved is the empty one.
OnDisk(s) == fs["target"] = s \/ (~Exists(fs, "target") /\ fs["bak"] = s)

MemoryIsSaved ==
  pc = "idle" /\ gConfigurationLoaded => OnDisk(gState) \/ gState = Empty

\* Wherever the application dies, every persona that was created and not
\* deleted is in identity.json or its backup -- until a start has taken the
\* missing identity.json of an interrupted write for a fresh installation.
Saved ==
  UNION {fs[p].personas : p \in {q \in {"target", "bak"} : fs[q] \notin {Absent, Malformed}}}

PersonasKeptUnlessForgotten == ~forgot => owed \subseteq Saved

\* "A persona seed is generated once, saved locally, and reused across
\* requests and application restarts" (docs/IDENTITY_MODEL.md).
SeedsSurviveRestart == pc = "idle" => owed \subseteq gState.personas
==============================================================================
