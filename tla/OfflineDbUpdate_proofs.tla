------------------------ MODULE OfflineDbUpdate_proofs ------------------------
(***************************************************************************)
(* Proofs about OfflineDbUpdate and SaveSync: whatever fails and wherever  *)
(* the application dies, a database that counts as up to date is whole, a  *)
(* failed update loses no file, and a save is never a mixture of the old   *)
(* one and the archive's; for any versions, files and number of calls.     *)
(***************************************************************************)
EXTENDS OfflineDbUpdate, SaveSync, TLAPS
-----------------------------------------------------------------------------
(* OfflineDbUpdate: paths and contents                                     *)

Contents == Nat \cup {Absent, Torn}
Three == 1 .. 3

\* Where the paths are and that they differ; nothing else is used of them.
LEMMA PathFacts ==
  /\ Alias \in Paths
  /\ \A n \in Three : Live(n) \in Paths /\ Temp(n) \in Paths /\ Bak(n) \in Paths
  /\ \A n \in Three : Live(n) # Alias /\ Temp(n) # Alias /\ Bak(n) # Alias
  /\ \A n, m \in Three : Live(n) # Temp(m) /\ Live(n) # Bak(m) /\ Temp(n) # Bak(m)
  /\ \A n, m \in Three : n # m => Live(n) # Live(m) /\ Temp(n) # Temp(m) /\ Bak(n) # Bak(m)
<1>2. /\ Alias \in Paths
      /\ \A n \in Three : Live(n) \in Paths /\ Temp(n) \in Paths /\ Bak(n) \in Paths
  BY DEF Paths, Three
<1>3. /\ Names[1] = "titles" /\ Names[2] = "icons" /\ Names[3] = "manifest"
  BY DEF Names
<1>4. \A n \in Three : Live(n) # Alias /\ Temp(n) # Alias /\ Bak(n) # Alias
  BY <1>3 DEF Live, Temp, Bak, Alias, Three
<1>5. \A n, m \in Three : Live(n) # Temp(m) /\ Live(n) # Bak(m) /\ Temp(n) # Bak(m)
  BY DEF Live, Temp, Bak
<1>6. \A n, m \in Three : n # m => Live(n) # Live(m) /\ Temp(n) # Temp(m) /\ Bak(n) # Bak(m)
  BY <1>3 DEF Live, Temp, Bak, Three
<1> QED
  BY <1>2, <1>4, <1>5, <1>6

\* No file is newer than what is published, or fetched.
Bounded ==
  \A p \in Paths : fs[p] \in Nat => fs[p] <= remote /\ (pc # "idle" => fs[p] <= fetched)

\* The heart of the argument: whatever is interrupted, no pack is older than
\* the manifest, or its alias, says.
PacksAhead ==
  \A n \in {1, 2} : \A m \in {Live(3), Alias} :
    fs[Live(n)] # Absent /\ fs[m] \in Nat => fs[m] <= fs[Live(n)]

\* The files an update found, as long as it runs: they can be put back.
FoundAhead ==
  pc # "idle" =>
    /\ \A n \in Three : was[n] \in Nat => was[n] <= fetched
    /\ \A n \in {1, 2} :
         /\ was[n] # Torn
         /\ was[n] # Absent /\ was[3] \in Nat => was[3] <= was[n]
         /\ was[n] # Absent /\ fs[Alias] \in Nat => fs[Alias] <= was[n]

\* A file that was there is live or in the backup.
Kept(n) ==
  /\ fs[Live(n)] \in {was[n], Absent} \cup (IF n = 3 THEN {} ELSE {fetched})
  /\ was[n] # Absent => was[n] \in {fs[Live(n)], fs[Bak(n)]}
  /\ movedOriginal[n] => was[n] # Absent

BackedUp(n) == was[n] = Absent \/ fs[Bak(n)] = was[n]

Committing == {"unbackup", "backup", "install"}
RollingBack == {"rollback", "restore"}

Phases ==
  /\ pc \in {"idle", "download", "cleanup", "alias"} \cup Committing \cup RollingBack
  /\ pc \in {"download"} \cup Committing \cup RollingBack => \A n \in Three : Kept(n)
  /\ pc = "download" =>
       \A n \in Three : /\ fs[Live(n)] = was[n] /\ ~movedOriginal[n] /\ ~installedNew[n]
                        /\ n < k => fs[Temp(n)] = fetched
  /\ pc \in Committing => \A n \in Three :
       /\ n < k => fs[Live(n)] = fetched /\ BackedUp(n)
       /\ n > k => fs[Live(n)] = was[n] /\ ~movedOriginal[n]
       /\ n >= k => ~installedNew[n] /\ fs[Temp(n)] \in {fetched} \cup (IF n = 3 THEN {Torn} ELSE {})
  /\ pc \in {"unbackup", "backup"} => fs[Live(k)] = was[k] /\ ~movedOriginal[k]
  /\ pc = "install" => fs[Live(k)] = Absent
  /\ pc \in RollingBack => \A n \in Three :
       (n < k \/ (n = k /\ pc = "rollback")) /\ installedNew[n] => n # 3 /\ BackedUp(n)
  /\ pc \in {"cleanup", "alias"} =>
       fs[Live(1)] = fetched /\ fs[Live(2)] = fetched /\ fs[Live(3)] \in {fetched, Torn}

DbInv ==
  /\ DbTypeOK /\ Bounded /\ PacksAhead /\ FoundAhead /\ Phases
  /\ FailureKeepsFiles /\ SuccessIsFetched
\* Before the first update there are no files.
LEMMA InitDbInv == Init => DbInv
<1> SUFFICES ASSUME Init PROVE DbInv
  OBVIOUS
<1> USE DbAssumption, PathFacts
<1>1. /\ fs = [p \in Paths |-> Absent] /\ pc = "idle" /\ k = 1 /\ remote = 1 /\ fetched = 1
      /\ result = "none" /\ was = [n \in Three |-> Absent]
      /\ movedOriginal = Fresh /\ installedNew = Fresh
  BY DEF Init, LiveFiles, Three
<1>2. DbTypeOK
  BY <1>1 DEF DbTypeOK, Three, Fresh
<1>3. Bounded /\ PacksAhead
  <2>1. \A p \in Paths : fs[p] = Absent
    BY <1>1
  <2>2. Bounded
    BY <2>1 DEF Bounded
  <2>3. PacksAhead
    BY <2>1 DEF PacksAhead, Three
  <2> QED
    BY <2>2, <2>3
<1>4. FoundAhead /\ FailureKeepsFiles /\ SuccessIsFetched
  BY <1>1 DEF FoundAhead, FailureKeepsFiles, SuccessIsFetched
<1>5. Phases
  BY <1>1 DEF Phases, Committing, RollingBack
<1> QED
  BY <1>2, <1>3, <1>4, <1>5 DEF DbInv

\* What holds of the files while an update may still be undone.
LEMMA KeptAhead ==
  ASSUME DbInv, pc # "idle", UNCHANGED <<remote, fetched, was>>,
         fs' \in [Paths -> Contents], fs'[Alias] = fs[Alias],
         \A p \in Paths : fs'[p] \in Nat => fs'[p] <= fetched,
         \A n \in {1, 2} : fs'[Live(n)] \in {was[n], Absent, fetched},
         fs'[Live(3)] \in {was[3], Absent}
  PROVE  /\ \A n \in {1, 2} : fs'[Live(n)] # Torn
         /\ Bounded' /\ PacksAhead' /\ FoundAhead'
<1> USE DbAssumption, PathFacts DEF DbInv, DbTypeOK, Contents, Three
<1>1. \A n \in {1, 2} : fs'[Live(n)] # Torn
  BY DEF FoundAhead
<1>2. Bounded'
  BY DEF Bounded
<1>3. FoundAhead'
  BY DEF FoundAhead
<1>4. PacksAhead'
  <2> SUFFICES ASSUME NEW n \in {1, 2}, NEW m \in {Live(3), Alias},
                      fs'[Live(n)] # Absent, fs'[m] \in Nat
               PROVE  fs'[m] <= fs'[Live(n)]
    BY DEF PacksAhead
  <2>1. m \in Paths /\ fs'[m] <= fetched
    OBVIOUS
  <2>2. CASE fs'[Live(n)] = fetched
    BY <2>1, <2>2
  <2>3. CASE fs'[Live(n)] = was[n]
    BY <2>3 DEF FoundAhead
  <2> QED
    BY <2>2, <2>3
<1> QED
  BY <1>1, <1>2, <1>3, <1>4

\* Publishing, dying and doing nothing touch no file.
LEMMA QuietKeeps ==
  ASSUME DbInv, UNCHANGED <<fs, callVars, was>>, remote' \in Nat, remote <= remote',
         \/ pc' = pc /\ result' = result
         \/ pc' = "idle" /\ result' = "crashed"
  PROVE  DbInv'
<1> USE DbAssumption, PathFacts DEF DbInv, DbTypeOK, callVars
<1>1. DbTypeOK'
  OBVIOUS
<1>2. Bounded'
  BY DEF Bounded
<1>3. PacksAhead' /\ FoundAhead'
  BY DEF PacksAhead, FoundAhead
<1>4. Phases'
  BY DEF Phases, Kept, BackedUp, Committing, RollingBack
<1>5. FailureKeepsFiles' /\ SuccessIsFetched'
  BY DEF FailureKeepsFiles, SuccessIsFetched
<1> QED
  BY <1>1, <1>2, <1>3, <1>4, <1>5

\* An update begins by looking at the files, and at the version published.
LEMMA ApplyKeeps == DbInv /\ ApplyUpdate => DbInv'
<1> SUFFICES ASSUME DbInv, ApplyUpdate PROVE DbInv'
  OBVIOUS
<1>1. /\ fs' = fs /\ remote' = remote /\ pc = "idle" /\ fetched' = remote /\ k' = 1
      /\ \/ pc' = "download" /\ result' = "none"
         \/ pc' = "idle" /\ result' = "current"
  BY DEF ApplyUpdate
<1>2. /\ was' \in [1 .. 3 -> Contents]
      /\ movedOriginal' \in [1 .. 3 -> BOOLEAN] /\ installedNew' \in [1 .. 3 -> BOOLEAN]
      /\ \A n \in 1 .. 3 : was'[n] = fs[Live(n)] /\ ~movedOriginal'[n] /\ ~installedNew'[n]
  <2>1. \A n \in 1 .. 3 : fs[Live(n)] \in Contents
    BY PathFacts DEF DbInv, DbTypeOK, Contents, Three
  <2> QED
    BY <2>1 DEF ApplyUpdate, LiveFiles, Fresh
<1>3. remote \in Nat \ {0} /\ fs \in [Paths -> Contents] /\ \A n \in 1 .. 2 : fs[Live(n)] # Torn
  BY DEF DbInv, DbTypeOK, Contents
<1>4. DbTypeOK'
  <2>1. remote' \in Nat \ {0} /\ fetched' \in 1 .. remote' /\ k' \in 1 .. 3
    BY <1>1, <1>3
  <2> QED
    BY <1>1, <1>2, <1>3, <2>1 DEF DbTypeOK, Contents
<1>5. Bounded' /\ PacksAhead'
  BY <1>1 DEF DbInv, Bounded, PacksAhead
<1>6. FoundAhead'
  <2>1. /\ was'[1] = fs[Live(1)] /\ was'[2] = fs[Live(2)] /\ was'[3] = fs[Live(3)]
        /\ \A n \in {1, 2} : was'[n] = fs[Live(n)]
    BY <1>2
  <2>2. \A n \in Three : was'[n] \in Nat => was'[n] <= fetched'
    BY <1>1, <1>2, PathFacts DEF DbInv, Bounded, Three
  <2>3. \A n \in {1, 2} :
          /\ was'[n] # Torn
          /\ was'[n] # Absent /\ was'[3] \in Nat => was'[3] <= was'[n]
          /\ was'[n] # Absent /\ fs'[Alias] \in Nat => fs'[Alias] <= was'[n]
    BY <1>1, <1>3, <2>1 DEF DbInv, PacksAhead
  <2> QED
    BY <2>2, <2>3 DEF FoundAhead
<1>7. Phases'
  <2>1. \A n \in Three : /\ fs'[Live(n)] = was'[n] /\ ~movedOriginal'[n] /\ ~installedNew'[n]
                         /\ ~(n < k')
    <3>1. \A n \in Three : ~(n < k')
      BY <1>1 DEF Three
    <3> QED
      BY <1>1, <1>2, <3>1 DEF Three
  <2>2. \A n \in Three : Kept(n)'
    BY <2>1 DEF Kept
  <2> QED
    BY <1>1, <2>1, <2>2 DEF Phases, Committing, RollingBack
<1>8. FailureKeepsFiles' /\ SuccessIsFetched'
  BY <1>1 DEF FailureKeepsFiles, SuccessIsFetched
<1> QED
  BY <1>4, <1>5, <1>6, <1>7, <1>8 DEF DbInv

\* A download changes temporaries alone; a failure removes them.
LEMMA DownloadKeeps == DbInv /\ (Download \/ WriteManifest) => DbInv'
<1> SUFFICES ASSUME DbInv, Download \/ WriteManifest PROVE DbInv'
  OBVIOUS
<1> USE DbAssumption, PathFacts DEF DbInv, DbTypeOK, Three
<1>1. /\ pc = "download" /\ UNCHANGED <<remote, fetched, movedOriginal, installedNew, was>>
      /\ \/ /\ k < 3 /\ k' = k + 1 /\ UNCHANGED <<pc, result>>
            /\ fs' = [fs EXCEPT ![Temp(k)] = fetched]
         \/ /\ k = 3 /\ k' = 1 /\ pc' = "unbackup" /\ UNCHANGED result
            /\ \/ fs' = [fs EXCEPT ![Temp(k)] = fetched]
               \/ fs' = [fs EXCEPT ![Temp(k)] = Torn]
         \/ /\ k' = k /\ pc' = "idle" /\ result' = "failed"
            /\ fs' = [p \in Paths |-> IF p \in {Temp(n) : n \in 1 .. k} THEN Absent ELSE fs[p]]
  BY DEF Download, WriteManifest, Manifest, Accepted
<1>2. /\ fs' \in [Paths -> Contents] /\ fs'[Alias] = fs[Alias]
      /\ \A n \in Three : fs'[Live(n)] = fs[Live(n)] /\ fs'[Bak(n)] = fs[Bak(n)]
      /\ \A p \in Paths : fs'[p] \in {fs[p], fetched, Torn, Absent}
  BY <1>1 DEF Contents
<1>3. \A n \in Three : fs[Live(n)] = was[n] /\ ~movedOriginal[n] /\ ~installedNew[n]
                       /\ (n < k => fs[Temp(n)] = fetched)
  BY <1>1 DEF Phases
<1>4. DbTypeOK'
  BY <1>1, <1>2 DEF Contents
<1>5. Bounded' /\ PacksAhead' /\ FoundAhead'
  BY <1>1, <1>2, <1>3, KeptAhead DEF Bounded
<1>6. Phases'
  <2>1. \A n \in Three : Kept(n)'
    BY <1>1, <1>2, <1>3 DEF Kept
  <2>2. CASE pc' = "download"
    BY <1>1, <1>2, <1>3, <2>1, <2>2 DEF Phases, Committing, RollingBack
  <2>3. CASE pc' = "unbackup"
    <3>1. \A n \in Three : fs'[Temp(n)] \in {fetched} \cup (IF n = 3 THEN {Torn} ELSE {})
      BY <1>1, <1>3, <2>3
    <3> QED
      BY <1>1, <1>2, <1>3, <2>1, <2>3, <3>1 DEF Phases, Committing, RollingBack
  <2>4. CASE pc' = "idle"
    BY <2>4 DEF Phases, Committing, RollingBack
  <2> QED
    BY <1>1, <2>2, <2>3, <2>4
<1>7. FailureKeepsFiles' /\ SuccessIsFetched'
  BY <1>1, <1>2, <1>3 DEF FailureKeepsFiles, SuccessIsFetched
<1> QED
  BY <1>4, <1>5, <1>6, <1>7

\* While files may be undone, the new state needs its phase and Kept shown.
LEMMA UndoKeeps ==
  ASSUME DbInv, pc \in Committing \cup RollingBack, UNCHANGED <<remote, fetched, was>>,
         fs' \in [Paths -> Contents], fs'[Alias] = fs[Alias],
         \A p \in Paths : \/ fs'[p] \in {Absent, Torn, fetched}
                          \/ \E q \in Paths : fs'[p] = fs[q],
         \A n \in Three : Kept(n)',
         k' \in Three, Phases',
         movedOriginal' \in [Three -> BOOLEAN], installedNew' \in [Three -> BOOLEAN],
         pc' = "idle" => result' = "failed"
  PROVE  DbInv'
<1>1. pc # "idle"
  BY DEF Committing, RollingBack
<1>2. \A p \in Paths : fs'[p] \in Nat => fs'[p] <= fetched
  <2>1. fetched \in Nat /\ \A q \in Paths : fs[q] \in Nat => fs[q] <= fetched
    BY <1>1 DEF DbInv, DbTypeOK, Bounded
  <2> QED
    BY <2>1, DbAssumption
<1>3. /\ \A n \in {1, 2} : fs'[Live(n)] \in {was[n], Absent, fetched}
      /\ fs'[Live(3)] \in {was[3], Absent}
  BY DEF Kept, Three
<1>4. /\ \A n \in {1, 2} : fs'[Live(n)] # Torn
      /\ Bounded' /\ PacksAhead' /\ FoundAhead'
  BY <1>1, <1>2, <1>3, KeptAhead
<1>5. DbTypeOK'
  BY <1>4 DEF DbInv, DbTypeOK, Contents, Three
<1>6. FailureKeepsFiles' /\ SuccessIsFetched'
  BY DEF FailureKeepsFiles, SuccessIsFetched, Kept, Three
<1> QED
  BY <1>4, <1>5, <1>6 DEF DbInv

\* The old backup goes; what it was a backup of is still in place.
LEMMA RemoveBackupKeeps == DbInv /\ RemoveBackup => DbInv'
<1> SUFFICES ASSUME DbInv, RemoveBackup PROVE DbInv'
  OBVIOUS
<1> USE DbAssumption, PathFacts DEF DbTypeOK, Three
<1>1. /\ pc = "unbackup" /\ UNCHANGED <<remote, k, fetched, movedOriginal, installedNew, was>>
      /\ pc' \in {"backup", "install"} /\ (pc' = "install" => fs[Live(k)] = Absent)
      /\ fs' \in {fs, [fs EXCEPT ![Bak(k)] = Absent]} /\ k \in Three
  BY DEF RemoveBackup, Removals, callVars, Exists, DbInv
<1>2. /\ fs' \in [Paths -> Contents] /\ fs'[Alias] = fs[Alias]
      /\ \A p \in Paths : fs'[p] \in {fs[p], Absent}
      /\ \A n \in Three : /\ fs'[Live(n)] = fs[Live(n)] /\ fs'[Temp(n)] = fs[Temp(n)]
                          /\ n # k => fs'[Bak(n)] = fs[Bak(n)]
  BY <1>1 DEF DbInv, Contents
<1>3. /\ \A n \in Three : Kept(n)
      /\ fs[Live(k)] = was[k] /\ ~movedOriginal[k]
      /\ \A n \in Three :
           /\ n < k => fs[Live(n)] = fetched /\ BackedUp(n)
           /\ n > k => fs[Live(n)] = was[n] /\ ~movedOriginal[n]
           /\ n >= k => ~installedNew[n] /\ fs[Temp(n)] \in {fetched} \cup (IF n = 3 THEN {Torn} ELSE {})
  BY <1>1 DEF DbInv, Phases, Committing
<1>4. \A n \in Three : Kept(n)'
  BY <1>1, <1>2, <1>3 DEF Kept
<1>5. Phases'
  <2>1. \A n \in Three : n < k => BackedUp(n)'
    BY <1>1, <1>2, <1>3 DEF BackedUp
  <2> QED
    BY <1>1, <1>2, <1>3, <1>4, <2>1 DEF Phases, Committing, RollingBack
<1> QED
  BY <1>1, <1>2, <1>4, <1>5, UndoKeeps DEF DbInv, Committing

\* The original is moved to the backup, or stays.
LEMMA MoveAsideKeeps == DbInv /\ MoveAside => DbInv'
<1> SUFFICES ASSUME DbInv, MoveAside PROVE DbInv'
  OBVIOUS
<1> USE DbAssumption, PathFacts DEF DbTypeOK, Three
<1>1. /\ pc = "backup" /\ UNCHANGED <<remote, k, fetched, installedNew, was>> /\ k \in Three
      /\ \/ /\ fs[Live(k)] # Absent /\ pc' = "install"
            /\ fs' = [fs EXCEPT ![Bak(k)] = fs[Live(k)], ![Live(k)] = Absent]
            /\ movedOriginal' = [movedOriginal EXCEPT ![k] = TRUE]
         \/ /\ pc' = "rollback" /\ UNCHANGED movedOriginal
            /\ fs' = [p \in Paths |-> IF p \in {Temp(n) : n \in k + 1 .. 3} THEN Absent ELSE fs[p]]
  BY DEF MoveAside, GiveUp, CanRename, Renamed, Exists, DbInv
<1>2. fs \in [Paths -> Contents] /\ movedOriginal \in [Three -> BOOLEAN]
      /\ installedNew \in [Three -> BOOLEAN]
  BY DEF DbInv, Contents
<1>3. /\ \A n \in Three : Kept(n)
      /\ fs[Live(k)] = was[k] /\ ~movedOriginal[k]
      /\ \A n \in Three :
           /\ n < k => fs[Live(n)] = fetched /\ BackedUp(n)
           /\ n > k => fs[Live(n)] = was[n] /\ ~movedOriginal[n]
           /\ n >= k => ~installedNew[n] /\ fs[Temp(n)] \in {fetched} \cup (IF n = 3 THEN {Torn} ELSE {})
  BY <1>1 DEF DbInv, Phases, Committing
<1>4. CASE pc' = "install"
  <2>1. /\ fs' \in [Paths -> Contents] /\ fs'[Alias] = fs[Alias]
        /\ \A p \in Paths : fs'[p] \in {fs[p], fs[Live(k)], Absent}
        /\ fs'[Live(k)] = Absent /\ fs'[Bak(k)] = was[k] /\ was[k] # Absent
        /\ \A n \in Three : /\ fs'[Temp(n)] = fs[Temp(n)]
                            /\ n # k => fs'[Live(n)] = fs[Live(n)] /\ fs'[Bak(n)] = fs[Bak(n)]
    <3>1. fs' = [fs EXCEPT ![Bak(k)] = fs[Live(k)], ![Live(k)] = Absent] /\ was[k] # Absent
      BY <1>1, <1>3, <1>4
    <3>2. Absent \in Contents /\ fs[Live(k)] \in Contents
      BY <1>1, <1>2 DEF Contents
    <3>3. fs' \in [Paths -> Contents] /\ fs'[Alias] = fs[Alias]
      BY <1>1, <1>2, <3>1, <3>2
    <3>4. \A p \in Paths : fs'[p] \in {fs[p], fs[Live(k)], Absent}
      BY <1>1, <1>2, <3>1
    <3>5. fs'[Live(k)] = Absent /\ fs'[Bak(k)] = was[k]
      BY <1>1, <1>2, <1>3, <3>1
    <3>6. \A n \in Three : /\ fs'[Temp(n)] = fs[Temp(n)]
                           /\ n # k => fs'[Live(n)] = fs[Live(n)] /\ fs'[Bak(n)] = fs[Bak(n)]
      BY <1>1, <1>2, <3>1
    <3> QED
      BY <3>1, <3>3, <3>4, <3>5, <3>6
  <2>2. movedOriginal' \in [Three -> BOOLEAN] /\ \A n \in Three \ {k} : movedOriginal'[n] = movedOriginal[n]
    BY <1>1, <1>2, <1>4
  <2>3. \A n \in Three : Kept(n)'
    BY <1>1, <1>3, <2>1, <2>2 DEF Kept
  <2>4. \A n \in Three : n < k => BackedUp(n)'
    BY <1>1, <1>3, <2>1 DEF BackedUp
  <2>5. Phases'
    BY <1>1, <1>3, <1>4, <2>1, <2>2, <2>3, <2>4 DEF Phases, Committing, RollingBack
  <2> QED
    BY <1>1, <1>2, <1>4, <2>1, <2>2, <2>3, <2>5, UndoKeeps DEF DbInv, Committing
<1>5. CASE pc' = "rollback"
  <2>1. /\ fs' \in [Paths -> Contents] /\ fs'[Alias] = fs[Alias]
        /\ \A p \in Paths : fs'[p] \in {fs[p], Absent} /\ UNCHANGED movedOriginal
        /\ \A n \in Three : fs'[Live(n)] = fs[Live(n)] /\ fs'[Bak(n)] = fs[Bak(n)]
    BY <1>1, <1>2, <1>5 DEF Contents
  <2>2. \A n \in Three : Kept(n)'
    BY <1>1, <1>3, <2>1 DEF Kept
  <2>3. \A n \in Three : (n < k \/ n = k) /\ installedNew[n] => n # 3 /\ BackedUp(n)'
    BY <1>1, <1>3, <2>1 DEF BackedUp
  <2>4. Phases'
    BY <1>1, <1>5, <2>1, <2>2, <2>3 DEF Phases, Committing, RollingBack
  <2> QED
    BY <1>1, <1>2, <1>5, <2>1, <2>2, <2>4, UndoKeeps DEF DbInv, Committing
<1> QED
  BY <1>1, <1>4, <1>5

\* What is moved back is what the update found.
LEMMA Restored ==
  ASSUME DbInv, Kept(k), NEW disk \in Restorations
  PROVE  /\ disk \in [Paths -> Contents] /\ disk[Alias] = fs[Alias]
         /\ \A p \in Paths : disk[p] = Absent \/ \E q \in Paths : disk[p] = fs[q]
         /\ \A n \in Three : /\ disk[Temp(n)] = fs[Temp(n)]
                             /\ n # k => disk[Live(n)] = fs[Live(n)] /\ disk[Bak(n)] = fs[Bak(n)]
         /\ disk[Live(k)] \in {was[k], fs[Live(k)]}
         /\ was[k] # Absent => was[k] \in {disk[Live(k)], disk[Bak(k)]}
<1> USE DbAssumption, PathFacts
<1>1. k \in Three /\ fs \in [Paths -> Contents]
  BY DEF DbInv, DbTypeOK, Contents, Three
<1>2. CASE disk = fs
  BY <1>1, <1>2 DEF Kept
<1>3. CASE movedOriginal[k] /\ CanRename(fs, Bak(k), Live(k)) /\ disk = Renamed(fs, Bak(k), Live(k))
  <2>1. fs[Live(k)] = Absent /\ fs[Bak(k)] = was[k] /\ was[k] # Absent
    BY <1>3 DEF Kept, CanRename, Exists
  <2>2. disk = [fs EXCEPT ![Live(k)] = was[k], ![Bak(k)] = Absent]
    BY <1>3, <2>1 DEF Renamed
  <2>3. Absent \in Contents /\ was[k] \in Contents
    BY <1>1, <2>1 DEF Contents
  <2>4. disk \in [Paths -> Contents] /\ disk[Alias] = fs[Alias]
    BY <1>1, <2>2, <2>3
  <2>5. \A p \in Paths : disk[p] = Absent \/ \E q \in Paths : disk[p] = fs[q]
    BY <1>1, <2>1, <2>2
  <2>6. \A n \in Three : /\ disk[Temp(n)] = fs[Temp(n)]
                         /\ n # k => disk[Live(n)] = fs[Live(n)] /\ disk[Bak(n)] = fs[Bak(n)]
    BY <1>1, <2>2
  <2>7. disk[Live(k)] = was[k]
    BY <1>1, <2>2
  <2> QED
    BY <2>4, <2>5, <2>6, <2>7
<1> QED
  BY <1>2, <1>3 DEF Restorations

\* A download becomes the live file.
LEMMA InstallKeeps == DbInv /\ Install => DbInv'
<1> SUFFICES ASSUME DbInv, Install PROVE DbInv'
  OBVIOUS
<1> USE DbAssumption, PathFacts DEF DbTypeOK, Three
<1>1. /\ pc = "install" /\ UNCHANGED <<remote, fetched, movedOriginal, result, was>> /\ k \in Three
      /\ fs' = [fs EXCEPT ![Live(k)] = fs[Temp(k)], ![Temp(k)] = Absent]
      /\ installedNew' = [installedNew EXCEPT ![k] = TRUE]
      /\ \/ k < 3 /\ pc' = "unbackup" /\ k' = k + 1
         \/ k = 3 /\ pc' = "cleanup" /\ k' = 1
  BY DEF Install, CanRename, Renamed, Exists, DbInv
<1>2. fs \in [Paths -> Contents] /\ installedNew \in [Three -> BOOLEAN] /\ fetched \in Nat
      /\ Absent \in Contents
  BY DEF DbInv, Contents
<1>3. /\ \A n \in Three : Kept(n)
      /\ fs[Live(k)] = Absent
      /\ \A n \in Three :
           /\ n < k => fs[Live(n)] = fetched /\ BackedUp(n)
           /\ n > k => fs[Live(n)] = was[n] /\ ~movedOriginal[n]
           /\ n >= k => ~installedNew[n] /\ fs[Temp(n)] \in {fetched} \cup (IF n = 3 THEN {Torn} ELSE {})
  BY <1>1 DEF DbInv, Phases, Committing
<1>4. /\ fs' \in [Paths -> Contents] /\ fs'[Alias] = fs[Alias] /\ fs'[Live(k)] = fs[Temp(k)]
      /\ \A p \in Paths : fs'[p] \in {fs[p], fs[Temp(k)], Absent}
  BY <1>1, <1>2
<1>5. \A n \in Three : /\ fs'[Bak(n)] = fs[Bak(n)]
                       /\ n # k => fs'[Live(n)] = fs[Live(n)] /\ fs'[Temp(n)] = fs[Temp(n)]
  BY <1>1, <1>2
<1>6. /\ installedNew' \in [Three -> BOOLEAN]
      /\ \A n \in Three \ {k} : installedNew'[n] = installedNew[n]
  BY <1>1, <1>2
<1>7. \A n \in Three : n <= k => BackedUp(n)'
  BY <1>1, <1>3, <1>5 DEF BackedUp, Kept
<1>8. CASE k < 3
  <2>1. fs'[Live(k)] = fetched
    BY <1>1, <1>3, <1>4, <1>8
  <2>2. \A n \in Three : Kept(n)'
    BY <1>1, <1>3, <1>5, <1>8, <2>1 DEF Kept
  <2>3. Phases'
    BY <1>1, <1>3, <1>5, <1>6, <1>7, <1>8, <2>1, <2>2 DEF Phases, Committing, RollingBack
  <2> QED
    BY <1>1, <1>4, <1>6, <1>8, <2>2, <2>3, UndoKeeps DEF DbInv, Committing
<1>9. CASE k = 3
  <2>1. /\ fs'[Live(1)] = fetched /\ fs'[Live(2)] = fetched /\ fs'[Live(3)] \in {fetched, Torn}
    BY <1>1, <1>3, <1>4, <1>5, <1>9
  <2>2. Bounded'
    BY <1>1, <1>4 DEF DbInv, Bounded
  <2>3. PacksAhead'
    BY <1>1, <1>2, <1>4, <2>1 DEF DbInv, Bounded, PacksAhead
  <2>4. FoundAhead'
    BY <1>1, <1>4 DEF DbInv, FoundAhead
  <2>5. Phases'
    BY <1>1, <1>9, <2>1 DEF Phases, Committing, RollingBack
  <2>6. DbTypeOK'
    BY <1>1, <1>2, <1>4, <1>6, <1>9, <2>1 DEF DbInv, Contents
  <2>7. FailureKeepsFiles' /\ SuccessIsFetched'
    BY <1>1, <1>9 DEF FailureKeepsFiles, SuccessIsFetched
  <2> QED
    BY <2>2, <2>3, <2>4, <2>5, <2>6, <2>7 DEF DbInv
<1> QED
  BY <1>1, <1>8, <1>9

\* It does not: the rollback begins.
LEMMA InstallFailsKeeps == DbInv /\ InstallFails => DbInv'
<1> SUFFICES ASSUME DbInv, InstallFails PROVE DbInv'
  OBVIOUS
<1> USE DbAssumption, PathFacts DEF Three
<1>1. /\ pc = "install" /\ pc' = "rollback" /\ k \in Three
      /\ UNCHANGED <<remote, k, fetched, movedOriginal, installedNew, result, was>>
  BY DEF InstallFails, GiveUp, callVars, DbInv, DbTypeOK
<1>2. /\ \A n \in Three : Kept(n)
      /\ fs[Live(k)] = Absent
      /\ \A n \in Three : /\ n < k => BackedUp(n)
                          /\ n >= k => ~installedNew[n]
  BY <1>1 DEF DbInv, Phases, Committing
<1>3. PICK disk \in Restorations :
        fs' = [p \in Paths |-> IF p \in {Temp(n) : n \in k + 1 .. 3} THEN Absent ELSE disk[p]]
  BY DEF InstallFails, GiveUp
<1>4. /\ disk \in [Paths -> Contents] /\ disk[Alias] = fs[Alias]
      /\ \A p \in Paths : disk[p] = Absent \/ \E q \in Paths : disk[p] = fs[q]
      /\ \A n \in Three : n # k => disk[Live(n)] = fs[Live(n)] /\ disk[Bak(n)] = fs[Bak(n)]
      /\ disk[Live(k)] \in {was[k], fs[Live(k)]}
      /\ was[k] # Absent => was[k] \in {disk[Live(k)], disk[Bak(k)]}
  BY <1>1, <1>2, Restored
<1>5. /\ fs' \in [Paths -> Contents] /\ fs'[Alias] = fs[Alias]
      /\ \A p \in Paths : fs'[p] \in {disk[p], Absent}
      /\ \A n \in Three : fs'[Live(n)] = disk[Live(n)] /\ fs'[Bak(n)] = disk[Bak(n)]
  <2> DEFINE Dropped == {Temp(n) : n \in k + 1 .. 3}
  <2>1. \A n \in k + 1 .. 3 : n \in Three
    BY <1>1
  <2>2. Alias \notin Dropped /\ \A n \in Three : Live(n) \notin Dropped /\ Bak(n) \notin Dropped
    BY <2>1
  <2>3. fs' = [p \in Paths |-> IF p \in Dropped THEN Absent ELSE disk[p]]
    BY <1>3
  <2> HIDE DEF Dropped
  <2>4. \A p \in Paths : fs'[p] = IF p \in Dropped THEN Absent ELSE disk[p]
    BY <2>3
  <2>5. fs' \in [Paths -> Contents]
    BY <1>4, <2>3 DEF Contents
  <2> QED
    BY <1>4, <2>2, <2>4, <2>5
<1>6. \A n \in Three : Kept(n)'
  BY <1>1, <1>2, <1>4, <1>5 DEF Kept
<1>7. Phases'
  <2>1. \A n \in Three : n < k => BackedUp(n)'
    BY <1>1, <1>2, <1>4, <1>5 DEF BackedUp
  <2> QED
    BY <1>1, <1>2, <1>6, <2>1 DEF Phases, Committing, RollingBack
<1> QED
  BY <1>1, <1>4, <1>5, <1>6, <1>7, UndoKeeps DEF DbInv, DbTypeOK, Committing

\* The new file goes where the original is in the backup, or there was none.
LEMMA RollbackRemoveKeeps == DbInv /\ RollbackRemove => DbInv'
<1> SUFFICES ASSUME DbInv, RollbackRemove PROVE DbInv'
  OBVIOUS
<1> USE DbAssumption, PathFacts DEF Three
<1>1. /\ pc = "rollback" /\ pc' = "restore" /\ k \in Three
      /\ UNCHANGED <<remote, k, fetched, movedOriginal, installedNew, result, was>>
      /\ \/ fs' = fs
         \/ installedNew[k] /\ fs' = [fs EXCEPT ![Live(k)] = Absent]
  BY DEF RollbackRemove, Removals, callVars, DbInv, DbTypeOK
<1>2. /\ \A n \in Three : Kept(n)
      /\ \A n \in Three : (n < k \/ n = k) /\ installedNew[n] => n # 3 /\ BackedUp(n)
  BY <1>1 DEF DbInv, Phases, RollingBack
<1>3. fs \in [Paths -> Contents] /\ Absent \in Contents
  BY DEF DbInv, DbTypeOK, Contents
<1>4. /\ fs' \in [Paths -> Contents] /\ fs'[Alias] = fs[Alias]
      /\ \A p \in Paths : fs'[p] \in {fs[p], Absent}
      /\ \A n \in Three : /\ fs'[Bak(n)] = fs[Bak(n)]
                          /\ n # k => fs'[Live(n)] = fs[Live(n)]
      /\ \/ fs'[Live(k)] = fs[Live(k)]
         \/ fs'[Live(k)] = Absent /\ BackedUp(k)
  BY <1>1, <1>2, <1>3
<1>5. \A n \in Three : Kept(n)'
  BY <1>1, <1>2, <1>4 DEF Kept, BackedUp
<1>6. Phases'
  <2>1. \A n \in Three : n < k /\ installedNew[n] => n # 3 /\ BackedUp(n)'
    BY <1>1, <1>2, <1>4 DEF BackedUp
  <2> QED
    BY <1>1, <1>5, <2>1 DEF Phases, Committing, RollingBack
<1> QED
  BY <1>1, <1>4, <1>5, <1>6, UndoKeeps DEF DbInv, DbTypeOK, RollingBack

\* The original is moved back, or stays in the backup.
LEMMA RollbackRestoreKeeps == DbInv /\ RollbackRestore => DbInv'
<1> SUFFICES ASSUME DbInv, RollbackRestore PROVE DbInv'
  OBVIOUS
<1> USE DbAssumption, PathFacts DEF Three
<1>1. /\ pc = "restore" /\ k \in Three
      /\ UNCHANGED <<remote, fetched, movedOriginal, installedNew, was>>
      /\ \/ pc' = "idle" /\ result' = "failed" /\ k' = k
         \/ k # 1 /\ pc' = "rollback" /\ k' = k - 1 /\ UNCHANGED result
  BY DEF RollbackRestore, DbInv, DbTypeOK
<1>2. /\ \A n \in Three : Kept(n)
      /\ \A n \in Three : n < k /\ installedNew[n] => n # 3 /\ BackedUp(n)
  BY <1>1 DEF DbInv, Phases, RollingBack
<1>3. PICK disk \in Restorations : fs' = disk \/ fs' = [disk EXCEPT ![Temp(k)] = Absent]
  BY DEF RollbackRestore, Removals
<1>4. /\ disk \in [Paths -> Contents] /\ disk[Alias] = fs[Alias]
      /\ \A p \in Paths : disk[p] = Absent \/ \E q \in Paths : disk[p] = fs[q]
      /\ \A n \in Three : n # k => disk[Live(n)] = fs[Live(n)] /\ disk[Bak(n)] = fs[Bak(n)]
      /\ disk[Live(k)] \in {was[k], fs[Live(k)]}
      /\ was[k] # Absent => was[k] \in {disk[Live(k)], disk[Bak(k)]}
  BY <1>1, <1>2, Restored
<1>5. /\ fs' \in [Paths -> Contents] /\ fs'[Alias] = fs[Alias]
      /\ \A p \in Paths : fs'[p] \in {disk[p], Absent}
      /\ \A n \in Three : fs'[Live(n)] = disk[Live(n)] /\ fs'[Bak(n)] = disk[Bak(n)]
  <2>1. Absent \in Contents
    BY DEF Contents
  <2> QED
    BY <1>1, <1>3, <1>4, <2>1
<1>6. \A n \in Three : Kept(n)'
  BY <1>1, <1>2, <1>4, <1>5 DEF Kept
<1>7. Phases'
  <2>1. \A n \in Three : n < k /\ installedNew[n] => n # 3 /\ BackedUp(n)'
    BY <1>1, <1>2, <1>4, <1>5 DEF BackedUp
  <2>2. CASE pc' = "rollback"
    <3>1. \A n \in Three : (n < k' \/ n = k') => n < k
      BY <1>1, <2>2
    <3> QED
      BY <1>1, <1>6, <2>1, <2>2, <3>1 DEF Phases, Committing, RollingBack
  <2>3. CASE pc' = "idle"
    BY <2>3 DEF Phases, Committing, RollingBack
  <2> QED
    BY <1>1, <2>2, <2>3
<1> QED
  <2>1. k' \in Three
    BY <1>1
  <2> QED
    BY <1>1, <1>4, <1>5, <1>6, <1>7, <2>1, UndoKeeps DEF DbInv, DbTypeOK, RollingBack

\* Cleaning up and copying the alias leave the live files alone.
LEMMA EndKeeps == DbInv /\ (Cleanup \/ CopyAlias) => DbInv'
<1> SUFFICES ASSUME DbInv, Cleanup \/ CopyAlias PROVE DbInv'
  OBVIOUS
<1> USE DbAssumption, PathFacts DEF Three
<1>1. /\ pc \in {"cleanup", "alias"} /\ k \in Three /\ k' \in Three
      /\ UNCHANGED <<remote, fetched, movedOriginal, installedNew, was>>
      /\ \/ pc' \in {"cleanup", "alias"}
         \/ pc' = "idle" /\ result' = "updated"
  BY DEF Cleanup, CopyAlias, callVars, DbInv, DbTypeOK
<1>2. /\ fs[Live(1)] = fetched /\ fs[Live(2)] = fetched /\ fs[Live(3)] \in {fetched, Torn}
      /\ fs \in [Paths -> Contents]
      /\ \A p \in Paths : fs[p] \in Nat => fs[p] <= fetched
      /\ fetched \in Nat /\ fetched \in 1 .. remote /\ remote \in Nat \ {0}
  BY <1>1 DEF DbInv, DbTypeOK, Phases, Bounded, Contents
<1>3. /\ fs' \in [Paths -> Contents]
      /\ \A n \in Three : fs'[Live(n)] = fs[Live(n)]
      /\ fs'[Alias] \in {fs[Alias], fs[Live(3)], Torn} /\ (pc' # "idle" => fs'[Alias] = fs[Alias])
      /\ \A p \in Paths : fs'[p] \in {fs[p], fs[Live(3)], Torn, Absent}
  <2>1. Absent \in Contents /\ Torn \in Contents
    BY DEF Contents
  <2>2. CASE Cleanup
    <3>1. PICK disk \in {fs, [fs EXCEPT ![Bak(k)] = Absent]} :
            fs' = disk \/ fs' = [disk EXCEPT ![Temp(k)] = Absent]
      BY <2>2 DEF Cleanup, Removals
    <3>2. /\ disk \in [Paths -> Contents] /\ disk[Alias] = fs[Alias]
          /\ \A n \in Three : disk[Live(n)] = fs[Live(n)]
          /\ \A p \in Paths : disk[p] \in {fs[p], Absent}
      BY <1>1, <1>2, <2>1, <3>1
    <3> QED
      BY <1>1, <2>1, <3>1, <3>2
  <2>3. CASE CopyAlias
    <3>1. /\ pc' = "idle"
          /\ \/ fs' = [fs EXCEPT ![Alias] = fs[Live(3)]]
             \/ fs' = [fs EXCEPT ![Alias] = Torn]
             \/ fs' = fs
      BY <2>3 DEF CopyAlias, Manifest
    <3> QED
      BY <1>2, <2>1, <3>1
  <2> QED
    BY <2>2, <2>3
<1>4. DbTypeOK'
  BY <1>1, <1>2, <1>3 DEF DbInv, DbTypeOK, Contents
<1>5. Bounded'
  BY <1>1, <1>2, <1>3 DEF Bounded
<1>6. PacksAhead'
  BY <1>2, <1>3 DEF PacksAhead
<1>7. FoundAhead'
  <2>1. CASE pc' # "idle"
    BY <1>1, <1>3, <2>1 DEF DbInv, FoundAhead
  <2> QED
    BY <2>1 DEF FoundAhead
<1>8. Phases' /\ FailureKeepsFiles' /\ SuccessIsFetched'
  BY <1>1, <1>2, <1>3 DEF Phases, FailureKeepsFiles, SuccessIsFetched, Committing, RollingBack
<1> QED
  BY <1>4, <1>5, <1>6, <1>7, <1>8 DEF DbInv

\* Every step keeps the invariant.
LEMMA StepDbInv == DbInv /\ [Next]_vars => DbInv'
<1> SUFFICES ASSUME DbInv, [Next]_vars PROVE DbInv'
  OBVIOUS
<1>1. remote \in Nat
  BY DEF DbInv, DbTypeOK
<1>2. CASE Publish
  BY <1>1, <1>2, QuietKeeps DEF Publish
<1>3. CASE Crash
  BY <1>1, <1>3, QuietKeeps DEF Crash
<1>4. CASE ApplyUpdate
  BY <1>4, ApplyKeeps
<1>5. CASE Download \/ WriteManifest
  BY <1>5, DownloadKeeps
<1>6. CASE Commit
  BY <1>6, RemoveBackupKeeps, MoveAsideKeeps, InstallKeeps, InstallFailsKeeps,
     RollbackRemoveKeeps, RollbackRestoreKeeps, EndKeeps DEF Commit
<1>7. CASE UNCHANGED vars
  BY <1>1, <1>7, QuietKeeps DEF vars
<1> QED
  BY <1>2, <1>3, <1>4, <1>5, <1>6, <1>7 DEF Next

\* The invariant holds through any number of updates, failures and crashes.
LEMMA DbInvariance == Spec => []DbInv
BY InitDbInv, StepDbInv, PTL DEF Spec

\* A database that the next check takes for the published version is whole:
\* the manifest, or its alias, names a version no newer than either pack.
THEOREM PacksWhole == Spec => []UpToDateIsWhole
<1>1. DbInv => UpToDateIsWhole
  <2> SUFFICES ASSUME DbInv, pc = "idle", ~NeedsUpdate(remote), NEW n \in {1, 2}
               PROVE  fs[Live(n)] = remote
    BY DEF UpToDateIsWhole
  <2>1. /\ fs[Live(n)] # Absent /\ InstalledVersion = remote /\ remote \in Nat \ {0}
        /\ fs[Live(n)] \in Nat /\ fs[Live(n)] <= remote
    BY DbAssumption, PathFacts
    DEF NeedsUpdate, HasInstalledPacks, Exists, DbInv, DbTypeOK, Bounded, Three
  <2>2. PICK m \in {Live(3), Alias} : fs[m] \in Nat /\ fs[m] = remote
    BY <2>1 DEF InstalledVersion, Manifest
  <2> QED
    BY <2>1, <2>2 DEF DbInv, PacksAhead
<1> QED
  BY <1>1, DbInvariance, PTL

\* A failed update leaves every file as it was, or its copy in the backup.
THEOREM FailureKeeps == Spec => []FailureKeepsFiles
<1>1. DbInv => FailureKeepsFiles
  BY DEF DbInv
<1> QED
  BY <1>1, DbInvariance, PTL

\* An update that reports success has replaced both packs.
THEOREM FetchedOnSuccess == Spec => []SuccessIsFetched
<1>1. DbInv => SuccessIsFetched
  BY DEF DbInv
<1> QED
  BY <1>1, DbInvariance, PTL

-----------------------------------------------------------------------------
(* SaveSync                                                                *)

Places == AtRest \cup {"fetch", "wipe", "commitWipe", "remount", "extract", "pack", "send"}

SaveTypes ==
  /\ saved \in Saves /\ view \in Saves /\ archived \in Saves /\ chosen \in Saves
  /\ old \in Saves /\ left \in Saves
  /\ backups \subseteq Saves /\ spc \in Places /\ wiped \in BOOLEAN
  /\ zip \in {"none", "damaged", "whole"}

\* What the steps of a restore rely on: nothing but what the wipe left is in
\* view once it is committed, and what has been extracted is the archive's.
SaveFollows ==
  /\ spc \in AtRest \cup {"fetch", "pack", "send", "remount"} => view = saved
  /\ spc \in {"fetch", "wipe", "commitWipe", "pack", "send"} => ~wiped
  /\ spc = "commitWipe" => view = left
  /\ spc \in {"remount", "extract"} => wiped
  /\ spc = "remount" => view = left
  /\ spc = "extract" =>
       /\ zip \in {"damaged", "whole"}
       /\ \A p \in SavePaths : view[p] \in {left[p]} \cup Written(p)
  /\ spc \in {"wipe", "commitWipe", "remount", "extract"} /\ zip = "whole" => archived = chosen
  /\ spc = "extract" /\ zip = "whole" => \A p \in todo : archived[p] # Nothing
  /\ spc = "extract" /\ zip = "whole" =>
       \A p \in SavePaths \ todo : IsRestored(view, archived, p)

SaveInv == SaveTypes /\ SaveFollows /\ NeverMixed /\ RestoreIsWhole

\* No call has been made.
LEMMA InitSaveInv == SaveInit => SaveInv
<1> SUFFICES ASSUME SaveInit PROVE SaveInv
  OBVIOUS
<1> USE DEF Saves, Versions, Nothing, Cut, EmptySave, AtRest, Places
<1>1. SaveTypes
  <2>1. saved \in Saves
    BY DEF SaveInit
  <2>2. backups \subseteq Saves
    BY DEF SaveInit
  <2> QED
    BY <2>1, <2>2 DEF SaveInit, SaveTypes
<1>2. SaveFollows
  BY DEF SaveInit, SaveFollows
<1>3. NeverMixed /\ RestoreIsWhole
  BY DEF SaveInit, NeverMixed, RestoreIsWhole
<1> QED
  BY <1>1, <1>2, <1>3 DEF SaveInv

\* A save without files is a save.
LEMMA EmptyIsSave == EmptySave \in Saves
BY DEF EmptySave, Saves

\* The steps that leave the save alone and begin or end a transfer.
LEMMA BeginKeeps ==
  ASSUME SaveInv, NEW next \in {"fetch", "pack"}, BeginCall(next), chosen' \in Saves
  PROVE  SaveInv'
<1>1. SaveTypes'
  BY EmptyIsSave DEF BeginCall, SaveInv, SaveTypes, Places
<1>2. SaveFollows'
  BY DEF BeginCall, SaveInv, SaveFollows, AtRest
<1>3. NeverMixed' /\ RestoreIsWhole'
  BY DEF BeginCall, NeverMixed, RestoreIsWhole
<1> QED
  BY <1>1, <1>2, <1>3 DEF SaveInv

\* A call that gives up, or dies, loses what was not committed and no more.
LEMMA FailKeeps ==
  ASSUME SaveInv, spc' \in {"failed", "idle"}, view' = saved,
         UNCHANGED <<saved, backups, chosen, zipVars, historyVars>>
  PROVE  SaveInv'
<1>1. SaveTypes'
  BY DEF SaveInv, SaveTypes, Places, AtRest, zipVars, historyVars
<1>2. SaveFollows'
  BY DEF SaveFollows, AtRest, Places
<1>3. NeverMixed' /\ RestoreIsWhole'
  BY DEF SaveInv, NeverMixed, RestoreIsWhole, zipVars, historyVars, Written, Extracted, IsRestored
<1> QED
  BY <1>1, <1>2, <1>3 DEF SaveInv

\* Every step keeps the invariant.
LEMMA StepSaveInv == SaveInv /\ [SaveSteps]_saveVars => SaveInv'
<1> SUFFICES ASSUME SaveInv, [SaveSteps]_saveVars PROVE SaveInv'
  OBVIOUS
<1>1. CASE StartRestore
  BY <1>1, BeginKeeps, EmptyIsSave DEF StartRestore, SaveInv, SaveTypes
<1>2. CASE Fetch
  <2>1. UNCHANGED <<saved, view, backups, chosen, left, wiped, old>>
    BY <1>2 DEF Fetch, historyVars
  <2>2. spc = "fetch" /\ ~wiped /\ view = saved /\ saved = old
    BY <1>2 DEF Fetch, SaveInv, SaveFollows, NeverMixed
  <2>3. \/ zip' = "whole" /\ archived' = chosen /\ spc' = "wipe"
        \/ zip' = "damaged" /\ spc' \in {"wipe", "failed"} /\ archived' = archived
    BY <1>2 DEF Fetch
  <2>4. SaveTypes'
    BY <2>1, <2>3 DEF SaveInv, SaveTypes, Places, AtRest
  <2>5. SaveFollows'
    BY <2>1, <2>2, <2>3 DEF SaveFollows, AtRest
  <2>6. NeverMixed' /\ RestoreIsWhole'
    BY <2>1, <2>2, <2>3 DEF SaveInv, NeverMixed, RestoreIsWhole
  <2> QED
    BY <2>4, <2>5, <2>6 DEF SaveInv
<1>3. CASE Wipe
  <2>1. /\ spc = "wipe" /\ ~wiped /\ saved = old
        /\ UNCHANGED <<saved, backups, chosen, zip, archived, todo, filesSinceCommit, wiped, old>>
    BY <1>3 DEF Wipe, zipVars, extractVars, historyVars, SaveInv, SaveFollows, NeverMixed
  <2>2. CASE SaveFails /\ UNCHANGED left
    BY <1>3, <2>2, FailKeeps DEF Wipe, SaveFails, historyVars
  <2>3. CASE spc' = "wipe" /\ view' \in Saves /\ UNCHANGED left
    <3>1. SaveTypes'
      BY <2>1, <2>3 DEF SaveInv, SaveTypes
    <3>2. SaveFollows'
      BY <2>1, <2>3 DEF SaveInv, SaveFollows, AtRest
    <3>3. NeverMixed' /\ RestoreIsWhole'
      BY <2>1, <2>3 DEF SaveInv, NeverMixed, RestoreIsWhole
    <3> QED
      BY <3>1, <3>2, <3>3 DEF SaveInv
  <2>4. CASE view \in {EmptySave, saved} /\ spc' = "commitWipe" /\ left' = view /\ UNCHANGED view
    <3>1. SaveTypes'
      BY <2>1, <2>4 DEF SaveInv, SaveTypes, Places
    <3>2. SaveFollows'
      BY <2>1, <2>4 DEF SaveInv, SaveFollows, AtRest
    <3>3. NeverMixed' /\ RestoreIsWhole'
      BY <2>1, <2>4 DEF NeverMixed, RestoreIsWhole
    <3> QED
      BY <3>1, <3>2, <3>3 DEF SaveInv
  <2>5. ASSUME NEW p \in SavePaths, view' = [view EXCEPT ![p] = Nothing], UNCHANGED <<spc, left>>
        PROVE  spc' = "wipe" /\ view' \in Saves /\ UNCHANGED left
    BY <2>1, <2>5 DEF SaveInv, SaveTypes, Saves
  <2> QED
    BY <1>3, <2>2, <2>3, <2>4, <2>5 DEF Wipe
<1>4. CASE CommitWipe
  <2>1. CASE SaveFails /\ UNCHANGED <<saved, wiped>>
    BY <1>4, <2>1, FailKeeps DEF CommitWipe, SaveFails, historyVars
  <2>2. CASE saved' = view /\ wiped' = TRUE /\ spc' = "remount" /\ UNCHANGED view
    <3>1. /\ view' = left /\ saved' = left /\ left \in Saves /\ left \in {EmptySave, old}
          /\ UNCHANGED <<backups, chosen, zip, archived, left, old>>
          /\ zip = "whole" => archived = chosen
      BY <1>4, <2>2 DEF CommitWipe, SaveInv, SaveTypes, SaveFollows, NeverMixed, zipVars
    <3>2. SaveTypes'
      BY <2>2, <3>1 DEF SaveInv, SaveTypes, Places
    <3>3. SaveFollows'
      BY <2>2, <3>1 DEF SaveFollows, AtRest
    <3>4. NeverMixed' /\ RestoreIsWhole'
      BY <2>2, <3>1 DEF NeverMixed, RestoreIsWhole
    <3> QED
      BY <3>2, <3>3, <3>4 DEF SaveInv
  <2> QED
    BY <1>4, <2>1, <2>2 DEF CommitWipe
<1>5. CASE Remount
  <2>1. CASE SaveFails
    BY <1>5, <2>1, FailKeeps DEF Remount, SaveFails
  <2>2. CASE spc' = "extract"
    <3>1. /\ view = left /\ wiped /\ (zip = "whole" => archived = chosen)
          /\ UNCHANGED <<saved, view, backups, chosen, zip, archived, left, wiped, old>>
          /\ zip \in {"damaged", "whole"}
          /\ zip = "whole" => todo' = {p \in SavePaths : archived[p] # Nothing}
      BY <1>5, <2>2 DEF Remount, SaveFails, SaveInv, SaveFollows, zipVars, historyVars
    <3>2. SaveTypes'
      BY <2>2, <3>1 DEF SaveInv, SaveTypes, Places
    <3>3. SaveFollows'
      BY <2>2, <3>1 DEF SaveFollows, AtRest, Written, Extracted, IsRestored
    <3>4. NeverMixed' /\ RestoreIsWhole'
      BY <2>2, <3>1 DEF SaveInv, NeverMixed, RestoreIsWhole, Written, Extracted, IsRestored
    <3> QED
      BY <3>2, <3>3, <3>4 DEF SaveInv
  <2> QED
    BY <1>5, <2>1, <2>2 DEF Remount
<1>6. CASE ExtractFile
  <2>1. PICK p \in todo : /\ \E content \in Written(p) : view' = [view EXCEPT ![p] = content]
                          /\ todo' = todo \ {p}
    BY <1>6 DEF ExtractFile
  <2>2. PICK content \in Written(p) : view' = [view EXCEPT ![p] = content]
    BY <2>1
  <2>3. /\ spc = "extract" /\ UNCHANGED <<spc, backups, chosen, zip, archived, left, wiped, old>>
        /\ wiped /\ (saved' = saved \/ saved' = view')
    BY <1>6 DEF ExtractFile, zipVars, historyVars, SaveInv, SaveFollows
  <2>4. view \in Saves /\ view' \in [SavePaths -> Versions \cup {Nothing}]
    <3>1. p \in SavePaths => content \in Versions \cup {Nothing}
      BY DEF Written, Extracted, SaveInv, SaveTypes, Saves, Versions
    <3>2. view \in [SavePaths -> Versions \cup {Nothing}]
      BY DEF SaveInv, SaveTypes, Saves
    <3> QED
      BY <2>2, <3>1, <3>2 DEF Saves
  <2>5. \A q \in SavePaths : view'[q] \in {left[q]} \cup Written(q)
    BY <2>2, <2>3, <2>4 DEF SaveInv, SaveFollows, Saves
  <2>6. zip = "whole" =>
          \A q \in SavePaths \ todo' : IsRestored(view', archived, q)
    <3> SUFFICES ASSUME zip = "whole", NEW q \in SavePaths \ todo'
                 PROVE  IsRestored(view', archived, q)
      OBVIOUS
    <3>1. CASE q = p
      BY <2>2, <2>3, <2>4, <3>1 DEF Written, Extracted, IsRestored, Saves, SaveInv, SaveFollows
    <3>2. CASE q # p
      BY <2>1, <2>2, <2>3, <2>4, <3>2 DEF IsRestored, SaveInv, SaveFollows, Saves
    <3> QED
      BY <3>1, <3>2
  <2>7. SaveTypes'
    BY <2>3, <2>4 DEF SaveInv, SaveTypes, Saves
  <2>8. SaveFollows'
    <3>1. \A q \in SavePaths : Written(q)' = Written(q)
      BY <2>3 DEF Written, Extracted
    <3>2. zip \in {"damaged", "whole"} /\ (zip = "whole" => archived = chosen)
      BY <2>3 DEF SaveInv, SaveFollows
    <3>3. zip = "whole" => \A q \in todo' : archived[q] # Nothing
      BY <2>1, <2>3 DEF SaveInv, SaveFollows
    <3> QED
      BY <2>3, <2>5, <2>6, <3>1, <3>2, <3>3 DEF SaveFollows, AtRest, IsRestored
  <2>9. NeverMixed' /\ RestoreIsWhole'
    BY <2>3, <2>5 DEF SaveInv, NeverMixed, RestoreIsWhole, Written, Extracted, IsRestored
  <2> QED
    BY <2>7, <2>8, <2>9 DEF SaveInv
<1>7. CASE ExtractFails
  BY <1>7, FailKeeps DEF ExtractFails, SaveFails
<1>8. CASE FinalCommit
  <2>1. /\ spc = "extract" /\ wiped /\ todo = {} /\ zip = "whole" /\ archived = chosen
        /\ saved' = view /\ spc' = "restored" /\ zip' = "none"
        /\ UNCHANGED <<view, backups, chosen, archived, left, wiped, old>>
    BY <1>8 DEF FinalCommit, historyVars, SaveInv, SaveFollows
  <2>2. \A p \in SavePaths : IsRestored(view, archived, p)
    BY <2>1 DEF SaveInv, SaveFollows
  <2>3. SaveTypes'
    BY <2>1 DEF SaveInv, SaveTypes, Places, AtRest
  <2>4. SaveFollows'
    BY <2>1 DEF SaveFollows, AtRest
  <2>5. NeverMixed' /\ RestoreIsWhole'
    BY <2>1, <2>2 DEF SaveInv, SaveTypes, Saves, NeverMixed, RestoreIsWhole, Written, Extracted, IsRestored
  <2> QED
    BY <2>3, <2>4, <2>5 DEF SaveInv
<1>9. CASE StartUpload
  BY <1>9, BeginKeeps, EmptyIsSave DEF StartUpload
<1>10. CASE Pack
  <2>1. /\ spc = "pack" /\ ~wiped /\ view = saved /\ saved = old
        /\ UNCHANGED <<saved, view, backups, left, wiped, old>>
        /\ spc' \in {"send", "failed"} /\ zip' \in {"whole", "damaged"}
        /\ archived' \in Saves /\ chosen' \in Saves
    BY <1>10 DEF Pack, Packed, historyVars, SaveInv, SaveFollows, NeverMixed, SaveTypes
  <2>2. SaveTypes'
    BY <2>1 DEF SaveInv, SaveTypes, Places, AtRest
  <2>3. SaveFollows' /\ NeverMixed' /\ RestoreIsWhole'
    BY <2>1 DEF SaveInv, SaveFollows, NeverMixed, RestoreIsWhole, AtRest
  <2> QED
    BY <2>2, <2>3 DEF SaveInv
<1>11. CASE Send
  <2>1. /\ spc = "send" /\ ~wiped /\ view = saved /\ saved = old
        /\ UNCHANGED <<saved, view, chosen, archived, left, wiped, old>>
        /\ spc' \in {"uploaded", "failed"} /\ zip' \in {"none", zip} /\ backups' \subseteq Saves
    BY <1>11 DEF Send, historyVars, SaveInv, SaveFollows, NeverMixed, SaveTypes
  <2>2. SaveTypes'
    BY <2>1 DEF SaveInv, SaveTypes, Places, AtRest
  <2>3. SaveFollows' /\ NeverMixed' /\ RestoreIsWhole'
    BY <2>1 DEF SaveInv, SaveFollows, NeverMixed, RestoreIsWhole, AtRest
  <2> QED
    BY <2>2, <2>3 DEF SaveInv
<1>12. CASE DeleteBackup
  <2>1. /\ view = saved /\ spc' = "idle" /\ backups' \subseteq Saves
        /\ UNCHANGED <<saved, view, chosen, zip, archived, left, wiped, old>>
    BY <1>12 DEF DeleteBackup, zipVars, SaveInv, SaveFollows, SaveTypes
  <2>2. SaveTypes'
    BY <2>1 DEF SaveInv, SaveTypes, Places, AtRest
  <2>3. SaveFollows' /\ NeverMixed' /\ RestoreIsWhole'
    BY <2>1 DEF SaveInv, SaveFollows, NeverMixed, RestoreIsWhole, AtRest, Written, Extracted, IsRestored
  <2> QED
    BY <2>2, <2>3 DEF SaveInv
<1>13. CASE SaveCrash
  BY <1>13, FailKeeps DEF SaveCrash
<1>14. CASE UNCHANGED saveVars
  <2>1. UNCHANGED <<saved, view, backups, chosen, zip, archived, spc, todo, left, wiped, old>>
    BY <1>14 DEF saveVars, zipVars, extractVars, historyVars
  <2>2. SaveTypes'
    BY <2>1 DEF SaveInv, SaveTypes
  <2>3. SaveFollows'
    BY <2>1 DEF SaveInv, SaveFollows, Written, Extracted, IsRestored
  <2>4. NeverMixed' /\ RestoreIsWhole'
    BY <2>1 DEF SaveInv, NeverMixed, RestoreIsWhole, Written, Extracted, IsRestored
  <2> QED
    BY <2>2, <2>3, <2>4 DEF SaveInv
<1> QED
  BY <1>1, <1>2, <1>3, <1>4, <1>5, <1>6, <1>7, <1>8, <1>9, <1>10, <1>11, <1>12, <1>13, <1>14
  DEF SaveSteps

\* The invariant holds through any number of calls and crashes.
LEMMA SaveInvariance == SaveSpec => []SaveInv
BY InitSaveInv, StepSaveInv, PTL DEF SaveSpec

\* Journaled commits keep the old save and the archive apart; a file of the
\* archive may be cut short if its end could not be flushed.
THEOREM SaveNeverMixed == SaveSpec => []NeverMixed
<1>1. SaveInv => NeverMixed
  BY DEF SaveInv
<1> QED
  BY <1>1, SaveInvariance, PTL

\* A restore that reports success is complete, but for the ends of files that
\* could not be flushed.
THEOREM RestoreComplete == SaveSpec => []RestoreIsWhole
<1>1. SaveInv => RestoreIsWhole
  BY DEF SaveInv
<1> QED
  BY <1>1, SaveInvariance, PTL
==============================================================================
