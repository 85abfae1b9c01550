------------------------ MODULE InstallSession_proofs ------------------------
(***************************************************************************)
(* Proofs about the two kinds of installer over one ContentStorage, for    *)
(* every package and any number of installations.  InstallSession: what a  *)
(* session installs, takes away and takes back.  StreamInstall: what a     *)
(* stream installs, takes away and leaves behind.                          *)
(***************************************************************************)
EXTENDS InstallSession, StreamInstall, TLAPS

\* The points at which the NCA of the current InstallNCA matters.
InCall == pc \in {"leftover", "stream", "register", "unplace", "catch", "catchNca", "track"}

\* Loop positions are in range wherever they are used as such, and an
\* application record is only pushed after its meta record.
LoopsInRange ==
  /\ InCall \/ pc \in {"readMeta", "meta", "app"} => i <= Len(Cnmts)
  /\ pc = "app" => Cnmts[i] \in metaDb
  /\ InCall /\ ret # "track" => nca \in CnmtIds

\* A content NCA goes through InstallNCA, or is tracked, only if it was not
\* registered when the session began.
OwnContents ==
  /\ InCall /\ nca \in ContentIds => nca \notin before.reg
  /\ tracked \cap ContentIds \cap before.reg = {}

\* Every content NCA that is new in this session is tracked, or is the one
\* that InstallNCA has just registered, or could not be deleted.
AllTracked ==
  pc \notin {"idle", "ok"} =>
    registered \subseteq before.reg \cup CnmtIds \cup tracked \cup Undeletable
                 \cup (IF pc \in {"unplace", "track"} THEN {nca} ELSE {})

\* A placeholder that is new could not be deleted, or is about to be.
AllDeleted ==
  pc # "idle" =>
    placeholders \subseteq before.place \cup Undeletable
                   \cup (IF pc \in {"register", "unplace", "catch"} THEN {nca} ELSE {})

IInv ==
  /\ InstallTypeOK /\ LoopsInRange
  /\ ContentsKept /\ OwnContents
  /\ AllTracked /\ AllDeleted
-----------------------------------------------------------------------------
(* The parts of the package                                                *)

\* What a loop position selects is an NCA of the package.
LEMMA CnmtAt == ASSUME NEW k \in 1 .. Len(Cnmts) PROVE Cnmts[k] \in CnmtIds
BY PackageAssumption

\* What the second loop selects is a content NCA.
LEMMA ContentAt ==
  ASSUME NEW k \in 1 .. Len(Cnmts), NEW l \in 1 .. Len(Contents[Cnmts[k]])
  PROVE  Contents[Cnmts[k]][l] \in ContentIds
BY CnmtAt, PackageAssumption

\* The package has a first CNMT.
LEMMA NotEmpty == Len(Cnmts) \in Nat \ {0}
BY PackageAssumption

\* No NCA is both a CNMT and a content of one.
LEMMA Disjoint == CnmtIds \cap ContentIds = {}
BY PackageAssumption

\* The history variable: what it records of a storage.
LEMMA DiskFields ==
  /\ Disk.reg = registered /\ Disk.place = placeholders
  /\ registered \subseteq Ncas /\ placeholders \subseteq Ncas
     /\ metaDb \subseteq CnmtIds /\ appRecs \subseteq CnmtIds
     => Disk \in [reg : SUBSET Ncas, place : SUBSET Ncas, meta : SUBSET CnmtIds, apps : SUBSET CnmtIds]
BY DEF Disk

\* A deletion takes nothing but what it is for, and leaves of that only what
\* cannot be deleted.
LEMMA DeletedIs ==
  ASSUME NEW set, NEW ns, NEW t \in Deleted(set, ns)
  PROVE  t \subseteq set /\ set \ ns \subseteq t /\ t \cap ns \subseteq Undeletable
BY DEF Deleted

-----------------------------------------------------------------------------
(* The invariant                                                           *)

\* It holds before the first session.
LEMMA InitIInv == Init => IInv
<1> SUFFICES ASSUME Init PROVE IInv
  OBVIOUS
<1>1. Cnmts[1] \in CnmtIds /\ 1 <= Len(Cnmts)
  BY CnmtAt, NotEmpty
<1>2. /\ before.reg = registered /\ before.place = placeholders
      /\ before \in [reg : SUBSET Ncas, place : SUBSET Ncas, meta : SUBSET CnmtIds, apps : SUBSET CnmtIds]
  BY DiskFields, PackageAssumption DEF Init, StorageInit, Ncas
<1>3. InstallTypeOK
  <2>1. registered \subseteq Ncas /\ sessions \in 0 .. MaxSessions
    BY PackageAssumption, SessionAssumption DEF Init, StorageInit, SessionInit, Ncas
  <2>2. i \in 1 .. Len(Cnmts) + 1 /\ j \in Nat \ {0}
    BY NotEmpty DEF Init, SessionInit
  <2>3. nca \in Ncas
    BY <1>1 DEF Init, SessionInit, Ncas
  <2> QED
    BY <1>2, <2>1, <2>2, <2>3 DEF Init, StorageInit, SessionInit, InstallTypeOK
<1> QED
  BY <1>2, <1>3
  DEF Init, StorageInit, SessionInit, IInv, InCall, LoopsInRange, ContentsKept, OwnContents,
      AllTracked, AllDeleted

\* Every step keeps it.
LEMMA StepIInv == IInv /\ [Next]_vars => IInv'
<1> SUFFICES ASSUME IInv, [Next]_vars PROVE IInv'
  OBVIOUS
<1> USE NotEmpty DEF IInv, InstallTypeOK, InCall, LoopsInRange, ContentsKept, OwnContents,
         AllTracked, AllDeleted, Ncas, diskVars, callVars, loopVars, pastVars
<1>1. CASE StartSession
  <2>1. before'.reg = registered /\ before'.place = placeholders
        /\ before' \in [reg : SUBSET Ncas, place : SUBSET Ncas, meta : SUBSET CnmtIds, apps : SUBSET CnmtIds]
    BY <1>1, DiskFields DEF StartSession, Opens
  <2>2. sessions' \in 0 .. MaxSessions
    BY <1>1, SessionAssumption DEF StartSession, Opens
  <2>3. InstallTypeOK'
    <3>1. /\ registered' \subseteq Ncas /\ placeholders' \subseteq Ncas
          /\ metaDb' \subseteq CnmtIds /\ appRecs' \subseteq metaDb'
          /\ nca' \in Ncas /\ ret' \in {"read", "readMeta", "track"}
      BY <1>1 DEF StartSession, Opens
    <3>2. cancel' \in BOOLEAN /\ pc' = "read" /\ tracked' \subseteq Ncas
      BY <1>1 DEF StartSession, Opens
    <3>3. i' \in 1 .. Len(Cnmts) + 1 /\ j' \in Nat \ {0}
      BY <1>1 DEF StartSession, Opens
    <3> QED
      BY <2>1, <2>2, <3>1, <3>2, <3>3
  <2>4. ContentsKept' /\ OwnContents' /\ AllTracked' /\ AllDeleted'
    BY <1>1, <2>1 DEF StartSession, Opens
  <2>5. LoopsInRange'
    BY <1>1 DEF StartSession, Opens
  <2> QED
    BY <2>3, <2>4, <2>5
<1>2. CASE UserCancels
  BY <1>2 DEF UserCancels
<1>3. CASE Crash
  BY <1>3 DEF Crash
<1>4. CASE DeleteLeftover
  <2>1. placeholders' \subseteq placeholders
    BY <1>4, DeletedIs DEF DeleteLeftover
  <2> QED
    BY <1>4, <2>1 DEF DeleteLeftover
<1>5. CASE StreamToPlaceholder
  BY <1>5 DEF StreamToPlaceholder
<1>6. CASE Register
  BY <1>6 DEF Register, CanRegister
<1>7. CASE DeletePlaceholder
  <2>1. placeholders' \subseteq placeholders /\ placeholders' \cap {nca} \subseteq Undeletable
    BY <1>7, DeletedIs DEF DeletePlaceholder
  <2> QED
    BY <1>7, <2>1 DEF DeletePlaceholder
<1>8. CASE CatchPlaceholder
  <2>1. placeholders' \subseteq placeholders /\ placeholders' \cap {nca} \subseteq Undeletable
    BY <1>8, DeletedIs DEF CatchPlaceholder
  <2> QED
    BY <1>8, <2>1 DEF CatchPlaceholder
<1>9. CASE CatchNca
  <2>1. /\ registered' \subseteq registered /\ registered \ {nca} \subseteq registered'
        /\ registered' \cap {nca} \subseteq Undeletable
    BY <1>9, DeletedIs DEF CatchNca
  <2> QED
    BY <1>9, <2>1 DEF CatchNca
<1>10. CASE ReadCNMT
  <2>1. CASE i <= Len(Cnmts)
    <3>1. nca' \in CnmtIds /\ nca' \notin ContentIds
      BY <1>10, <2>1, CnmtAt, Disjoint DEF ReadCNMT, Call
    <3> QED
      BY <1>10, <2>1, <3>1 DEF ReadCNMT, Call
  <2>2. CASE ~(i <= Len(Cnmts))
    BY <1>10, <2>2 DEF ReadCNMT
  <2> QED BY <2>1, <2>2
<1>11. CASE ReadMeta
  BY <1>11 DEF ReadMeta
<1>12. CASE PrepareCnmt
  BY <1>12, CnmtAt DEF PrepareCnmt, Call
<1>13. CASE CommitMeta
  BY <1>13, CnmtAt DEF CommitMeta
<1>14. CASE PushAppRecord
  BY <1>14, CnmtAt DEF PushAppRecord
<1>15. CASE InstallTicketCert
  BY <1>15 DEF InstallTicketCert
<1>16. CASE NextCnmt
  BY <1>16 DEF NextCnmt
<1>17. CASE InstallContent
  <2> USE <1>17 DEF InstallContent
  <2>1. /\ pc = "contents" /\ i \in 1 .. Len(Cnmts) /\ j \in 1 .. Len(Contents[Cnmts[i]])
        /\ UNCHANGED <<diskVars, cancel, i, tracked, pastVars>>
    OBVIOUS
  <2>2. Content \in ContentIds
    BY <2>1, ContentAt DEF Content
  <2>3. CASE pc' = "cleanup" /\ UNCHANGED <<callVars, j>>
    BY <2>1, <2>3
  <2>4. CASE ~cancel /\ Content \in registered /\ j' = j + 1 /\ UNCHANGED <<callVars, pc>>
    BY <2>1, <2>4
  <2>5. CASE ~cancel /\ Content \notin registered /\ Call(Content, "track") /\ UNCHANGED j
    BY <2>1, <2>2, <2>5, CnmtAt DEF Call
  <2> QED
    BY <2>3, <2>4, <2>5
<1>18. CASE TrackNca
  BY <1>18 DEF TrackNca
<1>19. CASE Succeed
  BY <1>19 DEF Succeed
<1>20. CASE Cleanup
  BY <1>20 DEF Cleanup
<1>21. CASE DeleteTracked
  <2>1. PICK n \in tracked :
          /\ placeholders' \in Deleted(placeholders, {n})
          /\ registered' \in Deleted(registered, {n})
          /\ tracked' = tracked \ {n}
    BY <1>21 DEF DeleteTracked
  <2>2. /\ placeholders' \subseteq placeholders
        /\ registered' \subseteq registered /\ registered \ {n} \subseteq registered'
        /\ registered' \cap {n} \subseteq Undeletable
    BY <2>1, DeletedIs
  <2>3. pc = "delete" /\ pc' \in {"failed", "delete"}
        /\ UNCHANGED <<metaDb, appRecs, cancel, callVars, loopVars, pastVars>>
    BY <1>21 DEF DeleteTracked
  <2> QED
    BY <2>1, <2>2, <2>3
<1>22. CASE UNCHANGED vars
  BY <1>22 DEF vars, sessionVars
<1> QED
  BY <1>1, <1>2, <1>3, <1>4, <1>5, <1>6, <1>7, <1>8, <1>9, <1>10,
     <1>11, <1>12, <1>13, <1>14, <1>15, <1>16, <1>17, <1>18, <1>19, <1>20, <1>21, <1>22
  DEF Next, SessionSteps, Prepare, Begin, InstallNCA

\* The invariant holds in every reachable state.
LEMMA Invariance == Spec => []IInv
BY InitIInv, StepIInv, PTL DEF Spec

-----------------------------------------------------------------------------
(* What follows from it                                                    *)

\* Type correctness.
THEOREM InstallTypeCorrect == Spec => []InstallTypeOK
<1>1. IInv => InstallTypeOK
  BY DEF IInv
<1> QED
  BY <1>1, Invariance, PTL

\* No session, however it ends, takes away a content NCA that was there.
THEOREM ContentsSurvive == Spec => []ContentsKept
<1>1. IInv => ContentsKept
  BY DEF IInv
<1> QED
  BY <1>1, Invariance, PTL

\* A session that ends leaves no placeholder of its own.
THEOREM PlaceholdersGone == Spec => []NoNewPlaceholder
<1>1. IInv => NoNewPlaceholder
  BY DEF IInv, AllDeleted, NoNewPlaceholder
<1> QED
  BY <1>1, Invariance, PTL

\* A session that fails leaves no content NCA of its own that it can delete,
\* unless the storage does not open for the cleanup.
THEOREM ContentsTakenBack == Spec => []FailureTakesBackContents
<1>1. IInv => FailureTakesBackContents
  BY DEF IInv, AllTracked, FailureTakesBackContents
<1> QED
  BY <1>1, Invariance, PTL

-----------------------------------------------------------------------------
(* A session that succeeds.  On the way to it nothing is taken back: what  *)
(* is registered, recorded and done only grows.                            *)

InTransfer == pc \in {"leftover", "stream", "register", "unplace", "track"}

Reading == pc \in {"read", "readMeta"} \/ (InTransfer /\ ret = "readMeta")
Recording == pc \in {"records", "meta", "app"}
Installing == pc = "contents" \/ (InTransfer /\ ret = "track")

\* The placeholders that can be deleted and are not the one InstallNCA is about
\* to register.
Leftover == placeholders \ (Undeletable \cup (IF pc \in {"register", "unplace"} THEN {nca} ELSE {}))

\* A content the second loop has been through.
Done(c) ==
  /\ c \in registered \cup Unregisterable \cup Empty
  /\ c \in Leftover => c \in before.reg

\* The caller's NCA is the one at its position.
CallHere ==
  /\ InTransfer => ret \in {"readMeta", "track"}
  /\ pc = "track" => ret = "track"
  /\ pc = "readMeta" \/ (InTransfer /\ ret = "readMeta") => nca = Cnmts[i]
  /\ InTransfer /\ ret = "track" =>
       i <= Len(Cnmts) /\ j <= Len(Contents[Cnmts[i]]) /\ nca = Content

\* Prepare reads a CNMT only from the storage, so the loops behind it find
\* every CNMT registered, and never install one.
CnmtsRead ==
  /\ Reading => \A k \in 1 .. i - 1 : Cnmts[k] \in registered \ Leftover
  /\ pc = "readMeta" => nca \notin Leftover
  /\ Recording \/ Installing \/ pc = "ok" => CnmtIds \subseteq registered \ Leftover

RecordsWritten ==
  /\ Recording => \A k \in 1 .. i - 1 : Cnmts[k] \in metaDb \cap appRecs
  /\ pc = "app" => Cnmts[i] \in metaDb
  /\ Installing \/ pc = "ok" => metaDb = CnmtIds /\ appRecs = CnmtIds

ContentsDone ==
  /\ Installing =>
       /\ \A k \in 1 .. i - 1 : \A l \in 1 .. Len(Contents[Cnmts[k]]) : Done(Contents[Cnmts[k]][l])
       /\ i <= Len(Cnmts) => \A l \in 1 .. j - 1 : Done(Contents[Cnmts[i]][l])
  /\ pc \in {"unplace", "track"} => nca \in registered \cup Unregisterable \cup Empty
  /\ pc = "register" => nca \in placeholders \cup Unregisterable \cup Empty
  /\ pc = "track" => nca \notin Leftover
  /\ pc = "ok" => \A c \in ContentIds : Done(c)

\* What a session tracks it has taken out of its placeholder.
TrackedDone == Reading \/ Recording \/ Installing => tracked \cap Leftover = {}

WInv == CallHere /\ CnmtsRead /\ RecordsWritten /\ ContentsDone /\ TrackedDone

\* The loops reach every CNMT and every content.
LEMMA AllReached ==
  /\ \A c \in CnmtIds : \E k \in 1 .. Len(Cnmts) : c = Cnmts[k]
  /\ \A c \in ContentIds : \E k \in 1 .. Len(Cnmts) : \E l \in 1 .. Len(Contents[Cnmts[k]]) :
       c = Contents[Cnmts[k]][l]
<1>1. \A c \in CnmtIds : \E k \in 1 .. Len(Cnmts) : c = Cnmts[k]
  BY PackageAssumption DEF CnmtIds, ToSet
<1>2. ASSUME NEW c \in ContentIds
      PROVE  \E k \in 1 .. Len(Cnmts) : \E l \in 1 .. Len(Contents[Cnmts[k]]) :
               c = Contents[Cnmts[k]][l]
  <2>1. PICK d \in CnmtIds : c \in ToSet(Contents[d])
    BY DEF ContentIds
  <2>2. PICK k \in 1 .. Len(Cnmts) : d = Cnmts[k]
    BY <1>1
  <2>3. Contents[d] \in Seq(ContentIds)
    BY PackageAssumption
  <2>4. PICK l \in 1 .. Len(Contents[d]) : c = Contents[d][l]
    BY <2>1, <2>3 DEF ToSet
  <2> QED
    BY <2>2, <2>4
<1> QED
  BY <1>1, <1>2

\* Every step keeps it.
LEMMA StepWInv == IInv /\ WInv /\ [Next]_vars => WInv'
<1> SUFFICES ASSUME IInv, WInv, [Next]_vars PROVE WInv'
  OBVIOUS
<1> USE NotEmpty DEF WInv, CallHere, CnmtsRead, RecordsWritten, ContentsDone, TrackedDone,
         InTransfer, Reading, Recording, Installing, diskVars, callVars, loopVars, pastVars
<1>0. i \in 1 .. Len(Cnmts) + 1 /\ j \in Nat \ {0} /\ Len(Cnmts) \in Nat
  BY DEF IInv, InstallTypeOK
<1>1. CASE StartSession
  BY <1>1 DEF StartSession
<1>2. CASE UserCancels
  BY <1>2 DEF UserCancels, Done, Leftover, Content
<1>3. CASE Crash
  BY <1>3 DEF Crash
<1>4. CASE DeleteLeftover
  <2>1. placeholders' \subseteq placeholders
    BY <1>4, DeletedIs DEF DeleteLeftover
  <2> QED
    BY <1>4, <2>1 DEF DeleteLeftover, Done, Leftover, Content
<1>5. CASE StreamToPlaceholder
  BY <1>5 DEF StreamToPlaceholder, Done, Leftover, Content
<1>6. CASE Register
  BY <1>6 DEF Register, CanRegister, Done, Leftover, Content
<1>7. CASE DeletePlaceholder
  <2>1. placeholders' \subseteq placeholders /\ placeholders' \cap {nca} \subseteq Undeletable
    BY <1>7, DeletedIs DEF DeletePlaceholder
  <2>2. Leftover' \subseteq Leftover /\ nca \notin Leftover'
    BY <1>7, <2>1 DEF DeletePlaceholder, Leftover
  <2> QED
    BY <1>7, <2>2 DEF DeletePlaceholder, Done, Content
<1>8. CASE CatchPlaceholder
  BY <1>8 DEF CatchPlaceholder
<1>9. CASE CatchNca
  BY <1>9 DEF CatchNca
<1>10. CASE ReadCNMT
  BY <1>0, <1>10, AllReached DEF ReadCNMT, Call, Leftover
<1>11. CASE ReadMeta
  BY <1>0, <1>11 DEF ReadMeta, Leftover
<1>12. CASE PrepareCnmt
  BY <1>0, <1>12, CnmtAt DEF PrepareCnmt, Leftover
<1>13. CASE CommitMeta
  BY <1>13 DEF CommitMeta, Leftover
<1>14. CASE PushAppRecord
  BY <1>0, <1>14 DEF PushAppRecord, Leftover
<1>15. CASE InstallTicketCert
  <2>1. /\ pc = "records" /\ pc' = "contents" /\ i > Len(Cnmts) /\ i' = 1 /\ j' = 1
        /\ UNCHANGED <<diskVars, nca, ret, tracked, before>>
    BY <1>15 DEF InstallTicketCert
  <2>2. \A k \in 1 .. Len(Cnmts) : Cnmts[k] \in metaDb \cap appRecs
    BY <1>0, <2>1
  <2>3. metaDb = CnmtIds /\ appRecs = CnmtIds
    <3>1. metaDb \subseteq CnmtIds /\ appRecs \subseteq metaDb
      BY DEF IInv, InstallTypeOK
    <3>2. CnmtIds \subseteq metaDb \cap appRecs
      BY <2>2, AllReached
    <3> QED
      BY <3>1, <3>2
  <2> QED
    BY <2>1, <2>3 DEF Leftover
<1>16. CASE NextCnmt
  BY <1>0, <1>16 DEF NextCnmt, Done, Leftover
<1>17. CASE InstallContent
  <2> USE <1>17 DEF InstallContent
  <2>1. /\ pc = "contents" /\ i \in 1 .. Len(Cnmts) /\ j \in 1 .. Len(Contents[Cnmts[i]])
        /\ UNCHANGED <<diskVars, cancel, i, tracked, pastVars>>
    BY <1>0
  <2>2. Content \in ContentIds /\ Content \notin CnmtIds
    BY <2>1, ContentAt, Disjoint DEF Content
  <2>3. CASE pc' = "cleanup" /\ UNCHANGED <<callVars, j>>
    BY <2>1, <2>3 DEF Done, Leftover
  <2>4. CASE ~cancel /\ Content \in registered /\ j' = j + 1 /\ UNCHANGED <<callVars, pc>>
    <3>1. j' = j + 1 /\ UNCHANGED <<callVars, pc>> /\ Leftover' = Leftover
      BY <2>1, <2>4 DEF Call, Leftover
    <3>2. Content \in Leftover => Content \in before.reg
      BY <2>1, <2>2, <2>4 DEF Leftover, IInv, AllTracked
    <3>3. Done(Content)
      BY <2>4, <3>2 DEF Done
    <3> QED
      BY <2>1, <3>1, <3>3 DEF Done, Content
  <2>5. CASE ~cancel /\ Content \notin registered /\ Call(Content, "track") /\ UNCHANGED j
    <3>1. pc' = "leftover" /\ nca' = Content /\ ret' = "track" /\ j' = j
          /\ Leftover' = Leftover
      BY <2>1, <2>5 DEF Call, Leftover
    <3>2. Content' = Content /\ \A c : Done(c)' = Done(c)
      BY <2>1, <3>1 DEF Content, Done
    <3> QED
      BY <2>1, <2>2, <3>1, <3>2
  <2> QED
    BY <2>3, <2>4, <2>5
<1>18. CASE TrackNca
  <2> USE <1>18 DEF TrackNca
  <2>1. /\ pc = "track" /\ nca \in registered \cup Unregisterable \cup Empty
        /\ nca \notin Leftover
        /\ tracked' = tracked \cup {nca} /\ UNCHANGED <<diskVars, callVars, i, pastVars>>
    OBVIOUS
  <2>2. CASE nca \in CnmtIds
    BY <1>0, <2>1, <2>2, ContentAt, Disjoint DEF Done, Leftover, Content
  <2>3. CASE nca \notin CnmtIds
    BY <1>0, <2>1, <2>3, ContentAt, Disjoint DEF Done, Leftover, Content
  <2> QED
    BY <2>2, <2>3
<1>19. CASE Succeed
  BY <1>0, <1>19, AllReached DEF Succeed, Done, Leftover
<1>20. CASE Cleanup
  BY <1>20 DEF Cleanup
<1>21. CASE DeleteTracked
  BY <1>21 DEF DeleteTracked
<1>22. CASE UNCHANGED vars
  BY <1>22 DEF vars, sessionVars, Done, Leftover, Content
<1> QED
  BY <1>1, <1>2, <1>3, <1>4, <1>5, <1>6, <1>7, <1>8, <1>9, <1>10,
     <1>11, <1>12, <1>13, <1>14, <1>15, <1>16, <1>17, <1>18, <1>19, <1>20, <1>21, <1>22
  DEF Next, SessionSteps, Prepare, Begin, InstallNCA

\* A session that reports success leaves a whole title.
THEOREM SessionSuccess == Spec => []SuccessIsInstalled
<1>1. Init => WInv
  BY DEF Init, StorageInit, SessionInit, WInv, CallHere, CnmtsRead, RecordsWritten, ContentsDone,
         TrackedDone, InTransfer, Reading, Recording, Installing
<1>2. IInv /\ WInv => SuccessIsInstalled
  <2> SUFFICES ASSUME IInv, WInv, pc = "ok" PROVE SuccessIsInstalled
    BY DEF SuccessIsInstalled
  <2>1. CnmtIds \subseteq registered \ (placeholders \ Undeletable)
        /\ metaDb = CnmtIds /\ appRecs = CnmtIds
    BY DEF WInv, CnmtsRead, RecordsWritten, Leftover
  <2>2. \A c \in ContentIds : c \in registered \cup Unregisterable \cup Empty
                              /\ (c \in placeholders \ Undeletable => c \in before.reg)
    BY DEF WInv, ContentsDone, Done, Leftover
  <2>3. placeholders \ Undeletable \subseteq before.place /\ placeholders \subseteq CnmtIds \cup ContentIds
    BY DEF IInv, AllDeleted, InstallTypeOK, Ncas
  <2> QED
    BY <2>1, <2>2, <2>3 DEF SuccessIsInstalled, Ncas
<1> QED
  BY <1>1, <1>2, InitIInv, Invariance, StepWInv, PTL DEF Spec

-----------------------------------------------------------------------------
(* StreamInstall                                                           *)

Active == tpc # "idle"

StreamTypes ==
  /\ kind \in Kinds /\ verdict \in BOOLEAN
  /\ tpc \in {"idle", "start", "create", "write", "register", "commit", "tickets", "records",
              "ok", "failed"}
  /\ entry \in 1 .. Len(Archive) + 1
  /\ metas \in Seq(CnmtIds) /\ committed \in 0 .. Len(metas)

\* An entry is handled only while there is one, and an XCI gets to its
\* tickets only when it has been through all of them.
EntryInRange ==
  /\ tpc \in {"create", "write", "register", "commit"} => ~AllArrived
  /\ tpc = "commit" => Entry \in CnmtIds
  /\ tpc \in {"tickets", "records", "ok"} => kind = "mtpNsp" \/ AllArrived

\* Only the current entry has a storage, and the blank ones before it.
OneStorage ==
  holding \subseteq (Blank \cap Arrived)
                   \cup (IF tpc = "start" \/ AllArrived THEN {} ELSE {Entry})

\* What is registered is what was there and what has arrived.
NewlyRegistered ==
  Active =>
    /\ registered \subseteq before.reg \cup Arrived \cup (IF tpc = "commit" THEN {Entry} ELSE {})
    /\ Arrived \ (Blank \cup Unregisterable) \subseteq registered
    /\ tpc \in {"write", "register"} => Entry \in placeholders \cup Blank \cup Unregisterable
    /\ tpc = "commit" => Entry \in registered \cup Blank \cup Unregisterable

\* A placeholder is old, could not be registered, or is the current entry's.
NewPlaceholders ==
  Active =>
    placeholders \subseteq before.place \cup before.reg \cup Unregisterable
      \cup (IF AllArrived \/ tpc \in {"start", "create", "commit"} THEN {} ELSE {Entry})

\* CommitAll leaves no record out.
CommittedRecords ==
  /\ \A k \in 1 .. committed : metas[k] \in metaDb \cap appRecs
  /\ tpc = "ok" => committed = Len(metas)

SInv ==
  /\ StreamTypes /\ EntryInRange /\ OneStorage
  /\ StreamKeepsInstalled /\ NewlyRegistered /\ NewPlaceholders /\ CommittedRecords
-----------------------------------------------------------------------------
(* The archive                                                             *)

\* Its entries are the package's NCAs.
LEMMA EntryAt ==
  /\ Len(Archive) \in Nat
  /\ \A k \in 1 .. Len(Archive) : Archive[k] \in Ncas
  /\ \A k, l \in 1 .. Len(Archive) : Archive[k] = Archive[l] => k = l
<1>1. Archive \in Seq(Ncas) /\ IsInjective(Archive)
  BY StreamAssumption
<1>2. \A k, l \in DOMAIN Archive : Archive[k] = Archive[l] => k = l
  BY <1>1 DEF IsInjective
<1> QED
  BY <1>1, <1>2

\* The current entry has not arrived before, and is the next that will have.
LEMMA NextArrived ==
  ASSUME StreamTypes, ~AllArrived
  PROVE  /\ entry + 1 \in 1 .. Len(Archive) + 1
         /\ Entry \notin Arrived
         /\ {Archive[k] : k \in 1 .. (entry + 1) - 1} = Arrived \cup {Entry}
<1>1. entry \in 1 .. Len(Archive)
  BY EntryAt DEF StreamTypes, AllArrived
<1>2. 1 .. (entry + 1) - 1 = (1 .. entry - 1) \cup {entry}
  BY <1>1
<1>3. Entry \notin Arrived
  BY <1>1, EntryAt DEF Arrived, Entry
<1>4. {Archive[k] : k \in 1 .. (entry + 1) - 1} = Arrived \cup {Entry}
  BY <1>2 DEF Arrived, Entry
<1> QED
  BY <1>1, <1>3, <1>4, EntryAt

\* The cleanup finds no entry but blank ones.
LEMMA CleanableIsBlank ==
  ASSUME StreamTypes, OneStorage
  PROVE  Cleanable \subseteq Blank \cap Arrived
<1>1. CASE ~AllArrived
  <2>1. Entry \notin Arrived
    BY <1>1, NextArrived
  <2> QED
    BY <1>1, <2>1 DEF OneStorage, Cleanable
<1>2. CASE AllArrived
  BY <1>2 DEF OneStorage, Cleanable
<1> QED
  BY <1>1, <1>2

\* It takes away no more than these, and the current entry's placeholder may be
\* left.
LEMMA CleanupTakes ==
  ASSUME StreamTypes, OneStorage, CleansUp
  PROVE  /\ kind = "remoteXci" /\ tpc' = "failed"
         /\ registered' \subseteq registered
         /\ registered \ (Blank \cap Arrived) \subseteq registered'
         /\ placeholders' \subseteq placeholders
              \cup (IF tpc = "create" /\ Entry \notin Blank THEN {Entry} ELSE {})
         /\ metaDb' = metaDb /\ appRecs' = appRecs
<1>1. Cleanable \subseteq Blank \cap Arrived
  BY CleanableIsBlank
<1>2. registered' \subseteq registered /\ registered \ Cleanable \subseteq registered'
  BY DeletedIs DEF CleansUp
<1>3. PICK set \in Deleted(placeholders, Cleanable) : placeholders' \in LeftBy(set)
  BY DEF CleansUp
<1>4. set \subseteq placeholders
  BY <1>3, DeletedIs
<1> QED
  BY <1>1, <1>2, <1>3, <1>4 DEF CleansUp, LeftBy

\* The fields of the history variable.
LEMMA BeforeFields == Disk.reg = registered /\ Disk.place = placeholders
BY DEF Disk
-----------------------------------------------------------------------------
(* The invariant                                                           *)

\* It holds before the first stream.
LEMMA InitSInv == StorageInit /\ StreamInit => SInv
<1> SUFFICES ASSUME StorageInit, StreamInit PROVE SInv
  OBVIOUS
<1>1. StreamTypes
  BY EntryAt DEF StreamInit, StreamTypes, Kinds
<1> QED
  BY <1>1 DEF StreamInit, SInv, EntryInRange, OneStorage, StreamKeepsInstalled,
              NewlyRegistered, NewPlaceholders, CommittedRecords, Active

\* Every step keeps it.
LEMMA StepSInv == SInv /\ [StreamNext]_streamAll => SInv'
<1> SUFFICES ASSUME SInv, [StreamNext]_streamAll PROVE SInv'
  OBVIOUS
<1> USE EntryAt DEF SInv, diskVars, progress, streamVars
<1>1. ASSUME NEW k \in Kinds, StreamStart(k) PROVE SInv'
  <2>1. before'.reg = registered /\ before'.place = placeholders
    BY <1>1, BeforeFields DEF StreamStart, Opens
  <2>2. StreamTypes' /\ EntryInRange' /\ OneStorage' /\ CommittedRecords'
    BY <1>1 DEF StreamStart, StreamTypes, EntryInRange, OneStorage, CommittedRecords,
                AllArrived, Kinds
  <2>3. StreamKeepsInstalled' /\ NewlyRegistered' /\ NewPlaceholders'
    BY <1>1, <2>1 DEF StreamStart, StreamKeepsInstalled, NewlyRegistered, NewPlaceholders,
                      Arrived, Active
  <2> QED
    BY <2>2, <2>3
<1> USE DEF StreamTypes, EntryInRange, OneStorage, StreamKeepsInstalled, NewlyRegistered,
            NewPlaceholders, CommittedRecords, Active, Arrived, AllArrived, Entry
<1>2. CASE UserStops
  BY <1>2 DEF UserStops
<1>3. CASE StreamCrash
  BY <1>3 DEF StreamCrash
\* What only ends the stream, with the cleanup and without.
<1>4. ASSUME CleansUp, tpc \in {"start", "create", "write", "tickets"},
             UNCHANGED <<cancel, before, kind, progress>>
      PROVE  SInv'
  <2>1. /\ kind = "remoteXci" /\ tpc' = "failed"
        /\ registered' \subseteq registered
        /\ registered \ (Blank \cap Arrived) \subseteq registered'
        /\ placeholders' \subseteq placeholders
             \cup (IF tpc = "create" /\ Entry \notin Blank THEN {Entry} ELSE {})
        /\ metaDb' = metaDb /\ appRecs' = appRecs
    BY <1>4, CleanupTakes
  <2>2. StreamTypes' /\ EntryInRange' /\ OneStorage' /\ CommittedRecords'
    BY <1>4, <2>1
  <2>3. StreamKeepsInstalled' /\ NewlyRegistered' /\ NewPlaceholders'
    <3>1. /\ tpc # "commit" /\ before.reg \subseteq registered
          /\ registered \subseteq before.reg \cup Arrived
          /\ Arrived \ (Blank \cup Unregisterable) \subseteq registered
      BY <1>4
    <3>2. /\ placeholders \subseteq before.place \cup before.reg \cup Unregisterable
                  \cup (IF AllArrived THEN {} ELSE {Entry})
          /\ tpc = "create" => ~AllArrived
      BY <1>4
    <3>3. Arrived' = Arrived /\ Entry' = Entry /\ AllArrived' = AllArrived
          /\ cancel' = cancel /\ before' = before /\ kind' = kind
      BY <1>4
    <3> HIDE DEF Arrived, Entry, AllArrived
    <3> QED
      BY <2>1, <3>1, <3>2, <3>3
  <2> QED
    BY <2>2, <2>3
<1>5. ASSUME placeholders' \in LeftBy(placeholders), tpc' \in {"failed", "tickets"},
             tpc' = "tickets" => kind = "mtpNsp", tpc \in {"start", "create", "write", "tickets"},
             UNCHANGED <<registered, metaDb, appRecs, cancel, before, kind, progress>>
      PROVE  SInv'
  <2>1. placeholders' \subseteq placeholders
             \cup (IF tpc = "create" /\ Entry \notin Blank THEN {Entry} ELSE {})
    BY <1>5 DEF LeftBy
  <2>2. StreamTypes' /\ EntryInRange' /\ OneStorage' /\ CommittedRecords'
    BY <1>5
  <2>3. StreamKeepsInstalled' /\ NewlyRegistered' /\ NewPlaceholders'
    <3>1. /\ tpc # "commit" /\ before.reg \subseteq registered
          /\ registered \subseteq before.reg \cup Arrived
          /\ Arrived \ (Blank \cup Unregisterable) \subseteq registered
      BY <1>5
    <3>2. /\ placeholders \subseteq before.place \cup before.reg \cup Unregisterable
                  \cup (IF AllArrived THEN {} ELSE {Entry})
          /\ tpc = "create" => ~AllArrived
      BY <1>5
    <3>3. Arrived' = Arrived /\ Entry' = Entry /\ AllArrived' = AllArrived
          /\ cancel' = cancel /\ before' = before /\ kind' = kind /\ registered' = registered
      BY <1>5
    <3> HIDE DEF Arrived, Entry, AllArrived
    <3> QED
      BY <1>5, <2>1, <3>1, <3>2, <3>3
  <2> QED
    BY <2>2, <2>3
<1>6. CASE StartEntry
  <2>1. CASE CancelIsSeen /\ UNCHANGED holding
    BY <1>4, <1>6, <2>1 DEF StartEntry, CancelIsSeen
  <2>2. CASE kind = "remoteXci" /\ Fails /\ UNCHANGED holding
    BY <1>5, <1>6, <2>2 DEF StartEntry, Fails
  <2>3. CASE /\ placeholders' \in Deleted(placeholders, {Entry}) /\ tpc' = "create"
             /\ holding' = holding \cup {Entry}
             /\ UNCHANGED <<registered, metaDb, appRecs>>
    <3>1. placeholders' \subseteq placeholders
      BY <2>3, DeletedIs
    <3>2. tpc = "start" /\ ~AllArrived
          /\ UNCHANGED <<cancel, before, kind, entry, metas, committed, verdict>>
      BY <1>6 DEF StartEntry
    <3> QED
      BY <2>3, <3>1, <3>2
  <2> QED
    BY <1>6, <2>1, <2>2, <2>3 DEF StartEntry
<1>7. CASE SkipEntry
  <2>1. /\ entry + 1 \in 1 .. Len(Archive) + 1
        /\ {Archive[k] : k \in 1 .. (entry + 1) - 1} = Arrived \cup {Entry}
    BY <1>7, NextArrived DEF SkipEntry
  <2>2. /\ tpc \in {"start", "create"} /\ tpc' = "start" /\ entry' = entry + 1
        /\ Arrived' = Arrived \cup {Entry} /\ Entry \in Blank
        /\ UNCHANGED <<diskVars, holding, cancel, before, kind, metas, committed, verdict>>
    BY <1>7, <2>1 DEF SkipEntry
  <2>3. StreamTypes' /\ EntryInRange' /\ CommittedRecords'
    BY <2>1, <2>2
  <2>4. OneStorage' /\ StreamKeepsInstalled' /\ NewlyRegistered' /\ NewPlaceholders'
    <3>1. /\ before.reg \subseteq registered
          /\ registered \subseteq before.reg \cup Arrived
          /\ Arrived \ (Blank \cup Unregisterable) \subseteq registered
          /\ placeholders \subseteq before.place \cup before.reg \cup Unregisterable
          /\ holding \subseteq (Blank \cap Arrived) \cup {Entry}
      BY <2>2
    <3> HIDE DEF Arrived, Entry, AllArrived
    <3> QED
      BY <2>2, <3>1
  <2> QED
    BY <2>3, <2>4
<1>8. CASE CreateEntry
  <2>1. /\ tpc = "create" /\ tpc' \in {"write", "register"}
        /\ \/ placeholders' = placeholders \cup {Entry}
           \/ placeholders' = placeholders /\ Entry \in Blank \cup Unregisterable
        /\ UNCHANGED <<registered, metaDb, appRecs, cancel, before, kind, progress>>
    BY <1>8 DEF CreateEntry, Blank
  <2>2. StreamTypes' /\ EntryInRange' /\ OneStorage' /\ CommittedRecords'
    BY <2>1
  <2>3. StreamKeepsInstalled' /\ NewlyRegistered' /\ NewPlaceholders'
    BY <2>1
  <2> QED
    BY <2>2, <2>3
<1>9. CASE WriteEntry
  BY <1>9 DEF WriteEntry
<1>10. CASE BreakOff
  <2>1. CASE InData /\ CleansUp
    BY <1>4, <1>10, <2>1 DEF BreakOff, InData
  <2>2. CASE InData /\ kind # "mtpNsp" /\ Fails
    BY <1>5, <1>10, <2>2 DEF BreakOff, Fails, InData
  <2>3. CASE /\ kind = "mtpNsp" /\ ~AllArrived /\ (tpc = "start" \/ InData)
             /\ tpc' = "tickets" /\ placeholders' \in LeftBy(placeholders)
             /\ UNCHANGED <<registered, metaDb, appRecs>>
    BY <1>5, <1>10, <2>3 DEF BreakOff, InData
  <2> QED
    BY <1>10, <2>1, <2>2, <2>3 DEF BreakOff
<1>11. CASE RegisterEntry
  <2>1. /\ entry + 1 \in 1 .. Len(Archive) + 1 /\ Entry \notin Arrived
        /\ {Archive[k] : k \in 1 .. (entry + 1) - 1} = Arrived \cup {Entry}
    BY <1>11, NextArrived DEF RegisterEntry
  <2>2. \/ tpc' = "commit" /\ entry' = entry /\ Arrived' = Arrived /\ holding' = holding
        \/ /\ tpc' = "start" /\ entry' = entry + 1 /\ Arrived' = Arrived \cup {Entry}
           /\ holding' = holding \ {Entry}
    BY <1>11, <2>1 DEF RegisterEntry, Complete
  <2>3. /\ tpc = "register" /\ before.reg \subseteq registered
        /\ registered \subseteq before.reg \cup Arrived
        /\ Arrived \ (Blank \cup Unregisterable) \subseteq registered
        /\ placeholders \subseteq before.place \cup before.reg \cup Unregisterable \cup {Entry}
        /\ Entry \in placeholders \cup Blank \cup Unregisterable
        /\ holding \subseteq (Blank \cap Arrived) \cup {Entry}
    BY <1>11 DEF RegisterEntry
  <2>4. \/ registered' = registered \cup {Entry} /\ placeholders' = placeholders \ {Entry}
        \/ /\ Entry \notin placeholders \ (registered \cup Unregisterable)
           /\ registered' = registered /\ placeholders' = placeholders
    BY <1>11 DEF RegisterEntry, CanRegister
  <2>5. UNCHANGED <<cancel, before, metas, committed, kind, verdict, metaDb, appRecs>>
    BY <1>11 DEF RegisterEntry
  <2>6. StreamTypes' /\ EntryInRange' /\ CommittedRecords'
    BY <1>11, <2>1, <2>2, <2>5 DEF RegisterEntry
  <2>7. OneStorage' /\ StreamKeepsInstalled' /\ NewlyRegistered' /\ NewPlaceholders'
    <3>1. Entry' = Entry \/ tpc' = "start"
      BY <2>2
    <3>2. placeholders' \subseteq before.place \cup before.reg \cup Unregisterable
      BY <2>1, <2>3, <2>4
    <3>3. /\ before.reg \subseteq registered'
          /\ registered' \subseteq before.reg \cup Arrived \cup {Entry}
          /\ Arrived \ (Blank \cup Unregisterable) \subseteq registered'
          /\ Entry \in registered' \cup Blank \cup Unregisterable
      BY <2>3, <2>4
    <3>4. tpc' = "commit" => ~AllArrived'
      BY <2>6
    <3> HIDE DEF Arrived, Entry, AllArrived
    <3> QED
      BY <2>2, <2>3, <2>5, <3>1, <3>2, <3>3, <3>4
  <2> QED
    BY <2>6, <2>7
<1>12. CASE CommitCnmt
  <2>1. /\ entry + 1 \in 1 .. Len(Archive) + 1
        /\ {Archive[k] : k \in 1 .. (entry + 1) - 1} = Arrived \cup {Entry}
    BY <1>12, NextArrived DEF CommitCnmt
  <2>2. /\ tpc' = "start" /\ entry' = entry + 1 /\ Arrived' = Arrived \cup {Entry}
        /\ holding' = holding \ {Entry} /\ UNCHANGED <<cancel, kind>>
        /\ registered' = registered /\ placeholders' = placeholders /\ before' = before
    BY <1>12, <2>1 DEF CommitCnmt, Complete
  <2>3. OneStorage' /\ StreamKeepsInstalled' /\ NewlyRegistered' /\ NewPlaceholders'
    <3>1. /\ before.reg \subseteq registered
          /\ registered \subseteq before.reg \cup Arrived \cup {Entry}
          /\ Arrived \ (Blank \cup Unregisterable) \subseteq registered
          /\ Entry \in registered \cup Blank \cup Unregisterable
          /\ placeholders \subseteq before.place \cup before.reg \cup Unregisterable
          /\ holding \subseteq (Blank \cap Arrived) \cup {Entry}
      BY <1>12 DEF CommitCnmt
    <3> HIDE DEF Arrived, Entry, AllArrived
    <3> QED
      BY <2>2, <3>1
  <2>4. metaDb \subseteq metaDb' /\ appRecs \subseteq appRecs'
    BY <1>12 DEF CommitCnmt, Records, Throws
  <2>5. /\ metas' \in Seq(CnmtIds) /\ committed \in 0 .. Len(metas')
        /\ \A k \in 1 .. committed : metas'[k] = metas[k]
    <3>1. tpc = "commit" /\ Entry \in CnmtIds /\ metas \in Seq(CnmtIds)
      BY <1>12 DEF CommitCnmt
    <3>2. metas' = metas \/ metas' = Append(metas, Entry)
      BY <1>12 DEF CommitCnmt
    <3> HIDE DEF Entry, SInv
    <3>3. CASE metas' = metas
      BY <3>1, <3>3 DEF SInv
    <3>4. CASE metas' = Append(metas, Entry)
      BY <3>1, <3>4 DEF SInv
    <3> QED
      BY <3>2, <3>3, <3>4
  <2>6. StreamTypes' /\ EntryInRange' /\ CommittedRecords'
    BY <1>12, <2>1, <2>2, <2>4, <2>5 DEF CommitCnmt
  <2> QED
    BY <2>3, <2>6
<1>13. CASE LastEntry
  BY <1>13 DEF LastEntry
<1>14. CASE ImportTickets
  <2>1. CASE CancelIsSeen /\ UNCHANGED verdict
    BY <1>4, <1>14, <2>1 DEF ImportTickets, CancelIsSeen
  <2>2. CASE kind # "mtpNsp" /\ Fails /\ UNCHANGED verdict
    BY <1>5, <1>14, <2>2 DEF ImportTickets, Fails
  <2>3. CASE tpc' = "records" /\ verdict' \in BOOLEAN /\ UNCHANGED diskVars
    BY <1>14, <2>3 DEF ImportTickets
  <2> QED
    BY <1>14, <2>1, <2>2, <2>3 DEF ImportTickets
<1>15. CASE CommitAll
  <2>1. metaDb \subseteq metaDb' /\ appRecs \subseteq appRecs'
    BY <1>15 DEF CommitAll, Records, Throws
  <2>2. CommittedRecords'
    BY <1>15, <2>1 DEF CommitAll, Records, Throws
  <2>3. StreamTypes' /\ EntryInRange' /\ OneStorage' /\ StreamKeepsInstalled'
        /\ NewlyRegistered' /\ NewPlaceholders'
    BY <1>15 DEF CommitAll
  <2> QED
    BY <2>2, <2>3
<1>16. CASE StreamEnds
  BY <1>16 DEF StreamEnds
<1>17. CASE UNCHANGED streamAll
  BY <1>17 DEF streamAll
<1> QED
  BY <1>1, <1>2, <1>3, <1>6, <1>7, <1>8, <1>9, <1>10, <1>11, <1>12, <1>13, <1>14, <1>15,
     <1>16, <1>17
  DEF StreamNext, StreamSteps

\* The invariant holds in every reachable state.
LEMMA StreamInvariance == StreamSpec => []SInv
BY InitSInv, StepSInv, PTL DEF StreamSpec
-----------------------------------------------------------------------------
(* What follows from it                                                    *)

\* A stream that succeeds has the records of every CNMT it read and the NCAs
\* that arrived; an XCI's have all arrived.
THEOREM StreamSuccess == StreamSpec => []StreamSuccessIsWhole
<1>1. SInv => StreamSuccessIsWhole
  <2> SUFFICES ASSUME SInv, tpc = "ok" PROVE StreamSuccessIsWhole
    BY DEF StreamSuccessIsWhole
  <2>1. ToSet(metas) = {metas[k] : k \in 1 .. Len(metas)}
    BY DEF SInv, StreamTypes, ToSet
  <2>2. ToSet(metas) \subseteq metaDb \cap appRecs
    BY <2>1 DEF SInv, CommittedRecords
  <2> QED
    BY <2>2 DEF SInv, NewlyRegistered, Arrived, Active, EntryInRange, StreamSuccessIsWhole
<1> QED
  BY <1>1, StreamInvariance, PTL

\* A stream takes away what was installed before it began in one case only:
\* the cleanup of a remote XCI that fails, and of that only blank entries.
THEOREM StreamTakesNothing == StreamSpec => []StreamKeepsInstalled
<1>1. SInv => StreamKeepsInstalled
  BY DEF SInv
<1> QED
  BY <1>1, StreamInvariance, PTL

\* The placeholders a stream leaves behind are accounted for.
THEOREM StreamPlaceholders == StreamSpec => []StreamLeftovers
<1>1. SInv => StreamLeftovers
  BY DEF SInv, NewPlaceholders, Active, StreamLeftovers
<1> QED
  BY <1>1, StreamInvariance, PTL
=============================================================================
