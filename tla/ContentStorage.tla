--------------------------- MODULE ContentStorage ---------------------------
(***************************************************************************)
(* What every installer works on: NCM's content storage and content meta   *)
(* database, NS's application records (source/nx/ncm.cpp, install.cpp),    *)
(* and the cancel flag of the install page.  InstallSession and            *)
(* StreamInstall extend this module and run, in turn, over one storage.    *)
(***************************************************************************)
EXTENDS Naturals, Sequences, SequencesExt

CONSTANTS
  Cnmts,          \* the package's CNMT NCAs, in directory order
  Contents,       \* CNMT -> sequence of the content NCAs it lists
  Preinstalled,   \* NCAs that another title brought before
  Empty,          \* NCAs the package has an entry of size zero for
  Unregisterable, \* NCAs for which Register fails (one shorter than a header, say)
  Undeletable     \* NCAs for which DeletePlaceholder and Delete may fail

CnmtIds == ToSet(Cnmts)
ContentIds == UNION {ToSet(Contents[c]) : c \in CnmtIds}
Ncas == CnmtIds \cup ContentIds

ASSUME PackageAssumption ==
  /\ Cnmts \in Seq(CnmtIds) /\ Cnmts # <<>> /\ IsInjective(Cnmts)
  /\ \A c \in CnmtIds : Contents[c] \in Seq(ContentIds)
  /\ CnmtIds \cap ContentIds = {}
  /\ Preinstalled \subseteq ContentIds
  /\ Empty \subseteq Ncas /\ Unregisterable \subseteq Ncas /\ Undeletable \subseteq Ncas

VARIABLES
  registered,    \* NCM content storage: registered NCAs
  placeholders,  \* NCM content storage: placeholders, named after their NCA
  metaDb,        \* CNMTs with a record in NCM's content meta database
  appRecs,       \* CNMTs pushed into NS's application records
  cancel,        \* g_installCancelRequested
  before         \* history: the storage when the latest installation began

diskVars == <<registered, placeholders, metaDb, appRecs>>

Disk == [reg |-> registered, place |-> placeholders, meta |-> metaDb, apps |-> appRecs]

StorageInit ==
  /\ registered = Preinstalled /\ placeholders = {} /\ metaDb = {} /\ appRecs = {}
  /\ cancel = FALSE /\ before = Disk

\* An install page is loaded: its flag is cleared, an installation begins.
Opens == cancel' = FALSE /\ before' = Disk

\* Register moves a placeholder; it fails without one, on an NCA that is there
\* already, or for a reason of its own.
CanRegister(n) == n \in placeholders \ (registered \cup Unregisterable)

\* What may be left of a set of NCAs after those of ns are deleted.  Every
\* caller of DeletePlaceholder and Delete swallows their failures.
Deleted(set, ns) == {set \ gone : gone \in {g \in SUBSET ns : ns \ Undeletable \subseteq g}}
=============================================================================
