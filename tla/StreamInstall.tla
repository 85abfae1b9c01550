---------------------------- MODULE StreamInstall ----------------------------
(***************************************************************************)
(* The installers that write an archive's entries as they arrive, in file  *)
(* order, and never look at a table of contents: InstallXciHttpStream      *)
(* (source/remoteInstall.cpp), MtpXciStreamPull and MtpNspStream           *)
(* (source/mtp_install.cpp), with their StreamInstallHelper.  The threads  *)
(* and buffers of the MTP ones are in MtpStream; here is what a stream     *)
(* does to the storage.                                                    *)
(***************************************************************************)
EXTENDS ContentStorage

CONSTANTS
  Archive,       \* the package's NCAs by their offset in the archive
  Tickets,       \* NCAs it only has a ticket or certificate named after: "<id>.nca.tik"
  MaxStreams     \* bound: how many streams are run

ASSUME StreamAssumption ==
  /\ Archive \in Seq(Ncas) /\ ToSet(Archive) = Ncas /\ IsInjective(Archive)
  /\ Tickets \subseteq Ncas /\ MaxStreams \in Nat

VARIABLES
  kind,          \* the installer: "remoteXci", "mtpXci" or "mtpNsp"
  tpc,           \* where the stream is
  entry,         \* the entry being written, counted from 1
  holding,       \* entries whose EntryState has a storage
  metas,         \* m_contentMeta of the helper
  committed,     \* how many of them CommitAll has been through
  verdict,       \* MtpNspStream::Finalize's ok
  streams        \* bound: streams begun

Kinds == {"remoteXci", "mtpXci", "mtpNsp"}
progress == <<entry, holding, metas, committed, verdict>>
streamVars == <<kind, tpc, progress, streams>>
streamAll == <<diskVars, cancel, before, streamVars>>

StreamInit ==
  /\ kind = "remoteXci" /\ tpc = "idle" /\ entry = 1 /\ holding = {}
  /\ metas = <<>> /\ committed = 0 /\ verdict = TRUE /\ streams = 0

Entry == Archive[entry]
AllArrived == entry > Len(Archive)

\* The table of entries: a complete one enters it.
Arrived == {Archive[k] : k \in 1 .. entry - 1}

\* Entries that count as NCAs and bring none.
Blank == Empty \cup Tickets

\* A remote XCI is opened, or an MTP host sends a file.
StreamStart(k) ==
  /\ tpc \in {"idle", "ok", "failed"} /\ streams < MaxStreams
  /\ kind' = k /\ tpc' = "start" /\ entry' = 1 /\ holding' = {}
  /\ metas' = <<>> /\ committed' = 0 /\ verdict' = TRUE
  /\ Opens /\ streams' = streams + 1
  /\ UNCHANGED diskVars

\* B on the install page.  Only a remote stream will look at the flag.
UserStops ==
  /\ tpc \in {"create", "write"} /\ ~cancel
  /\ cancel' = TRUE
  /\ UNCHANGED <<diskVars, before, streamVars>>

\* The console loses power, or an exception leaves the MTP worker, which has
\* no handler: the process is gone.
StreamCrash ==
  /\ tpc \notin {"idle", "ok", "failed"}
  /\ tpc' = "idle"
  /\ UNCHANGED <<diskVars, cancel, before, kind, progress, streams>>

\* The entries cleanupEntries finds with a storage, in the table.
Cleanable == Arrived \cap holding

\* Mutant: the storage of a complete entry is kept.
CompleteKept == entry' = entry + 1 /\ UNCHANGED holding

\* A complete entry gives up its storage, "no longer needed".  (The MTP
\* installers keep it, and never clean up.)
Complete == entry' = entry + 1 /\ holding' = holding \ {Entry}

\* The entry's bytes are being read.
InData == tpc = "write" \/ (tpc = "create" /\ Entry \notin Empty)

\* The writer of an unfinished entry is closed when it is destroyed, which makes
\* a placeholder if most of a header is in it.
LeftBy(set) == {set, IF tpc = "create" /\ Entry \notin Blank THEN set \cup {Entry} ELSE set}

Fails ==
  /\ tpc' = "failed" /\ placeholders' \in LeftBy(placeholders)
  /\ UNCHANGED <<registered, metaDb, appRecs>>

\* cleanupEntries deletes both the placeholder and the NCA of an entry, and the
\* installation throws or returns.
CleansUp ==
  /\ kind = "remoteXci" /\ tpc' = "failed"
  /\ registered' \in Deleted(registered, Cleanable)
  /\ placeholders' \in UNION {LeftBy(set) : set \in Deleted(placeholders, Cleanable)}
  /\ UNCHANGED <<metaDb, appRecs>>

CancelIsSeen == cancel /\ CleansUp

\* ensureStarted: the storage is opened, or throws; a placeholder an earlier
\* attempt left is deleted.
StartEntry ==
  /\ tpc = "start" /\ ~AllArrived
  /\ \/ CancelIsSeen /\ UNCHANGED holding
     \/ kind = "remoteXci" /\ Fails /\ UNCHANGED holding
     \/ /\ ~(kind = "remoteXci" /\ cancel)
        /\ placeholders' \in Deleted(placeholders, {Entry}) /\ tpc' = "create"
        /\ holding' = holding \cup {Entry}
        /\ UNCHANGED <<registered, metaDb, appRecs>>
  /\ UNCHANGED <<cancel, before, kind, entry, metas, committed, verdict, streams>>

\* A blank entry is complete without Register, and keeps its storage: an XCI
\* reads nothing for one of size zero, and of a ticket both only keep the
\* bytes.  An NSP does not even start one of size zero that no write straddles.
SkipEntry ==
  /\ ~AllArrived /\ Entry \in Blank
  /\ tpc = IF kind = "mtpNsp" /\ Entry \in Empty THEN "start" ELSE "create"
  /\ tpc' = "start" /\ entry' = entry + 1 /\ UNCHANGED holding
  /\ UNCHANGED <<diskVars, cancel, before, kind, metas, committed, verdict, streams>>

\* The header arrives and makes a placeholder, unless there is one still; with
\* it may come the rest.  Less than a header, and what an NSP writes of
\* nothing, goes on to Register without one.
CreateEntry ==
  /\ tpc = "create"
  /\ \/ Entry \notin Blank \cup placeholders
        /\ placeholders' = placeholders \cup {Entry} /\ tpc' \in {"write", "register"}
     \/ /\ Entry \in Unregisterable \ Blank \/ (kind = "mtpNsp" /\ Entry \in Empty)
        /\ UNCHANGED placeholders /\ tpc' = "register"
  /\ UNCHANGED <<registered, metaDb, appRecs, cancel, before, kind, progress, streams>>

\* The last of the entry arrives.
WriteEntry ==
  /\ tpc = "write" /\ tpc' = "register"
  /\ UNCHANGED <<diskVars, cancel, before, kind, progress, streams>>

\* Mutant: an entry that cannot be read is skipped.
BreakOffSkips ==
  /\ tpc \in {"create", "write"} /\ kind # "mtpNsp"
  /\ tpc' = "start" /\ Complete
  /\ UNCHANGED <<diskVars, cancel, before, kind, metas, committed, verdict, streams>>

\* The rest does not arrive: the cancel flag is seen or Read refuses the offset,
\* the download throws past cleanupEntries, the MTP buffer ends; or the host
\* closes an NSP early (its failed writes are only reported to it).
BreakOff ==
  /\ \/ InData /\ CleansUp
     \/ InData /\ kind # "mtpNsp" /\ Fails
     \/ /\ kind = "mtpNsp" /\ ~AllArrived /\ (tpc = "start" \/ InData)
        /\ tpc' = "tickets" /\ placeholders' \in LeftBy(placeholders)
        /\ UNCHANGED <<registered, metaDb, appRecs>>
  /\ UNCHANGED <<cancel, before, kind, progress, streams>>

\* Register and DeletePlaceholder share a handler: when Register fails the
\* placeholder stays.
RegisterEntry ==
  /\ tpc = "register"
  /\ IF CanRegister(Entry)
       THEN registered' = registered \cup {Entry} /\ placeholders' = placeholders \ {Entry}
       ELSE UNCHANGED <<registered, placeholders>>
  /\ IF Entry \in CnmtIds THEN tpc' = "commit" /\ UNCHANGED <<entry, holding>>
                          ELSE tpc' = "start" /\ Complete
  /\ UNCHANGED <<metaDb, appRecs, cancel, before, kind, metas, committed, verdict, streams>>

\* The two records of a CNMT: both are written, or the first that fails throws.
Records(c) == metaDb' = metaDb \cup {c} /\ appRecs' = appRecs \cup {c}
Throws(c) == metaDb' \in {metaDb, metaDb \cup {c}} /\ UNCHANGED appRecs

\* CommitCnmt: GetPath needs a registered NCA, parsing may throw, and so may
\* CommitLatest once the meta is in the helper.  Every failure is swallowed.
CommitCnmt ==
  /\ tpc = "commit"
  /\ \/ UNCHANGED <<metas, metaDb, appRecs>>
     \/ Entry \in registered /\ metas' = Append(metas, Entry) /\ (Records(Entry) \/ Throws(Entry))
  /\ tpc' = "start" /\ Complete
  /\ UNCHANGED <<registered, placeholders, cancel, before, kind, committed, verdict, streams>>

LastEntry ==
  /\ tpc = "start" /\ AllArrived
  /\ tpc' = "tickets"
  /\ UNCHANGED <<diskVars, cancel, before, kind, progress, streams>>

\* The ticket is imported.  An error ends an XCI; an NSP goes on to commit.
ImportTickets ==
  /\ tpc = "tickets"
  /\ \/ CancelIsSeen /\ UNCHANGED verdict
     \/ kind # "mtpNsp" /\ Fails /\ UNCHANGED verdict
     \/ ~(kind = "remoteXci" /\ cancel) /\ tpc' = "records" /\ UNCHANGED <<diskVars, verdict>>
     \/ kind = "mtpNsp" /\ tpc' = "records" /\ verdict' = FALSE /\ UNCHANGED diskVars
  /\ UNCHANGED <<cancel, before, kind, entry, holding, metas, committed, streams>>

\* Mutant: CommitAll goes on when a record cannot be written.
CommitAllUnchecked ==
  /\ tpc = "records" /\ committed < Len(metas)
  /\ Records(metas[committed + 1]) \/ Throws(metas[committed + 1])
  /\ committed' = committed + 1
  /\ UNCHANGED <<registered, placeholders, cancel, before, kind, tpc, entry, holding,
                 metas, verdict, streams>>

\* CommitAll writes every record once more, and the first error ends it.
CommitAll ==
  /\ tpc = "records" /\ committed < Len(metas)
  /\ \/ Records(metas[committed + 1]) /\ committed' = committed + 1 /\ UNCHANGED tpc
     \/ Throws(metas[committed + 1]) /\ tpc' = "failed" /\ UNCHANGED committed
  /\ UNCHANGED <<registered, placeholders, cancel, before, kind, entry, holding,
                 metas, verdict, streams>>

StreamEnds ==
  /\ tpc = "records" /\ committed = Len(metas)
  /\ tpc' = IF verdict THEN "ok" ELSE "failed"
  /\ UNCHANGED <<diskVars, cancel, before, kind, progress, streams>>

StreamSteps ==
  \/ UserStops \/ StreamCrash
  \/ StartEntry \/ SkipEntry \/ CreateEntry \/ WriteEntry \/ BreakOff
  \/ RegisterEntry \/ CommitCnmt
  \/ LastEntry \/ ImportTickets \/ CommitAll \/ StreamEnds

StreamNext == (\E k \in Kinds : StreamStart(k)) \/ StreamSteps

StreamSpec == StorageInit /\ StreamInit /\ [][StreamNext]_streamAll
-----------------------------------------------------------------------------
(* Properties                                                              *)

\* A stream that reports success has written the records of every CNMT it
\* could read, those CommitLatest failed for included, and an XCI has every
\* NCA registered that its archive brought and Register took.  Nothing compares
\* an NSP with its header: it succeeds with the entries that came before its
\* host closed it.
StreamSuccessIsWhole ==
  tpc = "ok" =>
    /\ ToSet(metas) \subseteq metaDb \cap appRecs
    /\ Arrived \ (Blank \cup Unregisterable) \subseteq registered
    /\ kind # "mtpNsp" => AllArrived

\* Whatever its end, a stream takes away nothing that was installed before, but
\* in one case: cleanupEntries deletes what it finds registered under the id of
\* an entry that still has a storage, by whomever.  A complete entry has given
\* its storage up, unless it is a blank one, for which Register is skipped and
\* the release with it.
StreamKeepsInstalled ==
  tpc # "idle" =>
    before.reg \ registered \subseteq
      IF kind = "remoteXci" /\ tpc = "failed" THEN Blank \cap Arrived ELSE {}

\* The placeholders a stream leaves are those it found, those of NCAs it could
\* not register, and that of the one entry that was being written.
StreamLeftovers ==
  tpc \in {"ok", "failed"} =>
    placeholders \subseteq before.place \cup before.reg \cup Unregisterable
                           \cup (IF AllArrived THEN {} ELSE {Entry})
=============================================================================
