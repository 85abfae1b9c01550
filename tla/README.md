# PersonaFoil: specifications and proofs

TLA+ specifications of the parts of PersonaFoil (a package installer for the
Nintendo Switch, C++17) where a wrong step costs the user data or leaves the
application stuck: the threads of a transfer, what an installation leaves on the
console, and the stores that replace a file by renaming. TLC checks them on
small instances; theorems about them are proved with TLAPS for every value of
their constants.

Paths such as `install/install.cpp` are relative to `src/source/`.

1. [The system](#1-the-system)
2. [The modules](#2-the-modules)
3. [The runs](#3-the-runs)
4. [Bounds](#4-bounds)
5. [Fairness](#5-fairness)
6. [What is proved](#6-what-is-proved)
7. [Where code and documentation disagree](#7-where-code-and-documentation-disagree)
8. [What is not modelled](#8-what-is-not-modelled)
9. [Plan](#9-plan)

## 1. The system

An installation moves the NCAs of a package (NSP, XCI or their compressed
forms) from a source (HTTP, USB, SD card, USB drive, MTP) into the console's
content storage, and records the title in two databases. Around it are an HTTP
client, a user interface and a handful of small files on the SD card.

| Component | State it keeps | Operations | Interacts with | What makes it correct |
|---|---|---|---|---|
| Segment ring, `data/buffered_placeholder_writer.cpp` | segments with a flag and an offset, two positions, two counters | AppendData, CanAppendData, WriteSegmentToPlaceholder | a download and a writer thread, without a lock | bytes once and in order, no segment used by both threads, a claim of room stays true, the transfer ends |
| HTTP transfer, `install/http_nsp.cpp`, `util/network_util.cpp`, `util/http.cpp` | stop flag, retry question and answer, cancel flag, three program counters | StreamToPlaceholder, StreamDataRange, the write callback | ring, HTTP client, install page | success means complete; retries only with consent; the call returns, also when cancelled |
| USB transfer, `install/usb_nsp.cpp`, `install/usb_xci.cpp`, `util/usb_util.cpp` | stop flag, announced and remaining size | StreamToPlaceholder, SendFileRangeCmd | ring, the host program | success means complete, whatever the host announces; the call returns for a correct host |
| Install session, `install/install.cpp`, `install_nsp.cpp`, `install_xci.cpp` | NCAs this session registered; NCM's content storage and meta database, NS's application records | Prepare, ReadCNMT, InstallNCA, Begin, CleanupSessionInstalledNcas | a transfer, NCM, NS, the cancel flag | a success is a whole title; a failure takes back its own NCAs and nobody else's |
| Discovery catalog, `util/catalog.cpp` | cache, backup, set-aside invalid file, staged file; the catalog shown | Load, Refresh, Store | HTTP client, options page | a Store happens completely or not at all |
| Identity store, `identity/identity.cpp`, `identity_core.cpp` | identity.json, its backup and temporary; the state in memory | Initialize, create, activate, rename, delete | HTTP headers of every request | memory is what is saved; personas survive crashes; a malformed file is left alone |
| Application update, `util/update.cpp` | the running NRO, .new, .bak | InstallUpdate | HTTP client, hbloader | a whole NRO is always there; messages tell the truth |
| Offline database, `util/offline_db_update.cpp` | two packs, a manifest and its alias, temporaries and backups | CheckForUpdate, ApplyUpdate | HTTP client, title lookups | what counts as up to date is whole; a failed update loses nothing |
| MTP install, `mtp_install.cpp`, `mtp_server.cpp` | the global stream and its mutex, a bounded buffer, a worker thread, flags, service handles | StartStreamInstall, WriteStreamInstall, CloseStreamInstall, CancelStreamInstall, StopInstallServer | libhaze's responder, UI thread, NCM | the verdict is about all of the data; services are open while they are used; stopping ends and leaves nothing |
| Stream installers, `remoteInstall.cpp`, `mtp_install.cpp` | entries of an archive in file order, which of them have a storage, the records to commit | InstallXciHttpStream, MtpXciStreamPull, MtpNspStream, StreamInstallHelper | HTTP client or MTP, NCM, NS | a success is whole; nothing installed before is taken away; what is left behind is known |
| NCA writer, `nx/nca_writer.cpp`, with the copy loops of `install/sdmc_*.cpp`, `http_xci.cpp` | four gathering buffers, the decoder, block bookkeeping, a buffer encrypted in place | write, close | ring, copy loops, content storage | however the package is cut into writes, each byte lands at its offset, encrypted where its section says |
| HTTP client, `util/http.cpp` | none across requests; the current address and output file inside one | Get, GetFile | curl | credentials stay with their origin on any chain of redirects; a failed request leaves no file |
| Cheat files, `cheat_manager.cpp` | a text, its temporary, its backup | WriteAtomically, Remove | the editor | an edit happens completely or not at all, and no text is lost silently |
| Save synchronisation, `util/save_sync.cpp` | a journaled save, its commits, the downloaded archive, the backups of the Remote | restore, upload, delete | HTTP client, the save file system | a save is never a mix of two; a restore that succeeds is the backup |
| Icon queue, `ui/remoteInstPage.cpp` | queue, keys, counters, generation, dirty and stop flags; the icon files and their `.part` files | OpenPage (reset), QueueIcon, the worker, a theme switch, Close | UI thread and worker under one mutex and a condition variable; the worker of an older page and an installation, through the files only | an item that is shown gets its picture; closing the program ends |
| Configuration, package readers, remote protocol, title databases, the rest of the UI | see section 8 | | | |

Behaviours that are hard here, with the lines where they bite, are the `hazards`
of `PROJECT.json`. In short:

* **three threads per transfer** that share plain flags and spin on them, a
  question to the user asked by one and answered by another, exceptions in any;
* **two stores where one is meant**: the ring gives a segment back by storing
  its flag and its offset one after the other;
* **retry and partial delivery**: requests resume where the last one broke, a
  short body is not an error, a size announced by a host is believed;
* **an error that nobody looks at**: deletes whose failure is swallowed, a flush
  and a close without a check, entries that take a branch in which nothing is
  registered;
* **bytes are gathered across writes**: a header, a magic, a table or a block
  may begin anywhere, and a buffer that is encrypted in place is written by a
  call that may fail and be repeated;
* **a responder, a worker and the UI thread** start, feed, finish and cancel one
  stream under one mutex, and wait for each other while they hold it;
* **the file system refuses to rename onto an existing file**
  (`cheat_manager.cpp:69`), so every "atomic" replacement is a sequence of
  remove, rename and rename, each of which may fail, with the application being
  closed (home button, power, abort) between any two;
* **a session commits in several databases** and must undo exactly its own part.

## 2. The modules

```
ByteChannel <---- refined by ---- SegmentRing        SegmentRing_proofs
   ^   ^                          NcaWriter          NcaWriter_proofs
   |   +-- UsbStream   MtpStream                     Cable_proofs
   +------ HttpNspStream   HttpClient                Http_proofs

ContentStorage <-- InstallSession                    InstallSession_proofs
       ^---------- StreamInstall

FileOps <-- CatalogStore ---- refines ----> DurableCell
   ^                                                 CatalogStore_proofs
   +------- IdentityStore
   +------- AppUpdate   CheatFile                    ReplacedFiles_proofs
   +------- OfflineDbUpdate   SaveSync               OfflineDbUpdate_proofs
IconQueue
```

The `MC` modules hold the instances TLC runs, and put parts of the program side
by side: either because they share state, or because the program does one after
the other.

| Module | Composes | How |
|---|---|---|
| `MCPlaceholder` | `NcaWriter`, `SegmentRing` | a package copied from a file straight into the writer, then one that comes through the ring; its last segment is cut short or full (`Exact`, a second instance of the ring whose stream is one byte shorter) |
| `MCHttpNspStream` | `HttpClient`, `HttpNspStream` | a request (an index, a probe), then the stream of an NCA |
| `MCUsbStream` | `UsbStream`, `MtpStream` | one USB port, two protocols: `StartInstallServer` closes the endpoints of the one before it starts the other |
| `MCInstallSession` | `InstallSession`, `StreamInstall` | sessions and streams in any order **over one storage**: each meets what the other left |
| `MCCatalogStore` | `CatalogStore`, `IconQueue` | the stores behind two pages, which share nothing; a run takes one of them, and of the icons one with everything that can happen to it, or both on one page |
| `MCReplacedFiles` | `IdentityStore`, `AppUpdate`, `CheatFile` | three files replaced the same way, which share nothing |
| `MCOfflineDbUpdate` | `OfflineDbUpdate`, `SaveSync` | two downloads that replace data in steps, which share nothing |
| `MCSegmentRing`, `MCNcaWriter`, `MCIdentityStore` | | the instances of the violations |

**ByteChannel** is what the ring promises the transports: a bounded buffer that
accepts a chunk when it fits and delivers whole segments (and the last, partial
one) in order. It has no threads. `HttpNspStream` and `UsbStream` extend it, so
they are about the flags and the retry loop and not about segments, and
`SegmentRing` is checked to implement it, which is what allows the replacement.
Two things about the ring the channel cannot know are put back in the
transports: how a chunk that is too large for the room left is refused, and that
the call may throw instead (`SpinThrows`, see the first finding).

**SegmentRing** has one action for each load or store another thread can see:
the flag and the offset that `CalcNumSegmentsRequired` and `IsSizeAvailable`
read, the begin and the end of each `memcpy`, the two stores that give a segment
back. `isFinalized` is atomic, `writeOffset` is plain, and a release store does
not keep a later plain store from becoming visible first, so `ReleaseFlag` and
`ReleaseOffset` happen in either order. `data` holds positions in the stream,
which makes a stale, lost or repeated byte visible.

**HttpNspStream** models the three threads of `HTTPNSP::StreamToPlaceholder`.
`cpc`, `wpc` and `mpc` are where the curl thread, the writer thread and the main
thread are. `accepted` is also `bytesReceived` of `StreamDataRange`, which
counts what the callback took. The main thread's two loops, the dialog and the
joins are separate steps because the curl thread can ask its question between
any two of them.

**UsbStream** models the USB pair. It has no cancel flag, its writer thread
catches nothing (an exception is `terminated`), and `dataSize` is what the
host's answer says or, if the read failed, whatever was on the stack.

**HttpClient** is one `Perform`: a hop opens a handle and truncates the output
file, a response ends the request or redirects it. An address is its origin.
`sent` is a history of who was sent credentials.

**NcaWriter** models the writer and its delegates. A byte is known by the
stream position it comes from (a decompressed one by that and which of the two
it is), so that a byte at a wrong offset, twice or not at all shows. `stage` is
what the next bytes are: header, magic, table, format, block header, block
sizes, body. `out` is what a body writer has put out and the buffer has not
taken. The copy loops that call it are the callers `sdmc`, which swallows
exceptions and closes, and `http_xci`, which lets them pass to the destructor;
that the writer closes again when it is destroyed is `unwind`.

**MtpStream** has the three threads that share `g_stream`: libhaze's responder
(`hpc`), the worker of an XCI (`worker`) and the UI thread (`spc`). What a
thread does while it holds `g_stream_mutex` without waiting is one action; a
`Push` that waits for room keeps the mutex over several, and so does the
canceller that joins the worker. `StartStreamInstall` is two actions, because
the stream is published before the services are opened. `closing` is the stream
`CloseStreamInstall` has moved out of `g_stream`; it is destroyed last, after
the services were given back (`DestroyStream`), and its destructor closes the
writers of unfinished entries, which may throw and ends the process then. The
services are the handles of `initInstallServices`; a writer uses the session its
entry opened itself. A throw of a destructor is in the steps that destroy a
stream: this one, the worker's end and the stop. What the installers do with
the data is `StreamInstall`'s.

**ContentStorage** is what all installers work on: NCM's content storage
(`registered`, `placeholders`), the two databases (`metaDb`, `appRecs`), and the
cancel flag of the install page. All callers swallow the failure of a
`DeletePlaceholder` or `Delete`, so a delete is one of the sets in `Deleted`: the
NCAs of the constant `Undeletable` may stay. Those of `Empty` have an entry of
size zero in the package.

**InstallSession** models `Prepare` and `Begin` with `InstallNCA` as a
subroutine: `nca` is its argument, `ret` where it returns to;
`tracked` is `m_sessionInstalledNcas`. Sessions run one after
another on the same storage, so that each meets what an earlier one left. A
transfer is one step with two outcomes: the streams' own modules show how it
gets there. After the user cancels, HTTP transfers throw and SD card and USB
ones run to their end, so both outcomes stay possible. A content that is missing
in the package is a null pointer in `install_nsp.cpp:84`; it shows as `Crash`.
`CreatePlaceholder` fails where an undeletable placeholder is, and an NCA shorter
than a header makes none. The storage may not open, which ends a session
wherever it is asked and its cleanup (`install.cpp:72`) before it deletes
anything: `tracked` then keeps what was left.
The branch of `Prepare` that installs a CNMT NCA is modelled although
`ReadCNMT`, which runs just before, has always installed it (the proof of
`SuccessIsInstalled` shows that it is never taken).

**StreamInstall** has the three installers that write entries as they arrive,
in file order, and tells them apart by `kind`: the remote XCI looks at the
cancel flag and cleans up, the MTP ones do neither, and the MTP NSP counts what
arrived before its file was closed. `holding` is which entries still have a
storage object, which is what the cleanup goes by. Two kinds of entry count as
NCAs and bring none (`Blank`): one of size zero never enters the read loop of
`remoteInstall.cpp:2287` (or of `mtp_install.cpp:920`), and one named
`<id>.nca.tik` or `<id>.nca.cert` passes the test for NCAs and takes the branch for
tickets. They are not registered, and in an XCI they are in the table with their
storage (`SkipEntry`). The remote XCI breaks off in two ways: a cancel goes
through `cleanupEntries`, and so would a read that returns 0, which
`HttpStreamSource` does for an offset below zero only; a failed download throws
past it. Both are in `BreakOff`.

**FileOps** has the file calls of the stores: a file system is a function from
paths to contents; a rename needs its source and a free destination; a remove
may silently do nothing. **DurableCell** is the promise of such a store: the
value changes in one step, to what was asked for, or not at all.

**CatalogStore**, **IdentityStore**, **AppUpdate**, **CheatFile** and
**OfflineDbUpdate** have one action per file call and a `Crash` enabled between
any two. Contents are model values: a catalog, a set of personas with an active
one, an NRO, a version number; `Bad`, `Malformed`, `Damaged` and `Torn` are the
contents of a file whose writing did not finish or that somebody damaged.
`CatalogStore` is checked, and proved, to implement `DurableCell`: the stored
value is what `Load` would return. `AppUpdate` is proved to, and `IdentityStore`
up to the start that finding 4 is about (section 6). `IdentityStore` keeps two history variables:
`owed`, the personas created and not deleted, and `forgot`, whether a start has
taken a missing identity.json for a fresh installation.

**SaveSync** is the restore of a save, with the upload and deletion of backups
around it. The save file system is journaled: `view` is what is mounted, `saved`
what was committed. The history `left` is what the wipe left of the save. What an
extraction writes is in `Written`: `ExtractZipToMountedSaveWithCommits` asks the
stream before its last bytes leave the buffer, and looks at neither `flush()` nor
`close()` (`save_sync.cpp:615`), so that a file of `Unflushable` may end too early
(`Cut`) and be committed like that.

**IconQueue** has the UI thread and the download workers. What both hold the
mutex for is one action; a worker that has tested the predicate keeps the mutex
until it sleeps (`dozing`), which the notifier of `MainApplication::Close`, who
takes no mutex, may hit. The worker's two atomics are read and written apart. A
theme switch makes a new page (`Switch`), and the old one is not destroyed: the
callbacks bound to it with `BindInput` hold it. Its worker is not asked to stop,
goes through what is left of its queue, and looks at, loads, moves and removes
the same `.part` and icon files as the new one; `queue`, `worker` and `job` are
therefore functions of the page object. A third party to those files is an
installation, which loads the picture straight into its file
(`remoteInstall.cpp:653`). `exists` and `remove` are called in the form that
throws, in a thread that catches nothing: `FileError`. After the program has
ended, in whichever way, it is launched again on the files it left.

The `map` in `PROJECT.json` gives the lines each definition models.

## 3. The runs

| Run | Checks | What it shows |
|---|---|---|
| `ring_small` (`MCPlaceholder`) | `StoredIsPackage`, `SegmentExclusion`, `InOrder`, `ClaimHolds`, `ChannelSpec`, `TransferEnds` | However a package is cut into writes, every byte of its placeholder is the right one at its offset, and a copy that returns has stored all of it but in two known cases (section 7). Under every interleaving of single loads and stores of the ring, whether the stream is a whole number of segments or not, producer and consumer are never in one segment, the placeholder is the stream, room that was found is not taken away, the ring implements the bounded channel, and a transfer ends |
| `ring_stale_offset` | `NoStaleOffset` (violated) | finding 1 |
| `nca_retry` | `StoredEncrypted` (violated) | finding 5 |
| `http_stream` | `SuccessIsComplete`, `CredentialsStayHome`, `FileOnlyOnSuccess`, `RetryOnlyOnConsent`, `EndsOrKnownHang`, `CancelEndsOrAsks` | Along any chain of redirects credentials reach their own origin only, and a failed request leaves no file (but one case). A normal return of the stream means a complete placeholder, although both loops also end on flags; another round of requests needs an answer to the question asked since the last one; the call ends, or is in one of three dead ends described below; cancelling gets out of two of them |
| `http_cancel` | `CancelEnds` (violated) | finding 2 |
| `usb_stream` | `UsbSuccessIsComplete`, `XciVerdictIsRight`, `ServicesOpenInUse`, `StopLeavesNothing`, `UsbEndsOrKnownHang`, `StopEnds` | USB: a success is complete whatever was announced; the call ends, and with a wrong size has exactly one way each to hang. MTP: an XCI counts as installed exactly if all of it arrived and the worker met no failure; the services are open while they are used; a stopped server has left nothing (both but for a stop that meets a file being opened or closed); stopping ends, whoever holds the mutex |
| `install_sessions` | `SuccessIsInstalled`, `ContentsKept`, `NoNewPlaceholder`, `FailureTakesBackContents`, `StreamSuccessIsWhole`, `StreamKeepsInstalled`, `StreamLeftovers` | After any history of failed, cancelled and crashed sessions and streams a session that succeeds is a whole title; no session deletes a content that was there; whichever way it ends it leaves no placeholder, and a failed one none of its contents, but what cannot be deleted. A stream that succeeds has all it read and leaves only the placeholders named; it takes away what was installed before in one case only, the blank entry of a remote XCI (section 7) |
| `install_partial` | `CancelRestoresStorage` (violated) | finding 3 |
| `catalog_store` | `BackupStaysValid`, `StoreIsAtomic`, `IconsAreServed`, `StopEndsOrIsMissed` | From any combination of good, bad and missing files: a Store is atomic through crashes and failed renames, and a good backup is never replaced by a bad file. Every item on a page of a Remote gets its picture unless its download fails, its file is removed by another who shares it, or the page goes, also beside the worker of an older page; closing the program ends but for one missed notification or an exception in a worker |
| `replaced_files` | `MemoryIsSaved`, `PersonasKeptUnlessForgotten`, `MalformedKept`, `AlwaysAnNro`, `ResultIsTrue`, `WriteIsAllOrNothing` | Identity: memory is backed by the card whenever no mutation runs, no crash loses a persona before a start overlooks the backup, a malformed file is never replaced nor produced. Update: a verified NRO exists at `<running>` or its backup at every moment; each result is true of the files. Cheats: a call replaces the file completely or leaves it, and its old text is there or in the backup |
| `identity_restart` | `SeedsSurviveRestart` (violated) | finding 4 |
| `offline_db` | `UpToDateIsWhole`, `FailureKeepsFiles`, `SuccessIsFetched`, `NeverMixed`, `RestoreIsWhole` | Packs of two versions are never taken for up to date; a failed update leaves each file or its backup; a success has both packs of the manifest's version. A save is never a mix of old and new but where a directory could not be listed; a restore that succeeds is the backup, but for a file whose end could not be flushed |

Type invariants are not among the runs' properties: they are proved (section 6).

The three dead ends of `HttpNspStream`, each a state nothing leaves (or, for
the first two, only a cancel):

* `FullRingHang`: the writer thread died with the ring full; the write callback
  spins on `CanAppendData` and looks at the cancel flag only
  (`http_nsp.cpp:117-123`), while the main thread joins it.
* `ShortBodyHang`: a 206 answer delivered less than the range and ended without
  a transport error; `StreamDataRange` takes that for success
  (`network_util.cpp:231`) and the download loop waits for the rest.
* `UnaskedHang`: the last allowed request broke after its last byte; the
  question is raised when the loop that would show it has ended.

They are named, and not assumed away, so that `EndsOrKnownHang` says there is no
fourth. `UsbStream` has `ShortHang` and `LongHang` in the same way, and
`IconQueue` names the one interleaving in which a notification is missed
(`late`).

Each property that is checked has a mutant in `PROJECT.json`: a plausible slip in
one definition, kept beside it in the module, with which TLC finds the property
violated. They are no part of the specifications.

Deadlock checking is off where the system stops by design: a transfer that has
returned, the last session, file or mutation the bound allows. It is on for
`catalog_store`.

## 4. Bounds

| Run | Values | Why they are enough |
|---|---|---|
| `ring_small` | ring: 3 segments of 2 bytes, 7 bytes and 6, chunks of up to 3 | a chunk spans up to three segments, a ring wraps around, a stream ends in a partial segment or is a whole number of them (an empty last one), and chunks fill a segment exactly, partly or across |
| | writer: 14 packages with a header of 3 bytes, a magic of 2, a buffer of 3, writes of up to 22 bytes (a package in one write), at most 2 gathered bytes undecoded | blocks that are raw, packed and short at the end; offsets in an encrypted section, a plain one and none; packages and tails shorter than a header or a magic; every boundary crossed by a write, met by one, and left to the next |
| `ring_stale_offset` | 2 segments, chunks of up to 2 | as an applet runs (`ui/mainPage.cpp:206`), a chunk no larger than a segment, as with USB |
| `nca_retry` | the packages of `ring_small` | |
| `http_*` | stream: 5 bytes, 2 segments of 2, chunks of up to 2, 2 requests per cycle (the code has 4), 1 approval | the ring fills, the last segment is partial; a first request, a resumed one, a question with each answer, and a question after the approvals are used up |
| | request: 4 origins, 2 of them https; 3 redirects (the code has 5) | a host with and without TLS, another one likewise; away, further and back again |
| `usb_stream` | USB: 7 bytes, announced 0, 4, 7 or 9 | nothing, a multiple of a segment that is short, the right size, too much |
| | MTP: files of 4, of which the worker reads 3; a buffer of 1, writes of up to 2; 2 files, 2 starts of the server | a `Push` that waits, data nobody reads, a file after another, a server stopped and started again |
| `install_*` | two CNMTs that share a content, an archive of five entries, one content preinstalled whose entry is empty, another that is only a ticket, one whose `Register` fails, a CNMT NCA that cannot be deleted; 2 sessions and 2 streams (no stream and nothing preinstalled for the violation) | sharing inside a package and with another title; a blank entry of an NCA that is installed; a success after a failure, a crash, or a stream that left placeholders, and the other way round |
| `catalog_store` | three catalogs, one of them in romfs, no bound on steps; an icon over 2 pages and a theme switch, with installations, or 2 icons on one page | old, new and built in are different; a page opened while the worker is busy with the last one, two workers at one file, a queue of two |
| `replaced_files`, `identity_restart` | two personas, 4 mutations, 2 crashes (2 and 1 for the violation) | create two, activate, delete; a crash in one write and another in the write after it, which is where the backup is removed |
| | an installed release, two newer ones, 3 updates, crashes unbounded; two texts, 4 writes | update, failed update on top of it, update after a failed rollback; the same of a text, with a removal |
| `offline_db` | versions 1 to 3, updates and crashes unbounded; a save of two paths, commits after every 2, 3 calls | packs of three different versions on the card and one being published; a commit in the middle of a save, an upload between two restores; one path that can always be flushed and one that cannot |

The runs have 2 937 476 (`offline_db`), 2 838 935 (`install_sessions`), 339 788
(`catalog_store`), 70 330 (`replaced_files`), 38 891 (`usb_stream`) and 10 065
(`ring_small`) distinct states.

`MaxApprovals`, `MaxSessions`, `MaxStreams`, `MaxMutations`, `MaxCrashes`,
`MaxUpdates`, `MaxWrites`, `MaxVersion`, `MaxCalls`, `MaxFiles`, `MaxStarts`,
`MaxPages`, `MaxSwitches`, `MaxWriteSize` and `MaxHeld` are bounds of the models; the other
constants are the program's own, made small.

In `OfflineDbUpdate` versions are published in order: a publisher that goes
back to an older version is not modelled.

## 5. Fairness

The transfers, the stop of the MTP server and the icon queue have liveness
properties.

* `SegmentRing`: `WF(Producer) /\ WF(Consumer)`. Two threads, preempted by the
  kernel, each with a step to take whenever it has data or room. Receiving is
  part of the producer: the connection delivers, and what happens when it does
  not is the subject of `HttpNspStream`.
* `HttpNspStream`: `WF` of each thread. A request ends because `util/http.cpp`
  sets connect and low-speed limits; the dialog is answered because the main
  thread does nothing else while it is open. Nothing is assumed about the user
  cancelling, so no run ends because somebody pressed B. No strong fairness is
  needed: a thread that spins on a condition is modelled as waiting for it.
* `UsbStream`: `WF` of each thread; a USB read has a 5 s timeout.
* `MtpStream`: `WF` of libhaze's responder in what it has begun, of the worker
  and of the UI thread in a stop. Nothing of the host: it may stop sending, or
  never close a file.
* `IconQueue`: `WF` of each worker, which waits for a mutex only while its page
  holds it for one action. `SF` of what the UI thread does without being asked
  (`UiGoesOn`), which needs the mutex too: the worker takes it again and again, so
  it is free again and again and not continuously. A mutex that starves one of
  two threads for ever is what is excluded. `SF` of `ShowArrived`, which every
  frame of the page does: a user who is on the page again and again is there for
  a frame. Nothing is assumed of opening pages, switching themes, installing or
  closing, which are the user's.
* The requests in `MCHttpNspStream` and the packages in `MCPlaceholder` have
  `WF` so that the stream, or the ring, which comes after them, is reached.

A spinning thread re-reads a flag that is a plain `bool` in the source. The
models take it to be read each time, which holds as long as the compiler does
not hoist the load out of a loop with calls it cannot see through.

The stores and the installations have no fairness: nothing obliges the user to
install anything, and their properties are about what is true at any moment.

## 6. What is proved

9946 obligations in eight modules, from the named assumptions on the constants
alone (sizes are positive, absent and damaged files differ from contents, CNMT
NCAs are no content NCAs, ...). Every proof has the shape

    Init => IInv,   IInv /\ [Next]_vars => IInv',   IInv => property

with one step per action and, under it, one per conjunct the action can disturb.
Each theorem is about the specification of one module; the runs check the same
property in a composition, where the other module leaves its variables alone.

**SegmentRing_proofs** (`TypeCorrect`, `Exclusion`; `Ordered`, `ClaimKept`,
`IsChannel`; `NeverFinalizedTwice`, `NeverBothWait`; `OnlyThrownBetweenStores`,
`OffsetStoredFirst`), for every number and size
of segments, every stream and every cut of it into chunks. `SegmentExclusion` is
not inductive: that the two threads are in different segments follows from
`isFinalized`, but the producer copies long after it looked at the flag. `IInv
== TypeOK /\ ChunkFits /\ CopyReserved /\ WriteReserved`: while the producer
copies, the segment it copies into is not finalized, because only the producer
raises a flag and it is busy copying; and while the consumer writes a segment to
the placeholder, that one is, because only the consumer lowers a flag. In one
and the same segment the flag would have both values.

What the ring contains is the second invariant, `RInv`. It is measured from
`Base`, the first segment that has not been given back by *both* of its stores,
so that it does not matter in which order they become visible or when the
consumer advances. A segment k places behind `Base` holds the bytes of the
stream from `Given + k * SegSize` on (`Contents`), as far as any have been
accepted; the segments that are held are those between `Base` and the producer,
or all of them (`Ring`). A segment whose flag is lowered and whose offset is not
yet reset counts as held: `Scanning` is why the producer, which may take such a
segment for a free one that is full, can never get past it. From there,
`InOrder` is what `Contents` says of the segment being written, `ClaimHolds` is
arithmetic on `Claimed` (the rest of the chunk fits between what was accepted and
what was given back), and the same inequality makes a copy an `Accept` of the
channel. Distances replace the modulus of the code; `DistWraps` is the only
place where it occurs.

That the two threads cannot both wait needs a third, `WInv`: a segment that is
full does not stay the producer's, since the copy that fills it finalizes it
(`NotFull`), and once the stream has ended all of it that is not yet written is
finalized, or is between the two stores that give it back (`Drained`).
`NeverBothWait` is about rings in which the largest
chunk finds room once everything else is given back (`ChunksFitRing`, a
hypothesis inside the theorem; the chunks of the code are far smaller).

The run `ring_stale_offset` shows that AppendData can throw on a correct
transfer. `OnlyThrownBetweenStores` is that this has one cause: the segment
looked at is the one the consumer is giving back, its flag is seen lowered and
its offset is not yet seen reset. `OffsetStoredFirst` is the repair: with the
two stores of `WriteSegmentToPlaceholder` swapped, and nothing else changed,
`NoStaleOffset` holds (`SwappedSpec` implies `Spec`, so that every other theorem
about the ring holds too).

**NcaWriter_proofs** (`NcaInvariance`, `PackageStored`, `ClearBufferKeepsSeals`), for any set of packages,
any size of header, magic, buffer and write. `StoredIsPackage` compares two
sequences, what was stored and what the package means, and nothing of it can be
seen in the middle of a write: `NcaIInv` says where every byte is. `AtStage` and
`AtBlock` tie the stage and the block to the stream position `parsed`; `Made` is
how much of the content has been decoded, and `AllThere` that it is what has been
flushed, plus what is in the buffer, plus what is out; `BufferedRight`,
`OutRight` and `StoredRight` say that each of the three is the right stretch of
the content, encrypted from the moment the buffer is flushed and not before;
`StoredUpTo`, that a placeholder ends where the last flush did. `Control`,
`Rested` and `AllFed` are about the caller: a close follows a loop that fed the
whole package, unless something threw.

Where a block starts is a sum over all blocks before it. `Starts` is therefore a
function that satisfies its equations and not a fold; that there is one and what
it adds up to (`StartsExist`, `StartsAddUp`, `StartsGrow`) is proved without the
library's induction, from `Least`: a nonempty set of naturals has a least
element. `DivMod`, `BlockShares` and `BlockBytesAt` relate an offset in the
content to a block and an offset in it.

The theorem assumes `PackageAssumption`: the tables agree with the length of the
package (`NczWhole`, `BlocksWhole`), that is, the package is as its tools write
it. The code verifies none of this, and what it stores of another package has
nothing to be compared with. Packages whose table or block header the code
rejects (`tableOk`, `blockOk`), that do not decompress (`intact`), or that are no
NCZ and of any length, are among those the theorem is about.

`ClearBufferKeepsSeals` is about the repair of `nca_retry`: in `ClearSpec` a flush
encrypts a copy, so that a `WritePlaceholder` that throws leaves the buffer as it
was; all other steps are those of the writer. `ClearInv` adds to `NcaIInv` what
holds after an exception too: what is buffered is not yet encrypted
(`BufferedClear`), what is stored is what the package promises (`StoredSame`). No
byte of an encrypted section is then stored in the clear, however the caller
goes on after an exception.

**Http_proofs** (`SuccessComplete`, `ConsentAsked`, `NoOtherHang`,
`StreamUsesChannel`; `CredentialsAtHome`, `FileAfterRequest`). For the stream: the main thread is
past its two loops with a complete placeholder or because of a stop
(`LoopsDone`), and looks at the stop flag before it returns. `QuestionAnswered`
relates the question, the dialog and the answer of two threads: unless they were
stopped, a raised question has a curl thread waiting for it, and an approval
that thread will act on was given to it. `NoOtherHang` adds where each loop has
left from and why (`LoopsLeft`): when no thread can go on, the transfer has
returned or is in one of the three known hangs. `StreamUsesChannel` says that
every step of a transfer, through retries, failures and cancellation, is a step
of the channel `IsChannel` proves the ring to implement, or leaves it alone: a
chunk in hand is never empty and never more than what was announced
(`StreamTypes`). For the request: `BetweenHops`,
where a hop may go and what the last one left in the file.

**Cable_proofs** (`UsbSuccess`, `NoOtherUsbHang`, `UsbUsesChannel`; `XciVerdict`, `ServicesOpen`,
`StopClean`, `NoLostWakeup`, `NoCircle`), for any announced size, any number of
files and any buffer. The MTP invariant is `MtpTypes /\ MutexHeld /\ OneStream
/\ WorkerProgress /\ ServicesCounted /\ XciVerdictIsRight`. `MutexHeld` says
which program counters hold the mutex; `OneStream`, that a stream is the global
one or the one `CloseStreamInstall` has taken out of it and not yet destroyed,
never both, and that a worker is never without its XCI; `WorkerProgress`, how far the worker is and
what its verdict means. `ServicesCounted` compares how often the services are
open with how many threads still owe a close (`HostOwes`, `UiOwes`). `WaitInv`
is the part about waiting: who sleeps on the condition variable has a reason to
(`SleepersHaveReason`, so that no notification was lost), and a join has a
worker to wait for (`WorkerThere`, `StopTypes`). `NoCircle` follows: host, UI
and worker never all wait for each other; if none goes on, the server has
stopped or it is the user's or the host's turn (`WaitsForUser`). For the cable,
`UsbParts` leads to `NoOtherUsbHang`: the threads stand still only when they are
done or the host announced a wrong size; and to `UsbUsesChannel`, the same as
`StreamUsesChannel` for this transfer.

**InstallSession_proofs** (`InstallTypeCorrect`, `ContentsSurvive`,
`PlaceholdersGone`, `ContentsTakenBack`, `SessionSuccess`; `StreamSuccess`,
`StreamTakesNothing`, `StreamPlaceholders`), for any package and any number of
sessions. That a failed session takes back its own contents and no other needs
to know, at every point, who owns what: `ContentsKept` (what was registered
still is), `OwnContents` (a content in `InstallNCA`, or tracked, was not
registered before the session began), `AllTracked` (a content that is new is
tracked, is the one in `InstallNCA`, or could not be deleted) and `AllDeleted` (so
is a placeholder). `LoopsInRange` says that loop positions select NCAs of the
package; `DeletedIs`, what a delete that may fail leaves, is the lemma the steps
of the cleanup rest on.

`SessionSuccess` needs the second invariant `WInv`, what the loops have behind
them: every CNMT up to the position of `ReadCNMT` is registered, every record up
to that of `Prepare` written, every content up to that of `Begin` registered
(`CnmtsRead`, `RecordsWritten`, `ContentsDone`), and nothing later takes any of
it away, since only the cleanup deletes and a session in its cleanup does not
succeed. `TrackedDone` is about placeholders: none is left of what this session
has tracked, but what could not be deleted.

For a stream, `OneStorage` says which entry may have a storage object, and
`NewlyRegistered`, `NewPlaceholders` and `CommittedRecords` compare what is on the
console with what was there before it. `CleanableIsBlank` is how far the
claim that a stream takes nothing away is true: the cleanup of the remote
installer deletes what it finds registered, by whomever, under the id of an entry
of its table that still has a storage, and that can only be a blank one. The
theorem says that it happens in no other case; TLC's run has the case in it, as
an NCA that is installed and has an empty entry.

**CatalogStore_proofs** (`CatalogTypeCorrect`, `Shown`, `Atomic`, `BackupValid`;
`RequestsKept`, `RestServed`, `JoinAnswered`). The type invariant holds the
facts each step relies on: what `.new` contains when it is renamed, that the
cache is gone then, and that the backup is valid if the cache that was moved
was. `Atomic` is the refinement `Spec => Cell!CellSpec`: each of the file calls
leaves what `Load` would return unchanged but one, the last rename;
`ShownIsStored` is what makes it a step of the cell. For the icons of the page
there is, `NoRequestLost` says that each is shown, has failed or lost its file, is
asked for in the current generation, or has come and will be announced; it needs
`KeysAnswered`, since a key in `iconDownloadQueuedKeys` keeps its icon from being
queued again, and `SleepsOnEmpty`. Together they give `RestIsServed`: when nothing
is going on, the page shows all it can. `StopPhases` is why a join waits for a
sleeper only after a missed notification. All of this is about the current page,
while workers of older ones touch the same files at any moment: `TakesNothing` is
what such a step may do to this page (a picture that disappears is noted in
`missed`), `PromisesKept` that it keeps the invariant, and `OldWorkerKeeps` that
every step of an old worker is one. The worker of the page (`PageWorkerKeeps`) and
the UI thread (`PageKeeps`) have lemmas of their own.

**ReplacedFiles_proofs** (`IdentityTypeCorrect`, `MemorySaved`, `PersonasKept`,
`MalformedUntouched`, `MutationIsAtomic`, `RestoringIsAtomic`;
`UpdateTypeCorrect`, `NroSurvives`, `ResultCorrect`, `NroReplacedAtomically`;
`CheatWriteSafe`), three files in one module. For the identities, `IInv ==
IdentityTypeOK /\ StepsFollow /\ MalformedApart /\ MemoryBacked /\
PersonasBacked`. `StepsFollow` says what each step of WriteStateLocked finds in
the files; `MalformedApart`, that while the program runs identity.json is
malformed exactly if it was not loaded, and that a malformed one is never backed
up and no persona was created beside it; `MemoryBacked` and
`PersonasBacked` extend the two properties to the middle of a write: the file
that counts is the target or, without one, the backup, and memory and candidate
both keep every persona owed to the user. For the update, `UpdateFollows`: after
verification `.new` is the release; after the backup rename the running path is
free and the backup is the image that ran. `CheatFollows` is the same for a
cheat file, where the old text is in the target until it is in the backup.

Two of the three are shown to implement `DurableCell`, like the catalog.
`MutationIsAtomic`: as long as no start overlooks a backup (`[]~forgot`), a
mutation of the identities takes effect in one step, the last rename, or not at
all, whatever fails or crashes. So the start that overlooks it, which
`identity_restart` finds, is its only cause; and `RestoringIsAtomic` is the
repair: in `RestoringSpec`, `Initialize` falls back on the backup when
identity.json is missing, and the refinement and `SeedsSurviveRestart` hold
without a condition. `NroReplacedAtomically`: the NRO there is to start
(`NroAtHand`, the one at the running path or, without one, the backup) is replaced
by the verified release in one step or not at all. What is shown is what the next
start would run; that the user has to move the backup back after a crash between
the renames is in `NroAtHand`. A cheat file does not implement the cell: a write
that finds no cheat file deletes the backup an interrupted one left.

**OfflineDbUpdate_proofs** (`PacksWhole`, `FailureKeeps`, `FetchedOnSuccess`;
`SaveNeverMixed`, `RestoreComplete`), for any number of versions, updates and
crashes. That an up-to-date database is whole is a fact about versions, wherever
updates were interrupted: no pack is older than the manifest, or its alias, says
(`PacksAhead`), and nothing is newer than what is published (`Bounded`), so that
a manifest of the published version has packs of it. `FoundAhead` says the same
of the files an update found, which a rollback may put back, and `Phases` which
of them are moved, installed or still live at each step. For a save,
`SaveFollows` follows mounted and committed contents through wipe, commit,
remount and extraction; the history `left`, what the wipe has not removed, is
what a mix could come from. What it compares with is `Written` and not the
archive, since the end of a file may be missing (`Unflushable`).

Only model-checked:

* all liveness properties (`TransferEnds`, `EndsOrKnownHang`,
  `CancelEndsOrAsks`, `UsbEndsOrKnownHang`, `StopEnds`, `IconsAreServed`,
  `StopEndsOrIsMissed`): temporal reasoning with fairness is out of the
  prover's reach. What is proved is their safety half, that there is no state in
  which everyone waits but the known ones (`NeverBothWait`, `NoOtherHang`,
  `NoOtherUsbHang`, `NoCircle`, `JoinAnswered`) and nothing that was asked for is
  forgotten (`NoLostWakeup`, `RequestsKept`); these speak of the guards, since
  `ENABLED` is out of reach too. That the waiting ends under the fairness of
  section 5 is what TLC adds.

Every invariant and every action property of a passing run is stated by a
theorem. `SwappedSpec`, `ClearSpec` and `RestoringSpec` are not the code: they are
the code with one change, and say so at their definition.

A theorem never speaks about compressed data, hashes or what a server sends:
those are abstracted before the proofs begin.

## 7. Where code and documentation disagree

1. `ring_stale_offset`. A free segment may still show its old offset, which
   `buffered_placeholder_writer.cpp:165` calls unexpected and throws for; a
   correct transfer then fails. Its only cause and its repair are proved
   (`OnlyThrownBetweenStores`, `OffsetStoredFirst`).
2. `http_cancel`. "Stop the current install and clean up partial data?"
   (`ui/instPage.cpp:385`), but a cancelled transfer may never stop: the retry
   question can be asked when nobody is left to answer it.
3. `install_partial`. The same sentence: a cancelled installation leaves CNMT
   NCAs and records of the title, and cancelling a reinstallation may delete the
   CNMT NCA that was there before.
4. `identity_restart`. Seeds are "reused across requests and application
   restarts" (`docs/IDENTITY_MODEL.md:21`), but a start between the two renames of
   a write finds no identity.json and begins anew. Its only cause and its
   repair are proved (`MutationIsAtomic`, `RestoringIsAtomic`).
5. `nca_retry`. The buffer of an encrypted section is encrypted in place "before
   flushing" (`nx/nca_writer.cpp:738`), and `close()` "should be idempotent"
   (`nca_writer.h:38`). When the write that follows fails and the copy loop
   swallows the exception (`install/sdmc_nsp.cpp:118`), `close()` encrypts the same
   buffer again: the call returns, with plaintext in the placeholder. Its repair
   is proved (`ClearBufferKeepsSeals`).

The other two have no such theorem: `http_cancel` is a liveness property, and
`install_partial` has several causes.

`PROJECT.json` quotes the lines.

The properties name, rather than leave out, what else the code does that a
reader may not expect:

* `StoredIsPackage`: a copy from the SD card whose errors were swallowed, and
  packages or tails too short to be decided on, which are dropped without an
  error.
* `FileOnlyOnSuccess`: a hop that could not start after a redirect leaves the body
  of the redirect in the file.
* `ServicesOpenInUse`, `StopLeavesNothing`: a stop of the MTP server that meets a
  file being opened or closed; and a stream that `CloseStreamInstall` destroys
  after it has given the services back (`mtp_install.cpp:1080`, 1108).
* `SuccessIsInstalled`, `NoNewPlaceholder`, `FailureTakesBackContents`: what cannot
  be deleted stays, without an error, and so does everything a failed session
  has registered if the storage does not open for its cleanup. An empty NCA is
  not registered and the session succeeds.
* `StreamSuccessIsWhole`: an empty entry, or one that is only a ticket, is not
  registered either, and the stream succeeds without it.
* `StreamKeepsInstalled`: a remote XCI with such an entry, cancelled after it,
  deletes the NCA that was installed under that id before
  (`remoteInstall.cpp:2252`-2266, 2283-2310).
* `StreamLeftovers`: the placeholders of NCAs that could not be registered, and of
  the entry the stream was writing when it stopped.
* `NeverMixed`: a directory that could not be listed, which the wipe takes for an
  empty one.
* `NeverMixed`, `RestoreIsWhole`: a file whose end could not be flushed is
  committed short, and the restore is a success (`save_sync.cpp:615`).
* `IconsAreServed`: a worker whose download failed removes the icon file, though
  another, or an installation, may have made it (`ui/remoteInstPage.cpp:1273`).
* `StopEndsOrIsMissed`: a notification between the worker's test and its sleep is
  missed, and the program does not close; and `exists` and `remove` throw in a
  thread that catches nothing, which two workers at one `.part` file can bring
  about.

## 8. What is not modelled

* **Data**: zstd, AES, PFS0/HFS0 and CNMT parsing, JSON, URLs, version
  comparison. Pure functions; the host tests in `tests/` cover many. The
  NCA writer is modelled with what decompression and encryption do to a byte.
* **Package readers, title databases, remote and bridge protocol**: lookups in
  and parsing of bytes that nobody changes meanwhile.
* **Configuration**: `config.cpp:791` truncates config.json in place, in one
  thread and one write. The window is plain from the code and recorded as a
  hazard; a protocol there is none.
* **Wording and layout**: the UI is there where it is shared state (the cancel
  flag, the retry dialog, the icon queue, the page that stops the MTP server).
  That MTP installers do not look at the cancel flag is in the guard of
  `StopServer`; that a read error ends the packing of a save like its end does
  is in `SaveSync!Packed`. Both are hazards without a property: the code does not
  say what it promises there.
* **The title loops** of `netInstall.cpp`, `sdInstall.cpp`, `usbInstall.cpp` and
  `hddInstall.cpp`: a package at a time is modelled, for the destination the user
  chose; the loop that stops at the first exception, the deletion of the source
  file afterwards and the closing of services after the last title are not.
* **TLS, headers and deadlines** of the HTTP client end a request like any other
  error. The sequential HTTP XCI reader is there as a caller of the NCA writer.
* **The parallel download of one database file**: its workers are joined before
  anything looks at the file, so it is one step that delivers a verified file or
  none.
* **Content-Range**: an answer with another range than the one asked for is not
  told apart; a property about it needs contents, which the transfer models do
  not have.
* **Third-party code**: libhaze, libusbhsfs and the headers under `src/include`.
  With `json.hpp` and the FAT driver they are more than half of the repository's
  C and C++ lines, and pages of layout much of the rest.

## 9. Plan

Done, in this order: the ring and its channel; the two transfers on top; the
install session; the file stores, with the catalog as the one that refines the
durable cell; the MTP stream and the stream installers over the sessions'
storage; the NCA writer; the HTTP client; cheat files, saves and the icon queue;
proofs of every safety property, of the refinement of the byte channel and of
three of the durable cell, of the two transfers' use of the channel, and of the
causes or repairs of three findings.

To come:

1. the NCA writer as what the ring's consumer writes to, over one stream: today
   `MCPlaceholder` runs one after the other, and their only meeting point, a
   write that throws in the consumer, is in the transports;
2. the title loops of the callers: stopping at the first exception, and closing
   the NCM and NS services after the last title.

The abstract specifications worth stating stay the two there are, a bounded byte
channel and a durable cell. The two remaining parts that resemble them implement
neither: a cheat file may lose the backup that counts (section 6), and the buffer
of an MTP XCI is read in pieces of any size. `WriteIsAllOrNothing` and
`XciVerdictIsRight` say what they do promise.
