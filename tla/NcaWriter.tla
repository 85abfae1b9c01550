------------------------------ MODULE NcaWriter ------------------------------
(***************************************************************************)
(* NcaWriter and its delegates (source/nx/nca_writer.cpp), as the copy     *)
(* loops of SDMCNSP, SDMCXCI and HTTPXCI drive it.  A package arrives in   *)
(* writes of any size; its header, magics, tables and blocks are gathered  *)
(* across them, the body is copied or decompressed into a buffer, and the  *)
(* buffer is encrypted in place and written to the placeholder.  Writing,  *)
(* creating, decoding and reading may throw; the destructor closes again.  *)
(* A byte is known by the stream position it comes from.                   *)
(***************************************************************************)
EXTENDS Integers, SequencesExt

CONSTANTS
  Packages,                \* the NCAs and NCZs that may arrive
  HeaderSize, HeaderMin,   \* NCA_HEADER_SIZE, sizeof(NcaHeader)
  MagicSize, TableMin,     \* sizeof(MAGIC), MIN_HEADER_SIZE
  BlockHeaderSize,         \* sizeof(NczBlockHeader)
  ContentBufferSize,       \* CONTENT_BUFFER_SIZE
  MaxWriteSize, MaxHeld    \* bounds: a write, what the decoder holds back

ASSUME NcaAssumption ==
  /\ MagicSize \in Nat \ {0} /\ HeaderMin \in Nat /\ HeaderSize \in Nat
  /\ MagicSize <= HeaderMin /\ HeaderMin <= HeaderSize
  /\ TableMin \in Nat /\ BlockHeaderSize \in Nat
  /\ MagicSize <= TableMin /\ MagicSize <= BlockHeaderSize
  /\ ContentBufferSize \in Nat \ {0} /\ MaxWriteSize \in Nat /\ MaxHeld \in Nat

\* Where the compressed blocks of p begin in the stream, and the last ends.
Starts(p) ==
  LET start[b \in 1 .. Len(p.blocks) + 1] ==
        IF b = 1 THEN HeaderSize + p.table + BlockHeaderSize + Len(p.blocks)
                 ELSE start[b - 1] + p.blocks[b - 1]
  IN start

\* What block b holds: its share of the decompressed bytes.
Share(p, b) == Min({p.blockSize, p.decompressedSize - (b - 1) * p.blockSize})

\* The tables of an NCZ are whole, as far as they are not refused, and its
\* sections lie behind the header.
NczWhole(p) ==
  /\ p.tableOk => p.table >= TableMin
  /\ p.length >= HeaderSize + (IF p.tableOk THEN p.table + MagicSize ELSE TableMin)
  /\ \A i \in DOMAIN p.sections :
       p.sections[i].start \in Nat /\ p.sections[i].start >= HeaderSize /\ p.sections[i].size \in Nat

\* So are its blocks; one is stored as it is if compressing saved nothing.
BlocksWhole(p) ==
  /\ p.length >= HeaderSize + p.table + BlockHeaderSize
  /\ p.blockOk =>
       /\ Starts(p)[Len(p.blocks) + 1] <= p.length
       /\ p.decompressedSize <= Len(p.blocks) * p.blockSize
       /\ \A b \in DOMAIN p.blocks :
            /\ Share(p, b) > 0
            /\ p.packed[b] => p.usesZstd
            /\ Share(p, b) = (IF p.packed[b] THEN 2 * p.blocks[b] ELSE p.blocks[b])

\* A package is what its length and its tables say.
ASSUME PackageAssumption ==
  \A p \in Packages :
    /\ p.length \in Nat /\ p.table \in Nat
    /\ p.blockSize \in Nat \ {0} /\ p.decompressedSize \in Nat
    /\ {p.valid, p.ncz, p.tableOk, p.blockOk, p.usesZstd, p.intact} \subseteq BOOLEAN
    /\ p.format \in {"copy", "unpack", "blockHeader"}
    /\ p.blocks \in Seq(Nat \ {0}) /\ p.packed \in [DOMAIN p.blocks -> BOOLEAN]
    /\ p.ncz => NczWhole(p)
    /\ p.ncz /\ p.tableOk /\ p.format = "blockHeader" => BlocksWhole(p)

VARIABLES
  package, caller,
  fed, parsed,         \* stream bytes handed to write(), and used by a stage
  stage,               \* what the next bytes are
  blockIdx, blockRead, \* m_currentBlockIdx, m_currentBlockReadOffset
  held,                \* bytes the decoder has read and not yet put out
  out,                 \* what m_writeFn was called with and has not buffered
  contentBuffer, contentOffset,   \* m_contentBuffer, m_offset
  created, stored,     \* the placeholder, and its bytes by offset
  call,                \* where the caller is
  threw                \* history: something has thrown

streamVars == <<package, caller, fed>>
parseVars  == <<parsed, stage, blockIdx, blockRead, held>>
bodyVars   == <<out, contentBuffer, contentOffset>>
storeVars  == <<created, stored>>
callVars   == <<call, threw>>
ncaVars == <<streamVars, parseVars, bodyVars, storeVars, callVars>>

NcaInit ==
  /\ package \in Packages /\ caller \in {"sdmc", "http_xci"}
  /\ fed = 0 /\ parsed = 0 /\ stage = "header"
  /\ blockIdx = 0 /\ blockRead = 0 /\ held = 0
  /\ out = <<>> /\ contentBuffer = <<>> /\ contentOffset = HeaderSize
  /\ created = FALSE /\ stored = <<>>
  /\ call = "loop" /\ threw = FALSE

\* The bytes of the stream after position `from`, up to `to`, as they are ...
Copied(from, to) == [i \in 1 .. to - from |-> [at |-> <<from + i, 0>>, sealed |-> FALSE]]

\* ... and decompressed: each gives two.
Unpacked(from, to) ==
  [i \in 1 .. 2 * (to - from) |-> [at |-> <<from + (i + 1) \div 2, 2 - (i % 2)>>, sealed |-> FALSE]]

\* An exception: SDMCNSP and SDMCXCI catch what leaves their loop and close,
\* otherwise the destructor closes, and must not throw again.
Throw ==
  /\ call' = CASE call \in {"loop", "write"} -> IF caller = "sdmc" THEN "close" ELSE "unwind"
               [] call = "close"             -> "unwind"
               [] call = "unwind"            -> "terminated"
  /\ threw' = TRUE

-----------------------------------------------------------------------------
(* The copy loop                                                           *)

WriteChunk ==
  /\ call = "loop"
  /\ \E n \in 1 .. MaxWriteSize : fed + n <= package.length /\ fed' = fed + n
  /\ call' = "write"
  /\ UNCHANGED <<package, caller, parseVars, bodyVars, storeVars, threw>>

\* A cancel, or BufferDataRange fails.  The SD card loops do not look at
\* the cancel flag and do not look at what fread returns.
SourceThrows ==
  /\ call = "loop" /\ caller = "http_xci" /\ fed < package.length
  /\ Throw
  /\ UNCHANGED <<streamVars, parseVars, bodyVars, storeVars>>

LoopEnds ==
  /\ call = "loop" /\ fed = package.length
  /\ call' = "close"
  /\ UNCHANGED <<streamVars, parseVars, bodyVars, storeVars, threw>>

-----------------------------------------------------------------------------
(* Gathering: each stage waits in a buffer until it has all it needs.      *)

Needs ==
  [header |-> HeaderSize, magic |-> MagicSize,
   table |-> IF package.tableOk THEN package.table ELSE TableMin,
   format |-> MagicSize, blockHeader |-> BlockHeaderSize, blockSizes |-> Len(package.blocks)]

Unparsed == fed - parsed

Gathered(s) ==
  call = "write" /\ out = <<>> /\ stage = s /\ Unparsed >= Needs[s]

\* write() returns when its bytes are used up or wait in a buffer.
WriteReturns ==
  /\ call = "write" /\ out = <<>>
  /\ IF stage \in DOMAIN Needs THEN Unparsed < Needs[stage] ELSE Unparsed = 0
  /\ call' = "loop"
  /\ UNCHANGED <<streamVars, parseVars, bodyVars, storeVars, threw>>

\* The placeholder has these bytes from offset `at` on.
WritePlaceholder(at, bytes) ==
  LET written == at .. at + Len(bytes) - 1
  IN stored' = [o \in written \cup DOMAIN stored |->
                  IF o \in written THEN bytes[o - at + 1] ELSE stored[o]]

\* flushHeader with n bytes: the placeholder is created and written.
StoreHeader(n) ==
  /\ package.valid /\ ~created
  /\ created' = TRUE
  /\ WritePlaceholder(0, Copied(0, n))

\* Not an NCA, no room, there already, or the write fails.
HeaderThrows == created' \in {created, created \/ package.valid} /\ Throw /\ UNCHANGED stored

FlushHeader ==
  /\ Gathered("header")
  /\ \/ StoreHeader(HeaderSize) /\ parsed' = HeaderSize /\ stage' = "magic" /\ UNCHANGED callVars
     \/ HeaderThrows /\ UNCHANGED <<parsed, stage>>
  /\ UNCHANGED <<streamVars, blockIdx, blockRead, held, bodyVars>>

\* The next stage begins at the byte after the first n gathered ones.
Enter(s, n) ==
  /\ stage' = s /\ parsed' = parsed + n
  /\ UNCHANGED <<streamVars, blockIdx, blockRead, held, bodyVars, storeVars, callVars>>

Refuse == Throw /\ UNCHANGED <<streamVars, parseVars, bodyVars, storeVars>>

\* The magic tells NczBodyWriter from NcaBodyWriter, and is handed on.
SelectBody == Gathered("magic") /\ Enter(IF package.ncz THEN "table" ELSE "copy", 0)

ReadTable ==
  /\ Gathered("table")
  /\ IF package.tableOk THEN Enter("format", package.table) ELSE Refuse

\* So is the magic of the compressed data.
SelectFormat == Gathered("format") /\ Enter(package.format, 0)

ReadBlockHeader ==
  /\ Gathered("blockHeader")
  /\ IF package.blockOk THEN Enter("blockSizes", BlockHeaderSize) ELSE Refuse

ReadBlockSizes == Gathered("blockSizes") /\ Enter("blocks", Len(package.blocks))

-----------------------------------------------------------------------------
(* The body                                                                *)

Working(s) == call = "write" /\ out = <<>> /\ stage = s /\ Unparsed > 0

\* NcaBodyWriter and DirectStreamWriter
CopyBody ==
  /\ Working("copy")
  /\ out' = Copied(parsed, fed) /\ parsed' = fed
  /\ UNCHANGED <<streamVars, stage, blockIdx, blockRead, held, contentBuffer, contentOffset,
                 storeVars, callVars>>

\* The decoder reads n bytes and puts out what it can; it holds nothing back
\* at the end of a frame.
Decode(n, frameEnds) ==
  \E h \in 0 .. Min({MaxHeld, held + n}) :
    /\ frameEnds => h = 0
    /\ held' = h
    /\ out' = Unpacked(parsed - held, parsed + n - h)

\* ZstdStreamWriter
UnpackBody ==
  /\ Working("unpack")
  /\ Decode(Unparsed, fed = package.length)
  /\ parsed' = fed
  /\ UNCHANGED <<streamVars, stage, blockIdx, blockRead, contentBuffer, contentOffset,
                 storeVars, callVars>>

DecoderThrows ==
  /\ Working("unpack") \/ Working("blocks")
  /\ ~package.intact
  /\ Refuse

\* Mutant: the last block is expected to be as long as the others.
ExpectedSizeWhole(p, b) == p.blockSize

\* What block b holds when decompressed: the last one, what remains.
ExpectedSize(p, b) ==
  LET rest == (p.decompressedSize % p.blockSize)
  IN IF b = Len(p.blocks) /\ rest > 0 THEN rest ELSE p.blockSize

\* NczBlockStreamWriter: a block gets its share of the write.  One that is
\* not smaller than what it holds was left uncompressed.
WriteBlock ==
  /\ Working("blocks") /\ blockIdx < Len(package.blocks)
  /\ LET b     == blockIdx + 1
         size  == package.blocks[b]
         share == Min({Unparsed, size - blockRead})
         ends  == blockRead + share >= size
     IN /\ IF package.usesZstd /\ size < ExpectedSize(package, b)
             THEN Decode(share, ends)
             ELSE out' = Copied(parsed, parsed + share) /\ UNCHANGED held
        /\ parsed' = parsed + share
        /\ blockIdx'  = IF ends THEN b ELSE blockIdx
        /\ blockRead' = IF ends THEN 0 ELSE blockRead + share
  /\ UNCHANGED <<streamVars, stage, contentBuffer, contentOffset, storeVars, callVars>>

\* Bytes after the last block are dropped.
SkipRest ==
  /\ Working("blocks") /\ blockIdx = Len(package.blocks)
  /\ Enter("blocks", Unparsed)

\* The section of the table that offset o is in decides; there may be none.
Encrypts(o) ==
  package.ncz /\ \E i \in DOMAIN package.sections :
    LET section == package.sections[i]
    IN o \in section.start .. section.start + section.size - 1 /\ section.ctr

\* AES-CTR in place: encrypting twice is decrypting.
Encrypted(bytes) ==
  [i \in DOMAIN bytes |-> [bytes[i] EXCEPT !.sealed = (@ # Encrypts(contentOffset + i - 1))]]

\* flushContentBuffer
Flush(bytes) ==
  /\ WritePlaceholder(contentOffset, Encrypted(bytes))
  /\ contentOffset' = contentOffset + Len(bytes)
  /\ contentBuffer' = <<>>

\* WritePlaceholder throws: the buffer stays, encrypted as it is now.
FlushThrows(bytes) ==
  /\ Throw
  /\ contentBuffer' = Encrypted(bytes) /\ out' = <<>>
  /\ UNCHANGED <<stored, contentOffset>>

Room == ContentBufferSize - Len(contentBuffer)

\* NcaBodyWriter::write: what fits is buffered ...
FillBuffer ==
  /\ call = "write" /\ out # <<>> /\ Len(out) < Room
  /\ contentBuffer' = contentBuffer \o out /\ out' = <<>>
  /\ UNCHANGED <<streamVars, parseVars, contentOffset, storeVars, callVars>>

\* ... and a full buffer is flushed.
FlushFull ==
  /\ call = "write" /\ Len(out) >= Room
  /\ LET filled == contentBuffer \o SubSeq(out, 1, Room)
     IN \/ Flush(filled) /\ out' = SubSeq(out, Room + 1, Len(out)) /\ UNCHANGED callVars
        \/ FlushThrows(filled)
  /\ UNCHANGED <<streamVars, parseVars, created>>

-----------------------------------------------------------------------------
(* close(), called by the loop's function or by the destructor             *)

Closing == call \in {"close", "unwind"}

Closed == call' = (IF call = "close" THEN "returned" ELSE "failed") /\ UNCHANGED threw

\* There is a body writer: what is left in its buffer is flushed.
CloseBody ==
  /\ Closing /\ stage \notin {"header", "magic"}
  /\ \/ Flush(contentBuffer) /\ Closed /\ UNCHANGED out
     \/ contentBuffer # <<>> /\ FlushThrows(contentBuffer)
  /\ UNCHANGED <<streamVars, parseVars, created>>

\* What NcaWriter's own buffer holds when there is none.
Waiting == Min({Unparsed, HeaderSize})

\* A header is flushed if enough of it was gathered ...
CloseHeader ==
  /\ Closing /\ stage = "header" /\ Waiting >= HeaderMin
  /\ \/ StoreHeader(Waiting) /\ Closed
     \/ HeaderThrows
  /\ UNCHANGED <<streamVars, parseVars, bodyVars>>

\* ... and anything else is dropped.
DropBuffer ==
  /\ Closing
  /\ stage = "magic" \/ (stage = "header" /\ Waiting < HeaderMin)
  /\ Closed
  /\ UNCHANGED <<streamVars, parseVars, bodyVars, storeVars>>

NcaSteps ==
  \/ WriteChunk \/ SourceThrows \/ LoopEnds \/ WriteReturns
  \/ FlushHeader \/ SelectBody \/ ReadTable \/ SelectFormat \/ ReadBlockHeader \/ ReadBlockSizes
  \/ CopyBody \/ UnpackBody \/ DecoderThrows \/ WriteBlock \/ SkipRest \/ FillBuffer
  \/ FlushFull \/ CloseBody \/ CloseHeader \/ DropBuffer

NcaSpec == NcaInit /\ [][NcaSteps]_ncaVars

-----------------------------------------------------------------------------
(* What a package promises                                                 *)

\* The blocks of p one after the other, each as its maker stored it.
BlockBytes(p) ==
  [i \in 1 .. p.decompressedSize |->
     LET b    == ((i - 1) \div p.blockSize) + 1
         from == Starts(p)[b]
         to   == Starts(p)[b + 1]
     IN (IF p.packed[b] THEN Unpacked(from, to) ELSE Copied(from, to))[((i - 1) % p.blockSize) + 1]]

BodyBytes(p) ==
  CASE ~p.ncz                            -> Copied(HeaderSize, p.length)
    [] p.ncz /\ p.format = "copy"        -> Copied(HeaderSize + p.table, p.length)
    [] p.ncz /\ p.format = "unpack"      -> Unpacked(HeaderSize + p.table, p.length)
    [] p.ncz /\ p.format = "blockHeader" -> BlockBytes(p)

NcaBytes(p) ==
  Copied(0, Min({HeaderSize, p.length})) \o (IF p.length > HeaderSize THEN BodyBytes(p) ELSE <<>>)

SealedAt(p, o) ==
  p.ncz /\ \E i \in DOMAIN p.sections :
    p.sections[i].ctr /\ p.sections[i].start <= o /\ o < p.sections[i].start + p.sections[i].size

\* The NCA that p stands for, by offset.
Promised(p) ==
  [o \in 0 .. Len(NcaBytes(p)) - 1 |-> [NcaBytes(p)[o + 1] EXCEPT !.sealed = SealedAt(p, o)]]

\* Known: a package too short for a header, and a body too short for a
\* magic, are dropped without an error.
Dropped(p) ==
  p.length < HeaderMin \/ p.length - HeaderSize \in 1 .. MagicSize - 1

\* However the package is cut into writes, every byte of the placeholder is
\* the one its NCA has at that offset, encrypted exactly where its section
\* says unless a write had failed before; and a StreamToPlaceholder that
\* returns has stored all of it, unless an SD card loop swallowed the error.
StoredIsPackage ==
  /\ \A o \in DOMAIN stored :
       /\ o \in DOMAIN Promised(package) /\ stored[o].at = Promised(package)[o].at
       /\ ~threw => stored[o] = Promised(package)[o]
  /\ call = "returned" =>
       stored = Promised(package) \/ Dropped(package) \/ (caller = "sdmc" /\ threw)

\* What the code says of itself, "Apply section-based encryption in-place
\* before flushing" by a close() that is idempotent: nothing of an encrypted
\* section is in the clear in a placeholder that counts as complete.
StoredEncrypted ==
  call = "returned" =>
    \A o \in DOMAIN stored : stored[o].sealed = Promised(package)[o].sealed
==============================================================================
