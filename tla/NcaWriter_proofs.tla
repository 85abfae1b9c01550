-------------------------- MODULE NcaWriter_proofs --------------------------
(***************************************************************************)
(* Proofs about NcaWriter: however a package is cut into writes, whatever  *)
(* the decoder holds back and whatever throws, the placeholder holds bytes *)
(* of the NCA at their offsets, and all of them when the call succeeds --  *)
(* for every package, its blocks and sections, and every buffer size.      *)
(***************************************************************************)
EXTENDS NcaWriter, WellFoundedInduction, TLAPS

-----------------------------------------------------------------------------
(* Induction                                                               *)

Below == {pair \in Nat \X Nat : pair[1] < pair[2]}

LEMMA BelowWellFounded == IsWellFoundedOn(Below, Nat)
<1>1. IsWellFoundedOn(OpToRel(<, Nat), Nat)
  BY NatLessThanWellFounded
<1>2. OpToRel(<, Nat) = Below
  BY Zenon DEF OpToRel, Below
<1> QED
  BY <1>1, <1>2, Zenon

\* A set of natural numbers has a least one: induction as a fact about sets,
\* for what a recursive function computes.
LEMMA Least ==
  ASSUME NEW T \in SUBSET Nat, T # {}
  PROVE  \E n \in T : \A m \in T : n <= m
<1>1. \A n, m \in T : <<m, n>> \notin Below => n <= m
  BY DEF Below
<1>2. PICK n \in T : \A m \in T : ~(<<m, n>> \in Below)
  BY BelowWellFounded, WFMin
<1> QED
  BY <1>1, <1>2

-----------------------------------------------------------------------------
(* The invariant                                                           *)

Stages == {"header", "magic", "table", "format", "blockHeader", "blockSizes",
           "copy", "unpack", "blocks"}
Calls == {"loop", "write", "close", "returned", "unwind", "failed", "terminated"}
Bytes == [at : Nat \X Nat, sealed : BOOLEAN]
Clear == [at : Nat \X Nat, sealed : {FALSE}]

\* There is a body writer.
InBody == stage \notin {"header", "magic"}

Running == call \in {"loop", "write"}

NcaTypes ==
  /\ package \in Packages /\ caller \in {"sdmc", "http_xci"}
  /\ fed \in 0 .. package.length /\ parsed \in 0 .. fed
  /\ stage \in Stages /\ call \in Calls
  /\ blockIdx \in 0 .. Len(package.blocks) /\ blockRead \in Nat /\ held \in Nat
  /\ out \in Seq(Clear) /\ contentBuffer \in Seq(Bytes)
  /\ contentOffset \in Nat /\ contentOffset >= HeaderSize
  /\ created \in BOOLEAN /\ threw \in BOOLEAN

\* Who is still running has met no exception; who returns after one has
\* swallowed it.  Bytes wait for the buffer only inside of a write, and the
\* buffer has room for one more.
Control ==
  /\ Running => ~threw /\ Len(contentBuffer) < ContentBufferSize
  /\ call \in {"unwind", "failed", "terminated"} => threw
  /\ threw /\ call \in {"close", "returned"} => caller = "sdmc"
  /\ call # "write" => out = <<>>
  /\ ~InBody => out = <<>> /\ contentBuffer = <<>> /\ contentOffset = HeaderSize
  /\ call = "returned" /\ ~threw => contentBuffer = <<>>

\* Between writes, a stage waits for less than it needs.
Rested ==
  call # "write" /\ ~threw =>
    IF stage \in DOMAIN Needs THEN Unparsed < Needs[stage] ELSE Unparsed = 0

\* A loop that ended has fed the whole package.
AllFed == call \in {"close", "returned"} /\ ~threw => fed = package.length

\* Where the body begins in the stream.
BodyStart == HeaderSize + (IF package.ncz THEN package.table ELSE 0)

\* Each stage is one the package leads to, and begins where the last ended.
AtStage ==
  /\ stage = "header" => parsed = 0
  /\ stage \in {"magic", "table"} => parsed = HeaderSize
  /\ stage \notin {"header", "magic", "copy"} => package.ncz
  /\ stage \in {"format", "unpack", "blockHeader", "blockSizes", "blocks"} => package.tableOk
  /\ stage = "copy" /\ package.ncz => package.tableOk /\ package.format = "copy"
  /\ stage = "unpack" => package.format = "unpack"
  /\ stage \in {"blockHeader", "blockSizes", "blocks"} => package.format = "blockHeader"
  /\ stage \in {"blockSizes", "blocks"} => package.blockOk
  /\ stage \in {"format", "blockHeader"} => parsed = BodyStart
  /\ stage = "blockSizes" => parsed = BodyStart + BlockHeaderSize
  /\ stage = "copy" => parsed >= BodyStart
  /\ stage = "unpack" => parsed >= BodyStart + held /\ (parsed = package.length => held = 0)

\* How far the writer is in its block.
AtBlock ==
  /\ stage # "blocks" => blockIdx = 0 /\ blockRead = 0
  /\ stage \notin {"unpack", "blocks"} => held = 0
  /\ stage = "blocks" =>
       IF blockIdx = Len(package.blocks)
         THEN parsed >= Starts(package)[blockIdx + 1] /\ blockRead = 0 /\ held = 0
         ELSE /\ parsed = Starts(package)[blockIdx + 1] + blockRead
              /\ blockRead < package.blocks[blockIdx + 1]
              /\ held <= (IF package.packed[blockIdx + 1] THEN blockRead ELSE 0)

\* How many bytes of the body have been made from what was parsed.
Made ==
  CASE stage = "copy"   -> parsed - BodyStart
    [] stage = "unpack" -> 2 * (parsed - held - BodyStart)
    [] stage = "blocks" ->
         IF blockIdx = Len(package.blocks) THEN package.decompressedSize
         ELSE blockIdx * package.blockSize
              + (IF package.packed[blockIdx + 1] THEN 2 * (blockRead - held) ELSE blockRead)
    [] OTHER -> 0

Flushed == contentOffset - HeaderSize

\* They are flushed, buffered or on their way to the buffer, unless an
\* exception lost the last ones.
AllThere ==
  InBody /\ ~threw => Flushed + Len(contentBuffer) + Len(out) = Made

Body == BodyBytes(package)

\* What is buffered is the body, from the first byte not flushed on ...
BufferedRight ==
  \A i \in 1 .. Len(contentBuffer) :
    /\ Flushed + i \in 1 .. Len(Body) /\ contentBuffer[i].at = Body[Flushed + i].at
    /\ ~threw => contentBuffer[i] = Body[Flushed + i] /\ contentBuffer[i].sealed = FALSE

\* ... and so is what comes after it.
OutRight ==
  \A i \in 1 .. Len(out) :
    /\ Flushed + Len(contentBuffer) + i \in 1 .. Len(Body)
    /\ out[i] = Body[Flushed + Len(contentBuffer) + i]

\* The first conjunct of StoredIsPackage.
StoredRight ==
  \A o \in DOMAIN stored :
    /\ o \in DOMAIN Promised(package) /\ stored[o].at = Promised(package)[o].at
    /\ ~threw => stored[o] = Promised(package)[o]

\* Without a hole: the header, then what was flushed.
StoredUpTo ==
  /\ stored = [o \in DOMAIN stored |-> stored[o]]
  /\ stage # "header" => DOMAIN stored = 0 .. contentOffset - 1
  /\ stage = "header" =>
       \/ DOMAIN stored = {} /\ (call = "returned" /\ ~threw => Unparsed < HeaderMin)
       \/ created /\ call \in {"returned", "failed"} /\ DOMAIN stored = 0 .. Waiting - 1
  /\ stage # "header" => created

NcaIInv ==
  /\ NcaTypes /\ Control /\ Rested /\ AllFed /\ AtStage /\ AtBlock
  /\ AllThere /\ BufferedRight /\ OutRight /\ StoredRight /\ StoredUpTo

-----------------------------------------------------------------------------
(* What the operators of the model compute                                 *)

LEMMA MinOfTwo ==
  ASSUME NEW a \in Int, NEW b \in Int
  PROVE  Min({a, b}) = IF a <= b THEN a ELSE b
<1> DEFINE least == IF a <= b THEN a ELSE b
<1>1. least \in {a, b} /\ \A y \in {a, b} : least <= y
  OBVIOUS
<1>2. \A x \in {a, b} : (\A y \in {a, b} : x <= y) => x = least
  OBVIOUS
<1> QED
  BY <1>1, <1>2 DEF Min

\* The fields of a package, for provers that do not look into assumptions.
LEMMA PackageFields ==
  ASSUME NEW p \in Packages
  PROVE  /\ p.length \in Nat /\ p.table \in Nat
         /\ p.blockSize \in Nat \ {0} /\ p.decompressedSize \in Nat
         /\ p.valid \in BOOLEAN /\ p.ncz \in BOOLEAN /\ p.tableOk \in BOOLEAN
         /\ p.blockOk \in BOOLEAN /\ p.usesZstd \in BOOLEAN
         /\ p.format \in {"copy", "unpack", "blockHeader"}
         /\ p.blocks \in Seq(Nat \ {0}) /\ p.packed \in [1 .. Len(p.blocks) -> BOOLEAN]
         /\ Len(p.blocks) \in Nat
BY PackageAssumption

\* The recursion of Starts has a solution ...
LEMMA StartsExist ==
  ASSUME NEW first \in Nat, NEW sizes \in Seq(Nat)
  PROVE  \E g \in [1 .. Len(sizes) + 1 -> Nat] :
           g = [b \in 1 .. Len(sizes) + 1 |-> IF b = 1 THEN first ELSE g[b - 1] + sizes[b - 1]]
<1> DEFINE n == Len(sizes)
           Solves(g, m) == \A b \in 1 .. m : g[b] = IF b = 1 THEN first ELSE g[b - 1] + sizes[b - 1]
           T == {m \in Nat : m \in 1 .. n + 1 /\ ~ \E g \in [1 .. m -> Nat] : Solves(g, m)}
<1>1. n \in Nat
  OBVIOUS
<1>2. T = {}
  <2> SUFFICES ASSUME T # {} PROVE FALSE
    OBVIOUS
  <2>1. PICK m \in T : \A k \in T : m <= k
    <3> HIDE DEF T
    <3>1. T \in SUBSET Nat
      BY DEF T
    <3> QED
      BY <3>1, Least
  <2>2. m \in 1 .. n + 1 /\ ~ \E g \in [1 .. m -> Nat] : Solves(g, m)
    OBVIOUS
  <2>3. CASE m = 1
    <3> DEFINE g == [b \in 1 .. 1 |-> first]
    <3>1. g \in [1 .. 1 -> Nat] /\ Solves(g, 1)
      OBVIOUS
    <3> QED
      BY <2>2, <2>3, <3>1
  <2>4. CASE m > 1
    <3>1. m - 1 \in 1 .. n + 1 /\ m - 1 \in Nat /\ ~(m <= m - 1)
      BY <2>2, <2>4, <1>1
    <3>a. m - 1 \notin T
      <4> HIDE DEF T
      <4> QED
        BY <2>1, <3>1
    <3>2. PICK g \in [1 .. m - 1 -> Nat] : Solves(g, m - 1)
      BY <3>1, <3>a
    <3> DEFINE h == [b \in 1 .. m |-> IF b = m THEN g[m - 1] + sizes[m - 1] ELSE g[b]]
    <3>3. m - 1 \in 1 .. n /\ sizes[m - 1] \in Nat
      BY <2>2, <2>4, <1>1
    <3>4. h \in [1 .. m -> Nat]
      <4>1. g[m - 1] + sizes[m - 1] \in Nat
        <5>1. m - 1 \in 1 .. m - 1
          BY <3>3, <1>1
        <5>2. g[m - 1] \in Nat
          BY <3>2, <5>1
        <5> QED
          BY <3>3, <5>2
      <4>2. \A b \in 1 .. m : b # m => b \in 1 .. m - 1 /\ g[b] \in Nat
        BY <3>1, <3>2, <2>2, <1>1
      <4> QED
        BY <4>1, <4>2
    <3>5. Solves(h, m)
      <4> SUFFICES ASSUME NEW b \in 1 .. m
                   PROVE  h[b] = IF b = 1 THEN first ELSE h[b - 1] + sizes[b - 1]
        OBVIOUS
      <4>1. CASE b = m
        BY <4>1, <2>4, <2>2, <1>1
      <4>2. CASE b # m
        <5>1. b \in 1 .. m - 1
          BY <4>2, <2>2, <1>1
        <5>2. g[b] = IF b = 1 THEN first ELSE g[b - 1] + sizes[b - 1]
          BY <5>1, <3>2
        <5>3. b # 1 => h[b - 1] = g[b - 1]
          BY <5>1, <2>2, <1>1
        <5> QED
          BY <5>1, <5>2, <5>3, <4>2
      <4> QED
        BY <4>1, <4>2
    <3> QED
      BY <3>4, <3>5, <2>2
  <2> QED
    BY <2>2, <2>3, <2>4, <1>1
<1>a. n + 1 \notin T
  <2> HIDE DEF T
  <2> QED
    BY <1>2
<1>3. n + 1 \notin T /\ n + 1 \in Nat /\ n + 1 \in 1 .. n + 1
  BY <1>1, <1>a
<1>5. PICK g \in [1 .. n + 1 -> Nat] : Solves(g, n + 1)
  BY <1>3
<1>4. g = [b \in 1 .. n + 1 |-> IF b = 1 THEN first ELSE g[b - 1] + sizes[b - 1]]
  BY <1>5
<1> QED
  BY <1>4

\* ... so Starts adds up the sizes of the blocks.
LEMMA StartsAddUp ==
  ASSUME NEW p \in Packages
  PROVE  /\ Starts(p) \in [1 .. Len(p.blocks) + 1 -> Nat]
         /\ Starts(p)[1] = HeaderSize + p.table + BlockHeaderSize + Len(p.blocks)
         /\ \A b \in 1 .. Len(p.blocks) : Starts(p)[b + 1] = Starts(p)[b] + p.blocks[b]
<1> DEFINE first == HeaderSize + p.table + BlockHeaderSize + Len(p.blocks)
           n == Len(p.blocks)
           F(g) == [b \in 1 .. n + 1 |-> IF b = 1 THEN first ELSE g[b - 1] + p.blocks[b - 1]]
<1>1. first \in Nat /\ p.blocks \in Seq(Nat) /\ n \in Nat
  <2>1. p.blocks \in Seq(Nat \ {0}) /\ p.table \in Nat /\ Len(p.blocks) \in Nat
    BY PackageFields
  <2>2. HeaderSize \in Nat /\ BlockHeaderSize \in Nat
    BY NcaAssumption
  <2>3. p.blocks \in Seq(Nat)
    BY <2>1
  <2> QED
    BY <2>1, <2>2, <2>3
<1>3. \E g \in [1 .. n + 1 -> Nat] : g = F(g)
  BY <1>1, StartsExist
<1>2. \E g : g = F(g)
  BY <1>3
<1>4. Starts(p) = CHOOSE g : g = F(g)
  BY DEF Starts
<1>5. Starts(p) = F(Starts(p))
  BY <1>2, <1>4
<1>6. PICK g : g = Starts(p) /\ g = F(g)
  BY <1>5
<1>7. \A b \in 1 .. n + 1 : g[b] = IF b = 1 THEN first ELSE g[b - 1] + p.blocks[b - 1]
  BY <1>6
<1>8. \A b \in 1 .. n + 1 : g[b] \in Nat
  <2> DEFINE T == {b \in Nat : b \in 1 .. n + 1 /\ g[b] \notin Nat}
  <2> SUFFICES ASSUME T # {} PROVE FALSE
    BY <1>1
  <2>1. PICK b \in T : \A k \in T : b <= k
    <3> HIDE DEF T
    <3>1. T \in SUBSET Nat
      BY DEF T
    <3> QED
      BY <3>1, Least
  <2>2. b \in 1 .. n + 1 /\ g[b] \notin Nat
    OBVIOUS
  <2>3. b # 1
    BY <2>2, <1>7, <1>1
  <2>4. b - 1 \in 1 .. n /\ b - 1 \in Nat /\ ~(b <= b - 1) /\ p.blocks[b - 1] \in Nat
    <3>1. b - 1 \in 1 .. n /\ ~(b <= b - 1)
      BY <2>2, <2>3, <1>1
    <3>2. p.blocks[b - 1] \in Nat
      BY <3>1, <1>1
    <3> QED
      BY <3>1, <3>2
  <2>5. b - 1 \notin T
    <3> HIDE DEF T
    <3> QED
      BY <2>1, <2>4
  <2>6. g[b - 1] \in Nat
    BY <2>4, <2>5, <1>1
  <2> QED
    BY <2>2, <2>3, <2>4, <2>6, <1>7
<1>9. \A b \in 1 .. n : g[b + 1] = g[b] + p.blocks[b]
  <2> SUFFICES ASSUME NEW b \in 1 .. n PROVE g[b + 1] = g[b] + p.blocks[b]
    OBVIOUS
  <2>1. b + 1 \in 1 .. n + 1 /\ b + 1 # 1 /\ (b + 1) - 1 = b
    BY <1>1
  <2> QED
    BY <2>1, <1>7
<1>10. g \in [1 .. n + 1 -> Nat]
  BY <1>6, <1>8
<1>11. g[1] = first
  BY <1>1, <1>7
<1> QED
  BY <1>6, <1>9, <1>10, <1>11

\* No block begins behind the end of the last one.
LEMMA StartsGrow ==
  ASSUME NEW p \in Packages
  PROVE  \A b \in 1 .. Len(p.blocks) + 1 : Starts(p)[b] <= Starts(p)[Len(p.blocks) + 1]
<1> DEFINE n == Len(p.blocks)
           S == Starts(p)
           T == {k \in Nat : k <= n /\ ~(S[n + 1 - k] <= S[n + 1])}
<1>1. n \in Nat /\ p.blocks \in Seq(Nat \ {0})
  BY PackageFields
<1>2. /\ S \in [1 .. n + 1 -> Nat]
      /\ \A b \in 1 .. n : S[b + 1] = S[b] + p.blocks[b]
  BY StartsAddUp
<1> HIDE DEF S, n
<1>3. T = {}
  <2> SUFFICES ASSUME T # {} PROVE FALSE
    OBVIOUS
  <2>1. PICK k \in T : \A j \in T : k <= j
    <3> HIDE DEF T
    <3>1. T \in SUBSET Nat
      BY DEF T
    <3> QED
      BY <3>1, Least
  <2>2. k \in Nat /\ k <= n /\ ~(S[n + 1 - k] <= S[n + 1])
    OBVIOUS
  <2>3. k # 0
    BY <2>2, <1>1, <1>2
  <2>4. k - 1 \in Nat /\ k - 1 <= n /\ ~(k <= k - 1)
    BY <2>2, <2>3, <1>1
  <2>5. k - 1 \notin T
    <3> HIDE DEF T
    <3> QED
      BY <2>1, <2>4
  <2>6. S[n + 1 - (k - 1)] <= S[n + 1]
    BY <2>4, <2>5
  <2>7. n + 1 - k \in 1 .. n /\ n + 1 - (k - 1) = (n + 1 - k) + 1
    BY <2>2, <2>3, <1>1
  <2>8. p.blocks[n + 1 - k] \in Nat
    BY <2>7, <1>1 DEF n
  <2>9. S[n + 1 - (k - 1)] = S[n + 1 - k] + p.blocks[n + 1 - k]
    BY <2>7, <1>2
  <2>10. S[n + 1 - k] \in Nat /\ S[n + 1] \in Nat
    <3>1. n + 1 - k \in 1 .. n + 1 /\ n + 1 \in 1 .. n + 1
      BY <2>7, <1>1
    <3> QED
      BY <3>1, <1>2
  <2> QED
    BY <2>2, <2>6, <2>8, <2>9, <2>10
<1>4. ASSUME NEW b \in 1 .. n + 1 PROVE S[b] <= S[n + 1]
  <2>1. (n + 1 - b) \in Nat /\ n + 1 - b <= n /\ n + 1 - (n + 1 - b) = b
    BY <1>1
  <2>2. n + 1 - b \notin T
    <3> HIDE DEF T
    <3> QED
      BY <1>3
  <2> QED
    BY <2>1, <2>2
<1> QED
  BY <1>4 DEF S, n

LEMMA DivMod ==
  ASSUME NEW s \in Nat \ {0}, NEW k \in Nat, NEW r \in 0 .. s - 1
  PROVE  (k * s + r) \div s = k /\ (k * s + r) % s = r
BY Z3

\* A package of compressed blocks whose header is accepted.
InBlocks(p) == p.ncz /\ p.tableOk /\ p.format = "blockHeader" /\ p.blockOk

\* A multiple of the block size is one block more than the one before.
LEMMA OneMore ==
  \A x \in Nat \ {0}, y \in Nat : (x - 1) * y \in Nat /\ x * y \in Nat /\ x * y = (x - 1) * y + y
OBVIOUS

\* What the blocks of such a package hold, all of one size but the last.
LEMMA BlockShares ==
  ASSUME NEW p \in Packages, InBlocks(p), NEW b \in 1 .. Len(p.blocks)
  PROVE  /\ (b - 1) * p.blockSize \in Nat
         /\ Share(p, b) \in 1 .. p.blockSize
         /\ Share(p, b) = (IF p.packed[b] THEN 2 * p.blocks[b] ELSE p.blocks[b])
         /\ (b - 1) * p.blockSize + Share(p, b) <= p.decompressedSize
         /\ b < Len(p.blocks) => Share(p, b) = p.blockSize
         /\ b = Len(p.blocks) => (b - 1) * p.blockSize + Share(p, b) = p.decompressedSize
<1> DEFINE n == Len(p.blocks)
           before == (b - 1) * p.blockSize
           after == b * p.blockSize
<1>1. /\ n \in Nat /\ p.blockSize \in Nat \ {0} /\ p.decompressedSize \in Nat
      /\ p.blocks \in Seq(Nat \ {0}) /\ DOMAIN p.blocks = 1 .. n /\ b \in 1 .. n
  BY PackageFields
<1>2. BlocksWhole(p)
  BY PackageAssumption DEF InBlocks
<1>3. /\ p.decompressedSize <= n * p.blockSize
      /\ \A c \in 1 .. n :
           /\ Share(p, c) > 0
           /\ Share(p, c) = (IF p.packed[c] THEN 2 * p.blocks[c] ELSE p.blocks[c])
  <2>1. p.blockOk
    BY DEF InBlocks
  <2>2. p.decompressedSize <= n * p.blockSize
    BY <1>2, <2>1 DEF BlocksWhole
  <2>3. \A c \in DOMAIN p.blocks :
          /\ Share(p, c) > 0
          /\ Share(p, c) = (IF p.packed[c] THEN 2 * p.blocks[c] ELSE p.blocks[c])
    BY <1>2, <2>1 DEF BlocksWhole
  <2> HIDE DEF n
  <2> QED
    BY <1>1, <2>2, <2>3
<1>4. before \in Nat /\ after \in Nat /\ after = before + p.blockSize
  <2>1. b \in Nat \ {0} /\ p.blockSize \in Nat
    BY <1>1
  <2> QED
    BY <2>1, OneMore
<1>5. Share(p, b) = IF p.blockSize <= p.decompressedSize - before
                      THEN p.blockSize ELSE p.decompressedSize - before
  <2> DEFINE rest == p.decompressedSize - before
  <2>1. rest \in Int /\ p.blockSize \in Int
    BY <1>1, <1>4
  <2>2. Share(p, b) = Min({p.blockSize, rest})
    BY DEF Share
  <2> HIDE DEF rest
  <2>3. Share(p, b) = IF p.blockSize <= rest THEN p.blockSize ELSE rest
    BY <2>1, <2>2, MinOfTwo
  <2> QED
    BY <2>3 DEF rest
<1>6. b < n => p.blockSize <= p.decompressedSize - before
  <2> SUFFICES ASSUME b < n PROVE p.blockSize <= p.decompressedSize - before
    OBVIOUS
  <2>1. b + 1 \in 1 .. n /\ (b + 1) - 1 = b
    BY <1>1
  <2>2. Share(p, b + 1) > 0 /\ Share(p, b + 1) = Min({p.blockSize, p.decompressedSize - after})
    BY <2>1, <1>3 DEF Share
  <2>3. p.decompressedSize - after > 0
    <3> DEFINE rest == p.decompressedSize - after
    <3>0. after \in Int /\ p.decompressedSize \in Int /\ p.blockSize \in Int
      BY <1>1, <1>4
    <3>1. Min({p.blockSize, rest}) > 0
      BY <2>2
    <3> HIDE DEF after
    <3>2. rest \in Int
      BY <3>0
    <3> HIDE DEF rest
    <3>3. Min({p.blockSize, rest}) = IF p.blockSize <= rest THEN p.blockSize ELSE rest
      BY <3>0, <3>2, MinOfTwo
    <3>4. rest > 0
      BY <3>0, <3>1, <3>2, <3>3
    <3> QED
      BY <3>4 DEF rest
  <2>4. p.blockSize \in Nat /\ p.decompressedSize \in Nat
    BY <1>1
  <2> HIDE DEF before, after
  <2> QED
    BY <2>3, <2>4, <1>4
<1>7. b = n => p.decompressedSize - before <= p.blockSize
  BY <1>1, <1>3, <1>4
<1>8. Share(p, b) > 0 /\ Share(p, b) = (IF p.packed[b] THEN 2 * p.blocks[b] ELSE p.blocks[b])
  BY <1>3
<1> HIDE DEF before, after, n
<1>9. /\ before \in Nat
      /\ Share(p, b) \in 1 .. p.blockSize
      /\ before + Share(p, b) <= p.decompressedSize
      /\ b < n => Share(p, b) = p.blockSize
      /\ b = n => before + Share(p, b) = p.decompressedSize
  <2> DEFINE share == Share(p, b)
  <2>2. /\ share > 0
        /\ share = IF p.blockSize <= p.decompressedSize - before
                     THEN p.blockSize ELSE p.decompressedSize - before
    BY <1>5, <1>8
  <2> HIDE DEF share
  <2>3. /\ share \in 1 .. p.blockSize
        /\ before + share <= p.decompressedSize
        /\ b < n => share = p.blockSize
        /\ b = n => before + share = p.decompressedSize
    <3> DEFINE rest == p.decompressedSize - before
    <3>1. /\ p.blockSize \in Nat /\ p.decompressedSize \in Nat /\ before \in Nat /\ rest \in Int
          /\ before + rest = p.decompressedSize
      BY <1>1, <1>4
    <3>2. /\ share > 0 /\ share = (IF p.blockSize <= rest THEN p.blockSize ELSE rest)
          /\ b < n => p.blockSize <= rest
          /\ b = n => rest <= p.blockSize
      BY <2>2, <1>6, <1>7
    <3> HIDE DEF rest
    <3>3. share \in 1 .. p.blockSize /\ share <= rest
      BY <3>1, <3>2
    <3>4. (b < n => share = p.blockSize) /\ (b = n => share = rest)
      BY <3>1, <3>2
    <3> QED
      BY <3>1, <3>3, <3>4
  <2> QED
    BY <2>3, <1>4 DEF share
<1> QED
  BY <1>8, <1>9 DEF before, n

\* The block the writer takes for packed is one that is.
LEMMA Packing ==
  ASSUME NEW p \in Packages, InBlocks(p), NEW b \in 1 .. Len(p.blocks)
  PROVE  /\ ExpectedSize(p, b) = Share(p, b)
         /\ (p.usesZstd /\ p.blocks[b] < ExpectedSize(p, b)) <=> p.packed[b]
<1> DEFINE n == Len(p.blocks)
           before == (b - 1) * p.blockSize
           share == Share(p, b)
<1>1. /\ n \in Nat /\ p.blockSize \in Nat \ {0} /\ p.decompressedSize \in Nat
      /\ p.blocks \in Seq(Nat \ {0}) /\ DOMAIN p.blocks = 1 .. n
      /\ p.packed \in [1 .. n -> BOOLEAN] /\ p.usesZstd \in BOOLEAN
  BY PackageFields
<1>2. /\ before \in Nat
      /\ share \in 1 .. p.blockSize
      /\ share = (IF p.packed[b] THEN 2 * p.blocks[b] ELSE p.blocks[b])
      /\ b < n => share = p.blockSize
      /\ b = n => before + share = p.decompressedSize
  BY BlockShares
<1>3. p.packed[b] => p.usesZstd
  BY PackageAssumption, <1>1 DEF InBlocks, BlocksWhole
<1>4. ExpectedSize(p, b) = share
  <2>1. CASE b < n
    BY <2>1, <1>1, <1>2 DEF ExpectedSize
  <2>2. CASE b = n /\ share = p.blockSize
    <3>1. p.decompressedSize = b * p.blockSize + 0
      <4>1. before + p.blockSize = b * p.blockSize + 0
        BY <1>1
      <4> HIDE DEF before, share
      <4> QED
        BY <4>1, <2>2, <1>2
    <3>2. p.decompressedSize % p.blockSize = 0
      <4>1. b \in Nat /\ 0 \in 0 .. p.blockSize - 1
        BY <1>1
      <4> QED
        BY <3>1, <4>1, <1>1, DivMod
    <3> QED
      BY <3>2, <2>2, <1>1 DEF ExpectedSize
  <2>3. CASE b = n /\ share < p.blockSize
    <3>1. b - 1 \in Nat /\ share \in 0 .. p.blockSize - 1 /\ share > 0
      <4>1. b - 1 \in Nat /\ share \in 1 .. p.blockSize /\ share < p.blockSize
            /\ p.blockSize \in Nat
        BY <2>3, <1>1, <1>2
      <4> HIDE DEF share
      <4> QED
        BY <4>1
    <3>2. ((b - 1) * p.blockSize + share) % p.blockSize = share
      BY <3>1, <1>1, DivMod
    <3>3. p.decompressedSize % p.blockSize = share
      <4>1. p.decompressedSize = before + share
        BY <2>3, <1>2
      <4> QED
        BY <3>2, <4>1
    <3> QED
      BY <3>1, <3>3, <2>3 DEF ExpectedSize
  <2> QED
    BY <2>1, <2>2, <2>3, <1>1, <1>2
<1>5. p.blocks[b] \in Nat \ {0}
  BY <1>1
<1> QED
  BY <1>1, <1>2, <1>3, <1>4, <1>5

\* One block of the stream, as its bytes come out.
BlockContent(p, b) ==
  IF p.packed[b] THEN Unpacked(Starts(p)[b], Starts(p)[b + 1])
                 ELSE Copied(Starts(p)[b], Starts(p)[b + 1])

LEMMA BlockBytesAt ==
  ASSUME NEW p \in Packages, InBlocks(p), NEW b \in 1 .. Len(p.blocks), NEW r \in 1 .. Share(p, b)
  PROVE  /\ (b - 1) * p.blockSize + r \in 1 .. p.decompressedSize
         /\ BlockBytes(p)[(b - 1) * p.blockSize + r] = BlockContent(p, b)[r]
<1> DEFINE before == (b - 1) * p.blockSize
           i == before + r
<1>1. p.blockSize \in Nat \ {0} /\ p.decompressedSize \in Nat /\ Len(p.blocks) \in Nat
  BY PackageFields
<1>2. before \in Nat /\ Share(p, b) \in 1 .. p.blockSize /\ before + Share(p, b) <= p.decompressedSize
  BY BlockShares
<1>3. b - 1 \in Nat /\ r - 1 \in 0 .. p.blockSize - 1
  BY <1>1, <1>2
<1>4. (before + (r - 1)) \div p.blockSize = b - 1 /\ (before + (r - 1)) % p.blockSize = r - 1
  BY <1>1, <1>3, DivMod
<1>5. i - 1 = before + (r - 1) /\ i \in 1 .. p.decompressedSize
  <2> HIDE DEF before
  <2> QED
    BY <1>1, <1>2
<1>6. ((i - 1) \div p.blockSize) + 1 = b /\ ((i - 1) % p.blockSize) + 1 = r
  BY <1>4, <1>5, <1>3, <1>2
<1> HIDE DEF before, i
<1>7. BlockBytes(p)[i] = BlockContent(p, b)[r]
  BY <1>5, <1>6 DEF BlockBytes, BlockContent
<1> QED
  BY <1>5, <1>7 DEF before, i

\* A byte taken from the stream as it is, and one of the two that a packed
\* byte gives: number i from position `from` on.
Raw(k) == [at |-> <<k, 0>>, sealed |-> FALSE]
Half(from, i) == [at |-> <<from + (i + 1) \div 2, 2 - (i % 2)>>, sealed |-> FALSE]

LEMMA RawClear == \A k \in Nat : Raw(k) \in Clear
BY DEF Raw, Clear

LEMMA HalfClear == \A from, i \in Nat : Half(from, i) \in Clear
<1> SUFFICES ASSUME NEW from \in Nat, NEW i \in Nat PROVE Half(from, i) \in Clear
  OBVIOUS
<1>1. from + (i + 1) \div 2 \in Nat /\ 2 - (i % 2) \in Nat
  OBVIOUS
<1> QED
  BY <1>1 DEF Half, Clear

\* Unpacking may be resumed d bytes later.
LEMMA HalfShifts ==
  ASSUME NEW from \in Nat, NEW d \in Nat, NEW i \in Nat
  PROVE  Half(from + d, i) = Half(from, 2 * d + i)
<1>1. (2 * d + i + 1) \div 2 = d + (i + 1) \div 2 /\ (2 * d + i) % 2 = i % 2
  OBVIOUS
<1>2. (from + d) + (i + 1) \div 2 = from + (2 * d + i + 1) \div 2
  BY <1>1
<1> QED
  BY <1>1, <1>2 DEF Half

LEMMA CopiedIs ==
  ASSUME NEW from \in Nat, NEW to \in Nat, from <= to
  PROVE  /\ Copied(from, to) \in Seq(Clear)
         /\ Len(Copied(from, to)) = to - from
         /\ \A i \in 1 .. to - from : Copied(from, to)[i] = Raw(from + i)
<1>1. \A i \in 1 .. to - from : Copied(from, to)[i] = Raw(from + i)
  BY DEF Copied, Raw
<1>2. \A i \in 1 .. to - from : Raw(from + i) \in Clear
  BY RawClear
<1>3. DOMAIN Copied(from, to) = 1 .. to - from /\ to - from \in Nat
  BY DEF Copied
<1>4. Copied(from, to) = [i \in 1 .. to - from |-> Raw(from + i)]
  BY DEF Copied, Raw
<1>5. Copied(from, to) \in [1 .. to - from -> Clear]
  BY <1>2, <1>4
<1> QED
  BY <1>1, <1>3, <1>5

LEMMA UnpackedIs ==
  ASSUME NEW from \in Nat, NEW to \in Nat, from <= to
  PROVE  /\ Unpacked(from, to) \in Seq(Clear)
         /\ Len(Unpacked(from, to)) = 2 * (to - from)
         /\ \A i \in 1 .. 2 * (to - from) : Unpacked(from, to)[i] = Half(from, i)
<1>1. Unpacked(from, to) = [i \in 1 .. 2 * (to - from) |-> Half(from, i)]
  BY DEF Unpacked, Half
<1>2. \A i \in 1 .. 2 * (to - from) : Half(from, i) \in Clear
  BY HalfClear
<1>3. 2 * (to - from) \in Nat
  OBVIOUS
<1>4. Unpacked(from, to) \in [1 .. 2 * (to - from) -> Clear]
  BY <1>1, <1>2
<1> QED
  BY <1>1, <1>3, <1>4

\* The body of each kind of package.
LEMMA BodyCopied ==
  ASSUME NEW p \in Packages, p.ncz => p.format = "copy",
         NEW from \in Nat, from = HeaderSize + (IF p.ncz THEN p.table ELSE 0), from <= p.length
  PROVE  /\ BodyBytes(p) \in Seq(Clear) /\ Len(BodyBytes(p)) = p.length - from
         /\ \A i \in 1 .. p.length - from : BodyBytes(p)[i] = Raw(from + i)
<1>1. p.length \in Nat /\ p.ncz \in BOOLEAN /\ p.table \in Nat /\ HeaderSize \in Nat
  BY PackageFields, NcaAssumption
<1>2. BodyBytes(p) = Copied(from, p.length)
  <2>1. CASE ~p.ncz
    BY <2>1, <1>1 DEF BodyBytes
  <2>2. CASE p.ncz
    BY <2>2, <1>1 DEF BodyBytes
  <2> QED
    BY <2>1, <2>2
<1>3. /\ Copied(from, p.length) \in Seq(Clear)
      /\ Len(Copied(from, p.length)) = p.length - from
      /\ \A i \in 1 .. p.length - from : Copied(from, p.length)[i] = Raw(from + i)
  BY <1>1, CopiedIs
<1> QED
  BY <1>2, <1>3

LEMMA BodyUnpacked ==
  ASSUME NEW p \in Packages, p.ncz, p.format = "unpack",
         NEW from \in Nat, from = HeaderSize + p.table, from <= p.length
  PROVE  /\ BodyBytes(p) \in Seq(Clear) /\ Len(BodyBytes(p)) = 2 * (p.length - from)
         /\ \A i \in 1 .. 2 * (p.length - from) : BodyBytes(p)[i] = Half(from, i)
<1>1. p.length \in Nat
  BY PackageFields
<1>2. BodyBytes(p) = Unpacked(from, p.length)
  BY DEF BodyBytes
<1> DEFINE to == p.length
           body == Unpacked(from, to)
<1> HIDE DEF to
<1>3. to \in Nat /\ from <= to
  BY <1>1 DEF to
<1>4. /\ body \in Seq(Clear) /\ Len(body) = 2 * (to - from)
      /\ \A i \in 1 .. 2 * (to - from) : body[i] = Half(from, i)
  BY <1>3, UnpackedIs
<1> HIDE DEF body
<1>5. BodyBytes(p) = body
  BY <1>2 DEF body, to
<1> QED
  BY <1>4, <1>5 DEF to

LEMMA BodyInBlocks ==
  ASSUME NEW p \in Packages, InBlocks(p)
  PROVE  /\ BodyBytes(p) = BlockBytes(p)
         /\ DOMAIN BodyBytes(p) = 1 .. p.decompressedSize
         /\ Len(BodyBytes(p)) = p.decompressedSize
<1>1. p.decompressedSize \in Nat
  BY PackageFields
<1>2. BodyBytes(p) = BlockBytes(p)
  BY DEF BodyBytes, InBlocks
<1>3. DOMAIN BlockBytes(p) = 1 .. p.decompressedSize
  BY DEF BlockBytes
<1> QED
  BY <1>1, <1>2, <1>3

\* Whatever is promised of a package is a sequence of bytes.
LEMMA BodyIsSeq ==
  ASSUME NEW p \in Packages
  PROVE  \E n \in Nat : /\ BodyBytes(p) = [i \in 1 .. n |-> BodyBytes(p)[i]]
                        /\ Len(BodyBytes(p)) = n
<1>1. /\ p.length \in Nat /\ p.table \in Nat /\ p.ncz \in BOOLEAN /\ p.decompressedSize \in Nat
      /\ p.format \in {"copy", "unpack", "blockHeader"} /\ HeaderSize \in Nat
  BY PackageFields, NcaAssumption
<1>2. \E k \in Int : DOMAIN BodyBytes(p) = 1 .. k /\ BodyBytes(p) = [i \in 1 .. k |-> BodyBytes(p)[i]]
  <2>1. CASE ~p.ncz
    <3>1. BodyBytes(p) = Copied(HeaderSize, p.length)
      BY <2>1 DEF BodyBytes
    <3> QED
      BY <3>1, <1>1 DEF Copied
  <2>2. CASE p.ncz /\ p.format = "copy"
    BY <2>2, <1>1 DEF BodyBytes, Copied
  <2>3. CASE p.ncz /\ p.format = "unpack"
    BY <2>3, <1>1 DEF BodyBytes, Unpacked
  <2>4. CASE p.ncz /\ p.format = "blockHeader"
    <3>1. BodyBytes(p) = BlockBytes(p)
      BY <2>4 DEF BodyBytes
    <3>2. DOMAIN BlockBytes(p) = 1 .. p.decompressedSize
          /\ BlockBytes(p) = [i \in 1 .. p.decompressedSize |-> BlockBytes(p)[i]]
      BY DEF BlockBytes
    <3> QED
      BY <1>1, <3>1, <3>2
  <2> QED
    BY <1>1, <2>1, <2>2, <2>3, <2>4
<1>3. PICK k \in Int : DOMAIN BodyBytes(p) = 1 .. k /\ BodyBytes(p) = [i \in 1 .. k |-> BodyBytes(p)[i]]
  BY <1>2
<1>4. \E n \in Nat : 1 .. k = 1 .. n
  <2>1. CASE k >= 0
    BY <2>1
  <2>2. CASE k < 0
    <3>1. 1 .. k = 1 .. 0
      BY <2>2
    <3> QED
      BY <3>1
  <2> QED
    BY <2>1, <2>2
<1>5. PICK n \in Nat : 1 .. k = 1 .. n
  BY <1>4
<1>6. DOMAIN BodyBytes(p) = 1 .. n /\ BodyBytes(p) = [i \in 1 .. n |-> BodyBytes(p)[i]]
  BY <1>3, <1>5
<1> QED
  BY <1>6

\* The NCA is its header and then its body.
LEMMA NcaParts ==
  ASSUME NEW p \in Packages
  PROVE  /\ p.length <= HeaderSize => NcaBytes(p) = Copied(0, p.length)
         /\ p.length > HeaderSize =>
              /\ Len(NcaBytes(p)) = HeaderSize + Len(BodyBytes(p)) /\ Len(BodyBytes(p)) \in Nat
              /\ \A i \in 1 .. HeaderSize : NcaBytes(p)[i] = Raw(i)
              /\ \A i \in 1 .. Len(BodyBytes(p)) : NcaBytes(p)[HeaderSize + i] = BodyBytes(p)[i]
<1>1. p.length \in Nat /\ HeaderSize \in Nat
  BY PackageFields, NcaAssumption
<1>2. Min({HeaderSize, p.length}) = IF HeaderSize <= p.length THEN HeaderSize ELSE p.length
  BY <1>1, MinOfTwo
<1>3. CASE p.length <= HeaderSize
  <2>1. NcaBytes(p) = Copied(0, p.length) \o <<>>
    <3>1. Min({HeaderSize, p.length}) = p.length /\ ~(p.length > HeaderSize)
      BY <1>1, <1>2, <1>3
    <3> QED
      BY <3>1, Zenon DEF NcaBytes
  <2>2. Copied(0, p.length) \in Seq(Clear)
    <3>1. 0 \in Nat /\ 0 <= p.length
      BY <1>1
    <3> QED
      BY <1>1, <3>1, CopiedIs
  <2>3. Copied(0, p.length) \o <<>> = Copied(0, p.length)
    BY <2>2
  <2> QED
    BY <1>1, <1>3, <2>1, <2>3
<1>4. CASE p.length > HeaderSize
  <2>1. NcaBytes(p) = Copied(0, HeaderSize) \o BodyBytes(p)
    <3>1. Min({HeaderSize, p.length}) = HeaderSize
      BY <1>1, <1>2, <1>4
    <3> QED
      BY <3>1, <1>4, Zenon DEF NcaBytes
  <2>2. PICK n \in Nat : BodyBytes(p) = [i \in 1 .. n |-> BodyBytes(p)[i]] /\ Len(BodyBytes(p)) = n
    BY BodyIsSeq
  <2> DEFINE head == Copied(0, HeaderSize)
             body == BodyBytes(p)
             S == Clear \cup {body[i] : i \in 1 .. n}
  <2>3. body \in Seq(S)
    BY <2>2
  <2>4. /\ head \in Seq(Clear) /\ Len(head) = HeaderSize
        /\ \A i \in 1 .. HeaderSize : head[i] = Raw(i)
    <3>1. 0 \in Nat /\ 0 <= HeaderSize /\ HeaderSize - 0 = HeaderSize
      BY <1>1
    <3>2. /\ head \in Seq(Clear) /\ Len(head) = HeaderSize
          /\ \A i \in 1 .. HeaderSize : head[i] = Raw(0 + i)
      BY <1>1, <3>1, CopiedIs
    <3> QED
      BY <3>2
  <2>5. head \in Seq(S)
    BY <2>4
  <2>6. Len(body) = n
    BY <2>2
  <2> HIDE DEF head, body, S
  <2>7. /\ Len(head \o body) = HeaderSize + n
        /\ \A i \in 1 .. HeaderSize : (head \o body)[i] = head[i]
        /\ \A i \in 1 .. n : (head \o body)[HeaderSize + i] = body[i]
    <3>1. Len(head \o body) = HeaderSize + n
      BY <2>3, <2>4, <2>5, <2>6
    <3>2. ASSUME NEW i \in 1 .. HeaderSize PROVE (head \o body)[i] = head[i]
      BY <1>1, <2>2, <2>3, <2>4, <2>5, <2>6
    <3>3. ASSUME NEW i \in 1 .. n PROVE (head \o body)[HeaderSize + i] = body[i]
      BY <1>1, <2>2, <2>3, <2>4, <2>5, <2>6
    <3> QED
      BY <3>1, <3>2, <3>3
  <2> QED
    BY <1>1, <1>4, <2>1, <2>2, <2>4, <2>6, <2>7 DEF head, body
<1> QED
  BY <1>1, <1>3, <1>4

\* What is promised of a header ...
LEMMA PromisedHeader ==
  ASSUME NEW p \in Packages, NEW o \in Nat, o < HeaderSize, o < p.length
  PROVE  o \in DOMAIN Promised(p) /\ Promised(p)[o] = Raw(o + 1)
<1>1. p.length \in Nat /\ HeaderSize \in Nat
  BY PackageFields, NcaAssumption
<1>2. Len(NcaBytes(p)) \in Nat /\ o + 1 \in 1 .. Len(NcaBytes(p)) /\ NcaBytes(p)[o + 1] = Raw(o + 1)
  <2>1. CASE p.length <= HeaderSize
    <3>1. 0 \in Nat /\ 0 <= p.length /\ p.length - 0 = p.length
      BY <1>1
    <3>2. Len(Copied(0, p.length)) = p.length
          /\ \A i \in 1 .. p.length : Copied(0, p.length)[i] = Raw(0 + i)
      BY <1>1, <3>1, CopiedIs
    <3> QED
      BY <1>1, <2>1, <3>2, NcaParts
  <2>2. CASE p.length > HeaderSize
    BY <1>1, <2>2, NcaParts
  <2> QED
    BY <1>1, <2>1, <2>2
<1>3. SealedAt(p, o) = FALSE
  <2>1. p.ncz => \A i \in DOMAIN p.sections :
          p.sections[i].start \in Nat /\ p.sections[i].start >= HeaderSize
    BY PackageAssumption DEF NczWhole
  <2>2. p.ncz => \A i \in DOMAIN p.sections : ~(p.sections[i].start <= o)
    BY <1>1, <2>1
  <2> QED
    BY <2>2 DEF SealedAt
<1>4. o \in 0 .. Len(NcaBytes(p)) - 1
  BY <1>2
<1>5. Promised(p)[o] = [Raw(o + 1) EXCEPT !.sealed = FALSE]
  BY <1>2, <1>3, <1>4 DEF Promised
<1> QED
  BY <1>4, <1>5 DEF Promised, Raw

LEMMA PromisedShort ==
  ASSUME NEW p \in Packages, p.length <= HeaderSize
  PROVE  DOMAIN Promised(p) = 0 .. p.length - 1
<1>1. p.length \in Nat /\ 0 \in Nat /\ 0 <= p.length /\ p.length - 0 = p.length
  BY PackageFields
<1>2. Len(Copied(0, p.length)) = p.length
  BY <1>1, CopiedIs
<1> QED
  BY <1>2, NcaParts DEF Promised

\* ... and of a body, which is encrypted where a section says so.
LEMMA PromisedBody ==
  ASSUME NEW p \in Packages, p.length > HeaderSize
  PROVE  /\ Len(BodyBytes(p)) \in Nat
         /\ DOMAIN Promised(p) = 0 .. HeaderSize + Len(BodyBytes(p)) - 1
         /\ \A i \in 1 .. Len(BodyBytes(p)) :
              Promised(p)[HeaderSize + i - 1]
                = [BodyBytes(p)[i] EXCEPT !.sealed = SealedAt(p, HeaderSize + i - 1)]
<1>1. p.length \in Nat /\ HeaderSize \in Nat
  BY PackageFields, NcaAssumption
<1>2. /\ Len(NcaBytes(p)) = HeaderSize + Len(BodyBytes(p)) /\ Len(BodyBytes(p)) \in Nat
      /\ \A i \in 1 .. Len(BodyBytes(p)) : NcaBytes(p)[HeaderSize + i] = BodyBytes(p)[i]
  BY NcaParts
<1>3. ASSUME NEW i \in 1 .. Len(BodyBytes(p))
      PROVE  Promised(p)[HeaderSize + i - 1]
                = [BodyBytes(p)[i] EXCEPT !.sealed = SealedAt(p, HeaderSize + i - 1)]
  <2>1. HeaderSize + i - 1 \in 0 .. Len(NcaBytes(p)) - 1 /\ (HeaderSize + i - 1) + 1 = HeaderSize + i
    BY <1>1, <1>2
  <2> QED
    BY <1>2, <2>1 DEF Promised
<1> QED
  <2>1. DOMAIN Promised(p) = 0 .. Len(NcaBytes(p)) - 1
    BY DEF Promised
  <2>2. DOMAIN Promised(p) = 0 .. HeaderSize + Len(BodyBytes(p)) - 1
    BY <1>1, <1>2, <2>1
  <2> QED
    BY <1>2, <1>3, <2>2, Zenon

-----------------------------------------------------------------------------
(* Every step preserves the invariant                                      *)

LEMMA NcaInitInv == NcaInit => NcaIInv
<1> SUFFICES ASSUME NcaInit PROVE NcaIInv
  OBVIOUS
<1> USE DEF NcaInit
<1>1. package.length \in Nat /\ Len(package.blocks) \in Nat
  BY PackageFields
<1>2. HeaderSize \in Nat /\ HeaderSize > 0 /\ ContentBufferSize \in Nat \ {0}
  BY NcaAssumption
<1>3. NcaTypes
  <2>1. out \in Seq(Clear) /\ contentBuffer \in Seq(Bytes)
    OBVIOUS
  <2>2. fed \in 0 .. package.length /\ parsed \in 0 .. fed /\ blockIdx \in 0 .. Len(package.blocks)
    BY <1>1
  <2>3. stage \in Stages /\ call \in Calls /\ created \in BOOLEAN /\ threw \in BOOLEAN
    BY DEF Stages, Calls
  <2>4. contentOffset \in Nat /\ contentOffset >= HeaderSize /\ blockRead \in Nat /\ held \in Nat
    BY <1>2
  <2>5. package \in Packages /\ caller \in {"sdmc", "http_xci"}
    OBVIOUS
  <2> HIDE DEF NcaInit
  <2> QED
    BY <2>1, <2>2, <2>3, <2>4, <2>5 DEF NcaTypes
<1>4. Control /\ AllFed /\ AtStage /\ AtBlock
  BY <1>2 DEF Control, AllFed, AtStage, AtBlock, InBody, Running
<1>5. Rested
  BY <1>2 DEF Rested, Needs, Unparsed
<1>6. AllThere /\ BufferedRight /\ OutRight /\ StoredRight /\ StoredUpTo
  BY DEF AllThere, BufferedRight, OutRight, StoredRight, StoredUpTo, InBody
<1> QED
  BY <1>3, <1>4, <1>5, <1>6 DEF NcaIInv

\* What stages wait for.
LEMMA NeedsIs ==
  /\ DOMAIN Needs = {"header", "magic", "table", "format", "blockHeader", "blockSizes"}
  /\ Needs["header"] = HeaderSize /\ Needs["magic"] = MagicSize
  /\ Needs["table"] = (IF package.tableOk THEN package.table ELSE TableMin)
  /\ Needs["format"] = MagicSize /\ Needs["blockHeader"] = BlockHeaderSize
  /\ Needs["blockSizes"] = Len(package.blocks)
BY DEF Needs

\* A step that leaves the package, what was parsed and the body alone.
LEMMA CallOnly ==
  ASSUME NcaIInv, UNCHANGED <<package, caller, parseVars, bodyVars, storeVars>>,
         fed' \in fed .. package.length, call' \in Calls, threw' \in BOOLEAN, threw => threw',
         Control', Rested', AllFed', stage = "header" => call' \notin {"returned", "failed"},
         call \notin {"returned", "failed"}
  PROVE  NcaIInv'
<1> USE DEF NcaIInv, parseVars, bodyVars, storeVars
<1>1. package.length \in Nat
  BY PackageFields DEF NcaTypes
<1>2. NcaTypes'
  BY <1>1 DEF NcaTypes
<1>3. AtStage' /\ AtBlock'
  BY DEF AtStage, AtBlock, BodyStart
<1>4. AllThere'
  BY DEF AllThere, Made, InBody, Flushed, BodyStart
<1>5. BufferedRight' /\ OutRight'
  BY DEF BufferedRight, OutRight, Body, Flushed
<1>6. StoredRight'
  BY DEF StoredRight
<1>7. StoredUpTo'
  BY DEF StoredUpTo
<1> QED
  BY <1>2, <1>3, <1>4, <1>5, <1>6, <1>7

\* An exception leaves for the caller that closes, or for the destructor.
LEMMA ThrowIs ==
  ASSUME NcaTypes, Throw, call \in {"loop", "write", "close", "unwind"}
  PROVE  /\ threw' = TRUE
         /\ call' \in {"close", "unwind", "terminated"}
         /\ call' = "close" => caller = "sdmc" /\ call \in {"loop", "write"}
BY DEF Throw, NcaTypes

LEMMA WriteChunkInv == NcaIInv /\ WriteChunk => NcaIInv'
<1> SUFFICES ASSUME NcaIInv, WriteChunk PROVE NcaIInv'
  OBVIOUS
<1> USE DEF WriteChunk
<1>1. NcaTypes /\ package.length \in Nat
  BY PackageFields DEF NcaIInv, NcaTypes
<1>2. fed' \in fed .. package.length
  <2>1. PICK n \in 1 .. MaxWriteSize : fed + n <= package.length /\ fed' = fed + n
    OBVIOUS
  <2>2. fed \in Nat /\ n \in Nat
    BY <1>1, NcaAssumption DEF NcaTypes
  <2> QED
    BY <1>1, <2>1, <2>2
<1>3. Control' /\ Rested' /\ AllFed'
  BY DEF NcaIInv, Control, Rested, AllFed, InBody, Running, bodyVars, parseVars
<1> QED
  BY <1>1, <1>2, <1>3, CallOnly DEF Calls, NcaTypes

LEMMA SourceThrowsInv == NcaIInv /\ SourceThrows => NcaIInv'
<1> SUFFICES ASSUME NcaIInv, SourceThrows PROVE NcaIInv'
  OBVIOUS
<1> USE DEF SourceThrows
<1>1. NcaTypes /\ package.length \in Nat /\ fed \in 0 .. package.length
  BY PackageFields DEF NcaIInv, NcaTypes
<1>2. threw' = TRUE /\ call' = "unwind"
  BY DEF Throw
<1>3. Control' /\ Rested' /\ AllFed'
  BY <1>2 DEF NcaIInv, Control, Rested, AllFed, InBody, Running, bodyVars, parseVars
<1> QED
  BY <1>1, <1>2, <1>3, CallOnly DEF Calls, streamVars

LEMMA LoopEndsInv == NcaIInv /\ LoopEnds => NcaIInv'
<1> SUFFICES ASSUME NcaIInv, LoopEnds PROVE NcaIInv'
  OBVIOUS
<1> USE DEF LoopEnds
<1>1. NcaTypes /\ package.length \in Nat /\ fed \in 0 .. package.length
  BY PackageFields DEF NcaIInv, NcaTypes
<1>3. Control' /\ Rested' /\ AllFed'
  BY DEF NcaIInv, Control, Rested, AllFed, InBody, Running, bodyVars, parseVars, streamVars,
         Needs, Unparsed
<1> QED
  BY <1>1, <1>3, CallOnly DEF Calls, streamVars, NcaTypes

LEMMA WriteReturnsInv == NcaIInv /\ WriteReturns => NcaIInv'
<1> SUFFICES ASSUME NcaIInv, WriteReturns PROVE NcaIInv'
  OBVIOUS
<1> USE DEF WriteReturns
<1>1. NcaTypes /\ package.length \in Nat /\ fed \in 0 .. package.length
  BY PackageFields DEF NcaIInv, NcaTypes
<1>3. Control' /\ Rested' /\ AllFed'
  BY DEF NcaIInv, Control, Rested, AllFed, InBody, Running, bodyVars, parseVars, streamVars,
         Needs, Unparsed
<1> QED
  BY <1>1, <1>3, CallOnly DEF Calls, streamVars, NcaTypes

\* A stage throws before it changes anything.
LEMMA RefuseInv == NcaIInv /\ call = "write" /\ out = <<>> /\ Refuse => NcaIInv'
<1> SUFFICES ASSUME NcaIInv, call = "write", out = <<>>, Refuse PROVE NcaIInv'
  OBVIOUS
<1> USE DEF Refuse
<1>1. NcaTypes /\ package.length \in Nat /\ fed \in 0 .. package.length
  BY PackageFields DEF NcaIInv, NcaTypes
<1>2. threw' = TRUE /\ call' \in {"close", "unwind"} /\ (call' = "close" => caller = "sdmc")
  BY DEF Throw
<1>3. Control' /\ Rested' /\ AllFed'
  BY <1>2 DEF NcaIInv, Control, Rested, AllFed, InBody, Running, bodyVars, parseVars, streamVars
<1> QED
  BY <1>1, <1>2, <1>3, CallOnly DEF Calls, streamVars

\* A stage that is entered changes what is parsed, and nothing else.
LEMMA EnterInv ==
  ASSUME NcaIInv, NEW s \in Stages \ {"header", "magic"}, NEW n \in Nat, n <= Unparsed, Enter(s, n),
         call = "write", out = <<>>, stage # "header",
         AtStage', AtBlock', AllThere'
  PROVE  NcaIInv'
<1> USE DEF NcaIInv, Enter, streamVars, bodyVars, storeVars, callVars
<1>1. package.length \in Nat
  BY PackageFields DEF NcaTypes
<1>2. NcaTypes'
  BY <1>1 DEF NcaTypes, Unparsed
<1>3. Control' /\ Rested' /\ AllFed'
  BY DEF Control, Rested, AllFed, InBody, Running
<1>4. BufferedRight' /\ OutRight'
  BY DEF BufferedRight, OutRight, Body, Flushed
<1>5. StoredRight'
  BY DEF StoredRight
<1>6. StoredUpTo'
  BY DEF StoredUpTo
<1> QED
  BY <1>2, <1>3, <1>4, <1>5, <1>6

LEMMA SelectBodyInv == NcaIInv /\ SelectBody => NcaIInv'
<1> SUFFICES ASSUME NcaIInv, SelectBody PROVE NcaIInv'
  OBVIOUS
<1> DEFINE s == IF package.ncz THEN "table" ELSE "copy"
<1>1. call = "write" /\ out = <<>> /\ stage = "magic" /\ Enter(s, 0)
  BY DEF SelectBody, Gathered
<1>2. /\ parsed = HeaderSize /\ HeaderSize \in Nat /\ blockIdx = 0 /\ blockRead = 0 /\ held = 0
      /\ contentBuffer = <<>> /\ contentOffset = HeaderSize /\ ~threw /\ parsed \in Nat /\ fed \in Nat
      /\ parsed <= fed /\ package \in Packages
  BY <1>1, NcaAssumption, PackageFields DEF NcaIInv, NcaTypes, AtStage, AtBlock, Control, InBody, Running
<1>3. s \in Stages \ {"header", "magic"} /\ 0 \in Nat /\ 0 <= Unparsed
  BY <1>2 DEF Stages, Unparsed
<1>4. /\ stage' = s /\ parsed' = parsed
      /\ UNCHANGED <<streamVars, blockIdx, blockRead, held, bodyVars, storeVars, callVars>>
  BY <1>1, <1>2 DEF Enter
<1>5. package.ncz \in BOOLEAN
  BY <1>2, PackageFields
<1>6. AtStage'
  BY <1>1, <1>2, <1>4, <1>5 DEF AtStage, BodyStart, streamVars
<1>7. AtBlock'
  BY <1>1, <1>2, <1>4, <1>5 DEF AtBlock, streamVars
<1>8. AllThere'
  BY <1>1, <1>2, <1>4, <1>5 DEF AllThere, Made, InBody, BodyStart, Flushed, streamVars, bodyVars, callVars
<1> HIDE DEF s
<1> QED
  BY <1>1, <1>3, <1>6, <1>7, <1>8, EnterInv

LEMMA ReadTableInv == NcaIInv /\ ReadTable => NcaIInv'
<1> SUFFICES ASSUME NcaIInv, ReadTable PROVE NcaIInv'
  OBVIOUS
<1>1. call = "write" /\ out = <<>> /\ stage = "table" /\ Unparsed >= Needs["table"]
  BY DEF ReadTable, Gathered
<1>2. CASE ~package.tableOk
  BY <1>1, <1>2, RefuseInv DEF ReadTable
<1>3. CASE package.tableOk
  <2>1. /\ parsed = HeaderSize /\ HeaderSize \in Nat /\ blockIdx = 0 /\ blockRead = 0 /\ held = 0
        /\ package \in Packages /\ package.ncz
    BY <1>1, NcaAssumption DEF NcaIInv, NcaTypes, AtStage, AtBlock
  <2>2. package.table \in Nat /\ package.table <= Unparsed /\ "format" \in Stages \ {"header", "magic"}
    BY <1>1, <1>3, <2>1, PackageFields, NeedsIs DEF Stages
  <2>3. Enter("format", package.table)
    BY <1>3 DEF ReadTable
  <2>4. /\ stage' = "format" /\ parsed' = parsed + package.table
        /\ UNCHANGED <<streamVars, blockIdx, blockRead, held, bodyVars, storeVars, callVars>>
    BY <2>3 DEF Enter
  <2>5. AtStage'
    BY <1>3, <2>1, <2>2, <2>4 DEF AtStage, BodyStart, streamVars
  <2>6. AtBlock'
    BY <2>1, <2>4 DEF AtBlock
  <2>7. AllThere'
    BY <1>1, <2>4 DEF NcaIInv, AllThere, Made, InBody, Flushed, bodyVars, callVars
  <2> QED
    BY <1>1, <2>2, <2>3, <2>5, <2>6, <2>7, EnterInv
<1> QED
  BY <1>2, <1>3

LEMMA SelectFormatInv == NcaIInv /\ SelectFormat => NcaIInv'
<1> SUFFICES ASSUME NcaIInv, SelectFormat PROVE NcaIInv'
  OBVIOUS
<1>1. call = "write" /\ out = <<>> /\ stage = "format" /\ Enter(package.format, 0)
  BY DEF SelectFormat, Gathered
<1>2. /\ parsed = BodyStart /\ blockIdx = 0 /\ blockRead = 0 /\ held = 0
      /\ package \in Packages /\ package.ncz /\ package.tableOk /\ parsed \in Nat /\ fed \in Nat
      /\ parsed <= fed /\ BodyStart \in Nat
  <2>1. package \in Packages /\ package.length \in Nat
    BY PackageFields DEF NcaIInv, NcaTypes
  <2> QED
    BY <1>1, <2>1 DEF NcaIInv, NcaTypes, AtStage, AtBlock
<1>3. package.format \in {"copy", "unpack", "blockHeader"}
  BY <1>2, PackageFields
<1>4. package.format \in Stages \ {"header", "magic"} /\ 0 \in Nat /\ 0 <= Unparsed
  BY <1>2, <1>3 DEF Stages, Unparsed
<1>5. /\ stage' = package.format /\ parsed' = parsed
      /\ UNCHANGED <<streamVars, blockIdx, blockRead, held, bodyVars, storeVars, callVars>>
  BY <1>1, <1>2 DEF Enter
<1>6. AtStage'
  BY <1>2, <1>3, <1>5 DEF AtStage, BodyStart, streamVars
<1>7. AtBlock'
  BY <1>2, <1>3, <1>5 DEF AtBlock
<1>8. AllThere'
  BY <1>1, <1>2, <1>3, <1>5
  DEF NcaIInv, AllThere, Made, InBody, Flushed, BodyStart, streamVars, bodyVars, callVars
<1> QED
  BY <1>1, <1>4, <1>6, <1>7, <1>8, EnterInv

LEMMA ReadBlockHeaderInv == NcaIInv /\ ReadBlockHeader => NcaIInv'
<1> SUFFICES ASSUME NcaIInv, ReadBlockHeader PROVE NcaIInv'
  OBVIOUS
<1>1. call = "write" /\ out = <<>> /\ stage = "blockHeader" /\ Unparsed >= Needs["blockHeader"]
  BY DEF ReadBlockHeader, Gathered
<1>2. CASE ~package.blockOk
  BY <1>1, <1>2, RefuseInv DEF ReadBlockHeader
<1>3. CASE package.blockOk
  <2>1. /\ parsed = BodyStart /\ blockIdx = 0 /\ blockRead = 0 /\ held = 0
        /\ package.ncz /\ package.tableOk /\ package.format = "blockHeader"
    BY <1>1 DEF NcaIInv, AtStage, AtBlock
  <2>2. /\ BlockHeaderSize \in Nat /\ BlockHeaderSize <= Unparsed
        /\ "blockSizes" \in Stages \ {"header", "magic"}
    BY <1>1, NcaAssumption, NeedsIs DEF Stages
  <2>3. Enter("blockSizes", BlockHeaderSize)
    BY <1>3 DEF ReadBlockHeader
  <2>4. /\ stage' = "blockSizes" /\ parsed' = parsed + BlockHeaderSize
        /\ UNCHANGED <<streamVars, blockIdx, blockRead, held, bodyVars, storeVars, callVars>>
    BY <2>3 DEF Enter
  <2>5. AtStage'
    BY <1>3, <2>1, <2>4 DEF AtStage, BodyStart, streamVars
  <2>6. AtBlock'
    BY <2>1, <2>4 DEF AtBlock
  <2>7. AllThere'
    BY <1>1, <2>4 DEF NcaIInv, AllThere, Made, InBody, Flushed, bodyVars, callVars
  <2> QED
    BY <1>1, <2>2, <2>3, <2>5, <2>6, <2>7, EnterInv
<1> QED
  BY <1>2, <1>3

LEMMA ReadBlockSizesInv == NcaIInv /\ ReadBlockSizes => NcaIInv'
<1> SUFFICES ASSUME NcaIInv, ReadBlockSizes PROVE NcaIInv'
  OBVIOUS
<1> DEFINE n == Len(package.blocks)
<1>1. call = "write" /\ out = <<>> /\ stage = "blockSizes" /\ Unparsed >= n /\ Enter("blocks", n)
  BY NeedsIs DEF ReadBlockSizes, Gathered
<1>2. /\ parsed = BodyStart + BlockHeaderSize /\ blockIdx = 0 /\ blockRead = 0 /\ held = 0
      /\ package \in Packages /\ InBlocks(package)
  BY <1>1 DEF NcaIInv, NcaTypes, AtStage, AtBlock, InBlocks
<1>3. n \in Nat /\ "blocks" \in Stages \ {"header", "magic"}
  BY <1>2, PackageFields DEF Stages
<1>4. /\ stage' = "blocks" /\ parsed' = parsed + n
      /\ UNCHANGED <<streamVars, blockIdx, blockRead, held, bodyVars, storeVars, callVars>>
  BY <1>1 DEF Enter
<1>5. AtStage'
  BY <1>2, <1>4 DEF AtStage, InBlocks, streamVars
<1>6. Starts(package)[1] = parsed + n
  <2>1. BodyStart = HeaderSize + package.table
    BY <1>2 DEF BodyStart, InBlocks
  <2>2. package.table \in Nat /\ HeaderSize \in Nat /\ BlockHeaderSize \in Nat
    BY <1>2, PackageFields, NcaAssumption
  <2>3. Starts(package)[1] = HeaderSize + package.table + BlockHeaderSize + n
    BY <1>2, StartsAddUp
  <2> HIDE DEF n
  <2> QED
    BY <1>2, <1>3, <2>1, <2>2, <2>3
<1>7. Starts(package)[1] \in Nat
  <2>1. 1 \in 1 .. n + 1
    BY <1>3
  <2> QED
    BY <1>2, <2>1, StartsAddUp
<1>8. AtBlock'
  <2>1. blockIdx' = 0 /\ blockRead' = 0 /\ held' = 0 /\ package' = package
    BY <1>2, <1>4 DEF streamVars
  <2>2. n # 0 => package.blocks[1] > 0 /\ package.packed[1] \in BOOLEAN
    BY <1>2, <1>3, PackageFields
  <2> QED
    BY <1>4, <1>6, <1>7, <2>1, <2>2 DEF AtBlock
<1>9. AllThere'
  <2>1. n = 0 => package.decompressedSize = 0
    <3>1. BlocksWhole(package)
      BY <1>2, PackageAssumption DEF InBlocks
    <3>2. package.decompressedSize <= n * package.blockSize
      BY <3>1, <1>2 DEF BlocksWhole, InBlocks
    <3>3. package.decompressedSize \in Nat /\ package.blockSize \in Nat
      BY <1>2, PackageFields
    <3> QED
      BY <3>2, <3>3
  <2>2. package.blockSize \in Nat
    BY <1>2, PackageFields
  <2>3. Made' = 0
    <3>1. CASE n = 0
      BY <3>1, <2>1, <1>2, <1>4 DEF Made, streamVars
    <3>2. CASE n # 0
      BY <3>2, <2>2, <1>2, <1>4 DEF Made, streamVars
    <3> QED
      BY <3>1, <3>2
  <2>4. Made = 0
    BY <1>1 DEF Made
  <2> HIDE DEF n
  <2> QED
    BY <1>1, <1>4, <2>3, <2>4 DEF NcaIInv, AllThere, InBody, Flushed, bodyVars, callVars
<1> HIDE DEF n
<1> QED
  BY <1>1, <1>3, <1>5, <1>8, <1>9, EnterInv

LEMMA SkipRestInv == NcaIInv /\ SkipRest => NcaIInv'
<1> SUFFICES ASSUME NcaIInv, SkipRest PROVE NcaIInv'
  OBVIOUS
<1>1. /\ call = "write" /\ out = <<>> /\ stage = "blocks" /\ Unparsed > 0
      /\ blockIdx = Len(package.blocks) /\ Enter("blocks", Unparsed)
  BY DEF SkipRest, Working
<1>2. package \in Packages /\ package.length \in Nat /\ fed \in Nat /\ parsed \in Nat
  BY PackageFields DEF NcaIInv, NcaTypes
<1>3. Unparsed \in Nat /\ Unparsed <= Unparsed /\ "blocks" \in Stages \ {"header", "magic"}
  BY <1>1, <1>2 DEF Stages, Unparsed
<1>4. /\ stage' = "blocks" /\ parsed' = parsed + Unparsed
      /\ UNCHANGED <<streamVars, blockIdx, blockRead, held, bodyVars, storeVars, callVars>>
  BY <1>1 DEF Enter
<1>5. AtStage'
  BY <1>1, <1>4 DEF NcaIInv, AtStage, streamVars
<1>6. AtBlock'
  <2>1. Starts(package)[blockIdx + 1] \in Nat
    <3>1. blockIdx + 1 \in 1 .. Len(package.blocks) + 1
      BY <1>1, <1>2, PackageFields
    <3> QED
      BY <1>2, <3>1, StartsAddUp
  <2> QED
    BY <1>1, <1>2, <1>3, <1>4, <2>1 DEF NcaIInv, AtBlock, streamVars
<1>7. AllThere'
  BY <1>1, <1>4 DEF NcaIInv, AllThere, Made, InBody, Flushed, streamVars, bodyVars, callVars
<1> QED
  BY <1>1, <1>3, <1>5, <1>6, <1>7, EnterInv

-----------------------------------------------------------------------------
(* The header                                                              *)

\* Where the header goes there was nothing, and it is the package's.
LEMMA HeaderStored ==
  ASSUME NEW n \in Nat, package \in Packages, n <= HeaderSize, n <= package.length,
         StoreHeader(n), DOMAIN stored = {}
  PROVE  /\ created' /\ DOMAIN stored' = 0 .. n - 1 /\ stored' = [o \in DOMAIN stored' |-> stored'[o]]
         /\ \A o \in 0 .. n - 1 :
              o \in DOMAIN Promised(package) /\ stored'[o] = Promised(package)[o]
<1>1. created' /\ WritePlaceholder(0, Copied(0, n))
  BY DEF StoreHeader
<1>2. 0 \in Nat /\ 0 <= n /\ n - 0 = n
  OBVIOUS
<1>3. Len(Copied(0, n)) = n /\ \A i \in 1 .. n : Copied(0, n)[i] = Raw(0 + i)
  BY <1>2, CopiedIs
<1>4. 0 .. 0 + n - 1 = 0 .. n - 1
  OBVIOUS
<1>5. /\ DOMAIN stored' = 0 .. n - 1 /\ stored' = [o \in DOMAIN stored' |-> stored'[o]]
      /\ \A o \in 0 .. n - 1 : stored'[o] = Raw(o + 1)
  <2>1. stored' = [o \in 0 .. n - 1 |-> Copied(0, n)[o - 0 + 1]]
    BY <1>1, <1>3, <1>4 DEF WritePlaceholder
  <2>2. ASSUME NEW o \in 0 .. n - 1 PROVE Copied(0, n)[o - 0 + 1] = Raw(o + 1)
    <3>1. o - 0 + 1 \in 1 .. n /\ o - 0 + 1 = o + 1 /\ 0 + (o + 1) = o + 1
      OBVIOUS
    <3> QED
      BY <1>3, <3>1
  <2> QED
    BY <2>1, <2>2
<1>6. ASSUME NEW o \in 0 .. n - 1
      PROVE  o \in DOMAIN Promised(package) /\ Promised(package)[o] = Raw(o + 1)
  <2>1. HeaderSize \in Nat /\ package.length \in Nat
    BY NcaAssumption, PackageFields
  <2>2. o \in Nat /\ o < HeaderSize /\ o < package.length
    BY <2>1
  <2> QED
    BY <2>2, PromisedHeader
<1> QED
  BY <1>1, <1>5, <1>6

LEMMA HeaderThrowsInv ==
  ASSUME NcaIInv, stage = "header", call \in {"write", "close", "unwind"}, HeaderThrows,
         UNCHANGED <<streamVars, parseVars, bodyVars>>
  PROVE  NcaIInv'
<1> USE DEF NcaIInv, streamVars, parseVars, bodyVars
<1>1. /\ threw' = TRUE /\ call' \in {"close", "unwind", "terminated"}
      /\ call' = "close" => caller = "sdmc"
  BY ThrowIs DEF HeaderThrows
<1>2. stored' = stored /\ created' \in BOOLEAN
  BY PackageFields DEF HeaderThrows, NcaTypes
<1>3. NcaTypes'
  BY <1>1, <1>2 DEF NcaTypes, Calls
<1>4. Control' /\ Rested' /\ AllFed'
  BY <1>1 DEF Control, Rested, AllFed, InBody, Running
<1>5. AtStage' /\ AtBlock'
  BY DEF AtStage, AtBlock, BodyStart
<1>6. AllThere' /\ BufferedRight' /\ OutRight'
  BY <1>1 DEF AllThere, BufferedRight, OutRight, Body, Flushed, Control, InBody
<1>7. StoredRight' /\ StoredUpTo'
  BY <1>1, <1>2 DEF StoredRight, StoredUpTo
<1> QED
  BY <1>3, <1>4, <1>5, <1>6, <1>7

LEMMA FlushHeaderInv == NcaIInv /\ FlushHeader => NcaIInv'
<1> SUFFICES ASSUME NcaIInv, FlushHeader PROVE NcaIInv'
  OBVIOUS
<1> USE DEF NcaIInv, streamVars, bodyVars, callVars
<1>1. call = "write" /\ out = <<>> /\ stage = "header" /\ Unparsed >= HeaderSize
  BY NeedsIs DEF FlushHeader, Gathered
<1>2. UNCHANGED <<streamVars, blockIdx, blockRead, held, bodyVars>>
  BY DEF FlushHeader
<1>3. CASE HeaderThrows /\ UNCHANGED <<parsed, stage>>
  BY <1>1, <1>2, <1>3, HeaderThrowsInv DEF parseVars
<1>4. CASE StoreHeader(HeaderSize) /\ parsed' = HeaderSize /\ stage' = "magic" /\ UNCHANGED callVars
  <2>1. /\ package \in Packages /\ package.length \in Nat /\ HeaderSize \in Nat /\ HeaderSize > 0
        /\ parsed = 0 /\ fed \in 0 .. package.length /\ HeaderSize <= fed
    <3>1. HeaderSize \in Nat /\ HeaderSize > 0
      BY NcaAssumption
    <3>2. package \in Packages /\ package.length \in Nat
      BY PackageFields DEF NcaTypes
    <3> QED
      BY <1>1, <3>1, <3>2 DEF NcaTypes, AtStage, Unparsed
  <2>2. DOMAIN stored = {}
    BY <1>1 DEF StoredUpTo
  <2>3. /\ created' /\ DOMAIN stored' = 0 .. HeaderSize - 1 /\ stored' = [o \in DOMAIN stored' |-> stored'[o]]
        /\ \A o \in 0 .. HeaderSize - 1 :
             o \in DOMAIN Promised(package) /\ stored'[o] = Promised(package)[o]
    BY <1>4, <2>1, <2>2, HeaderStored
  <2>4. NcaTypes'
    <3>1. created' \in BOOLEAN
      BY <1>4 DEF StoreHeader
    <3> QED
      BY <1>2, <1>4, <2>1, <3>1 DEF NcaTypes, Stages
  <2>5. Control' /\ Rested' /\ AllFed'
    BY <1>1, <1>2, <1>4 DEF Control, Rested, AllFed, InBody, Running
  <2>6. AtStage' /\ AtBlock'
    BY <1>1, <1>2, <1>4 DEF AtStage, AtBlock
  <2>7. AllThere' /\ BufferedRight' /\ OutRight'
    BY <1>1, <1>2, <1>4 DEF AllThere, BufferedRight, OutRight, Control, InBody
  <2>8. StoredRight'
    BY <1>2, <2>3 DEF StoredRight
  <2>9. StoredUpTo'
    BY <1>1, <1>2, <1>4, <2>3 DEF StoredUpTo, Control, InBody
  <2> QED
    BY <2>4, <2>5, <2>6, <2>7, <2>8, <2>9
<1> QED
  BY <1>3, <1>4 DEF FlushHeader

LEMMA CloseHeaderInv == NcaIInv /\ CloseHeader => NcaIInv'
<1> SUFFICES ASSUME NcaIInv, CloseHeader PROVE NcaIInv'
  OBVIOUS
<1> USE DEF NcaIInv, streamVars, parseVars, bodyVars
<1>1. call \in {"close", "unwind"} /\ stage = "header" /\ Waiting >= HeaderMin
      /\ UNCHANGED <<streamVars, parseVars, bodyVars>>
  BY DEF CloseHeader, Closing
<1>2. CASE HeaderThrows
  BY <1>1, <1>2, HeaderThrowsInv
<1>3. CASE StoreHeader(Waiting) /\ Closed
  <2>1. /\ package \in Packages /\ package.length \in Nat /\ HeaderSize \in Nat
        /\ Unparsed \in Nat /\ Unparsed <= package.length
    <3>1. package \in Packages /\ package.length \in Nat
      BY PackageFields DEF NcaTypes
    <3> QED
      BY <1>1, <3>1, NcaAssumption DEF NcaTypes, AtStage, Unparsed
  <2>2. Waiting \in Nat /\ Waiting <= HeaderSize /\ Waiting <= package.length
    BY <2>1, MinOfTwo DEF Waiting
  <2>3. DOMAIN stored = {}
    BY <1>1 DEF StoredUpTo
  <2>4. /\ created' /\ DOMAIN stored' = 0 .. Waiting - 1 /\ stored' = [o \in DOMAIN stored' |-> stored'[o]]
        /\ \A o \in 0 .. Waiting - 1 :
             o \in DOMAIN Promised(package) /\ stored'[o] = Promised(package)[o]
    BY <1>3, <2>1, <2>2, <2>3, HeaderStored
  <2>5. call' = (IF call = "close" THEN "returned" ELSE "failed") /\ threw' = threw
    BY <1>3 DEF Closed
  <2>6. NcaTypes'
    <3>1. created' \in BOOLEAN
      BY <1>3 DEF StoreHeader
    <3> QED
      BY <1>1, <2>5, <3>1 DEF NcaTypes, Calls
  <2>7. Control' /\ Rested' /\ AllFed'
    BY <1>1, <2>5 DEF Control, Rested, AllFed, InBody, Running, Unparsed, Needs
  <2>8. AtStage' /\ AtBlock'
    BY <1>1 DEF AtStage, AtBlock
  <2>9. AllThere' /\ BufferedRight' /\ OutRight'
    BY <1>1 DEF AllThere, BufferedRight, OutRight, Control, InBody
  <2>10. StoredRight'
    BY <1>1, <2>4 DEF StoredRight
  <2>11. StoredUpTo'
    <3>1. Waiting' = Waiting
      BY <1>1 DEF Waiting, Unparsed
    <3> QED
      BY <1>1, <2>4, <2>5, <3>1 DEF StoredUpTo
  <2> QED
    BY <2>6, <2>7, <2>8, <2>9, <2>10, <2>11
<1> QED
  BY <1>2, <1>3 DEF CloseHeader

LEMMA DropBufferInv == NcaIInv /\ DropBuffer => NcaIInv'
<1> SUFFICES ASSUME NcaIInv, DropBuffer PROVE NcaIInv'
  OBVIOUS
<1> USE DEF NcaIInv, streamVars, parseVars, bodyVars, storeVars
<1>1. /\ call \in {"close", "unwind"} /\ (stage = "magic" \/ (stage = "header" /\ Waiting < HeaderMin))
      /\ UNCHANGED <<streamVars, parseVars, bodyVars, storeVars>>
  BY DEF DropBuffer, Closing
<1>2. call' = (IF call = "close" THEN "returned" ELSE "failed") /\ threw' = threw
  BY DEF DropBuffer, Closed
<1>3. NcaTypes'
  BY <1>1, <1>2 DEF NcaTypes, Calls
<1>4. Control' /\ Rested' /\ AllFed'
  BY <1>1, <1>2 DEF Control, Rested, AllFed, InBody, Running, Unparsed, Needs
<1>5. AtStage' /\ AtBlock'
  BY <1>1 DEF AtStage, AtBlock
<1>6. AllThere' /\ BufferedRight' /\ OutRight'
  BY <1>1 DEF AllThere, BufferedRight, OutRight, Control, InBody
<1>7. StoredRight'
  BY <1>1, <1>2 DEF StoredRight
<1>8. StoredUpTo'
  <2>1. CASE stage = "magic"
    BY <2>1, <1>1 DEF StoredUpTo
  <2>2. CASE stage = "header" /\ Waiting < HeaderMin
    <3>1. HeaderMin <= HeaderSize /\ HeaderSize \in Nat /\ HeaderMin \in Nat /\ Unparsed \in Nat
      BY <2>2, NcaAssumption DEF NcaTypes, AtStage, Unparsed
    <3>2. Unparsed < HeaderMin
      BY <2>2, <3>1, MinOfTwo DEF Waiting
    <3>3. Unparsed' < HeaderMin
      BY <3>2, <1>1 DEF Unparsed
    <3>4. DOMAIN stored' = {}
      BY <2>2, <1>1 DEF StoredUpTo
    <3> QED
      BY <2>2, <1>1, <3>3, <3>4 DEF StoredUpTo
  <2> QED
    BY <1>1, <2>1, <2>2
<1> QED
  BY <1>3, <1>4, <1>5, <1>6, <1>7, <1>8

-----------------------------------------------------------------------------
(* The body                                                                *)

\* A delegate that puts out the bytes that come after those made so far.
LEMMA PutOutInv ==
  ASSUME NcaIInv, call = "write", out = <<>>, InBody, stage' = stage,
         UNCHANGED <<streamVars, contentBuffer, contentOffset, storeVars, callVars>>,
         parsed' \in parsed .. fed, out' \in Seq(Clear),
         blockIdx' \in 0 .. Len(package.blocks), blockRead' \in Nat, held' \in Nat,
         AtStage', AtBlock', Made \in Nat, Made' = Made + Len(out'),
         \A i \in 1 .. Len(out') : Made + i \in 1 .. Len(Body) /\ out'[i] = Body[Made + i]
  PROVE  NcaIInv'
<1> USE DEF NcaIInv, streamVars, storeVars, callVars
<1>1. package \in Packages /\ package.length \in Nat /\ ~threw
  BY PackageFields DEF NcaTypes, Control, Running
<1>2. NcaTypes'
  BY <1>1 DEF NcaTypes
<1>3. Control' /\ Rested' /\ AllFed'
  BY DEF Control, Rested, AllFed, InBody, Running
<1>4. Flushed \in Nat /\ Len(contentBuffer) \in Nat /\ Flushed + Len(contentBuffer) = Made
  <2>1. HeaderSize \in Nat
    BY NcaAssumption
  <2>2. Flushed \in Nat
    BY <2>1 DEF NcaTypes, Flushed
  <2>3. Len(contentBuffer) \in Nat
    BY DEF NcaTypes
  <2>4. Flushed + Len(contentBuffer) + Len(out) = Made
    BY <1>1 DEF AllThere
  <2>5. Len(out) = 0
    OBVIOUS
  <2> QED
    BY <2>2, <2>3, <2>4, <2>5
<1>5. AllThere'
  <2>1. Flushed' = Flushed /\ contentBuffer' = contentBuffer
    BY DEF Flushed
  <2>2. Len(out') \in Nat
    OBVIOUS
  <2> QED
    BY <1>4, <2>1, <2>2 DEF AllThere
<1>6. BufferedRight'
  BY DEF BufferedRight, Body, Flushed
<1>7. OutRight'
  <2>1. Flushed' = Flushed /\ contentBuffer' = contentBuffer /\ Body' = Body
    BY DEF Flushed, Body
  <2> QED
    BY <1>4, <2>1 DEF OutRight
<1>8. StoredRight' /\ StoredUpTo'
  BY DEF StoredRight, StoredUpTo, InBody
<1> QED
  BY <1>2, <1>3, <1>5, <1>6, <1>7, <1>8

LEMMA CopyBodyInv == NcaIInv /\ CopyBody => NcaIInv'
<1> SUFFICES ASSUME NcaIInv, CopyBody PROVE NcaIInv'
  OBVIOUS
<1>1. call = "write" /\ out = <<>> /\ stage = "copy" /\ Unparsed > 0
  BY DEF CopyBody, Working
<1>2. /\ out' = Copied(parsed, fed) /\ parsed' = fed
      /\ UNCHANGED <<streamVars, stage, blockIdx, blockRead, held, contentBuffer, contentOffset,
                     storeVars, callVars>>
  BY DEF CopyBody
<1>3. /\ package \in Packages /\ package.length \in Nat /\ package.ncz \in BOOLEAN
      /\ fed \in 0 .. package.length /\ parsed \in 0 .. fed
  BY PackageFields DEF NcaIInv, NcaTypes
<1>4. BodyStart \in Nat /\ BodyStart <= parsed
  <2>1. package.table \in Nat /\ HeaderSize \in Nat
    BY <1>3, PackageFields, NcaAssumption
  <2> QED
    BY <2>1, <1>1 DEF BodyStart, NcaIInv, AtStage
<1>5. package.ncz => package.format = "copy"
  BY <1>1 DEF NcaIInv, AtStage
<1>6. /\ Len(Body) = package.length - BodyStart
      /\ \A i \in 1 .. package.length - BodyStart : Body[i] = Raw(BodyStart + i)
  <2>1. BodyStart <= package.length /\ BodyStart = HeaderSize + (IF package.ncz THEN package.table ELSE 0)
    BY <1>3, <1>4 DEF BodyStart
  <2> QED
    BY <1>3, <1>4, <1>5, <2>1, BodyCopied DEF Body
<1>7. /\ out' \in Seq(Clear) /\ Len(out') = fed - parsed
      /\ \A i \in 1 .. fed - parsed : out'[i] = Raw(parsed + i)
  <2>1. fed \in Nat /\ parsed \in Nat /\ parsed <= fed
    BY <1>3
  <2> QED
    BY <1>2, <2>1, CopiedIs
<1>8. Made = parsed - BodyStart /\ Made' = fed - BodyStart
  BY <1>1, <1>2 DEF Made, BodyStart, streamVars
<1>9. ASSUME NEW i \in 1 .. Len(out')
      PROVE  Made + i \in 1 .. Len(Body) /\ out'[i] = Body[Made + i]
  <2>1. Made + i \in 1 .. package.length - BodyStart /\ BodyStart + (Made + i) = parsed + i
    BY <1>3, <1>4, <1>7, <1>8
  <2> QED
    BY <2>1, <1>6, <1>7
<1>10. AtStage' /\ AtBlock'
  BY <1>1, <1>2, <1>3, <1>4 DEF NcaIInv, AtStage, AtBlock, BodyStart, streamVars
<1>11. /\ InBody /\ parsed' \in parsed .. fed /\ Made \in Nat /\ Made' = Made + Len(out')
  BY <1>1, <1>2, <1>3, <1>4, <1>7, <1>8 DEF InBody
<1>12. blockIdx' \in 0 .. Len(package.blocks) /\ blockRead' \in Nat /\ held' \in Nat
  BY <1>2 DEF NcaIInv, NcaTypes
<1> QED
  BY <1>1, <1>2, <1>7, <1>9, <1>10, <1>11, <1>12, PutOutInv

\* What a decoder puts out that has made the first 2 * d bytes from position
\* `from` on, holds back `held` and goes on with n more.
LEMMA Decoded ==
  ASSUME NcaTypes, NEW from \in Nat, NEW d \in Nat, parsed = from + d + held,
         NEW n \in Nat, NEW ends \in BOOLEAN, Decode(n, ends)
  PROVE  /\ held' \in Nat /\ held' <= held + n /\ (ends => held' = 0)
         /\ out' \in Seq(Clear) /\ Len(out') = 2 * (n + held - held')
         /\ \A i \in 1 .. Len(out') : out'[i] = Half(from, 2 * d + i)
<1> USE DEF NcaTypes
<1>1. PICK h \in 0 .. Min({MaxHeld, held + n}) :
        (ends => h = 0) /\ held' = h /\ out' = Unpacked(parsed - held, parsed + n - h)
  BY DEF Decode
<1>2. h \in Nat /\ h <= held + n
  <2>1. MaxHeld \in Nat /\ held + n \in Nat
    BY NcaAssumption
  <2>2. Min({MaxHeld, held + n}) \in Nat /\ Min({MaxHeld, held + n}) <= held + n
    <3> DEFINE k == held + n
    <3>1. k \in Int /\ MaxHeld \in Int
      BY <2>1
    <3> HIDE DEF k
    <3>2. Min({MaxHeld, k}) = IF MaxHeld <= k THEN MaxHeld ELSE k
      BY <3>1, MinOfTwo
    <3> QED
      BY <2>1, <3>1, <3>2 DEF k
  <2> QED
    BY <2>1, <2>2
<1>3. /\ parsed - held = from + d /\ from + d \in Nat /\ parsed + n - h \in Nat
      /\ from + d <= parsed + n - h
      /\ (parsed + n - h) - (from + d) = n + held - h
  BY <1>2
<1>4. out' = Unpacked(from + d, parsed + n - h)
  BY <1>1, <1>3
<1>5. /\ out' \in Seq(Clear) /\ Len(out') = 2 * (n + held - h)
      /\ \A i \in 1 .. 2 * (n + held - h) : out'[i] = Half(from + d, i)
  <2> DEFINE first == from + d
             to == parsed + n - h
             size == n + held - h
  <2>1. first \in Nat /\ to \in Nat /\ first <= to /\ to - first = size
        /\ out' = Unpacked(first, to)
    BY <1>3, <1>4
  <2> HIDE DEF first, to, size
  <2>2. /\ out' \in Seq(Clear) /\ Len(out') = 2 * (to - first)
        /\ \A i \in 1 .. 2 * (to - first) : out'[i] = Half(first, i)
    BY <2>1, UnpackedIs
  <2>3. /\ out' \in Seq(Clear) /\ Len(out') = 2 * size
        /\ \A i \in 1 .. 2 * size : out'[i] = Half(first, i)
    BY <2>1, <2>2
  <2> QED
    BY <2>3 DEF first, size
<1>6. ASSUME NEW i \in 1 .. Len(out') PROVE out'[i] = Half(from, 2 * d + i)
  <2>1. i \in Nat /\ i \in 1 .. 2 * (n + held - h)
    BY <1>2, <1>5
  <2>2. out'[i] = Half(from + d, i)
    BY <1>5, <2>1
  <2>3. Half(from + d, i) = Half(from, 2 * d + i)
    <3>1. from \in Nat /\ d \in Nat /\ i \in Nat
      BY <2>1
    <3> QED
      BY ONLY <3>1, HalfShifts
  <2> QED
    BY <2>2, <2>3
<1> QED
  BY <1>1, <1>2, <1>5, <1>6

LEMMA UnpackBodyInv == NcaIInv /\ UnpackBody => NcaIInv'
<1> SUFFICES ASSUME NcaIInv, UnpackBody PROVE NcaIInv'
  OBVIOUS
<1>1. call = "write" /\ out = <<>> /\ stage = "unpack" /\ Unparsed > 0
  BY DEF UnpackBody, Working
<1>2. /\ Decode(Unparsed, fed = package.length) /\ parsed' = fed
      /\ UNCHANGED <<streamVars, stage, blockIdx, blockRead, contentBuffer, contentOffset,
                     storeVars, callVars>>
  BY DEF UnpackBody
<1>3. /\ package \in Packages /\ package.length \in Nat
      /\ fed \in 0 .. package.length /\ parsed \in 0 .. fed /\ held \in Nat
      /\ package.ncz /\ package.format = "unpack"
  BY <1>1, PackageFields DEF NcaIInv, NcaTypes, AtStage
<1>4. BodyStart \in Nat /\ BodyStart = HeaderSize + package.table /\ BodyStart + held <= parsed
  <2>1. package.table \in Nat /\ HeaderSize \in Nat
    BY <1>3, PackageFields, NcaAssumption
  <2> QED
    BY <2>1, <1>1, <1>3 DEF BodyStart, NcaIInv, AtStage
<1>5. /\ Len(Body) = 2 * (package.length - BodyStart)
      /\ \A i \in 1 .. 2 * (package.length - BodyStart) : Body[i] = Half(BodyStart, i)
  <2>1. BodyStart <= package.length
    BY <1>3, <1>4
  <2> QED
    BY <1>3, <1>4, <2>1, BodyUnpacked DEF Body
<1> DEFINE d == parsed - held - BodyStart
<1>6. d \in Nat /\ parsed = BodyStart + d + held /\ Unparsed \in Nat /\ Unparsed = fed - parsed
  BY <1>3, <1>4 DEF Unparsed
<1>7. /\ held' \in Nat /\ held' <= held + Unparsed /\ (fed = package.length => held' = 0)
      /\ out' \in Seq(Clear) /\ Len(out') = 2 * (Unparsed + held - held')
      /\ \A i \in 1 .. Len(out') : out'[i] = Half(BodyStart, 2 * d + i)
  <2> DEFINE ends == fed = package.length
  <2>1. NcaTypes /\ ends \in BOOLEAN /\ Decode(Unparsed, ends)
    BY <1>2 DEF NcaIInv
  <2> HIDE DEF d, ends
  <2>2. /\ held' \in Nat /\ held' <= held + Unparsed /\ (ends => held' = 0)
        /\ out' \in Seq(Clear) /\ Len(out') = 2 * (Unparsed + held - held')
        /\ \A i \in 1 .. Len(out') : out'[i] = Half(BodyStart, 2 * d + i)
    BY <1>4, <1>6, <2>1, Decoded
  <2> QED
    BY <2>2 DEF ends
<1>8. Made = 2 * d /\ Made' = 2 * (fed - held' - BodyStart)
  BY <1>1, <1>2 DEF Made, BodyStart, streamVars
<1> HIDE DEF d
<1> DEFINE made == fed - held' - BodyStart
<1>9. /\ d \in Nat /\ made \in Nat /\ Len(out') = 2 * made - 2 * d
      /\ parsed <= fed /\ fed \in Nat /\ parsed \in Nat /\ BodyStart + held' <= fed
      /\ package.length - BodyStart \in Nat /\ made <= package.length - BodyStart
  <2>1. /\ fed \in Nat /\ parsed \in Nat /\ held \in Nat /\ package.length \in Nat
        /\ parsed <= fed /\ fed <= package.length
    BY <1>3
  <2>2. BodyStart \in Nat /\ BodyStart + held <= parsed
    BY <1>4
  <2>3. d \in Nat /\ parsed = BodyStart + d + held /\ Unparsed = fed - parsed
    BY <1>6
  <2>4. held' \in Nat /\ held' <= held + (fed - parsed)
    BY <2>3, <1>7
  <2>5. Len(out') = 2 * ((fed - parsed) + held - held')
    BY <2>3, <1>7
  <2>6. parsed = BodyStart + d + held /\ d \in Nat
    BY <2>3
  <2>7. /\ BodyStart + held' <= fed /\ made \in Nat /\ made <= package.length - BodyStart
        /\ (fed - parsed) + held - held' = made - d
    <3>1. PICK h \in Nat : h = held'
      BY <2>4
    <3>2. h <= held + (fed - parsed)
      BY <2>4, <3>1
    <3>3. /\ BodyStart + h <= fed /\ fed - h - BodyStart \in Nat
          /\ fed - h - BodyStart <= package.length - BodyStart
          /\ (fed - parsed) + held - h = (fed - h - BodyStart) - d
      BY <2>1, <2>2, <2>6, <3>2
    <3> QED
      BY <3>1, <3>3
  <2> HIDE DEF made
  <2>9. Len(out') = 2 * made - 2 * d
    BY <2>3, <2>5, <2>7
  <2>10. package.length - BodyStart \in Nat
    BY <2>1, <2>2
  <2> QED
    BY <2>1, <2>3, <2>7, <2>9, <2>10
<1> HIDE DEF made
<1>a. ASSUME NEW i \in 1 .. Len(out')
      PROVE  Made + i \in 1 .. Len(Body) /\ out'[i] = Body[Made + i]
  <2>1. 2 * d + i \in 1 .. 2 * (package.length - BodyStart)
    <3> DEFINE whole == package.length - BodyStart
               size == Len(out')
    <3>1. /\ d \in Nat /\ made \in Nat /\ size = 2 * made - 2 * d /\ whole \in Nat /\ made <= whole
          /\ i \in 1 .. size
      BY <1>9
    <3> HIDE DEF whole, size
    <3>2. 2 * d + i \in 1 .. 2 * whole
      BY <3>1
    <3> QED
      BY <3>2 DEF whole
  <2>2. out'[i] = Half(BodyStart, 2 * d + i)
    BY <1>7
  <2> QED
    BY <2>1, <2>2, <1>5, <1>8
<1>10. AtStage'
  <2>1. BodyStart' = BodyStart /\ package' = package /\ stage' = stage
    BY <1>2 DEF BodyStart, streamVars
  <2>2. parsed' >= BodyStart + held'
    BY <1>2, <1>9
  <2>3. parsed' = package.length => held' = 0
    BY <1>2, <1>7
  <2> QED
    BY <1>1, <2>1, <2>2, <2>3 DEF NcaIInv, AtStage
<1>11. AtBlock'
  BY <1>1, <1>2 DEF NcaIInv, AtBlock
<1>12. InBody /\ parsed' \in parsed .. fed /\ Made \in Nat /\ Made' = Made + Len(out')
  <2>1. Made' = 2 * made
    BY <1>8 DEF made
  <2> QED
    BY <1>1, <1>2, <1>8, <1>9, <2>1 DEF InBody
<1>13. blockIdx' \in 0 .. Len(package.blocks) /\ blockRead' \in Nat
  BY <1>2 DEF NcaIInv, NcaTypes
<1> QED
  BY <1>1, <1>2, <1>7, <1>a, <1>10, <1>11, <1>12, <1>13, PutOutInv

\* What the invariant says of a writer in the middle of the blocks.
LEMMA InBlockIs ==
  ASSUME NcaIInv, stage = "blocks", blockIdx < Len(package.blocks), NEW b, b = blockIdx + 1
  PROVE  /\ package \in Packages /\ InBlocks(package)
         /\ b \in 1 .. Len(package.blocks) /\ b - 1 = blockIdx
         /\ package.blocks[b] \in Nat /\ package.packed[b] \in BOOLEAN
         /\ Starts(package)[b] \in Nat
         /\ Starts(package)[b + 1] = Starts(package)[b] + package.blocks[b]
         /\ parsed = Starts(package)[b] + blockRead /\ blockRead < package.blocks[b]
         /\ blockRead \in Nat /\ held \in Nat /\ held <= (IF package.packed[b] THEN blockRead ELSE 0)
         /\ Made = blockIdx * package.blockSize
                     + (IF package.packed[b] THEN 2 * (blockRead - held) ELSE blockRead)
<1>1. package \in Packages /\ Len(package.blocks) \in Nat /\ blockIdx \in 0 .. Len(package.blocks)
  BY PackageFields DEF NcaIInv, NcaTypes
<1>2. b \in 1 .. Len(package.blocks) /\ b - 1 = blockIdx
  BY <1>1
<1>3. package.blocks[b] \in Nat /\ package.packed[b] \in BOOLEAN
  BY <1>1, <1>2, PackageFields
<1>4. /\ Starts(package)[b] \in Nat
      /\ Starts(package)[b + 1] = Starts(package)[b] + package.blocks[b]
  <2>1. b \in 1 .. Len(package.blocks) + 1
    BY <1>1, <1>2
  <2> QED
    BY <1>1, <1>2, <2>1, StartsAddUp
<1>5. InBlocks(package)
  BY DEF NcaIInv, AtStage, InBlocks
<1>6. /\ parsed = Starts(package)[b] + blockRead /\ blockRead < package.blocks[b]
      /\ held <= (IF package.packed[b] THEN blockRead ELSE 0)
  BY <1>1 DEF NcaIInv, AtBlock
<1>7. blockRead \in Nat /\ held \in Nat
  BY DEF NcaIInv, NcaTypes
<1>8. Made = blockIdx * package.blockSize
               + (IF package.packed[b] THEN 2 * (blockRead - held) ELSE blockRead)
  BY <1>1 DEF Made
<1> QED
  BY <1>1, <1>2, <1>3, <1>4, <1>5, <1>6, <1>7, <1>8

\* After `share` more bytes of a block the writer is in it, or at the next.
LEMMA BlockGoesOn ==
  ASSUME NcaIInv, stage = "blocks", blockIdx < Len(package.blocks), NEW b, b = blockIdx + 1,
         NEW share \in Nat, NEW h \in Nat,
         blockRead + share <= package.blocks[b],
         h <= (IF package.packed[b] THEN held + share ELSE 0),
         stage' = stage, package' = package, parsed' = parsed + share, held' = h,
         IF blockRead + share = package.blocks[b]
           THEN blockIdx' = b /\ blockRead' = 0 /\ h = 0
           ELSE blockIdx' = blockIdx /\ blockRead' = blockRead + share
  PROVE  /\ AtBlock'
         /\ Made' = blockIdx * package.blockSize
                      + (IF package.packed[b] THEN 2 * (blockRead + share - h) ELSE blockRead + share)
<1> DEFINE n == Len(package.blocks)
           size == package.blocks[b]
           S == Starts(package)
           before == blockIdx * package.blockSize
<1>1. /\ package \in Packages /\ InBlocks(package)
      /\ b \in 1 .. n /\ b - 1 = blockIdx /\ size \in Nat /\ package.packed[b] \in BOOLEAN
      /\ S[b] \in Nat /\ S[b + 1] = S[b] + size /\ parsed = S[b] + blockRead
      /\ blockRead \in Nat /\ held \in Nat /\ held <= (IF package.packed[b] THEN blockRead ELSE 0)
  BY InBlockIs
<1>2. n \in Nat /\ package.blockSize \in Nat /\ package.decompressedSize \in Nat
  BY <1>1, PackageFields
<1>3. CASE blockRead + share # size
  <2>1. blockIdx' = blockIdx /\ blockRead' = blockRead + share /\ held' = h
    BY <1>3
  <2>2. blockIdx # n /\ blockIdx + 1 = b
    BY <1>1, <1>2
  <2>3. AtBlock'
    <3>1. blockRead + share < size
      <4>1. blockRead \in Nat /\ size \in Nat /\ blockRead + share <= size
        BY <1>1
      <4> HIDE DEF size
      <4> QED
        BY <4>1, <1>3
    <3>2. parsed + share = S[b] + (blockRead + share)
      BY <1>1
    <3>3. h <= (IF package.packed[b] THEN blockRead + share ELSE 0)
      BY <1>1
    <3> QED
      BY <2>1, <2>2, <3>1, <3>2, <3>3 DEF AtBlock
  <2>4. Made' = before + (IF package.packed[b] THEN 2 * (blockRead + share - h) ELSE blockRead + share)
    <3>1. stage' = "blocks" /\ blockIdx' # Len(package'.blocks) /\ package' = package
      BY <2>1, <2>2
    <3>2. Made' = blockIdx' * package'.blockSize
                   + (IF package'.packed[blockIdx' + 1] THEN 2 * (blockRead' - held') ELSE blockRead')
      BY <3>1 DEF Made
    <3>3. blockIdx' = blockIdx /\ package'.packed[blockIdx' + 1] = package.packed[b]
      BY <3>1, <2>1, <2>2
    <3> DEFINE half == 2 * (blockRead' - held')
    <3>4. blockIdx' * package'.blockSize = before
      BY <3>1, <3>3
    <3>5. half = 2 * (blockRead + share - h)
      <4>1. blockRead \in Nat
        BY <1>1
      <4>2. (blockRead + share) - h = blockRead + share - h
        BY <4>1
      <4>3. half = 2 * ((blockRead + share) - h)
        BY <2>1
      <4> QED
        BY <4>2, <4>3
    <3> HIDE DEF before
    <3>6. Made' = before + (IF package.packed[b] THEN half ELSE blockRead')
      BY <3>2, <3>3, <3>4
    <3> HIDE DEF half
    <3> QED
      BY <3>5, <3>6, <2>1
  <2> QED
    BY <2>3, <2>4
<1>4. CASE blockRead + share = size
  <2>1. blockIdx' = b /\ blockRead' = 0 /\ held' = 0 /\ h = 0
    BY <1>4
  <2>2. parsed' = S[b + 1] /\ S[b + 1] \in Nat
    <3>1. parsed + share = S[b + 1]
      <4> DEFINE from == S[b]
      <4>1. /\ from \in Nat /\ parsed = from + blockRead /\ blockRead \in Nat
            /\ S[b + 1] = from + size
        BY <1>1
      <4> HIDE DEF from, size, S
      <4> QED
        BY <4>1, <1>4
    <3>2. S[b + 1] \in Nat
      <4>1. S[b] \in Nat /\ size \in Nat /\ S[b + 1] = S[b] + size
        BY <1>1
      <4> HIDE DEF size, S
      <4> QED
        BY <4>1
    <3> QED
      BY <3>1, <3>2
  <2>3. b < n => package.blocks[b + 1] > 0 /\ package.packed[b + 1] \in BOOLEAN
    <3> SUFFICES ASSUME b < n PROVE package.blocks[b + 1] > 0 /\ package.packed[b + 1] \in BOOLEAN
      OBVIOUS
    <3>1. b + 1 \in 1 .. n
      <4>1. b \in 1 .. n /\ n \in Nat
        BY <1>1, <1>2
      <4> HIDE DEF n
      <4> QED
        BY <4>1
    <3>2. package.blocks[b + 1] \in Nat \ {0} /\ package.packed[b + 1] \in BOOLEAN
      <4>1. package.blocks \in Seq(Nat \ {0}) /\ package.packed \in [1 .. n -> BOOLEAN]
        BY <1>1, PackageFields
      <4> QED
        BY <4>1, <3>1
    <3> QED
      BY <3>2
  <2>4. AtBlock'
    <3>1. CASE b = n
      BY <3>1, <2>1, <2>2 DEF AtBlock
    <3>2. CASE b # n
      <4>1. package.blocks[b + 1] > 0 /\ package.packed[b + 1] \in BOOLEAN
        BY <3>2, <1>1, <1>2, <2>3
      <4>2. S[b + 1] + 0 = S[b + 1]
        BY <2>2
      <4> QED
        BY <3>2, <2>1, <2>2, <4>1, <4>2 DEF AtBlock
    <3> QED
      BY <3>1, <3>2
  <2>5. /\ before \in Nat /\ before = (b - 1) * package.blockSize
        /\ Share(package, b) = (IF package.packed[b] THEN 2 * size ELSE size)
        /\ b < n => Share(package, b) = package.blockSize
        /\ b = n => before + Share(package, b) = package.decompressedSize
    BY <1>1, BlockShares
  <2>6. Made' = before + Share(package, b)
    <3>1. CASE b = n
      BY <3>1, <2>1, <2>5 DEF Made
    <3>2. CASE b < n
      <4>1. Made' = b * package.blockSize + 0
        <5>1. b # n /\ 2 * (0 - 0) = 0
          BY <3>2, <1>1, <1>2
        <5> QED
          BY <5>1, <2>1, <3>2, <2>3 DEF Made
      <4>2. b * package.blockSize = (b - 1) * package.blockSize + package.blockSize
        BY <1>1, <1>2
      <4> HIDE DEF before
      <4> QED
        BY <1>2, <2>5, <3>2, <4>1, <4>2
    <3> QED
      BY <1>1, <1>2, <3>1, <3>2
  <2>7. Share(package, b) = (IF package.packed[b] THEN 2 * (blockRead + share - h) ELSE blockRead + share)
    BY <1>1, <1>4, <2>1, <2>5
  <2> QED
    BY <2>4, <2>6, <2>7
<1> QED
  BY <1>3, <1>4

\* A packed block is unpacked ...
LEMMA WritePacked ==
  ASSUME NcaIInv, stage = "blocks", blockIdx < Len(package.blocks), NEW b, b = blockIdx + 1,
         package.packed[b], NEW share \in Nat, blockRead + share <= package.blocks[b],
         Decode(share, blockRead + share >= package.blocks[b])
  PROVE  /\ held' \in Nat /\ held' <= held + share
         /\ blockRead + share = package.blocks[b] => held' = 0
         /\ out' \in Seq(Clear)
         /\ Len(out') = 2 * (blockRead + share - held') - 2 * (blockRead - held)
         /\ \A i \in 1 .. Len(out') :
              /\ 2 * (blockRead - held) + i \in 1 .. Share(package, b)
              /\ out'[i] = BlockContent(package, b)[2 * (blockRead - held) + i]
<1> DEFINE size == package.blocks[b]
           from == Starts(package)[b]
           d == blockRead - held
           ends == blockRead + share >= size
<1>1. /\ package \in Packages /\ InBlocks(package) /\ b \in 1 .. Len(package.blocks)
      /\ size \in Nat /\ from \in Nat /\ Starts(package)[b + 1] = from + size
      /\ parsed = from + blockRead /\ blockRead \in Nat /\ held \in Nat /\ held <= blockRead
  BY InBlockIs
<1>2. Share(package, b) = 2 * size
  BY <1>1, BlockShares
<1>3. Decode(share, ends) /\ ends \in BOOLEAN /\ NcaTypes
  BY DEF NcaIInv
<1>4. blockRead + share <= size /\ (blockRead + share = size => ends)
  BY <1>1
<1>5. BlockContent(package, b) = Unpacked(from, from + size)
  BY <1>1 DEF BlockContent
<1> HIDE DEF size, from, ends
<1>6. d \in Nat /\ parsed = from + d + held /\ d = blockRead - held
  BY <1>1
<1> HIDE DEF d
<1>7. /\ held' \in Nat /\ held' <= held + share /\ (ends => held' = 0)
      /\ out' \in Seq(Clear) /\ Len(out') = 2 * (share + held - held')
      /\ \A i \in 1 .. Len(out') : out'[i] = Half(from, 2 * d + i)
  <2>1. from \in Nat /\ d \in Nat /\ parsed = from + d + held
    BY <1>1, <1>6
  <2> QED
    BY <1>3, <2>1, Decoded
<1>8. PICK h \in Nat : h = held'
  BY <1>7
<1>9. PICK len \in Nat : len = Len(out') /\ len = 2 * (share + held - h)
  BY <1>7, <1>8
<1>10. h <= held + share
  BY <1>7, <1>8
<1>11. len = 2 * (blockRead + share - h) - 2 * d /\ 2 * d + len <= 2 * size
  <2>1. blockRead \in Nat /\ held \in Nat /\ size \in Nat /\ d \in Nat
    BY <1>1, <1>6
  <2> QED
    BY <2>1, <1>4, <1>6, <1>9, <1>10
<1>12. ASSUME NEW i \in 1 .. Len(out')
       PROVE  /\ 2 * d + i \in 1 .. Share(package, b)
              /\ out'[i] = BlockContent(package, b)[2 * d + i]
  <2>1. i \in 1 .. len /\ size \in Nat /\ d \in Nat /\ from \in Nat
    BY <1>1, <1>6, <1>9
  <2>2. 2 * d + i \in 1 .. 2 * size
    BY <2>1, <1>11
  <2>3. Unpacked(from, from + size)[2 * d + i] = Half(from, 2 * d + i)
    <3> DEFINE to == from + size
               at == 2 * d + i
    <3>1. to \in Nat /\ from <= to /\ to - from = size /\ at \in 1 .. 2 * size
      BY <2>1, <2>2
    <3> HIDE DEF to, at
    <3>2. \A k \in 1 .. 2 * (to - from) : Unpacked(from, to)[k] = Half(from, k)
      BY <2>1, <3>1, UnpackedIs
    <3>3. Unpacked(from, to)[at] = Half(from, at)
      BY <3>1, <3>2
    <3> QED
      BY <3>3 DEF to, at
  <2> QED
    BY <1>2, <1>5, <1>7, <2>2, <2>3
<1> QED
  BY <1>4, <1>6, <1>7, <1>8, <1>9, <1>11, <1>12 DEF size

\* ... and one that is not, copied.
LEMMA WriteUnpacked ==
  ASSUME NcaIInv, stage = "blocks", blockIdx < Len(package.blocks), NEW b, b = blockIdx + 1,
         ~package.packed[b], NEW share \in Nat, blockRead + share <= package.blocks[b],
         out' = Copied(parsed, parsed + share)
  PROVE  /\ held = 0 /\ out' \in Seq(Clear) /\ Len(out') = share
         /\ \A i \in 1 .. Len(out') :
              /\ blockRead + i \in 1 .. Share(package, b)
              /\ out'[i] = BlockContent(package, b)[blockRead + i]
<1> DEFINE size == package.blocks[b]
           from == Starts(package)[b]
<1>1. /\ package \in Packages /\ InBlocks(package) /\ b \in 1 .. Len(package.blocks)
      /\ size \in Nat /\ from \in Nat /\ Starts(package)[b + 1] = from + size
      /\ parsed = from + blockRead /\ blockRead \in Nat /\ held \in Nat /\ held <= 0
  BY InBlockIs
<1>2. Share(package, b) = size
  BY <1>1, BlockShares
<1>3. BlockContent(package, b) = Copied(from, from + size)
  BY <1>1 DEF BlockContent
<1>4. blockRead + share <= size
  OBVIOUS
<1> HIDE DEF size, from
<1>5. /\ from \in Nat /\ size \in Nat /\ blockRead \in Nat /\ parsed = from + blockRead /\ held = 0
  BY <1>1
<1>6. /\ parsed \in Nat /\ parsed + share \in Nat /\ parsed <= parsed + share
      /\ (parsed + share) - parsed = share
  BY <1>5
<1>7. /\ out' \in Seq(Clear) /\ Len(out') = share
      /\ \A i \in 1 .. share : out'[i] = Raw(parsed + i)
  BY <1>6, CopiedIs
<1>8. ASSUME NEW i \in 1 .. Len(out')
      PROVE  /\ blockRead + i \in 1 .. Share(package, b)
             /\ out'[i] = BlockContent(package, b)[blockRead + i]
  <2>1. i \in 1 .. share
    BY <1>7
  <2>2. blockRead + i \in 1 .. size /\ parsed + i = from + (blockRead + i)
    BY <2>1, <1>4, <1>5
  <2>3. Copied(from, from + size)[blockRead + i] = Raw(from + (blockRead + i))
    <3>1. from + size \in Nat /\ from <= from + size /\ (from + size) - from = size
      BY <1>5
    <3> QED
      BY <1>5, <2>2, <3>1, CopiedIs
  <2> QED
    BY <1>2, <1>3, <1>7, <2>1, <2>2, <2>3
<1> QED
  BY <1>5, <1>7, <1>8

LEMMA WriteBlockInv == NcaIInv /\ WriteBlock => NcaIInv'
<1> SUFFICES ASSUME NcaIInv, WriteBlock PROVE NcaIInv'
  OBVIOUS
<1> DEFINE b == blockIdx + 1
           size == package.blocks[b]
           share == Min({Unparsed, size - blockRead})
           before == blockIdx * package.blockSize
           made == IF package.packed[b] THEN 2 * (blockRead - held) ELSE blockRead
           next == IF package.packed[b] THEN 2 * (blockRead + share - held') ELSE blockRead + share
<1>1. call = "write" /\ out = <<>> /\ stage = "blocks" /\ Unparsed > 0 /\ blockIdx < Len(package.blocks)
  BY DEF WriteBlock, Working
<1>2. /\ IF package.usesZstd /\ size < ExpectedSize(package, b)
            THEN Decode(share, blockRead + share >= size)
            ELSE out' = Copied(parsed, parsed + share) /\ UNCHANGED held
      /\ parsed' = parsed + share
      /\ blockIdx'  = IF blockRead + share >= size THEN b ELSE blockIdx
      /\ blockRead' = IF blockRead + share >= size THEN 0 ELSE blockRead + share
      /\ UNCHANGED <<streamVars, stage, contentBuffer, contentOffset, storeVars, callVars>>
  BY DEF WriteBlock
<1>3. /\ package \in Packages /\ InBlocks(package) /\ b \in 1 .. Len(package.blocks) /\ b - 1 = blockIdx
      /\ size \in Nat /\ package.packed[b] \in BOOLEAN
      /\ blockRead \in Nat /\ blockRead < size /\ held \in Nat
      /\ held <= (IF package.packed[b] THEN blockRead ELSE 0)
      /\ Made = before + made
  <2>1. b = blockIdx + 1
    OBVIOUS
  <2> HIDE DEF b
  <2> QED
    BY <1>1, <2>1, InBlockIs
<1>4. fed \in Nat /\ parsed \in Nat /\ parsed <= fed /\ Unparsed = fed - parsed
  <2>1. package.length \in Nat
    BY <1>3, PackageFields
  <2> QED
    BY <2>1 DEF NcaIInv, NcaTypes, Unparsed
<1>5. (package.usesZstd /\ size < ExpectedSize(package, b)) <=> package.packed[b]
  BY <1>3, Packing
<1>6. share \in Nat /\ share <= Unparsed /\ blockRead + share <= size
  <2> DEFINE left == size - blockRead
  <2>1. left \in Nat /\ left = size - blockRead /\ Unparsed \in Nat
    BY <1>1, <1>3, <1>4
  <2> HIDE DEF left
  <2>2. Min({Unparsed, left}) = IF Unparsed <= left THEN Unparsed ELSE left
    BY <2>1, MinOfTwo
  <2>3. share = Min({Unparsed, left})
    BY DEF left
  <2> HIDE DEF share, size
  <2> QED
    BY <1>3, <2>1, <2>2, <2>3
<1>7. before \in Nat
  BY <1>3, BlockShares
<1> HIDE DEF share, before
<1>8. /\ held' \in Nat /\ held' <= (IF package.packed[b] THEN held + share ELSE 0)
      /\ blockRead + share = size => held' = 0
      /\ out' \in Seq(Clear) /\ Len(out') = next - made
      /\ \A i \in 1 .. Len(out') :
           made + i \in 1 .. Share(package, b) /\ out'[i] = BlockContent(package, b)[made + i]
  <2>0. b = blockIdx + 1
    OBVIOUS
  <2>1. CASE package.packed[b]
    <3>1. Decode(share, blockRead + share >= size)
      BY <1>2, <1>5, <2>1
    <3>2. made = 2 * (blockRead - held) /\ next = 2 * (blockRead + share - held')
      BY <2>1
    <3> HIDE DEF b
    <3>3. /\ held' \in Nat /\ held' <= held + share
          /\ blockRead + share = size => held' = 0
          /\ out' \in Seq(Clear)
          /\ Len(out') = 2 * (blockRead + share - held') - 2 * (blockRead - held)
          /\ \A i \in 1 .. Len(out') :
               /\ 2 * (blockRead - held) + i \in 1 .. Share(package, b)
               /\ out'[i] = BlockContent(package, b)[2 * (blockRead - held) + i]
      BY <1>1, <1>6, <2>0, <2>1, <3>1, WritePacked
    <3> HIDE DEF made, next, size
    <3> QED
      BY <2>1, <3>2, <3>3
  <2>2. CASE ~package.packed[b]
    <3>1. out' = Copied(parsed, parsed + share) /\ held' = held
      BY <1>2, <1>5, <2>2
    <3>2. made = blockRead /\ next = blockRead + share
      BY <2>2
    <3> HIDE DEF b
    <3>3. /\ held = 0 /\ out' \in Seq(Clear) /\ Len(out') = share
          /\ \A i \in 1 .. Len(out') :
               /\ blockRead + i \in 1 .. Share(package, b)
               /\ out'[i] = BlockContent(package, b)[blockRead + i]
      BY <1>1, <1>6, <2>0, <2>2, <3>1, WriteUnpacked
    <3>4. share = next - made
      <4> HIDE DEF made, next, size
      <4> QED
        BY <1>3, <1>6, <3>2
    <3> HIDE DEF made, next, size
    <3> QED
      BY <2>2, <3>1, <3>2, <3>3, <3>4
  <2> QED
    BY <1>3, <2>1, <2>2
<1>9. /\ AtBlock' /\ Made' = before + next
  <2>1. PICK h \in Nat : h = held'
    BY <1>8
  <2>2. /\ b = blockIdx + 1 /\ stage' = stage /\ package' = package /\ parsed' = parsed + share /\ held' = h
        /\ h <= (IF package.packed[b] THEN held + share ELSE 0)
    BY <1>2, <1>8, <2>1 DEF streamVars
  <2>3. blockRead + share >= size <=> blockRead + share = size
    <3> HIDE DEF size
    <3> QED
      BY <1>3, <1>6
  <2>4. IF blockRead + share = size
          THEN blockIdx' = b /\ blockRead' = 0 /\ h = 0
          ELSE blockIdx' = blockIdx /\ blockRead' = blockRead + share
    BY <1>2, <1>8, <2>1, <2>3
  <2>5. /\ AtBlock'
        /\ Made' = blockIdx * package.blockSize
                     + (IF package.packed[b] THEN 2 * (blockRead + share - h) ELSE blockRead + share)
    <3> HIDE DEF b
    <3> QED
      BY <1>1, <1>6, <2>2, <2>4, BlockGoesOn
  <2> QED
    BY <2>1, <2>5 DEF before
<1>10. /\ made \in Nat /\ next \in Nat /\ Made \in Nat /\ Made' = Made + Len(out')
  <2>1. made \in Nat
    BY <1>3
  <2>2. next \in Nat
    <3>1. PICK h \in Nat : h = held'
      BY <1>8
    <3>2. package.packed[b] => blockRead + share - h \in Nat
      <4> SUFFICES ASSUME package.packed[b] PROVE blockRead + share - h \in Nat
        OBVIOUS
      <4>1. h <= held + share /\ held <= blockRead
        BY <1>3, <1>8, <3>1
      <4>2. blockRead \in Nat /\ held \in Nat /\ share \in Nat
        BY <1>3, <1>6
      <4> HIDE DEF b
      <4> QED
        BY <4>1, <4>2
    <3>3. blockRead + share \in Nat
      BY <1>3, <1>6
    <3>4. next = IF package.packed[b] THEN 2 * (blockRead + share - h) ELSE blockRead + share
      BY <3>1
    <3> HIDE DEF next, b
    <3> QED
      BY <1>3, <3>2, <3>3, <3>4
  <2>3. Len(out') = next - made /\ Made = before + made /\ Made' = before + next
    BY <1>3, <1>8, <1>9
  <2> HIDE DEF made, next
  <2> QED
    BY <1>7, <2>1, <2>2, <2>3
<1>11. ASSUME NEW i \in 1 .. Len(out')
       PROVE  Made + i \in 1 .. Len(Body) /\ out'[i] = Body[Made + i]
  <2>1. made + i \in 1 .. Share(package, b) /\ out'[i] = BlockContent(package, b)[made + i]
    BY <1>8
  <2>2. /\ before + (made + i) \in 1 .. package.decompressedSize
        /\ BlockBytes(package)[before + (made + i)] = BlockContent(package, b)[made + i]
    <3>1. before = (b - 1) * package.blockSize
      BY <1>3 DEF before
    <3> HIDE DEF b, made
    <3> QED
      BY <1>3, <2>1, <3>1, BlockBytesAt
  <2>3. Body = BlockBytes(package) /\ Len(Body) = package.decompressedSize
    BY <1>3, BodyInBlocks DEF Body
  <2>4. Made + i = before + (made + i)
    <3>1. Made = before + made /\ made \in Nat /\ i \in Int
      BY <1>3, <1>8, <1>10
    <3> HIDE DEF made
    <3> QED
      BY <1>7, <3>1
  <2> QED
    BY <2>1, <2>2, <2>3, <2>4
<1>12. AtStage'
  BY <1>1, <1>2 DEF NcaIInv, AtStage, streamVars
<1>13. InBody /\ parsed' \in parsed .. fed
  BY <1>1, <1>2, <1>4, <1>6 DEF InBody
<1>14. blockIdx' \in 0 .. Len(package.blocks) /\ blockRead' \in Nat
  <2>1. blockIdx \in 0 .. Len(package.blocks) /\ Len(package.blocks) \in Nat
    BY <1>3, PackageFields DEF NcaIInv, NcaTypes
  <2>2. b \in 0 .. Len(package.blocks) /\ share \in Nat /\ blockRead + share \in Nat
    BY <1>3, <1>6
  <2> HIDE DEF b, share, size
  <2> QED
    BY <1>2, <1>3, <2>1, <2>2
<1> HIDE DEF b, made, next, size
<1> QED
  BY <1>1, <1>2, <1>8, <1>9, <1>10, <1>11, <1>12, <1>13, <1>14, PutOutInv

LEMMA DecoderThrowsInv == NcaIInv /\ DecoderThrows => NcaIInv'
BY RefuseInv DEF DecoderThrows, Working

-----------------------------------------------------------------------------
(* The buffer                                                              *)

\* Bytes that a body writer may flush next.
Next(bytes) ==
  \A i \in 1 .. Len(bytes) :
    /\ Flushed + i \in 1 .. Len(Body) /\ bytes[i].at = Body[Flushed + i].at
    /\ ~threw => bytes[i] = Body[Flushed + i] /\ bytes[i].sealed = FALSE

\* A section of the table decides alike for the writer and for the package.
LEMMA EncryptsIs ==
  ASSUME package \in Packages, NEW o \in Int
  PROVE  Encrypts(o) <=> SealedAt(package, o)
<1>1. package.ncz => \A i \in DOMAIN package.sections :
        package.sections[i].start \in Nat /\ package.sections[i].size \in Nat
  BY PackageAssumption DEF NczWhole
<1>2. ASSUME package.ncz, NEW i \in DOMAIN package.sections
      PROVE  o \in package.sections[i].start .. package.sections[i].start + package.sections[i].size - 1
               <=> package.sections[i].start <= o
                   /\ o < package.sections[i].start + package.sections[i].size
  <2> DEFINE start == package.sections[i].start
             size == package.sections[i].size
  <2>1. start \in Nat /\ size \in Nat
    BY <1>1, <1>2
  <2> HIDE DEF start, size
  <2>2. o \in start .. start + size - 1 <=> start <= o /\ o < start + size
    BY <2>1
  <2> QED
    BY <2>2 DEF start, size
<1> QED
  BY <1>2, Zenon DEF Encrypts, SealedAt

LEMMA EncryptedIs ==
  ASSUME NEW bytes \in Seq(Bytes)
  PROVE  /\ Encrypted(bytes) \in Seq(Bytes) /\ Len(Encrypted(bytes)) = Len(bytes)
         /\ \A i \in 1 .. Len(bytes) :
              /\ Encrypted(bytes)[i].at = bytes[i].at
              /\ Encrypted(bytes)[i]
                   = [bytes[i] EXCEPT !.sealed = (bytes[i].sealed # Encrypts(contentOffset + i - 1))]
<1>1. DOMAIN bytes = 1 .. Len(bytes) /\ Len(bytes) \in Nat /\ \A i \in 1 .. Len(bytes) : bytes[i] \in Bytes
  OBVIOUS
<1>2. ASSUME NEW i \in 1 .. Len(bytes), NEW flag \in BOOLEAN
      PROVE  /\ [bytes[i] EXCEPT !.sealed = flag] \in Bytes
             /\ [bytes[i] EXCEPT !.sealed = flag].at = bytes[i].at
  BY <1>1 DEF Bytes
<1>3. \A i \in 1 .. Len(bytes) :
        Encrypted(bytes)[i]
          = [bytes[i] EXCEPT !.sealed = (bytes[i].sealed # Encrypts(contentOffset + i - 1))]
  BY <1>1 DEF Encrypted
<1>4. \A i \in 1 .. Len(bytes) : (bytes[i].sealed # Encrypts(contentOffset + i - 1)) \in BOOLEAN
  OBVIOUS
<1>5. \A i \in 1 .. Len(bytes) :
        Encrypted(bytes)[i] \in Bytes /\ Encrypted(bytes)[i].at = bytes[i].at
  BY <1>2, <1>3, <1>4
<1>6. Encrypted(bytes) = [i \in 1 .. Len(bytes) |-> Encrypted(bytes)[i]]
  BY <1>1 DEF Encrypted
<1>7. Encrypted(bytes) \in [1 .. Len(bytes) -> Bytes]
  BY <1>5, <1>6
<1> QED
  BY <1>1, <1>3, <1>5, <1>7

\* There is a body only behind a header.
LEMMA BodyBehindHeader ==
  ASSUME NEW p \in Packages, NEW i \in 1 .. Len(BodyBytes(p))
  PROVE  p.length > HeaderSize
<1>1. /\ p.length \in Nat /\ p.table \in Nat /\ p.ncz \in BOOLEAN /\ p.tableOk \in BOOLEAN
      /\ HeaderSize \in Nat /\ MagicSize \in Nat \ {0} /\ TableMin \in Nat /\ MagicSize <= TableMin
  BY PackageFields, NcaAssumption
<1>2. CASE p.ncz
  <2>1. p.length >= HeaderSize + (IF p.tableOk THEN p.table + MagicSize ELSE TableMin)
    BY <1>2, PackageAssumption DEF NczWhole
  <2> QED
    BY <1>1, <2>1
<1>3. CASE ~p.ncz
  <2>1. BodyBytes(p) = Copied(HeaderSize, p.length)
    BY <1>3, <1>1 DEF BodyBytes
  <2>2. DOMAIN BodyBytes(p) = 1 .. p.length - HeaderSize
    BY <2>1 DEF Copied
  <2>3. PICK n \in Nat : BodyBytes(p) = [k \in 1 .. n |-> BodyBytes(p)[k]] /\ Len(BodyBytes(p)) = n
    BY BodyIsSeq
  <2>4. DOMAIN BodyBytes(p) = 1 .. n
    BY <2>3
  <2>5. i \in 1 .. p.length - HeaderSize
    BY <2>2, <2>3, <2>4
  <2> QED
    BY <1>1, <2>5
<1> QED
  BY <1>1, <1>2, <1>3

\* A byte that is flushed is promised at its place, and as it is written if
\* it came to the buffer in the clear and was not encrypted there before.
LEMMA FlushedByte ==
  ASSUME NcaIInv, NEW bytes \in Seq(Bytes), Next(bytes), NEW i \in 1 .. Len(bytes)
  PROVE  LET o == contentOffset + i - 1
         IN /\ o \in DOMAIN Promised(package)
            /\ Encrypted(bytes)[i].at = Promised(package)[o].at
            /\ bytes[i] = Body[Flushed + i] /\ bytes[i].sealed = FALSE
                 => Encrypted(bytes)[i] = Promised(package)[o]
<1> DEFINE at == contentOffset
           o == at + i - 1
           k == Flushed + i
<1>1. /\ package \in Packages /\ at \in Nat /\ HeaderSize \in Nat /\ i \in Nat
      /\ Flushed = at - HeaderSize
  BY NcaAssumption DEF NcaIInv, NcaTypes, Flushed
<1>2. k \in 1 .. Len(Body) /\ bytes[i].at = Body[k].at
  BY DEF Next
<1>3. HeaderSize + k - 1 = o /\ o \in Int
  <2> HIDE DEF at
  <2> QED
    BY <1>1
<1>4. /\ Encrypted(bytes)[i].at = bytes[i].at
      /\ Encrypted(bytes)[i] = [bytes[i] EXCEPT !.sealed = (bytes[i].sealed # Encrypts(o))]
  BY EncryptedIs
<1>5. Encrypts(o) <=> SealedAt(package, o)
  BY <1>1, <1>3, EncryptsIs
<1>6. /\ Len(Body) \in Nat
      /\ DOMAIN Promised(package) = 0 .. HeaderSize + Len(Body) - 1
      /\ Promised(package)[HeaderSize + k - 1]
           = [Body[k] EXCEPT !.sealed = SealedAt(package, HeaderSize + k - 1)]
  <2>1. package.length > HeaderSize
    BY <1>1, <1>2, BodyBehindHeader DEF Body
  <2> HIDE DEF k
  <2> QED
    BY <1>1, <1>2, <2>1, PromisedBody DEF Body
<1>7. o \in DOMAIN Promised(package)
  <2> DEFINE len == Len(Body)
  <2>1. len \in Nat /\ k \in 1 .. len /\ HeaderSize \in Nat /\ HeaderSize + k - 1 = o
    BY <1>1, <1>2, <1>3, <1>6
  <2>2. DOMAIN Promised(package) = 0 .. HeaderSize + len - 1
    BY <1>6
  <2> HIDE DEF k, o, len
  <2>3. o \in 0 .. HeaderSize + len - 1
    BY <2>1
  <2> QED
    BY <2>2, <2>3
<1>8. Promised(package)[o] = [Body[k] EXCEPT !.sealed = SealedAt(package, o)]
  <2> HIDE DEF k, o
  <2> QED
    BY <1>3, <1>6
<1> HIDE DEF k, o
<1>9. Promised(package)[o].at = Body[k].at
  BY <1>8
<1>10. ASSUME bytes[i] = Body[k], bytes[i].sealed = FALSE
       PROVE  Encrypted(bytes)[i] = Promised(package)[o]
  <2>1. Encrypts(o) \in BOOLEAN /\ SealedAt(package, o) \in BOOLEAN
    BY DEF Encrypts, SealedAt
  <2>2. (bytes[i].sealed # Encrypts(o)) = SealedAt(package, o)
    BY <1>5, <1>10, <2>1
  <2> QED
    BY <1>4, <1>8, <1>10, <2>2
<1> QED
  BY <1>2, <1>4, <1>7, <1>9, <1>10 DEF k, o

\* What a flush writes is promised at its place.
LEMMA FlushedRight ==
  ASSUME NcaIInv, InBody, NEW bytes \in Seq(Bytes), Next(bytes), Flush(bytes),
         package' = package, threw' = threw, stage' = stage, created' = created
  PROVE  /\ contentBuffer' = <<>> /\ contentOffset' = contentOffset + Len(bytes)
         /\ contentOffset' \in Nat /\ contentOffset' >= HeaderSize
         /\ StoredRight' /\ StoredUpTo'
<1> DEFINE n == Len(bytes)
           at == contentOffset
           written == at .. at + n - 1
<1>1. /\ package \in Packages /\ at \in Nat /\ at >= HeaderSize /\ HeaderSize \in Nat /\ n \in Nat
      /\ threw \in BOOLEAN
  BY NcaAssumption DEF NcaIInv, NcaTypes
<1>2. contentBuffer' = <<>> /\ contentOffset' = at + n
  BY DEF Flush
<1>3. DOMAIN stored = 0 .. at - 1 /\ created
  BY DEF NcaIInv, StoredUpTo, InBody
<1>4. stored' = [o \in written \cup DOMAIN stored |->
                   IF o \in written THEN Encrypted(bytes)[o - at + 1] ELSE stored[o]]
  BY EncryptedIs DEF Flush, WritePlaceholder
<1>5. DOMAIN stored' = 0 .. contentOffset' - 1
  <2> HIDE DEF n, at
  <2>1. written \cup (0 .. at - 1) = 0 .. at + n - 1
    BY <1>1
  <2>2. DOMAIN stored' = written \cup DOMAIN stored
    BY <1>4
  <2>3. contentOffset' - 1 = at + n - 1
    BY <1>1, <1>2
  <2> QED
    BY <1>3, <2>1, <2>2, <2>3
<1>6. StoredUpTo'
  <2>1. stored' = [o \in DOMAIN stored' |-> stored'[o]]
    BY <1>4
  <2> QED
    BY <1>3, <1>5, <2>1 DEF StoredUpTo, InBody
<1>7. ASSUME NEW o \in written
      PROVE  /\ o \in DOMAIN Promised(package) /\ stored'[o].at = Promised(package)[o].at
             /\ ~threw => stored'[o] = Promised(package)[o]
  <2> DEFINE i == o - at + 1
  <2>1. i \in 1 .. n /\ o = at + i - 1
    <3> HIDE DEF n, at
    <3> QED
      BY <1>1
  <2>2. stored'[o] = Encrypted(bytes)[i]
    BY <1>4
  <2>3. ~threw => bytes[i] = Body[Flushed + i] /\ bytes[i].sealed = FALSE
    BY <2>1 DEF Next
  <2> HIDE DEF i
  <2> QED
    BY <2>1, <2>2, <2>3, FlushedByte
<1>8. StoredRight'
  <2> SUFFICES ASSUME NEW o \in DOMAIN stored'
               PROVE  /\ o \in DOMAIN Promised(package) /\ stored'[o].at = Promised(package)[o].at
                      /\ ~threw => stored'[o] = Promised(package)[o]
    BY DEF StoredRight
  <2>1. CASE o \in written
    BY <2>1, <1>7
  <2>2. CASE o \notin written
    <3>1. o \in DOMAIN stored /\ stored'[o] = stored[o]
      BY <2>2, <1>4
    <3> QED
      BY <3>1 DEF NcaIInv, StoredRight
  <2> QED
    BY <2>1, <2>2
<1>9. contentOffset' \in Nat /\ contentOffset' >= HeaderSize
  <2> HIDE DEF n, at
  <2> QED
    BY <1>1, <1>2
<1> QED
  BY <1>2, <1>6, <1>8, <1>9

\* A flush that throws may leave the bytes it was to write, encrypted or not.
LEMMA FlushLeavesInv ==
  ASSUME NcaIInv, InBody, call \in {"write", "close", "unwind"}, NEW bytes \in Seq(Bytes), Next(bytes),
         Throw, contentBuffer' \in Seq(Bytes), Len(contentBuffer') = Len(bytes),
         \A i \in 1 .. Len(bytes) : contentBuffer'[i].at = bytes[i].at, out' = <<>>,
         UNCHANGED <<stored, contentOffset, streamVars, parseVars, created>>
  PROVE  NcaIInv'
<1> USE DEF NcaIInv, streamVars, parseVars
<1>1. /\ threw' = TRUE /\ call' \in {"close", "unwind", "terminated"}
      /\ call' = "close" => caller = "sdmc"
  BY ThrowIs
<1>2. out' = <<>> /\ UNCHANGED <<stored, contentOffset>>
  OBVIOUS
<1>3. NcaTypes'
  BY <1>1, <1>2 DEF NcaTypes, Calls
<1>4. Control' /\ Rested' /\ AllFed'
  BY <1>1, <1>2 DEF Control, Rested, AllFed, InBody, Running
<1>5. AtStage' /\ AtBlock'
  BY DEF AtStage, AtBlock, BodyStart
<1>6. AllThere' /\ OutRight'
  BY <1>1, <1>2 DEF AllThere, OutRight
<1>7. BufferedRight'
  <2>1. Flushed' = Flushed /\ Body' = Body
    BY <1>2 DEF Flushed, Body
  <2> QED
    BY <1>1, <2>1 DEF BufferedRight, Next
<1>8. StoredRight' /\ StoredUpTo'
  BY <1>1, <1>2 DEF StoredRight, StoredUpTo, InBody
<1> QED
  BY <1>3, <1>4, <1>5, <1>6, <1>7, <1>8

\* It leaves the same bytes, encrypted once more.
LEMMA FlushThrowsInv ==
  ASSUME NcaIInv, InBody, call \in {"write", "close", "unwind"}, NEW bytes \in Seq(Bytes), Next(bytes),
         FlushThrows(bytes), UNCHANGED <<streamVars, parseVars, created>>
  PROVE  NcaIInv'
<1>1. Throw /\ contentBuffer' = Encrypted(bytes) /\ out' = <<>> /\ UNCHANGED <<stored, contentOffset>>
  BY DEF FlushThrows
<1>2. /\ contentBuffer' \in Seq(Bytes) /\ Len(contentBuffer') = Len(bytes)
      /\ \A i \in 1 .. Len(bytes) : contentBuffer'[i].at = bytes[i].at
  BY <1>1, EncryptedIs
<1> QED
  BY <1>1, <1>2, FlushLeavesInv

\* What the buffer takes from `out` comes after what it holds.
LEMMA Appended ==
  ASSUME NcaIInv, call = "write", NEW n \in Nat, n <= Len(out)
  PROVE  /\ contentBuffer \o SubSeq(out, 1, n) \in Seq(Bytes)
         /\ Len(contentBuffer \o SubSeq(out, 1, n)) = Len(contentBuffer) + n
         /\ Next(contentBuffer \o SubSeq(out, 1, n))
<1> DEFINE taken == SubSeq(out, 1, n)
           bytes == contentBuffer \o taken
           old == Len(contentBuffer)
<1>1. out \in Seq(Clear) /\ contentBuffer \in Seq(Bytes) /\ Len(out) \in Nat /\ old \in Nat
  BY DEF NcaIInv, NcaTypes
<1>2. Clear \subseteq Bytes /\ \A byte \in Clear : byte.sealed = FALSE
  BY DEF Clear, Bytes
<1>3. /\ taken \in Seq(Clear) /\ Len(taken) = n /\ \A i \in 1 .. n : taken[i] = out[i]
  BY <1>1
<1>4. taken \in Seq(Bytes)
  BY <1>2, <1>3
<1> HIDE DEF taken
<1>5. /\ bytes \in Seq(Bytes) /\ Len(bytes) = old + n
      /\ \A i \in 1 .. old + n : bytes[i] = IF i <= old THEN contentBuffer[i] ELSE taken[i - old]
  BY <1>1, <1>3, <1>4
<1>6. ASSUME NEW i \in 1 .. old + n
      PROVE  /\ Flushed + i \in 1 .. Len(Body) /\ bytes[i].at = Body[Flushed + i].at
             /\ ~threw => bytes[i] = Body[Flushed + i] /\ bytes[i].sealed = FALSE
  <2>1. CASE i <= old
    <3>1. i \in 1 .. old /\ bytes[i] = contentBuffer[i]
      BY <1>1, <1>5, <2>1
    <3> HIDE DEF bytes
    <3> QED
      BY <3>1 DEF NcaIInv, BufferedRight
  <2>2. CASE ~(i <= old)
    <3>1. i - old \in 1 .. n /\ bytes[i] = taken[i - old] /\ i - old \in 1 .. Len(out)
      BY <1>1, <1>5, <2>2
    <3>2. bytes[i] = out[i - old] /\ out[i - old] \in Clear
      BY <1>1, <1>3, <3>1
    <3>3. Flushed + old + (i - old) = Flushed + i
      <4>1. contentOffset \in Nat /\ HeaderSize \in Nat
        BY NcaAssumption DEF NcaIInv, NcaTypes
      <4> HIDE DEF old
      <4> QED
        BY <1>1, <4>1 DEF Flushed
    <3>4. Flushed + i \in 1 .. Len(Body) /\ out[i - old] = Body[Flushed + i]
      BY <3>1, <3>3 DEF NcaIInv, OutRight
    <3> HIDE DEF bytes
    <3> QED
      BY <1>2, <3>2, <3>4
  <2> QED
    BY <2>1, <2>2
<1>7. Next(bytes)
  <2> HIDE DEF bytes, old
  <2> QED
    BY <1>5, <1>6 DEF Next
<1> QED
  BY <1>5, <1>7 DEF taken

LEMMA FillBufferInv == NcaIInv /\ FillBuffer => NcaIInv'
<1> SUFFICES ASSUME NcaIInv, FillBuffer PROVE NcaIInv'
  OBVIOUS
<1> USE DEF streamVars, parseVars, storeVars, callVars
<1>1. /\ call = "write" /\ out # <<>> /\ Len(out) < Room
      /\ contentBuffer' = contentBuffer \o out /\ out' = <<>>
      /\ UNCHANGED <<streamVars, parseVars, contentOffset, storeVars, callVars>>
  BY DEF FillBuffer
<1>2. /\ out \in Seq(Clear) /\ contentBuffer \in Seq(Bytes) /\ Len(out) \in Nat
      /\ Len(contentBuffer) \in Nat /\ ~threw /\ InBody /\ contentOffset \in Nat
  BY <1>1 DEF NcaIInv, NcaTypes, Control, Running
<1>3. out = SubSeq(out, 1, Len(out)) /\ Len(out) <= Len(out)
  BY <1>2
<1>4. /\ contentBuffer' \in Seq(Bytes) /\ Len(contentBuffer') = Len(contentBuffer) + Len(out)
      /\ Next(contentBuffer')
  BY <1>1, <1>2, <1>3, Appended
<1>5. NcaTypes'
  BY <1>1, <1>4 DEF NcaIInv, NcaTypes
<1>6. Control' /\ Rested' /\ AllFed'
  <2>1. Len(contentBuffer') < ContentBufferSize
    <3>1. Len(contentBuffer) + Len(out) < ContentBufferSize
      BY <1>1, <1>2, NcaAssumption DEF Room
    <3> QED
      BY <1>4, <3>1
  <2> QED
    BY <1>1, <1>2, <2>1 DEF NcaIInv, Control, Rested, AllFed, InBody, Running
<1>7. AtStage' /\ AtBlock'
  BY <1>1 DEF NcaIInv, AtStage, AtBlock, BodyStart
<1>8. AllThere'
  <2>1. Flushed' = Flushed /\ Made' = Made /\ Len(out') = 0 /\ Flushed \in Int
    <3>1. HeaderSize \in Nat
      BY NcaAssumption
    <3> QED
      BY <1>1, <1>2, <3>1 DEF Flushed, Made, BodyStart
  <2>2. Flushed + Len(contentBuffer) + Len(out) = Made
    BY <1>2 DEF NcaIInv, AllThere
  <2>3. Flushed + (Len(contentBuffer) + Len(out)) + 0 = Flushed + Len(contentBuffer) + Len(out)
    BY <1>2, <2>1
  <2> QED
    BY <1>4, <2>1, <2>2, <2>3 DEF AllThere
<1>9. BufferedRight' /\ OutRight'
  <2>1. Flushed' = Flushed /\ Body' = Body
    BY <1>1 DEF Flushed, Body
  <2> QED
    BY <1>1, <1>2, <1>4, <2>1 DEF BufferedRight, OutRight, Next
<1>10. StoredRight' /\ StoredUpTo'
  BY <1>1 DEF NcaIInv, StoredRight, StoredUpTo, Waiting, Unparsed
<1> QED
  BY <1>5, <1>6, <1>7, <1>8, <1>9, <1>10 DEF NcaIInv

LEMMA FlushFullInv == NcaIInv /\ FlushFull => NcaIInv'
<1> SUFFICES ASSUME NcaIInv, FlushFull PROVE NcaIInv'
  OBVIOUS
<1> DEFINE filled == contentBuffer \o SubSeq(out, 1, Room)
           old == Len(contentBuffer)
           len == Len(out)
<1>1. /\ call = "write" /\ len >= Room /\ UNCHANGED <<streamVars, parseVars, created>>
      /\ \/ Flush(filled) /\ out' = SubSeq(out, Room + 1, len) /\ UNCHANGED callVars
         \/ FlushThrows(filled)
  BY DEF FlushFull
<1>2. /\ out \in Seq(Clear) /\ len \in Nat /\ old \in Nat /\ ~threw
      /\ contentOffset \in Nat /\ HeaderSize \in Nat /\ Flushed = contentOffset - HeaderSize
  BY <1>1, NcaAssumption DEF NcaIInv, NcaTypes, Control, Running, Flushed
<1>3. Room \in Nat /\ Room >= 1
  BY <1>1, <1>2, NcaAssumption DEF NcaIInv, Control, Running, Room
<1>4. InBody
  <2>1. out # <<>>
    BY <1>1, <1>2, <1>3
  <2> QED
    BY <2>1 DEF NcaIInv, Control
<1>5. filled \in Seq(Bytes) /\ Len(filled) = old + Room /\ Next(filled)
  BY <1>1, <1>3, Appended
<1> HIDE DEF filled
<1>6. CASE FlushThrows(filled)
  BY <1>1, <1>4, <1>5, <1>6, FlushThrowsInv
<1>7. CASE Flush(filled) /\ out' = SubSeq(out, Room + 1, len) /\ UNCHANGED callVars
  <2> USE DEF streamVars, parseVars, callVars
  <2>1. /\ contentBuffer' = <<>> /\ contentOffset' = contentOffset + (old + Room)
        /\ contentOffset' \in Nat /\ contentOffset' >= HeaderSize
        /\ StoredRight' /\ StoredUpTo'
    <3>1. package' = package /\ threw' = threw /\ stage' = stage /\ created' = created
      BY <1>1, <1>7
    <3> QED
      BY <1>4, <1>5, <1>7, <3>1, FlushedRight
  <2>2. /\ out' \in Seq(Clear) /\ Len(out') = len - Room
        /\ \A i \in 1 .. len - Room : out'[i] = out[Room + i]
    <3>1. out' = SubSeq(out, Room + 1, len)
      BY <1>7
    <3>2. /\ SubSeq(out, Room + 1, len) \in Seq(Clear)
          /\ Len(SubSeq(out, Room + 1, len)) = len - Room
      BY <1>1, <1>2, <1>3
    <3>3. ASSUME NEW i \in 1 .. len - Room PROVE SubSeq(out, Room + 1, len)[i] = out[Room + i]
      BY <1>1, <1>2, <1>3
    <3> QED
      BY <3>1, <3>2, <3>3
  <2>3. NcaTypes'
    BY <1>1, <1>7, <2>1, <2>2 DEF NcaIInv, NcaTypes
  <2>4. Control' /\ Rested' /\ AllFed'
    <3>1. Len(contentBuffer') < ContentBufferSize
      BY <2>1, NcaAssumption
    <3> QED
      BY <1>1, <1>4, <1>7, <2>1, <3>1 DEF NcaIInv, Control, Rested, AllFed, InBody, Running
  <2>5. AtStage' /\ AtBlock'
    BY <1>1 DEF NcaIInv, AtStage, AtBlock, BodyStart
  <2>6. Flushed' = Flushed + old + Room /\ Flushed \in Int /\ Len(contentBuffer') = 0
    <3>1. Flushed' = (contentOffset + (old + Room)) - HeaderSize
      BY <2>1 DEF Flushed
    <3>2. (contentOffset + (old + Room)) - HeaderSize = Flushed + old + Room /\ Flushed \in Int
      <4> HIDE DEF old
      <4> QED
        BY <1>2, <1>3
    <3> QED
      BY <2>1, <3>1, <3>2
  <2>7. AllThere'
    <3>1. Made' = Made
      BY <1>1 DEF Made, BodyStart
    <3>2. Flushed + old + len = Made
      BY <1>2, <1>4 DEF NcaIInv, AllThere
    <3>3. (Flushed + old + Room) + 0 + (len - Room) = Flushed + old + len
      <4> HIDE DEF old, len
      <4> QED
        BY <1>2, <1>3, <2>6
    <3> QED
      BY <2>2, <2>6, <3>1, <3>2, <3>3 DEF AllThere
  <2>8. BufferedRight'
    BY <2>1 DEF BufferedRight
  <2>9. OutRight'
    <3>1. Body' = Body
      BY <1>1 DEF Body
    <3>2. ASSUME NEW i \in 1 .. len - Room
          PROVE  /\ Flushed + old + Room + 0 + i \in 1 .. Len(Body)
                 /\ out'[i] = Body[Flushed + old + Room + 0 + i]
      <4>1. Room + i \in 1 .. len /\ Flushed + old + (Room + i) = Flushed + old + Room + 0 + i
        <5> HIDE DEF old, len
        <5> QED
          BY <1>2, <1>3, <2>6
      <4>2. /\ Flushed + old + (Room + i) \in 1 .. Len(Body)
            /\ out[Room + i] = Body[Flushed + old + (Room + i)]
        BY <4>1 DEF NcaIInv, OutRight
      <4> QED
        BY <2>2, <4>1, <4>2
    <3> QED
      BY <2>2, <2>6, <3>1, <3>2 DEF OutRight
  <2> QED
    BY <2>1, <2>3, <2>4, <2>5, <2>7, <2>8, <2>9 DEF NcaIInv
<1> QED
  BY <1>1, <1>6, <1>7

LEMMA CloseBodyInv == NcaIInv /\ CloseBody => NcaIInv'
<1> SUFFICES ASSUME NcaIInv, CloseBody PROVE NcaIInv'
  OBVIOUS
<1>1. /\ call \in {"close", "unwind"} /\ InBody /\ UNCHANGED <<streamVars, parseVars, created>>
      /\ \/ Flush(contentBuffer) /\ Closed /\ UNCHANGED out
         \/ contentBuffer # <<>> /\ FlushThrows(contentBuffer)
  BY DEF CloseBody, Closing, InBody
<1>2. contentBuffer \in Seq(Bytes) /\ Len(contentBuffer) \in Nat /\ out = <<>>
  BY <1>1 DEF NcaIInv, NcaTypes, Control
<1>3. Next(contentBuffer)
  BY DEF NcaIInv, BufferedRight, Next
<1>4. CASE FlushThrows(contentBuffer)
  BY <1>1, <1>2, <1>3, <1>4, FlushThrowsInv
<1>5. CASE Flush(contentBuffer) /\ Closed /\ UNCHANGED out
  <2> USE DEF streamVars, parseVars
  <2>1. call' = (IF call = "close" THEN "returned" ELSE "failed") /\ threw' = threw /\ out' = <<>>
    BY <1>2, <1>5 DEF Closed
  <2>2. /\ contentBuffer' = <<>> /\ contentOffset' = contentOffset + Len(contentBuffer)
        /\ contentOffset' \in Nat /\ contentOffset' >= HeaderSize
        /\ StoredRight' /\ StoredUpTo'
    BY <1>1, <1>2, <1>3, <1>5, <2>1, FlushedRight
  <2>3. NcaTypes'
    BY <1>1, <2>1, <2>2 DEF NcaIInv, NcaTypes, Calls
  <2>4. Control' /\ Rested' /\ AllFed'
    BY <1>1, <2>1, <2>2 DEF NcaIInv, Control, Rested, AllFed, InBody, Running, Unparsed, Needs
  <2>5. AtStage' /\ AtBlock'
    BY <1>1 DEF NcaIInv, AtStage, AtBlock, BodyStart
  <2>6. AllThere'
    <3>1. Flushed' = Flushed + Len(contentBuffer) /\ Flushed \in Int
      <4>1. HeaderSize \in Nat /\ contentOffset \in Nat
        BY NcaAssumption DEF NcaIInv, NcaTypes
      <4> QED
        BY <1>2, <2>2, <4>1 DEF Flushed
    <3>2. Made' = Made
      BY <1>1 DEF Made, BodyStart
    <3>3. ~threw => Flushed + Len(contentBuffer) + 0 = Made
      BY <1>1, <1>2 DEF NcaIInv, AllThere
    <3> QED
      BY <1>2, <2>1, <2>2, <3>1, <3>2, <3>3 DEF AllThere
  <2>7. BufferedRight' /\ OutRight'
    BY <2>1, <2>2 DEF BufferedRight, OutRight
  <2> QED
    BY <2>2, <2>3, <2>4, <2>5, <2>6, <2>7 DEF NcaIInv
<1> QED
  BY <1>1, <1>4, <1>5

LEMMA StepNcaIInv == NcaIInv /\ [NcaSteps]_ncaVars => NcaIInv'
<1> SUFFICES ASSUME NcaIInv, [NcaSteps]_ncaVars PROVE NcaIInv'
  OBVIOUS
<1>1. CASE NcaSteps
  BY <1>1, WriteChunkInv, SourceThrowsInv, LoopEndsInv, WriteReturnsInv, FlushHeaderInv,
     SelectBodyInv, ReadTableInv, SelectFormatInv, ReadBlockHeaderInv, ReadBlockSizesInv,
     CopyBodyInv, UnpackBodyInv, DecoderThrowsInv, WriteBlockInv, SkipRestInv, FillBufferInv,
     FlushFullInv, CloseBodyInv, CloseHeaderInv, DropBufferInv, Zenon DEF NcaSteps
<1>2. CASE UNCHANGED ncaVars
  <2> USE <1>2 DEF ncaVars, streamVars, parseVars, bodyVars, storeVars, callVars, NcaIInv
  <2>1. NcaTypes' /\ Control' /\ Rested' /\ AllFed'
    BY DEF NcaTypes, Control, Rested, AllFed, InBody, Running, Needs, Unparsed
  <2>2. AtStage' /\ AtBlock'
    BY DEF AtStage, AtBlock, BodyStart
  <2>3. AllThere' /\ BufferedRight' /\ OutRight'
    BY DEF AllThere, BufferedRight, OutRight, Made, BodyStart, Body, Flushed, InBody
  <2>4. StoredRight' /\ StoredUpTo'
    BY DEF StoredRight, StoredUpTo, Waiting, Unparsed
  <2> QED
    BY <2>1, <2>2, <2>3, <2>4
<1> QED
  BY <1>1, <1>2

THEOREM NcaInvariance == NcaSpec => []NcaIInv
<1>1. NcaInit => NcaIInv
  BY NcaInitInv
<1>2. NcaIInv /\ [NcaSteps]_ncaVars => NcaIInv'
  BY StepNcaIInv
<1> QED
  BY <1>1, <1>2, PTL DEF NcaSpec

-----------------------------------------------------------------------------
(* A call that returns has stored the package                              *)

\* A whole NCZ does not end where a table is awaited.
LEMMA NoStageWaits ==
  ASSUME NcaIInv, ~threw, call = "returned"
  PROVE  stage \in {"header", "magic", "copy", "unpack", "blocks"}
<1> SUFFICES ASSUME stage \in {"table", "format", "blockHeader", "blockSizes"} PROVE FALSE
  BY DEF NcaIInv, NcaTypes, Stages
<1>1. /\ package \in Packages /\ package.length \in Nat /\ package.table \in Nat
      /\ package.tableOk \in BOOLEAN /\ Len(package.blocks) \in Nat
      /\ HeaderSize \in Nat /\ MagicSize \in Nat \ {0} /\ TableMin \in Nat /\ BlockHeaderSize \in Nat
  BY PackageFields, NcaAssumption DEF NcaIInv, NcaTypes
<1>2. fed = package.length /\ Unparsed = package.length - parsed /\ Unparsed < Needs[stage]
  BY NeedsIs DEF NcaIInv, AllFed, Rested, Unparsed
<1>3. /\ package.ncz
      /\ package.length >= HeaderSize + (IF package.tableOk THEN package.table + MagicSize ELSE TableMin)
  BY <1>1, PackageAssumption DEF NcaIInv, AtStage, NczWhole
<1>4. BodyStart = HeaderSize + package.table
  BY <1>3 DEF BodyStart
<1>5. CASE stage = "table"
  <2>1. parsed = HeaderSize
    BY <1>5 DEF NcaIInv, AtStage
  <2>2. package.length - HeaderSize < (IF package.tableOk THEN package.table ELSE TableMin)
    BY <1>2, <1>5, <2>1, NeedsIs
  <2> QED
    BY <1>1, <1>3, <2>2
<1>6. CASE stage = "format"
  <2>1. parsed = HeaderSize + package.table /\ package.tableOk
    BY <1>4, <1>6 DEF NcaIInv, AtStage
  <2>2. package.length - (HeaderSize + package.table) < MagicSize
    BY <1>2, <1>6, <2>1, NeedsIs
  <2> QED
    BY <1>1, <1>3, <2>1, <2>2
<1>7. CASE stage \in {"blockHeader", "blockSizes"}
  <2>1. package.tableOk /\ package.format = "blockHeader"
    BY <1>7 DEF NcaIInv, AtStage
  <2>2. BlocksWhole(package)
    BY <1>1, <1>3, <2>1, PackageAssumption
  <2>3. CASE stage = "blockHeader"
    <3>1. parsed = HeaderSize + package.table
      BY <1>4, <2>3 DEF NcaIInv, AtStage
    <3>2. package.length - (HeaderSize + package.table) < BlockHeaderSize
      BY <1>2, <2>3, <3>1, NeedsIs
    <3> QED
      BY <1>1, <2>2, <3>2 DEF BlocksWhole
  <2>4. CASE stage = "blockSizes"
    <3> DEFINE n == Len(package.blocks)
               first == Starts(package)[1]
               last == Starts(package)[n + 1]
    <3>1. parsed = HeaderSize + package.table + BlockHeaderSize /\ package.blockOk
      BY <1>1, <1>4, <2>4 DEF NcaIInv, AtStage
    <3>2. package.length - (HeaderSize + package.table + BlockHeaderSize) < n
      BY <1>2, <2>4, <3>1, NeedsIs
    <3>3. last <= package.length
      BY <2>2, <3>1 DEF BlocksWhole
    <3>4. 1 \in 1 .. n + 1 /\ n + 1 \in 1 .. n + 1
      BY <1>1
    <3>5. first \in Nat /\ last \in Nat /\ first <= last
      BY <1>1, <3>4, StartsAddUp, StartsGrow
    <3>6. first = HeaderSize + package.table + BlockHeaderSize + n
      BY <1>1, StartsAddUp
    <3> HIDE DEF n, first, last
    <3>7. n \in Nat
      BY <1>1 DEF n
    <3> QED
      BY <1>1, <3>2, <3>3, <3>5, <3>6, <3>7
  <2> QED
    BY <1>7, <2>3, <2>4
<1> QED
  BY <1>5, <1>6, <1>7

\* When all is used up, the whole body has been made.
LEMMA AllMade ==
  ASSUME NcaIInv, stage \in {"copy", "unpack", "blocks"}, parsed = package.length
  PROVE  Made = Len(Body) /\ (package.length <= HeaderSize => Len(Body) = 0)
<1>1. /\ package \in Packages /\ package.length \in Nat /\ package.table \in Nat
      /\ package.ncz \in BOOLEAN /\ HeaderSize \in Nat /\ MagicSize \in Nat \ {0}
  BY PackageFields, NcaAssumption DEF NcaIInv, NcaTypes
<1>2. /\ package.ncz => package.tableOk
      /\ package.ncz => package.length >= HeaderSize + package.table + MagicSize
  BY <1>1, PackageAssumption DEF NcaIInv, AtStage, NczWhole
<1>3. package.ncz => package.length > HeaderSize
  BY <1>1, <1>2
<1>4. CASE stage = "copy"
  <2>1. /\ package.ncz => package.format = "copy"
        /\ BodyStart <= package.length /\ BodyStart \in Nat
        /\ BodyStart = HeaderSize + (IF package.ncz THEN package.table ELSE 0)
    BY <1>1, <1>4 DEF NcaIInv, AtStage, BodyStart
  <2>2. Len(Body) = package.length - BodyStart
    BY <1>1, <2>1, BodyCopied DEF Body
  <2>3. Made = package.length - BodyStart
    BY <1>4 DEF Made
  <2>4. package.length <= HeaderSize => package.length - BodyStart = 0
    BY <1>1, <1>3, <2>1
  <2> QED
    BY <2>2, <2>3, <2>4
<1>5. CASE stage = "unpack"
  <2>1. /\ package.ncz /\ package.format = "unpack" /\ held = 0 /\ BodyStart + 0 <= package.length
    BY <1>5 DEF NcaIInv, AtStage
  <2>2. BodyStart = HeaderSize + package.table /\ BodyStart \in Nat /\ BodyStart <= package.length
    BY <1>1, <2>1 DEF BodyStart
  <2>3. Len(Body) = 2 * (package.length - BodyStart)
    BY <1>1, <2>1, <2>2, BodyUnpacked DEF Body
  <2>4. Made = 2 * (package.length - 0 - BodyStart)
    BY <1>5, <2>1 DEF Made
  <2> QED
    BY <1>1, <1>3, <2>1, <2>2, <2>3, <2>4
<1>6. CASE stage = "blocks"
  <2> DEFINE n == Len(package.blocks)
             S == Starts(package)
  <2>1. package.ncz /\ package.tableOk /\ package.format = "blockHeader" /\ package.blockOk
    BY <1>6 DEF NcaIInv, AtStage
  <2>2. n \in Nat /\ blockIdx \in 0 .. n
    BY <1>1, PackageFields DEF NcaIInv, NcaTypes
  <2>3. blockIdx = n
    <3> SUFFICES ASSUME blockIdx # n PROVE FALSE
      OBVIOUS
    <3> DEFINE b == blockIdx + 1
               size == package.blocks[b]
    <3>1. blockIdx < n /\ b = blockIdx + 1
      BY <2>2
    <3>2. /\ b \in 1 .. n /\ size \in Nat /\ S[b] \in Nat /\ S[b + 1] = S[b] + size
          /\ package.length = S[b] + blockRead /\ blockRead < size /\ blockRead \in Nat
      <4> HIDE DEF b
      <4> QED
        BY <1>6, <3>1, InBlockIs
    <3>3. b + 1 \in 1 .. n + 1 /\ n + 1 \in 1 .. n + 1
      BY <2>2, <3>1
    <3>4. S[b + 1] <= S[n + 1] /\ S[n + 1] \in Nat
      <4> HIDE DEF b
      <4> QED
        BY <1>1, <3>3, StartsGrow, StartsAddUp
    <3>5. S[n + 1] <= package.length
      BY <1>1, <2>1, PackageAssumption DEF BlocksWhole
    <3> DEFINE from == S[b]
               next == S[b + 1]
               last == S[n + 1]
    <3>6. /\ from \in Nat /\ next = from + size /\ size \in Nat /\ last \in Nat /\ next <= last
          /\ last <= package.length /\ package.length = from + blockRead
          /\ blockRead < size /\ blockRead \in Nat
      BY <3>2, <3>4, <3>5
    <3> HIDE DEF from, next, last, size
    <3> QED
      BY <3>6
  <2>4. Made = package.decompressedSize
    BY <1>6, <2>3 DEF Made
  <2>5. Len(Body) = package.decompressedSize
    BY <1>1, <2>1, BodyInBlocks DEF Body, InBlocks
  <2> QED
    BY <1>1, <1>3, <2>1, <2>4, <2>5
<1> QED
  BY <1>4, <1>5, <1>6

\* What is stored at the places promised is what is promised.
LEMMA SameAsPromised ==
  ASSUME NcaIInv, ~threw, DOMAIN stored = DOMAIN Promised(package)
  PROVE  stored = Promised(package)
<1>1. stored = [o \in DOMAIN stored |-> stored[o]]
  BY DEF NcaIInv, StoredUpTo
<1>2. Promised(package) = [o \in DOMAIN Promised(package) |-> Promised(package)[o]]
  BY DEF Promised
<1>3. \A o \in DOMAIN stored : stored[o] = Promised(package)[o]
  BY DEF NcaIInv, StoredRight
<1> HIDE DEF NcaIInv
<1> QED
  BY <1>1, <1>2, <1>3, Zenon

LEMMA NcaIInvStored == NcaIInv => StoredIsPackage
<1> SUFFICES ASSUME NcaIInv, call = "returned", ~threw
             PROVE  stored = Promised(package) \/ Dropped(package)
  BY DEF NcaIInv, StoredRight, Control, StoredIsPackage
<1>1. /\ package \in Packages /\ package.length \in Nat /\ HeaderSize \in Nat
      /\ HeaderMin \in Nat /\ MagicSize \in Nat /\ contentOffset \in Nat
  BY PackageFields, NcaAssumption DEF NcaIInv, NcaTypes
<1>2. fed = package.length /\ Unparsed = package.length - parsed
      /\ parsed \in Nat /\ parsed <= package.length
  BY <1>1 DEF NcaIInv, NcaTypes, AllFed, Unparsed
<1>3. CASE stage = "header"
  <2>1. parsed = 0 /\ Unparsed = package.length /\ package.length < HeaderSize
    <3>1. parsed = 0
      BY <1>3 DEF NcaIInv, AtStage
    <3>2. Unparsed < HeaderSize
      BY <1>3, NeedsIs DEF NcaIInv, Rested
    <3> QED
      BY <1>1, <1>2, <3>1, <3>2
  <2>2. CASE Unparsed < HeaderMin
    BY <2>1, <2>2 DEF Dropped
  <2>3. CASE DOMAIN stored = 0 .. Waiting - 1
    <3>1. Waiting = package.length
      BY <1>1, <2>1, MinOfTwo DEF Waiting
    <3>2. DOMAIN Promised(package) = 0 .. package.length - 1
      BY <1>1, <2>1, PromisedShort
    <3> QED
      BY <2>3, <3>1, <3>2, SameAsPromised
  <2> QED
    BY <1>3, <2>2, <2>3 DEF NcaIInv, StoredUpTo
<1>4. CASE stage = "magic"
  <2>1. parsed = HeaderSize /\ Unparsed < MagicSize
    BY <1>4, NeedsIs DEF NcaIInv, AtStage, Rested
  <2>2. DOMAIN stored = 0 .. HeaderSize - 1
    BY <1>4 DEF NcaIInv, StoredUpTo, Control, InBody
  <2>3. CASE Unparsed = 0
    <3>1. package.length = HeaderSize
      BY <1>1, <1>2, <2>1, <2>3
    <3>2. DOMAIN Promised(package) = 0 .. HeaderSize - 1
      BY <1>1, <3>1, PromisedShort
    <3> QED
      BY <2>2, <3>2, SameAsPromised
  <2>4. CASE Unparsed # 0
    <3>1. package.length - HeaderSize \in 1 .. MagicSize - 1
      BY <1>1, <1>2, <2>1, <2>4
    <3> QED
      BY <3>1 DEF Dropped
  <2> QED
    BY <2>3, <2>4
<1>5. CASE stage \in {"copy", "unpack", "blocks"}
  <2>1. Unparsed = 0
    BY <1>5, NeedsIs DEF NcaIInv, Rested
  <2>2. parsed = package.length
    BY <1>1, <1>2, <2>1
  <2>3. Made = Len(Body) /\ (package.length <= HeaderSize => Len(Body) = 0)
    BY <1>5, <2>2, AllMade
  <2>4. Flushed + Len(contentBuffer) + Len(out) = Made /\ contentBuffer = <<>> /\ out = <<>>
    BY <1>5 DEF NcaIInv, AllThere, Control, InBody
  <2>5. contentOffset - HeaderSize + 0 + 0 = Len(Body)
    BY <2>3, <2>4 DEF Flushed
  <2>6. Len(Body) = contentOffset - HeaderSize
    BY <1>1, <2>5
  <2>7. DOMAIN stored = 0 .. contentOffset - 1
    BY <1>5 DEF NcaIInv, StoredUpTo
  <2>8. DOMAIN Promised(package) = 0 .. contentOffset - 1
    <3>1. CASE package.length > HeaderSize
      <4>1. DOMAIN Promised(package) = 0 .. HeaderSize + Len(Body) - 1
        BY <1>1, <3>1, PromisedBody DEF Body
      <4>2. HeaderSize + (contentOffset - HeaderSize) - 1 = contentOffset - 1
        BY <1>1
      <4> QED
        BY <2>6, <4>1, <4>2
    <3>2. CASE ~(package.length > HeaderSize)
      <4>1. package.length <= HeaderSize /\ package.length >= HeaderSize
        <5>1. BodyStart <= parsed /\ BodyStart >= HeaderSize
          <6>1. package.table \in Nat /\ held \in Nat
            BY <1>1, PackageFields DEF NcaIInv, NcaTypes
          <6>2. stage # "copy" => package.ncz
            BY <1>5 DEF NcaIInv, AtStage
          <6>3. package.ncz => package.length > HeaderSize
            <7>1. package.ncz => package.tableOk
              BY <1>5 DEF NcaIInv, AtStage
            <7>2. package.ncz => package.length >= HeaderSize + (package.table + MagicSize)
              BY <1>1, <7>1, PackageAssumption DEF NczWhole
            <7> QED
              BY <1>1, <6>1, <7>2, NcaAssumption
          <6>4. stage = "copy"
            BY <3>2, <6>2, <6>3
          <6> QED
            BY <1>1, <6>1, <6>4 DEF NcaIInv, AtStage, BodyStart
        <5>2. package.length >= HeaderSize
          <6>1. BodyStart \in Nat
            BY <1>1, PackageFields DEF BodyStart
          <6>2. BodyStart <= package.length
            BY <2>2, <5>1
          <6> QED
            BY <1>1, <5>1, <6>1, <6>2
        <5> QED
          BY <1>1, <3>2, <5>2
      <4>2. package.length = HeaderSize /\ contentOffset = HeaderSize
        BY <1>1, <2>3, <2>6, <4>1
      <4> QED
        BY <1>1, <4>2, PromisedShort
    <3> QED
      BY <3>1, <3>2
  <2> QED
    BY <2>7, <2>8, SameAsPromised
<1> QED
  BY <1>3, <1>4, <1>5, NoStageWaits

\* Whatever the package and however it is cut into writes, buffered, decoded
\* and interrupted: the placeholder holds bytes of the NCA at their offsets,
\* and a StreamToPlaceholder that returns has stored all of it.
THEOREM PackageStored == NcaSpec => []StoredIsPackage
<1>1. NcaSpec => []NcaIInv
  BY NcaInvariance
<1>2. NcaIInv => StoredIsPackage
  BY NcaIInvStored
<1> QED
  BY <1>1, <1>2, PTL

-----------------------------------------------------------------------------
(* Encrypting a copy                                                       *)

\* flushContentBuffer with the sections encrypted in a copy of the buffer:
\* when WritePlaceholder throws, the buffer is as it was.
FlushThrowsClear(bytes) ==
  /\ Throw
  /\ contentBuffer' = bytes /\ out' = <<>>
  /\ UNCHANGED <<stored, contentOffset>>

FlushFullClear ==
  /\ call = "write" /\ Len(out) >= Room
  /\ LET filled == contentBuffer \o SubSeq(out, 1, Room)
     IN \/ Flush(filled) /\ out' = SubSeq(out, Room + 1, Len(out)) /\ UNCHANGED callVars
        \/ FlushThrowsClear(filled)
  /\ UNCHANGED <<streamVars, parseVars, created>>

CloseBodyClear ==
  /\ Closing /\ stage \notin {"header", "magic"}
  /\ \/ Flush(contentBuffer) /\ Closed /\ UNCHANGED out
     \/ contentBuffer # <<>> /\ FlushThrowsClear(contentBuffer)
  /\ UNCHANGED <<streamVars, parseVars, created>>

\* All other steps are those of the writer as it is.
OtherSteps ==
  \/ WriteChunk \/ SourceThrows \/ LoopEnds \/ WriteReturns
  \/ FlushHeader \/ SelectBody \/ ReadTable \/ SelectFormat \/ ReadBlockHeader \/ ReadBlockSizes
  \/ CopyBody \/ UnpackBody \/ DecoderThrows \/ WriteBlock \/ SkipRest \/ FillBuffer
  \/ CloseHeader \/ DropBuffer

ClearSteps == OtherSteps \/ FlushFullClear \/ CloseBodyClear

ClearSpec == NcaInit /\ [][ClearSteps]_ncaVars

\* What is buffered has not been encrypted, whatever threw ...
BufferedClear ==
  \A i \in 1 .. Len(contentBuffer) :
    contentBuffer[i] = Body[Flushed + i] /\ contentBuffer[i].sealed = FALSE

\* ... and what is stored is exactly what the package promises there.
StoredSame ==
  \A o \in DOMAIN stored : o \in DOMAIN Promised(package) /\ stored[o] = Promised(package)[o]

ClearInv == NcaIInv /\ BufferedClear /\ StoredSame

\* As long as nothing has thrown, the writer's own invariant says so.
LEMMA ClearUnlessThrown == NcaIInv /\ ~threw => ClearInv
BY DEF ClearInv, NcaIInv, BufferedRight, StoredRight, BufferedClear, StoredSame

\* The same of the state after a step.
LEMMA ClearAfterUnlessThrown == NcaIInv' /\ ~threw' => ClearInv'
BY DEF ClearInv, NcaIInv, BufferedRight, StoredRight, BufferedClear, StoredSame, Body, Flushed

\* A step that leaves the buffer and the placeholder alone.
LEMMA QuietClear ==
  ASSUME ClearInv, NcaIInv', UNCHANGED <<package, contentBuffer, contentOffset, stored>>
  PROVE  ClearInv'
<1>1. Body' = Body /\ Flushed' = Flushed
  BY DEF Body, Flushed
<1> QED
  BY <1>1 DEF ClearInv, BufferedClear, StoredSame

\* A flush writes what is promised.
LEMMA FlushedSame ==
  ASSUME NcaIInv, StoredSame, BufferedClear, Flush(contentBuffer), package' = package
  PROVE  StoredSame'
<1> DEFINE n == Len(contentBuffer)
           at == contentOffset
           written == at .. at + n - 1
<1>1. contentBuffer \in Seq(Bytes) /\ n \in Nat /\ at \in Nat /\ Next(contentBuffer)
  BY DEF NcaIInv, NcaTypes, BufferedRight, Next
<1>2. stored' = [o \in written \cup DOMAIN stored |->
                   IF o \in written THEN Encrypted(contentBuffer)[o - at + 1] ELSE stored[o]]
  BY <1>1, EncryptedIs DEF Flush, WritePlaceholder
<1>3. ASSUME NEW o \in written
      PROVE  o \in DOMAIN Promised(package) /\ stored'[o] = Promised(package)[o]
  <2> DEFINE i == o - at + 1
  <2>1. i \in 1 .. n /\ o = at + i - 1
    <3> HIDE DEF n, at
    <3> QED
      BY <1>1
  <2>2. stored'[o] = Encrypted(contentBuffer)[i]
    BY <1>2
  <2>3. contentBuffer[i] = Body[Flushed + i] /\ contentBuffer[i].sealed = FALSE
    BY <2>1 DEF BufferedClear
  <2> HIDE DEF i
  <2> QED
    BY <1>1, <2>1, <2>2, <2>3, FlushedByte
<1>4. ASSUME NEW o \in DOMAIN stored \ written
      PROVE  o \in DOMAIN Promised(package) /\ stored'[o] = Promised(package)[o]
  BY <1>2, <1>4 DEF StoredSame
<1>5. DOMAIN stored' = written \cup DOMAIN stored
  BY <1>2
<1> HIDE DEF written
<1> QED
  BY <1>3, <1>4, <1>5 DEF StoredSame

\* A flush that throws keeps what it was to write.
LEMMA FullThrowsClear ==
  ASSUME ClearInv, call = "write", Len(out) >= Room,
         FlushThrowsClear(contentBuffer \o SubSeq(out, 1, Room)),
         UNCHANGED <<streamVars, parseVars, created>>
  PROVE  ClearInv'
<1> DEFINE filled == contentBuffer \o SubSeq(out, 1, Room)
<1>1. /\ Len(contentBuffer) \in Nat /\ Len(out) \in Nat /\ ~threw /\ Room \in Nat /\ Room >= 1
  BY NcaAssumption DEF ClearInv, NcaIInv, NcaTypes, Control, Running, Room
<1>2. InBody
  <2>1. out # <<>>
    BY <1>1
  <2> QED
    BY <2>1 DEF ClearInv, NcaIInv, Control
<1>3. filled \in Seq(Bytes) /\ Next(filled)
  BY <1>1, Appended DEF ClearInv
<1> HIDE DEF filled
<1>4. /\ Throw /\ contentBuffer' = filled /\ out' = <<>> /\ UNCHANGED <<stored, contentOffset>>
  BY DEF FlushThrowsClear, filled
<1>5. NcaIInv'
  BY <1>2, <1>3, <1>4, FlushLeavesInv DEF ClearInv
<1>6. package' = package /\ Body' = Body /\ Flushed' = Flushed
  BY <1>4 DEF streamVars, Body, Flushed
<1>7. BufferedClear'
  BY <1>1, <1>3, <1>4, <1>6 DEF BufferedClear, Next
<1>8. StoredSame'
  BY <1>4, <1>6 DEF ClearInv, StoredSame
<1> QED
  BY <1>5, <1>7, <1>8 DEF ClearInv

\* close() flushes the buffer, or is left with it.
LEMMA CloseBodyKeepsClear == ClearInv /\ CloseBodyClear => ClearInv'
<1> SUFFICES ASSUME ClearInv, CloseBodyClear PROVE ClearInv'
  OBVIOUS
<1>1. /\ call \in {"close", "unwind"} /\ InBody /\ UNCHANGED <<streamVars, parseVars, created>>
      /\ package' = package
  BY DEF CloseBodyClear, Closing, InBody, streamVars
<1>2. contentBuffer \in Seq(Bytes) /\ Next(contentBuffer)
  BY DEF ClearInv, NcaIInv, NcaTypes, BufferedRight, Next
<1>3. CASE Flush(contentBuffer) /\ Closed /\ UNCHANGED out
  <2>1. NcaIInv'
    BY <1>3, CloseBodyInv DEF ClearInv, CloseBodyClear, CloseBody
  <2>2. StoredSame'
    BY <1>1, <1>3, FlushedSame DEF ClearInv
  <2>3. BufferedClear'
    BY <1>3 DEF Flush, BufferedClear
  <2> QED
    BY <2>1, <2>2, <2>3 DEF ClearInv
<1>4. CASE FlushThrowsClear(contentBuffer)
  <2>1. Throw /\ UNCHANGED <<contentBuffer, stored, contentOffset>> /\ out' = <<>>
    BY <1>4 DEF FlushThrowsClear
  <2>2. NcaIInv'
    BY <1>1, <1>2, <2>1, FlushLeavesInv DEF ClearInv
  <2> QED
    BY <1>1, <2>1, <2>2, QuietClear
<1> QED
  BY <1>3, <1>4 DEF CloseBodyClear

\* A header is stored as it is promised, after an exception too.
LEMMA CloseHeaderKeepsClear == ClearInv /\ CloseHeader => ClearInv'
<1> SUFFICES ASSUME ClearInv, CloseHeader PROVE ClearInv'
  OBVIOUS
<1>1. /\ stage = "header" /\ UNCHANGED <<streamVars, parseVars, bodyVars>>
      /\ UNCHANGED <<package, contentBuffer, contentOffset>>
  BY DEF CloseHeader, streamVars, bodyVars
<1>2. NcaIInv'
  BY CloseHeaderInv DEF ClearInv
<1>3. CASE HeaderThrows
  BY <1>1, <1>2, <1>3, QuietClear DEF HeaderThrows
<1>4. CASE StoreHeader(Waiting) /\ Closed
  <2>1. /\ package \in Packages /\ package.length \in Nat /\ HeaderSize \in Nat
        /\ Unparsed \in Nat /\ Unparsed <= package.length
    <3>1. package \in Packages /\ package.length \in Nat
      BY PackageFields DEF ClearInv, NcaIInv, NcaTypes
    <3> QED
      BY <1>1, <3>1, NcaAssumption DEF ClearInv, NcaIInv, NcaTypes, AtStage, Unparsed
  <2>2. Waiting \in Nat /\ Waiting <= HeaderSize /\ Waiting <= package.length
    BY <2>1, MinOfTwo DEF Waiting
  <2>3. DOMAIN stored = {}
    BY <1>1, <1>4 DEF ClearInv, NcaIInv, StoredUpTo, CloseHeader, Closing
  <2>4. /\ DOMAIN stored' = 0 .. Waiting - 1
        /\ \A o \in 0 .. Waiting - 1 :
             o \in DOMAIN Promised(package) /\ stored'[o] = Promised(package)[o]
    BY <1>4, <2>1, <2>2, <2>3, HeaderStored
  <2>5. StoredSame'
    BY <1>1, <2>4 DEF StoredSame
  <2>6. BufferedClear'
    BY <1>1 DEF ClearInv, BufferedClear, Body, Flushed
  <2> QED
    BY <1>2, <2>5, <2>6 DEF ClearInv
<1> QED
  BY <1>3, <1>4 DEF CloseHeader

\* Every step keeps the buffer clear and the placeholder as promised: after
\* an exception only a close still changes them.
LEMMA StepClear == ClearInv /\ [ClearSteps]_ncaVars => ClearInv'
<1> SUFFICES ASSUME ClearInv, [ClearSteps]_ncaVars PROVE ClearInv'
  OBVIOUS
<1>1. CASE CloseBodyClear
  BY <1>1, CloseBodyKeepsClear
<1>2. CASE CloseHeader
  BY <1>2, CloseHeaderKeepsClear
<1>3. CASE FlushFullClear
  <2> DEFINE filled == contentBuffer \o SubSeq(out, 1, Room)
  <2>1. CASE Flush(filled) /\ out' = SubSeq(out, Room + 1, Len(out)) /\ UNCHANGED callVars
    <3>1. NcaIInv'
      BY <1>3, <2>1, FlushFullInv DEF ClearInv, FlushFullClear, FlushFull
    <3>2. ~threw'
      BY <1>3, <2>1 DEF FlushFullClear, callVars, ClearInv, NcaIInv, Control, Running
    <3> QED
      BY <3>1, <3>2, ClearAfterUnlessThrown
  <2>2. CASE FlushThrowsClear(filled)
    BY <1>3, <2>2, FullThrowsClear DEF FlushFullClear
  <2> QED
    BY <1>3, <2>1, <2>2 DEF FlushFullClear
<1>4. CASE OtherSteps /\ ~CloseHeader
  <2>1. NcaIInv'
    BY <1>4, StepNcaIInv DEF ClearInv, OtherSteps, NcaSteps
  <2>2. CASE FlushHeader
    <3>1. CASE StoreHeader(HeaderSize) /\ UNCHANGED callVars
      <4>1. ~threw'
        BY <2>2, <3>1 DEF FlushHeader, Gathered, callVars, ClearInv, NcaIInv, Control, Running
      <4> QED
        BY <2>1, <4>1, ClearAfterUnlessThrown
    <3>2. CASE HeaderThrows
      BY <2>1, <2>2, <3>2, QuietClear DEF FlushHeader, HeaderThrows, streamVars, bodyVars
    <3> QED
      BY <2>2, <3>1, <3>2 DEF FlushHeader
  <2>3. CASE FillBuffer
    <3>1. ~threw'
      BY <2>3 DEF FillBuffer, callVars, ClearInv, NcaIInv, Control, Running
    <3> QED
      BY <2>1, <3>1, ClearAfterUnlessThrown
  <2>4. CASE WriteChunk \/ SourceThrows \/ LoopEnds \/ WriteReturns \/ DecoderThrows \/ DropBuffer
    <3>1. UNCHANGED <<package, contentBuffer, contentOffset, stored>>
      BY <2>4 DEF WriteChunk, SourceThrows, LoopEnds, WriteReturns, DecoderThrows, Refuse, DropBuffer,
                  streamVars, bodyVars, storeVars
    <3> QED
      BY <2>1, <3>1, QuietClear
  <2>5. CASE SelectBody \/ ReadTable \/ SelectFormat \/ ReadBlockHeader \/ ReadBlockSizes \/ SkipRest
    <3>1. UNCHANGED <<package, contentBuffer, contentOffset, stored>>
      BY <2>5 DEF SelectBody, ReadTable, SelectFormat, ReadBlockHeader, ReadBlockSizes, SkipRest,
                  Enter, Refuse, streamVars, bodyVars, storeVars
    <3> QED
      BY <2>1, <3>1, QuietClear
  <2>6. CASE CopyBody \/ UnpackBody \/ WriteBlock
    <3>1. UNCHANGED <<package, contentBuffer, contentOffset, stored>>
      BY <2>6 DEF CopyBody, UnpackBody, WriteBlock, streamVars, storeVars
    <3> QED
      BY <2>1, <3>1, QuietClear
  <2> QED
    BY <1>4, <2>2, <2>3, <2>4, <2>5, <2>6, Zenon DEF OtherSteps
<1>5. CASE UNCHANGED ncaVars
  <2>1. NcaIInv'
    BY <1>5, StepNcaIInv DEF ClearInv
  <2> QED
    BY <1>5, <2>1, QuietClear DEF ncaVars, streamVars, bodyVars, storeVars
<1> QED
  BY <1>1, <1>2, <1>3, <1>4, <1>5 DEF ClearSteps, OtherSteps

\* "Apply section-based encryption" to a copy, and no byte of an encrypted
\* section is ever stored in the clear, whichever writes fail, however often
\* close() is called after them, and for every package and buffer size.
THEOREM ClearBufferKeepsSeals == ClearSpec => []StoredEncrypted
<1>1. NcaInit => ClearInv
  BY NcaInitInv, ClearUnlessThrown DEF NcaInit
<1>2. ClearSpec => []ClearInv
  BY <1>1, StepClear, PTL DEF ClearSpec
<1>3. ClearInv => StoredEncrypted
  BY DEF ClearInv, StoredSame, StoredEncrypted
<1> QED
  BY <1>2, <1>3, PTL
=============================================================================
