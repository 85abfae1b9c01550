----------------------------- MODULE MCNcaWriter -----------------------------
(* TLC instances of NcaWriter: an NCA and NCZs of every format, with a     *)
(* block that was not worth compressing and a last block shorter than the  *)
(* others; and packages each of which is refused at another place.         *)
EXTENDS NcaWriter

Nca ==
  [length |-> 7, valid |-> TRUE, ncz |-> FALSE, table |-> 0, tableOk |-> TRUE, sections |-> <<>>,
   format |-> "copy", intact |-> TRUE, blockOk |-> TRUE, usesZstd |-> TRUE,
   blockSize |-> 4, decompressedSize |-> 0, blocks |-> <<>>, packed |-> <<>>]

\* Offsets 4 and 5 are encrypted, 6 is in a plain section, 8 is encrypted.
Ncz ==
  [Nca EXCEPT !.ncz = TRUE, !.length = 10, !.table = 3,
    !.sections = << [start |-> 4, size |-> 2, ctr |-> TRUE],
                    [start |-> 6, size |-> 1, ctr |-> FALSE],
                    [start |-> 8, size |-> 9, ctr |-> TRUE] >>]

Solid == [Ncz EXCEPT !.format = "unpack"]

\* 3 + 3 + 3 + 3 bytes, then blocks of 2 (packed), 4 (raw) and 2 (raw).
Blocks ==
  [Ncz EXCEPT !.format = "blockHeader", !.length = 20,
    !.blocks = <<2, 4, 2>>, !.packed = <<TRUE, FALSE, FALSE>>, !.decompressedSize = 10]

SomePackages ==
  { Nca, [Nca EXCEPT !.length = 1], [Nca EXCEPT !.length = 2], [Nca EXCEPT !.length = 4],
    [Nca EXCEPT !.valid = FALSE],
    Ncz, [Ncz EXCEPT !.tableOk = FALSE], Solid, [Solid EXCEPT !.intact = FALSE],
    Blocks, [Blocks EXCEPT !.length = 21], [Blocks EXCEPT !.blockOk = FALSE],
    [Blocks EXCEPT !.usesZstd = FALSE, !.blocks = <<4, 4, 2>>, !.packed = <<FALSE, FALSE, FALSE>>,
                   !.length = 22],
    [Blocks EXCEPT !.intact = FALSE] }
==============================================================================
