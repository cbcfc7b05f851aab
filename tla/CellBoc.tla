------------------------------- MODULE CellBoc -------------------------------
(***************************************************************************)
(* The validation of a serialized cell tree before the cell library reads  *)
(* it: validate_single_root_boc of                                         *)
(* src/crates/ton-connect-core/src/cell_boc.rs.                            *)
(*                                                                         *)
(* The input is a sequence of bytes.  The validator reads the header, the  *)
(* index, one cell after the other and the checksum, and keeps for every   *)
(* cell the longest path that leads to it.  Hash and depth fields are      *)
(* shorter than in the code; the widths are constants.                     *)
(***************************************************************************)
EXTENDS Integers, Sequences, FiniteSets, FiniteSetsExt

CONSTANTS
  Inputs,               \* what is decoded from Base64
  Crc32c(_),            \* the four bytes of the checksum
  MAX_CELL_DEPTH,       \* 1024
  HASH_BYTES,           \* 32
  DEPTH_BYTES           \* 2

VARIABLES
  bytes,
  position,
  stage,                \* "header", "index", "cells", "checksum", or the verdict
  header,
  offsets,              \* the index, if there is one
  start,                \* where the cells begin
  heights,
  cells                 \* the cells read so far

vars == <<bytes, position, stage, header, offsets, start, heights, cells>>

GENERIC_BOC_MAGIC == <<181, 238, 156, 114>>

PRUNED_BRANCH == 1
LIBRARY == 2
MERKLE_PROOF == 3
MERKLE_UPDATE == 4

TYPE_BYTES == 1
PRUNED_BRANCH_HEADER_BYTES == TYPE_BYTES + 1
LIBRARY_BYTES == TYPE_BYTES + HASH_BYTES
MERKLE_PROOF_BYTES == TYPE_BYTES + HASH_BYTES + DEPTH_BYTES
MERKLE_UPDATE_BYTES == TYPE_BYTES + 2 * (HASH_BYTES + DEPTH_BYTES)

Bit(byte, n) == (byte \div (2 ^ n)) % 2 = 1

count_ones(mask) == Cardinality({n \in 0 .. 7 : Bit(mask, n)})

------------------------------------------------------------------------------
(* BocReader: n bytes at a position, if they are there *)

available(at, n) == at + n <= Len(bytes)

take(at, n) == SubSeq(bytes, at + 1, at + n)

\* Big-endian.
unsigned(at, n) ==
  FoldSet(LAMBDA i, sum : sum + bytes[at + i] * 256 ^ (n - i), 0, 1 .. n)

------------------------------------------------------------------------------
(* Exotic cells *)

pruned_branch_is_valid(level_mask, data) ==
  /\ Len(data) > TYPE_BYTES
  /\ LET mask == data[TYPE_BYTES + 1]
         first == PRUNED_BRANCH_HEADER_BYTES + count_ones(mask) * HASH_BYTES
     IN  /\ mask # 0 /\ mask = level_mask
         /\ Len(data) = first + count_ones(mask) * DEPTH_BYTES
         /\ \A k \in 0 .. count_ones(mask) - 1 :
              LET depth == FoldSet(LAMBDA i, sum :
                                     sum + data[first + k * DEPTH_BYTES + i] * 256 ^ (DEPTH_BYTES - i),
                                   0, 1 .. DEPTH_BYTES)
              IN  depth <= MAX_CELL_DEPTH

exotic_layout_is_valid(level_mask, bits_descriptor, data, references) ==
  /\ ~Bit(bits_descriptor, 0)
  /\ data # <<>>
  /\ \/ data[1] = PRUNED_BRANCH /\ references = 0 /\ pruned_branch_is_valid(level_mask, data)
     \/ data[1] = LIBRARY /\ references = 0 /\ Len(data) = LIBRARY_BYTES
     \/ data[1] = MERKLE_PROOF /\ references = 1 /\ Len(data) = MERKLE_PROOF_BYTES
     \/ data[1] = MERKLE_UPDATE /\ references = 2 /\ Len(data) = MERKLE_UPDATE_BYTES

------------------------------------------------------------------------------
(* The steps of validate_single_root_boc and validate_cells *)

NoHeader == [has_index |-> FALSE, has_crc32c |-> FALSE, reference_bytes |-> 0,
             offset_bytes |-> 0, cells |-> 0, cell_bytes |-> 0, root |-> 0]

Init ==
  /\ bytes \in Inputs
  /\ position = 0 /\ stage = "header" /\ header = NoHeader
  /\ offsets = <<>> /\ start = 0 /\ heights = <<>> /\ cells = <<>>

InvalidBoc ==
  /\ stage' = "InvalidBoc"
  /\ UNCHANGED <<bytes, position, header, offsets, start, heights, cells>>

Header ==
  LET r == bytes[5] % 8
      o == bytes[6]
  IN  [has_index |-> Bit(bytes[5], 7), has_crc32c |-> Bit(bytes[5], 6),
       reference_bytes |-> r, offset_bytes |-> o, cells |-> unsigned(6, r),
       roots |-> unsigned(6 + r, r), absent |-> unsigned(6 + 2 * r, r),
       cell_bytes |-> unsigned(6 + 3 * r, o), root |-> unsigned(6 + 3 * r + o, r)]

\* Mutant: as many cells as there is room for are one too many.
header_is_valid_strict ==
  /\ available(0, 6) /\ take(0, 4) = GENERIC_BOC_MAGIC
  /\ ~Bit(bytes[5], 3) /\ ~Bit(bytes[5], 4) /\ bytes[5] % 8 \in 1 .. 4
  /\ bytes[6] \in 1 .. 8
  /\ available(6, 4 * (bytes[5] % 8) + bytes[6])
  /\ Header.cells # 0 /\ Header.roots = 1 /\ Header.absent = 0
  /\ Header.cells < Header.cell_bytes \div 2
  /\ Header.root < Header.cells

\* Magic, flags, sizes and counters; the reader stops at the first missing byte.
header_is_valid ==
  /\ available(0, 6) /\ take(0, 4) = GENERIC_BOC_MAGIC
  /\ ~Bit(bytes[5], 3) /\ ~Bit(bytes[5], 4) /\ bytes[5] % 8 \in 1 .. 4
  /\ bytes[6] \in 1 .. 8
  /\ available(6, 4 * (bytes[5] % 8) + bytes[6])
  /\ Header.cells # 0 /\ Header.roots = 1 /\ Header.absent = 0
  /\ Header.cells <= Header.cell_bytes \div 2
  /\ Header.root < Header.cells

ReadHeader ==
  /\ stage = "header"
  /\ IF ~header_is_valid THEN InvalidBoc
     ELSE /\ header' = [f \in DOMAIN NoHeader |-> Header[f]]
          /\ position' = 6 + 4 * Header.reference_bytes + Header.offset_bytes
          /\ heights' = [i \in 1 .. Header.cells |-> 0]
          /\ stage' = "index"
          /\ UNCHANGED <<bytes, offsets, start, cells>>

Offset(i) == unsigned(position + (i - 1) * header.offset_bytes, header.offset_bytes)

\* The index is as long as the cells and ends with their size.
index_is_valid ==
  /\ available(position, header.cells * header.offset_bytes + header.cell_bytes)
  /\ \A i \in 1 .. header.cells :
       /\ Offset(i) > (IF i = 1 THEN 0 ELSE Offset(i - 1))
       /\ Offset(i) <= header.cell_bytes
  /\ Offset(header.cells) = header.cell_bytes

ReadIndex ==
  /\ stage = "index"
  /\ LET index_bytes == IF header.has_index THEN header.cells * header.offset_bytes ELSE 0
     IN  IF (header.has_index /\ ~index_is_valid)
            \/ ~available(position + index_bytes, header.cell_bytes)
         THEN InvalidBoc
         ELSE /\ offsets' = IF header.has_index
                            THEN [i \in 1 .. header.cells |-> Offset(i)] ELSE <<>>
              /\ position' = position + index_bytes
              /\ start' = position + index_bytes
              /\ stage' = "cells"
              /\ UNCHANGED <<bytes, header, heights, cells>>

\* A cell at the position: descriptors, stored hashes, data and references.
CellAt ==
  LET d == bytes[position + 1]
      b == bytes[position + 2]
      stored == IF Bit(d, 4) THEN (count_ones(d \div 32) + 1) * (HASH_BYTES + DEPTH_BYTES) ELSE 0
      data_bytes == (b \div 2) + (b % 2)
      after == position + 2 + stored + data_bytes
  IN  [descriptor |-> d, bits_descriptor |-> b, references |-> d % 8,
       data_at |-> position + 2 + stored, data_bytes |-> data_bytes, refs_at |-> after,
       end |-> after + (d % 8) * header.reference_bytes]

\* References point forward; the child of a cell is one deeper.
reference_is_valid(index, reference) == reference > index /\ reference < header.cells

Within(n) == n <= start + header.cell_bytes

depth_is_valid(height) == height + 1 <= MAX_CELL_DEPTH

ReadCell ==
  LET index == Len(cells)
      cell == CellAt
      data == take(cell.data_at, cell.data_bytes)
      Ref(k) == unsigned(cell.refs_at + (k - 1) * header.reference_bytes, header.reference_bytes)
      refs == [k \in 1 .. cell.references |-> Ref(k)]
      height == heights[index + 1]
      valid == /\ Within(position + 2)
               /\ cell.references <= 4
               /\ Within(cell.data_at) /\ Within(cell.refs_at)
               /\ Bit(cell.bits_descriptor, 0) => data # <<>> /\ data[Len(data)] # 0
               /\ Bit(cell.descriptor, 3) =>
                    exotic_layout_is_valid(cell.descriptor \div 32, cell.bits_descriptor, data,
                                           cell.references)
               /\ Within(cell.end)
               /\ \A k \in DOMAIN refs : reference_is_valid(index, refs[k]) /\ depth_is_valid(height)
               /\ offsets # <<>> => offsets[index + 1] = cell.end - start
  IN  /\ stage = "cells" /\ index < header.cells
      /\ IF ~valid THEN InvalidBoc
         ELSE /\ position' = cell.end
              /\ heights' = [i \in DOMAIN heights |->
                               IF \E k \in DOMAIN refs : refs[k] = i - 1
                               THEN Max({heights[i], height + 1}) ELSE heights[i]]
              /\ cells' = Append(cells, [refs |-> refs, data |-> data,
                                         exotic |-> Bit(cell.descriptor, 3)])
              /\ UNCHANGED <<bytes, stage, header, offsets, start>>

\* All cells were read: nothing of their bytes may be left.
EndCells ==
  /\ stage = "cells" /\ Len(cells) = header.cells
  /\ IF position # start + header.cell_bytes THEN InvalidBoc
     ELSE /\ stage' = "checksum"
          /\ UNCHANGED <<bytes, position, header, offsets, start, heights, cells>>

checksum_is_valid ==
  available(position, 4) /\ take(position, 4) = Crc32c(take(0, position))

ends_here(end) == end = Len(bytes)

ReadChecksum ==
  /\ stage = "checksum"
  /\ IF \/ header.has_crc32c /\ ~checksum_is_valid
        \/ ~ends_here(IF header.has_crc32c THEN position + 4 ELSE position)
     THEN InvalidBoc
     ELSE /\ stage' = "Ok"
          /\ UNCHANGED <<bytes, position, header, offsets, start, heights, cells>>

Next == ReadHeader \/ ReadIndex \/ ReadCell \/ EndCells \/ ReadChecksum

Spec == Init /\ [][Next]_vars

------------------------------------------------------------------------------
(* Properties *)

\* The depth of a cell from the cells below it.
DepthBelow ==
  LET depth[i \in 1 .. Len(cells)] ==
        IF cells[i].refs = <<>> THEN 0
        ELSE 1 + Max({depth[cells[i].refs[k] + 1] : k \in DOMAIN cells[i].refs})
  IN  depth

\* What the cell library takes for granted of an accepted input: every reference
\* names a later cell, so that the tree has no cycle, no cell is deeper than the
\* limit, and the counters of the header are backed by the input.
AcceptedIsSafe ==
  stage = "Ok" =>
    /\ Len(cells) = header.cells /\ header.root < header.cells /\ header.cells <= Len(bytes)
    /\ \A i \in DOMAIN cells : \A k \in DOMAIN cells[i].refs :
         cells[i].refs[k] >= i /\ cells[i].refs[k] < header.cells

\* The longest path to a cell, measured downwards in one pass, is the depth of the
\* tree measured upwards, and it is within the limit.
DepthIsExact ==
  stage = "Ok" =>
    LET depths == {DepthBelow[i] : i \in DOMAIN cells}
    IN  Max(depths) = Max({heights[i] : i \in DOMAIN heights}) /\ Max(depths) <= MAX_CELL_DEPTH

\* An accepted bag of cells is a tree within the limits (validate_single_root_boc).
AcceptedIsTree == AcceptedIsSafe /\ DepthIsExact
=============================================================================
