----------------------------- MODULE SparseFile -----------------------------
(***************************************************************************)
(* libsparse: a program queues pieces with sparse_file_add_data and its    *)
(* like, writes them (sparse_file_write) as a plain image or in the        *)
(* Android sparse format, and the file may be read back                    *)
(* (sparse_file_read).  One write of the output, any of them, may fail.    *)
(***************************************************************************)
EXTENDS BackedBlocks

CONSTANTS
  Pieces,       \* what the program may queue
  MaxPieces,    \* bound: pieces it queues
  ImageBlocks   \* s->len in blocks; make_ext4fs rounds it to blocks

ASSUME PiecesAssumption ==
  /\ ImageBlocks \in Nat /\ MaxPieces \in Nat
  /\ BlockSize > 1                        \* the cells of a block differ by offset
  /\ \A p \in Pieces :
       /\ IsPiece(p) /\ EndOf(p) <= ImageBlocks
       /\ p.src \notin {"hole", "image"}            \* names the model uses itself
       /\ p.type = "fill" => p.len % BlockSize = 0   \* a short fill is not padded

VARIABLES
  bbl, last_used,          \* the list of the image
  added,                   \* bound: pieces queued
  want,                    \* history: the cells the program asked for
  pc,                      \* where the program is
  format,                  \* the arguments sparse and crc of sparse_file_write
  header,                  \* total_chunks and total_blks in the sparse header
  chunks,                  \* the chunks of a sparse file
  plain, pos,              \* the cells of a plain file, and its offset
  at, last_block,          \* write_all_blocks: next piece, end of the last
  crc32,                   \* the cells the checksum was fed
  broken,                  \* a write failed
  ret,                     \* what sparse_file_write returns
  rlist, rlast,            \* the list sparse_file_read builds
  rpos, cur_block, rcrc,   \* next chunk or block, block it starts at, checksum
  checked                  \* the argument crc of sparse_file_read

queueVars == <<bbl, last_used, added, want>>
outVars == <<format, header, chunks, plain, pos, at, last_block, crc32, broken, ret>>
readVars == <<rlist, rlast, rpos, cur_block, rcrc, checked>>
sparseVars == <<queueVars, pc, outVars, readVars>>

Units == 0 .. ImageBlocks * BlockSize - 1
Hole == <<"hole", 0>>

SparseInit ==
  /\ bbl = <<>> /\ last_used = Unset /\ added = 0
  /\ want = [u \in Units |-> Hole]
  /\ pc = "queue"
  /\ format = [sparse |-> FALSE, crc |-> FALSE] /\ header = [chunks |-> 0, blks |-> 0]
  /\ chunks = <<>> /\ plain = want /\ pos = 0
  /\ at = 1 /\ last_block = 0 /\ crc32 = <<>> /\ broken = FALSE /\ ret = 0
  /\ rlist = <<>> /\ rlast = Unset /\ rpos = 1 /\ cur_block = 0 /\ rcrc = <<>>
  /\ checked = FALSE

-----------------------------------------------------------------------------
(* The program queues pieces.                                              *)

UnitsOf(p) == p.block * BlockSize .. EndOf(p) * BlockSize - 1
Cells(p) == [u \in 1 .. BlocksIn(p.len) * BlockSize |-> CellOf(p, u - 1)]

\* "The region must not already be used in the sparse file" (sparse.h).
Queue(p) ==
  /\ pc = "queue" /\ added < MaxPieces
  /\ \A u \in UnitsOf(p) : want[u] = Hole
  /\ ~(ReadsLastUsed(bbl, p) /\ last_used = Freed)
  /\ LET q == Queued(bbl, last_used, p) IN bbl' = q.list /\ last_used' = q.last
  /\ want' = [u \in Units |-> IF u \in UnitsOf(p) THEN Cells(p)[u - p.block * BlockSize + 1] ELSE want[u]]
  /\ added' = added + 1
  /\ UNCHANGED <<pc, outVars, readVars>>

\* The freed piece at last_used is read.  If its memory holds a block number
\* above the new one the search starts at the head, as if it had not been.
QueueAfterFree(p) ==
  /\ pc = "queue" /\ added < MaxPieces
  /\ \A u \in UnitsOf(p) : want[u] = Hole
  /\ ReadsLastUsed(bbl, p) /\ last_used = Freed
  /\ \/ pc' = "undefined" /\ UNCHANGED queueVars
     \/ /\ LET q == Queued(bbl, Unset, p) IN bbl' = q.list /\ last_used' = q.last
        /\ want' = [u \in Units |-> IF u \in UnitsOf(p) THEN Cells(p)[u - p.block * BlockSize + 1] ELSE want[u]]
        /\ added' = added + 1 /\ UNCHANGED pc
  /\ UNCHANGED <<outVars, readVars>>

-----------------------------------------------------------------------------
(* sparse_file_write.  A chunk whose write failed is left out whole; no    *)
(* property looks at what a broken file holds.                             *)

\* Mutant: a gap in front of the first piece is not counted.
GapBeforeInside(k) == k > 1 /\ bbl[k].block > EndOf(bbl[k - 1])
GapBefore(k) == bbl[k].block > IF k = 1 THEN 0 ELSE EndOf(bbl[k - 1])
Last == IF bbl = <<>> THEN 0 ELSE EndOf(bbl[Len(bbl)])

\* sparse_count_chunks, whose sum is a count of gaps.
CountChunks ==
  LET to[k \in 0 .. Len(bbl)] ==
        IF k = 0 THEN 0 ELSE to[k - 1] + IF GapBefore(k) THEN 2 ELSE 1
  IN  to[Len(bbl)] + IF Last < ImageBlocks THEN 1 ELSE 0

\* A checksum is only for the sparse format: with a plain file the argument
\* crc changes nothing.  A file without its header is one no reader accepts.
OpenOutput ==
  /\ pc = "queue"
  /\ format' \in [sparse : BOOLEAN, crc : BOOLEAN] /\ (format'.crc => format'.sparse)
  /\ header' = [chunks |-> CountChunks + IF format'.crc THEN 1 ELSE 0, blks |-> ImageBlocks]
  /\ \/ pc' = "write" /\ UNCHANGED <<broken, ret>>
     \/ format'.sparse /\ broken' = TRUE /\ ret' = -1 /\ pc' = "refused"
  /\ UNCHANGED <<queueVars, chunks, plain, pos, at, last_block, crc32, readVars>>

\* Mutant: the padding of a short piece moves the offset of a plain file by
\* the length of the piece and no more.
PutPlainShort(cells, len) ==
  /\ plain' = [u \in Units |-> IF u \in pos .. pos + len - 1 THEN cells[u - pos + 1] ELSE plain[u]]
  /\ pos' = pos + len
\* write_normal_data_chunk and write_normal_fill_chunk: the padding is
\* skipped, not written.
PutPlain(cells, len) ==
  /\ plain' = [u \in Units |-> IF u \in pos .. pos + len - 1 THEN cells[u - pos + 1] ELSE plain[u]]
  /\ pos' = pos + Len(cells)

\* The checksum of a fill covers one block, that of a gap nothing.
Checksum(p) == IF p.type = "fill" THEN SubSeq(Cells(p), 1, BlockSize) ELSE Cells(p)

ChunkOf(p) ==
  [type |-> IF p.type = "fill" THEN "fill" ELSE "raw", sz |-> BlocksIn(p.len),
   cells |-> IF p.type = "fill" THEN <<<<p.src, 0>>>> ELSE Cells(p)]
SkipOf(blocks) == [type |-> "skip", sz |-> blocks, cells |-> <<>>]

\* A don't care chunk, or a seek.
PutSkip(blocks) ==
  IF format.sparse THEN chunks' = Append(chunks, SkipOf(blocks)) /\ UNCHANGED <<plain, pos>>
  ELSE pos' = pos + blocks * BlockSize /\ UNCHANGED <<plain, chunks>>

\* One write of the output fails, at most.
Fails == ~broken /\ broken' = TRUE /\ UNCHANGED <<chunks, plain, pos, crc32>>

\* write_all_blocks: the block behind a piece it wrote.
Behind(p) == p.block + BlocksIn(p.len)

\* The result of write_skip_chunk is not looked at.
WriteSkip ==
  /\ pc = "write" /\ at <= Len(bbl) /\ bbl[at].block > last_block
  /\ last_block' = bbl[at].block
  /\ \/ Fails
     \/ PutSkip(bbl[at].block - last_block) /\ UNCHANGED <<crc32, broken>>
  /\ UNCHANGED <<queueVars, pc, format, header, at, ret, readVars>>

WriteBlock ==
  /\ pc = "write" /\ at <= Len(bbl) /\ bbl[at].block = last_block
  /\ \/ Fails /\ ret' = -1 /\ pc' = "close" /\ UNCHANGED <<at, last_block>>
     \/ /\ IF format.sparse
           THEN chunks' = Append(chunks, ChunkOf(bbl[at])) /\ UNCHANGED <<plain, pos>>
           ELSE PutPlain(Cells(bbl[at]), bbl[at].len) /\ UNCHANGED chunks
        /\ crc32' = crc32 \o Checksum(bbl[at])
        /\ last_block' = Behind(bbl[at]) /\ at' = at + 1
        /\ UNCHANGED <<broken, ret, pc>>
  /\ UNCHANGED <<queueVars, format, header, readVars>>

WriteEndSkip ==
  /\ pc = "write" /\ at > Len(bbl) /\ pc' = "close"
  /\ IF last_block = ImageBlocks THEN UNCHANGED <<chunks, plain, pos, crc32, broken>>
     ELSE \/ Fails
          \/ PutSkip(ImageBlocks - last_block) /\ UNCHANGED <<crc32, broken>>
  /\ UNCHANGED <<queueVars, format, header, at, last_block, ret, readVars>>

\* output_file_close: the checksum, or the size of a plain file.  Its result
\* is not looked at either.
CloseOutput ==
  /\ pc = "close" /\ pc' = "closed"
  /\ \/ Fails
     \/ /\ chunks' = IF format.sparse /\ format.crc
                     THEN Append(chunks, [type |-> "crc", sz |-> 0, cells |-> crc32]) ELSE chunks
        /\ UNCHANGED <<plain, pos, crc32, broken>>
  /\ UNCHANGED <<queueVars, format, header, at, last_block, ret, readVars>>

-----------------------------------------------------------------------------
(* sparse_file_read on the file that was written.                          *)

\* The units of a sparse file: a header and a body for every chunk.
StreamOf(cs) ==
  LET to[k \in 0 .. Len(cs)] ==
        IF k = 0 THEN <<>> ELSE to[k - 1] \o <<<<"header", 0>>>> \o cs[k].cells
  IN  to
Stream == StreamOf(chunks)
\* Mutant: the offset is taken before the chunk header is read.
BodyOffsetBefore(k) == Len(Stream[k - 1])
BodyOffset(k) == Len(Stream[k - 1]) + 1
FileCell(o) == IF format.sparse THEN Stream[Len(chunks)][o + 1] ELSE plain[o]

StartRead ==
  /\ pc = "closed" /\ pc' = "read"
  /\ checked' \in BOOLEAN /\ (checked' => format.sparse)
  /\ UNCHANGED <<queueVars, outVars, rlist, rlast, rpos, cur_block, rcrc>>

\* sparse_file_add_fd and sparse_file_add_fill of the reader.
Keep(p) ==
  IF ReadsLastUsed(rlist, p) /\ rlast = Freed
  THEN \/ pc' = "undefined" /\ UNCHANGED <<rlist, rlast>>
       \/ LET q == Queued(rlist, Unset, p) IN rlist' = q.list /\ rlast' = q.last /\ pc' = "read"
  ELSE LET q == Queued(rlist, rlast, p) IN rlist' = q.list /\ rlast' = q.last /\ pc' = "read"

\* The cells a chunk stands for.
Expanded(c) ==
  [u \in 1 .. c.sz * BlockSize |->
     CASE c.type = "raw" -> c.cells[u] [] c.type = "fill" -> c.cells[1] [] c.type = "skip" -> Zero]

\* A raw chunk stays in the file, a fill becomes a fill, a gap a gap.
ReadChunk ==
  /\ pc = "read" /\ format.sparse /\ rpos <= header.chunks /\ rpos <= Len(chunks)
  /\ chunks[rpos].type # "crc"
  /\ LET c == chunks[rpos]  p == [block |-> cur_block, len |-> c.sz * BlockSize]
     IN  /\ IF c.type = "skip" THEN UNCHANGED <<rlist, rlast, pc>>
            ELSE Keep([type |-> IF c.type = "fill" THEN "fill" ELSE "fd", block |-> p.block, len |-> p.len,
                       src |-> IF c.type = "fill" THEN c.cells[1][1] ELSE "image",
                       off |-> IF c.type = "fill" THEN 0 ELSE BodyOffset(rpos)])
         /\ rcrc' = IF checked THEN rcrc \o Expanded(c) ELSE rcrc
         /\ cur_block' = cur_block + c.sz
  /\ rpos' = rpos + 1
  /\ UNCHANGED <<queueVars, outVars, checked>>

\* process_crc32_chunk is passed *crc_ptr, and crc_ptr is NULL unless the
\* caller asked for the check.
ReadChecksum ==
  /\ pc = "read" /\ format.sparse /\ rpos <= header.chunks /\ rpos <= Len(chunks)
  /\ chunks[rpos].type = "crc"
  /\ pc' = IF ~checked THEN "crashed" ELSE IF chunks[rpos].cells = rcrc THEN "read" ELSE "refused"
  /\ rpos' = rpos + 1
  /\ UNCHANGED <<queueVars, outVars, rlist, rlast, cur_block, rcrc, checked>>

\* A block of equal cells becomes a fill, any other stays in the file.
ReadPlainBlock ==
  /\ pc = "read" /\ ~format.sparse /\ cur_block < ImageBlocks
  /\ LET cell(i) == IF plain[cur_block * BlockSize + i] = Hole THEN Zero ELSE plain[cur_block * BlockSize + i]
         uniform == \A i \in 0 .. BlockSize - 1 : cell(i) = cell(0)
     IN  Keep([type |-> IF uniform THEN "fill" ELSE "fd", block |-> cur_block, len |-> BlockSize,
               src |-> IF uniform THEN cell(0)[1] ELSE "image",
               off |-> IF uniform THEN 0 ELSE cur_block * BlockSize])
  /\ cur_block' = cur_block + 1
  /\ UNCHANGED <<queueVars, outVars, rpos, rcrc, checked>>

\* Mutant: read_all tries again at the end of the file.
EndReadWaits ==
  /\ pc = "read"
  /\ IF format.sparse THEN rpos > header.chunks ELSE cur_block = ImageBlocks
  /\ pc' = IF format.sparse /\ cur_block # header.blks THEN "refused" ELSE "accepted"
  /\ UNCHANGED <<queueVars, outVars, readVars>>
\* The file is at its end, before or after total_chunks chunks.
EndRead ==
  /\ pc = "read"
  /\ IF format.sparse THEN rpos > header.chunks \/ rpos > Len(chunks) ELSE cur_block = ImageBlocks
  /\ pc' = IF format.sparse /\ (rpos <= header.chunks \/ cur_block # header.blks)
           THEN "refused" ELSE "accepted"
  /\ UNCHANGED <<queueVars, outVars, readVars>>

SparseEnded == pc \in {"accepted", "refused", "crashed", "undefined"}

SparseStep ==
  \/ OpenOutput \/ WriteSkip \/ WriteBlock \/ WriteEndSkip \/ CloseOutput
  \/ StartRead \/ ReadChunk \/ ReadChecksum \/ ReadPlainBlock \/ EndRead

SparseNext ==
  \/ \E p \in Pieces : Queue(p) \/ QueueAfterFree(p)
  \/ SparseStep
  \/ SparseEnded /\ UNCHANGED sparseVars

SparseSpec == SparseInit /\ [][SparseNext]_sparseVars
\* One thread: it goes on while it can.
FairSparseSpec == SparseSpec /\ WF_sparseVars(SparseStep)

-----------------------------------------------------------------------------
(* Properties.                                                             *)

CellInList(l, u) ==
  IF \E k \in DOMAIN l : u \in UnitsOf(l[k])
  THEN LET k == CHOOSE k \in DOMAIN l : u \in UnitsOf(l[k])
       IN  CellOf(l[k], u - l[k].block * BlockSize)
  ELSE Hole
\* What a reader of the image sees of a cell.
Seen(c) == IF c = Hole THEN Zero ELSE c
Resolved(c) == IF c[1] = "image" THEN Seen(FileCell(c[2])) ELSE Seen(c)
Sorted(l) == \A k \in 1 .. Len(l) - 1 : EndOf(l[k]) <= l[k + 1].block
Closed == pc \in {"closed", "read", "accepted", "refused", "crashed"}

\* Whatever order pieces are queued in, from the head or from last_used, the
\* list is sorted, no piece reaches into the next, and no insertion or merge
\* loses, moves or repeats a cell.
ListIsImage ==
  /\ Sorted(bbl) /\ Sorted(rlist)
  /\ \A u \in Units : CellInList(bbl, u) = want[u]

\* The counts written first agree with the chunks written after them.
HeaderDescribesChunks ==
  Closed /\ format.sparse /\ ~broken =>
    /\ header.chunks = Len(chunks)
    /\ LET sum[k \in 0 .. Len(chunks)] == IF k = 0 THEN 0 ELSE sum[k - 1] + chunks[k].sz
       IN  header.blks = sum[Len(chunks)]

\* Padding and gaps are seeks in a plain file, and every cell is where the
\* image has it.
PlainIsImage ==
  Closed /\ ~format.sparse /\ ~broken => \A u \in Units : Seen(plain[u]) = Seen(want[u])

\* The chunks the two sides sum differently.
SummedApart(c) == c.type = "skip" \/ (c.type = "fill" /\ c.sz > 1)

\* A file written without a failure is refused only when its checksum is
\* verified and a gap or a long fill is in it, and crashes its reader only
\* when its checksum is not; else reading either format gives the image back.
ReadBack ==
  /\ ~broken /\ pc = "refused" =>
       checked /\ \E k \in DOMAIN chunks : SummedApart(chunks[k])
  /\ ~broken /\ pc = "crashed" => format.crc /\ ~checked
  /\ ~broken /\ pc = "accepted" =>
       \A u \in Units : Resolved(CellInList(rlist, u)) = Seen(want[u])

\* Writing ends, whichever write fails, and so does reading the result.
SparseEnds == pc = "write" ~> SparseEnded

-----------------------------------------------------------------------------
(* What comments say and the code does not do.                             *)

\* sparse_file_write "Returns 0 on success, negative errno on error"
\* (sparse.h).
StatusTellsFailure == Closed /\ broken => ret # 0
=============================================================================
