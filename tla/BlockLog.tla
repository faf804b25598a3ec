------------------------------ MODULE BlockLog ------------------------------
(***************************************************************************)
(* delta::chain::block_log: the file of irreversible blocks and the index  *)
(* file with the position of each.                                         *)
(*                                                                         *)
(* A block record ends with its own position, so that the last block can   *)
(* be found from the end of the file; position k is after k records.  Each *)
(* file goes through a stream that is open for writing or for reading;     *)
(* closing it to switch writes its buffer out.  A crash keeps what is on   *)
(* disk and any number of whole records of each buffer, separately for the *)
(* two files: the files then disagree, and open has to mend the index.     *)
(***************************************************************************)
EXTENDS Integers, Sequences

CONSTANT MaxBlocks   \* bound: blocks ever in the log

ASSUME BlockLogAssumption == MaxBlocks \in Nat

VARIABLES
    blocks,       \* the block file: [num, pos] of each record
    block_disk,   \* records of it that are on disk
    block_write,  \* its stream is open for writing
    index,        \* the index file: the positions
    index_disk,
    index_write,
    head,         \* number of the head block, 0 if there is none
    is_open

vars == <<blocks, block_disk, block_write, index, index_disk, index_write, head, is_open>>

Record == [num : 1 .. MaxBlocks, pos : 0 .. MaxBlocks - 1]

LastPos(file) == file[Len(file)].pos

\* read_block: the record at position pos.
RecordAt(pos) == blocks[pos + 1]

Init ==
    /\ blocks = <<>> /\ block_disk = 0 /\ block_write = FALSE
    /\ index = <<>> /\ index_disk = 0 /\ index_write = FALSE
    /\ head = 0
    /\ is_open = FALSE

-----------------------------------------------------------------------------
(* Opening.                                                                *)

\* construct_index copies positions until it has copied the last record's;
\* it tests before the first copy, and the first position is 0.
Reconstructed(file) ==
    IF 0 < LastPos(file) THEN [i \in 1 .. Len(file) |-> file[i].pos] ELSE <<>>

\* The last positions of the two files are the same.
SameHeads == index # <<>> /\ blocks # <<>> /\ index[Len(index)] = LastPos(blocks)

\* Slip: an index that is behind the log is taken as it is.
Mended_OnlyAhead ==
    IF blocks = <<>> THEN <<>>
    ELSE IF index = <<>> \/ index[Len(index)] > LastPos(blocks) THEN Reconstructed(blocks)
    ELSE index

\* The index that open leaves: none for a new log, the one it found if the
\* heads agree, else a new one.
Mended ==
    IF blocks = <<>> THEN <<>> ELSE IF SameHeads THEN index ELSE Reconstructed(blocks)

\* Slip: the block file is opened without the append flag.
Open_Truncates ==
    /\ ~is_open
    /\ is_open' = TRUE
    /\ blocks' = <<>> /\ block_disk' = 0 /\ block_write' = TRUE
    /\ index' = <<>> /\ index_disk' = 0 /\ index_write' = TRUE
    /\ head' = 0

\* The streams are left open for writing, except where open had to read last.
Open ==
    /\ ~is_open
    /\ is_open' = TRUE
    /\ index' = Mended
    /\ index_disk' = IF Mended = index THEN index_disk ELSE 0
    /\ block_write' = (blocks = <<>>)
    /\ index_write' = ~SameHeads
    /\ head' = IF blocks = <<>> THEN 0 ELSE RecordAt(LastPos(blocks)).num
    /\ UNCHANGED <<blocks, block_disk>>

-----------------------------------------------------------------------------
(* Use.                                                                    *)

\* The database appends the block after the head.
NextNum == head + 1

\* The position of the index stream tells whether the block is the next one.
IndexInPlace == Len(index) = NextNum - 1

AppendBlock ==
    /\ is_open
    /\ NextNum <= MaxBlocks
    /\ IndexInPlace
    /\ blocks' = Append(blocks, [num |-> NextNum, pos |-> Len(blocks)])
    /\ index' = Append(index, Len(blocks))
    /\ block_write' = TRUE
    /\ index_write' = TRUE
    /\ head' = NextNum
    /\ UNCHANGED <<block_disk, index_disk, is_open>>

\* "Append to index file occuring at wrong position."
AppendFails ==
    /\ is_open
    /\ ~IndexInPlace
    /\ block_write' = TRUE
    /\ index_write' = TRUE
    /\ UNCHANGED <<blocks, block_disk, index, index_disk, head, is_open>>

\* A stream that is open for reading has no buffer to write out.
Flush ==
    /\ is_open
    /\ block_disk' = IF block_write THEN Len(blocks) ELSE block_disk
    /\ index_disk' = IF index_write THEN Len(index) ELSE index_disk
    /\ UNCHANGED <<blocks, block_write, index, index_write, head, is_open>>

\* Slip: the stream is marked as reading without being closed first.
ReadBlockByNum_WithoutClose(n) ==
    /\ is_open
    /\ index_write' = FALSE
    /\ block_write' = (block_write /\ n \notin 1 .. head)
    /\ UNCHANGED <<blocks, block_disk, index, index_disk, head, is_open>>

\* read_block_by_num: the index is switched to reading first, the block file
\* only when the number is in range.
ReadBlockByNum(n) ==
    /\ is_open
    /\ index_write' = FALSE
    /\ index_disk' = Len(index)
    /\ IF n \in 1 .. head
       THEN block_write' = FALSE /\ block_disk' = Len(blocks)
       ELSE UNCHANGED <<block_write, block_disk>>
    /\ UNCHANGED <<blocks, index, head, is_open>>

\* close(), or the destructor: both streams are closed.
Close ==
    /\ is_open
    /\ is_open' = FALSE
    /\ block_disk' = Len(blocks)
    /\ index_disk' = Len(index)
    /\ block_write' = FALSE
    /\ index_write' = FALSE
    /\ head' = 0
    /\ UNCHANGED <<blocks, index>>

\* What a crash leaves of a file.
Cut(file, disk) == {SubSeq(file, 1, n) : n \in disk .. Len(file)}

Crash ==
    /\ is_open
    /\ is_open' = FALSE
    /\ blocks' \in Cut(blocks, block_disk)
    /\ index' \in Cut(index, index_disk)
    /\ block_disk' = Len(blocks')
    /\ index_disk' = Len(index')
    /\ block_write' = FALSE
    /\ index_write' = FALSE
    /\ head' = 0

Next ==
    \/ Open
    \/ AppendBlock
    \/ AppendFails
    \/ Flush
    \/ \E n \in 0 .. MaxBlocks : ReadBlockByNum(n)
    \/ Close
    \/ Crash

Spec == Init /\ [][Next]_vars

-----------------------------------------------------------------------------
\* read_block_by_num(n) finds block n.
Finds(n) == n <= Len(index) /\ RecordAt(index[n]).num = n

\* Whatever parts of the two files a crash kept, the log that open mends has
\* the last block as its head, every block can be found by its number, and
\* the next block can be appended.  A log of one block is left out:
\* Reconstructed leaves its index empty.
IndexComplete ==
    is_open /\ head # 1 =>
       /\ head = Len(blocks)
       /\ \A n \in 1 .. head : Finds(n)
       /\ IndexInPlace

\* After flush() both files are on disk to the last record, also when a
\* reader has switched a stream to reading in between: the database commits
\* its state right after it.
FlushReachesDisk ==
    [][Flush => block_disk' = Len(blocks) /\ index_disk' = Len(index)]_vars

Numbers == [i \in 1 .. Len(blocks) |-> blocks[i].num]

Store == INSTANCE LogStore WITH log <- Numbers, flushed <- block_disk

\* The two files together are a log that grows at the end and keeps what was
\* flushed through crashes, reads and reopenings: what ChainDatabase assumes.
ImplementsLogStore == Store!Spec
=============================================================================
