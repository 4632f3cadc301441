------------------------------ MODULE Recorder ------------------------------
(***************************************************************************)
(* The circular message recorder of src/src/recorder.erl.  The m-th message*)
(* it is sent is the number m; a file is the sequence of the messages that *)
(* were written to it.                                                     *)
(*                                                                         *)
(* Files are opened with delayed_write: what is written reaches the disk   *)
(* later, or when another operation is called on the file.  The recorder   *)
(* asks for the position of the data file before each write, so only the   *)
(* last packet is ever late; index entries may be late by more.            *)
(*                                                                         *)
(* Sizes are in words of four bytes, the size of an index entry.           *)
(***************************************************************************)
EXTENDS Integers, Sequences, FiniteSetsExt, Functions

CONSTANTS
    Usage,      \* how the disk is limited: "nb_bytes" or "nb_chunks" ...
    Limit,      \* ... and the limit
    ChunkSize,  \* chunk_size
    Sizes,      \* the sizes of packets
    MaxMsgs,    \* bound: messages recorded
    MaxFiles    \* bound: files created

ASSUME RecorderAssumption ==
    /\ Usage \in {"nb_bytes", "nb_chunks"}
    /\ Limit \in Nat \ {0} /\ ChunkSize \in Nat \ {0}
    /\ Sizes \subseteq Nat \ {0}
    /\ Usage = "nb_bytes" => Limit >= 2 * ChunkSize   \* a chunk and its index fit

VARIABLES
    recorded,  \* the sizes of all packets so far, by message
    file,      \* every file there has ever been, in order of creation
    dir        \* the directory: the file of each chunk number

rvars == <<recorded, file, dir>>

(* A file: its messages, how many of them are on disk, and how many index  *)
(* entries are.                                                            *)
NewFile == [data |-> <<>>, onDisk |-> 0, index |-> 0]

Start == recorded = <<>> /\ file = <<NewFile>> /\ dir = [k \in {0} |-> 1]

-----------------------------------------------------------------------------
Newest == Max(DOMAIN dir)
Current == dir[Newest]      \* the file that is written to

(* What the first n messages of f take; and f in the files fs, on disk.    *)
Written(f, n) == SumFunction([i \in 1 .. n |-> recorded[file[f].data[i]]])
DiskSize(fs, f) == Written(f, fs[f].onDisk) + fs[f].index

(* total_size/1 of the chunks S.                                           *)
TotalSize(fs, S) == SumFunction([k \in S |-> DiskSize(fs, dir[k])])

PrunedNewest(fs) ==   \* faulty: the newest chunk is deleted first
    {k \in DOMAIN dir : TotalSize(fs, {j \in DOMAIN dir : j <= k}) <= Limit}

(* The chunks that handle(newfile,_) leaves: with nb_bytes the oldest is   *)
(* deleted until the rest fits, with nb_chunks all but the first NbChunks  *)
(* of the sorted list are.                                                 *)
Pruned(fs) ==
    IF Usage = "nb_bytes"
      THEN {k \in DOMAIN dir : TotalSize(fs, {j \in DOMAIN dir : j >= k}) <= Limit}
      ELSE {k \in DOMAIN dir : Cardinality({j \in DOMAIN dir : j < k}) < Limit}

(* handle(newfile,_) with the files fs: the next chunk, holding ms.  Index *)
(* and data of each chunk are deleted, and the new files made, in one      *)
(* step.  That is a simplification: no reader comes and no crash happens   *)
(* between them.                                                           *)
NewChunk(fs, ms) ==
    LET old == Pruned(fs)
        new == IF old = {} THEN 0 ELSE Max(old) + 1
    IN  /\ Len(file) < MaxFiles
        /\ file' = Append(fs, [NewFile EXCEPT !.data = ms])
        /\ dir' = [k \in old \cup {new} |-> IF k = new THEN Len(file) + 1 ELSE dir[k]]

(* A message that fits.  The call of position/2 brings those before it to  *)
(* disk.                                                                   *)
FitsBefore(size) == Written(Current, Len(file[Current].data)) <= ChunkSize   \* faulty: without it

Fits(size) == Written(Current, Len(file[Current].data)) + size <= ChunkSize

WriteHere(size) ==
    /\ Fits(size)
    /\ file' = [file EXCEPT ![Current] =
                   [data |-> Append(@.data, Len(recorded) + 1), onDisk |-> Len(@.data), index |-> @.index]]
    /\ UNCHANGED dir

(* One that does not closes the chunk, with all that is late, and begins   *)
(* another.                                                                *)
Flushed(f) == [file EXCEPT ![f] = [data |-> @.data, onDisk |-> Len(@.data), index |-> Len(@.data)]]

WriteNext(size) ==
    /\ ~Fits(size)
    /\ NewChunk(Flushed(Current), <<Len(recorded) + 1>>)

Write ==
    /\ Len(recorded) < MaxMsgs
    /\ \E size \in Sizes : /\ WriteHere(size) \/ WriteNext(size)
                           /\ recorded' = Append(recorded, size)

(* What is late reaches the disk, the data and the index each at its time. *)
FlushData ==
    /\ file[Current].onDisk < Len(file[Current].data)
    /\ file' = [file EXCEPT ![Current].onDisk = Len(file[Current].data)]
    /\ UNCHANGED <<recorded, dir>>

FlushIndex ==
    /\ file[Current].index < Len(file[Current].data)
    /\ file' = [file EXCEPT ![Current].index = Len(file[Current].data)]
    /\ UNCHANGED <<recorded, dir>>

(* The node is killed, which loses what is late, and the recorder starts   *)
(* again: always in a new file.                                            *)
CrashAndRestart ==
    /\ NewChunk([file EXCEPT ![Current].data = SubSeq(@, 1, file[Current].onDisk)], <<>>)
    /\ UNCHANGED recorded

Record == Write \/ FlushData \/ FlushIndex \/ CrashAndRestart

RecorderSpec == Start /\ [][Record]_rvars

-----------------------------------------------------------------------------
Messages(F) == UNION {Range(file[f].data) : f \in F}
Kept == Messages(Range(dir))
Lost == (1 .. Len(recorded)) \ Messages(DOMAIN file)   \* in crashes

(* What is kept is the newest part of what was recorded, but for what was  *)
(* lost in a crash, and in the order of the chunks' numbers, also after    *)
(* restarts: "circular buffer at file chunk level" (recorder.erl:13).      *)
NewestKept ==
    /\ \A m \in Kept : (m .. Len(recorded)) \subseteq Kept \cup Lost
    /\ \A j, k \in DOMAIN dir : j < k =>
          \A m \in Range(file[dir[j]].data), n \in Range(file[dir[k]].data) : m < n

(* Without the chunk that is being written the limit is kept, and no chunk *)
(* grows beyond its size, unless by a single message.                      *)
WithinLimits ==
    /\ Usage = "nb_bytes" => TotalSize(file, DOMAIN dir \ {Newest}) <= Limit
    /\ \A k \in DOMAIN dir : LET f == dir[k] IN
          Written(f, file[f].onDisk) <= ChunkSize \/ Len(file[f].data) = 1
=============================================================================
