------------------------------- MODULE Player -------------------------------
(***************************************************************************)
(* The player of src/src/player.erl, which reads the chunks of a recorder  *)
(* (Recorder) while that goes on writing, restarting and deleting them.    *)
(*                                                                         *)
(* A reader calls it and waits for the answer.  A playback process, which  *)
(* start and stop control, calls it too, and the position is the same one. *)
(* A handler that calls itself with the next chunk, handle({Pid,next},_),  *)
(* is a step for each chunk, since the recorder can write in between.      *)
(*                                                                         *)
(* A file that is open can be read after it is deleted.  What is on disk   *)
(* is whole packets.                                                       *)
(***************************************************************************)
EXTENDS Recorder

CONSTANTS
    Refs,       \* the references, counted from the first message, that are asked for
    MaxCalls    \* bound: calls of the reader, and start and stop messages

ASSUME PlayerAssumption == Refs \subseteq Nat /\ MaxCalls \in Nat

Closed == 0     \* no file, no message, no process
None == 0

VARIABLES
    up,       \* "off", "up", or why it ended
    at,       \* its chunk, data and index files, and the messages before its position
    spans,    \* where the messages of each chunk are, as found when it started
    mbox,     \* its mailbox
    serving,  \* the request it has not answered yet
    waits,    \* whether the reader waits for an answer
    stream,   \* the {stream,_} entry: a process, or None
    playing,  \* the playback process: which one, what it does, and whether it was sent an exit
    answer,   \* the last answer
    calls

vars == <<rvars, up, at, spans, mbox, serving, waits, stream, playing, answer, calls>>

NoRequest == [op |-> "none"]
NoAnswer  == [op |-> "none", m |-> None]
NoProcess == [pid |-> None, st |-> "none", exit |-> FALSE]

Init ==
    /\ Start
    /\ up = "off" /\ at = [chunk |-> 0, data |-> Closed, index |-> Closed, pos |-> 0] /\ spans = <<>>
    /\ mbox = <<>> /\ serving = NoRequest /\ waits = FALSE
    /\ stream = None /\ playing = NoProcess
    /\ answer = NoAnswer /\ calls = 0

-----------------------------------------------------------------------------
(* spans/1: consecutive ranges, by what is in the index files on disk.     *)
(* .file is not in the code: it says which file had the number then.       *)
Sorted(S) ==
    CHOOSE s \in [1 .. Cardinality(S) -> S] : \A i, j \in DOMAIN s : i < j => s[i] < s[j]

Spans ==
    LET chunks == Sorted(DOMAIN dir)
        end(i) == SumFunction([j \in 1 .. i |-> file[dir[chunks[j]]].index])
    IN  [i \in DOMAIN chunks |->
           [chunk |-> chunks[i], from |-> end(i - 1), to |-> end(i), file |-> dir[chunks[i]]]]

WithinInclusive(n, from, to) == from <= n /\ n <= to   \* faulty

Within(n, from, to) == from <= n /\ n < to

(* tree/1 and lookup/2: the tree splits the spans a to b in halves, a fork *)
(* leads to one of them or to an error, and a leaf does not look at n.     *)
(* The place of a span, or 0.                                              *)
Lookup(n) ==
    LET in[r \in {p \in (DOMAIN spans) \X (DOMAIN spans) : p[1] <= p[2]}] ==
          LET a == r[1]
              b == r[2]
              mid == a + (b - a + 1) \div 2
          IN  IF a = b THEN a
              ELSE IF Within(n, spans[a].from, spans[mid].from) THEN in[<<a, mid - 1>>]
              ELSE IF Within(n, spans[mid].from, spans[b].to) THEN in[<<mid, b>>]
              ELSE 0
    IN  in[<<1, Len(spans)>>]

-----------------------------------------------------------------------------
(* {open,N}: the data file is closed before others are opened.  When that  *)
(* fails the state stays as it was, but for the file, which is closed.     *)
Opened(c) ==
    IF c \in DOMAIN dir THEN [chunk |-> c, data |-> dir[c], index |-> dir[c], pos |-> 0]
                        ELSE [at EXCEPT !.data = Closed, !.pos = 0]

(* The first chunk of the directory is opened and the spans are read, in   *)
(* one step.  That is a simplification: in the code the recorder may       *)
(* delete that chunk behind the player's back, and then the player starts  *)
(* without a file.                                                         *)
StartPlayer ==
    /\ up = "off" /\ up' = "up"
    /\ spans' = Spans /\ at' = Opened(Min(DOMAIN dir))
    /\ UNCHANGED <<rvars, mbox, serving, waits, stream, playing, answer, calls>>

(* The answer a to the request r; its caller may be gone.                  *)
Answer(r, a) ==
    /\ answer' = a
    /\ serving' = NoRequest
    /\ waits' = (waits /\ r.by # None)
    /\ playing' = IF r.by = playing.pid /\ playing.st = "waits" THEN [playing EXCEPT !.st = "plays"]
                                                              ELSE playing

Takes(op) == up = "up" /\ serving = NoRequest /\ mbox # <<>> /\ Head(mbox).op = op /\ mbox' = Tail(mbox)

TakeStep ==
    /\ Takes("next") \/ Takes("prev")
    /\ serving' = Head(mbox)
    /\ UNCHANGED <<rvars, up, at, spans, waits, stream, playing, answer, calls>>

(* {next}: the message at the position, or another try in the next chunk,  *)
(* for ever if there is none.  A ref returns to its own state in the end,  *)
(* where the data file may have been closed by then.                       *)
Readable == at.data # Closed /\ at.pos < file[at.data].onDisk

ReadNext ==
    /\ up = "up" /\ serving.op \in {"next", "ref"} /\ Readable
    /\ LET m == file[at.data].data[at.pos + 1]
       IN  Answer(serving, IF serving.op = "ref"
                             THEN [op |-> "ref", n |-> serving.n, late |-> serving.late, m |-> m]
                             ELSE [op |-> "next", m |-> m])
    /\ at' = IF serving.op = "ref" /\ serving.home.chunk # at.chunk
               THEN [serving.home EXCEPT !.data = Closed, !.pos = 0]
               ELSE [at EXCEPT !.pos = @ + 1]
    /\ UNCHANGED <<rvars, up, spans, mbox, stream, calls>>

OpenSame ==   \* faulty: tries the same chunk again
    /\ up = "up" /\ serving.op \in {"next", "ref"} /\ ~Readable
    /\ at' = Opened(at.chunk)
    /\ UNCHANGED <<rvars, up, spans, mbox, serving, waits, stream, playing, answer, calls>>

OpenNext ==
    /\ up = "up" /\ serving.op \in {"next", "ref"} /\ ~Readable
    /\ at' = Opened(at.chunk + 1)
    /\ UNCHANGED <<rvars, up, spans, mbox, serving, waits, stream, playing, answer, calls>>

(* {prev}: the message before the position, which moves before it; at the  *)
(* beginning of a chunk, from the end of the one before.                   *)
ReadPrevStays ==   \* faulty: leaves the position behind the message
    /\ up = "up" /\ serving.op = "prev" /\ at.data # Closed /\ at.pos > 0
    /\ Answer(serving, [op |-> "prev", m |-> file[at.data].data[at.pos]])
    /\ UNCHANGED <<rvars, up, at, spans, mbox, stream, calls>>

ReadPrev ==
    /\ up = "up" /\ serving.op = "prev" /\ at.data # Closed /\ at.pos > 0
    /\ Answer(serving, [op |-> "prev", m |-> file[at.data].data[at.pos]])
    /\ at' = [at EXCEPT !.pos = @ - 1]
    /\ UNCHANGED <<rvars, up, spans, mbox, stream, calls>>

AtBegin == at.data = Closed \/ at.pos = 0

OpenPrev ==
    /\ up = "up" /\ serving.op = "prev" /\ AtBegin /\ at.chunk - 1 \in DOMAIN dir
    /\ at' = [Opened(at.chunk - 1) EXCEPT !.pos = file[dir[at.chunk - 1]].onDisk]
    /\ UNCHANGED <<rvars, up, spans, mbox, serving, waits, stream, playing, answer, calls>>

(* A player that ends takes the playback process along.                    *)
Ends(how) ==
    /\ up' = how /\ mbox' = <<>> /\ serving' = NoRequest /\ waits' = FALSE
    /\ stream' = None /\ playing' = NoProcess
    /\ UNCHANGED <<rvars, at, spans, answer, calls>>

(* There is no chunk before: end_of_chunk fails on a file that is closed.  *)
NoPrev ==
    /\ up = "up" /\ serving.op = "prev" /\ AtBegin /\ at.chunk - 1 \notin DOMAIN dir
    /\ Ends("no_prev")

(* {ref,N}, {ref,{C,N}} and {ref_current,N}: a chunk, an entry of its      *)
(* index, and then the next message.                                       *)
TakeRef ==
    /\ Takes("ref")
    /\ LET r == Head(mbox)
           s == spans[Lookup(r.n)]
           i == r.n - s.from
           h == IF s.chunk = at.chunk THEN at ELSE Opened(s.chunk)
           none == [op |-> "ref", n |-> r.n, late |-> FALSE, m |-> None]
       IN  IF Lookup(r.n) = 0 THEN UNCHANGED at /\ Answer(r, none)
           ELSE IF h.data = Closed \/ i >= file[h.index].index THEN at' = h /\ Answer(r, none)
           ELSE /\ at' = [h EXCEPT !.pos = i]
                /\ serving' = [op |-> "ref", n |-> r.n, by |-> r.by,
                               home |-> h, late |-> i >= file[h.data].onDisk]
                /\ UNCHANGED <<answer, waits, playing>>
    /\ UNCHANGED <<rvars, up, spans, stream, calls>>

-----------------------------------------------------------------------------
(* Playback: start, stop, and the 'EXIT' of the process.                   *)
TakeStart ==
    /\ Takes("start")
    /\ IF stream # None THEN UNCHANGED <<stream, playing>>
       ELSE /\ stream'  = Head(mbox).pid
            /\ playing' = [NoProcess EXCEPT !.pid = Head(mbox).pid, !.st = "plays"]
    /\ UNCHANGED <<rvars, up, at, spans, serving, waits, answer, calls>>

TakeStopForgets ==   \* faulty: removes the process before it has ended
    /\ Takes("stop")
    /\ stream' = None
    /\ playing' = [playing EXCEPT !.exit = (stream = playing.pid /\ playing.st # "none")]
    /\ UNCHANGED <<rvars, up, at, spans, serving, waits, answer, calls>>

TakeStop ==
    /\ Takes("stop")
    /\ playing' = [playing EXCEPT !.exit = (stream = playing.pid /\ playing.st # "none")]
    /\ UNCHANGED <<rvars, up, at, spans, serving, waits, stream, answer, calls>>

TakeExit ==
    /\ up = "up" /\ serving = NoRequest /\ mbox # <<>> /\ Head(mbox).op = "EXIT"
    /\ IF Head(mbox).pid = stream
         THEN /\ stream' = None /\ mbox' = Tail(mbox)
              /\ UNCHANGED <<rvars, up, at, spans, serving, waits, playing, answer, calls>>
         ELSE Ends("unknown_child")

(* The playback process asks for the next message whenever it has sent the *)
(* one before to the subscribers, until the exit signal arrives.           *)
PlayNext ==
    /\ playing.st = "plays"
    /\ playing' = [playing EXCEPT !.st = "waits"]
    /\ mbox' = Append(mbox, [op |-> "next", by |-> playing.pid])
    /\ UNCHANGED <<rvars, up, at, spans, serving, waits, stream, answer, calls>>

PlayEnds ==
    /\ playing.exit
    /\ playing' = [playing EXCEPT !.st = "none", !.exit = FALSE]
    /\ mbox' = Append(mbox, [op |-> "EXIT", pid |-> playing.pid])
    /\ UNCHANGED <<rvars, up, at, spans, serving, waits, stream, answer, calls>>

Player ==
    \/ TakeStep \/ TakeRef \/ ReadNext \/ OpenNext \/ ReadPrev \/ OpenPrev \/ NoPrev
    \/ TakeStart \/ TakeStop \/ TakeExit

-----------------------------------------------------------------------------
(* A reader with one call at a time, and somebody who starts and stops the *)
(* playback; a stop without a playback, which does nothing, is left out.   *)
Read ==
    /\ up = "up" /\ ~waits /\ calls < MaxCalls
    /\ \E r \in [op : {"next", "prev"}, by : {None}] \cup [op : {"ref"}, n : Refs, by : {None}] :
          mbox' = Append(mbox, r)
    /\ waits' = TRUE /\ calls' = calls + 1
    /\ UNCHANGED <<rvars, up, at, spans, serving, stream, playing, answer>>

Control ==
    /\ up = "up" /\ calls < MaxCalls
    /\ \E op \in {"start"} \cup (IF stream = None THEN {} ELSE {"stop"}) :
          mbox' = Append(mbox, [op |-> op, pid |-> calls + 1])
    /\ calls' = calls + 1
    /\ UNCHANGED <<rvars, up, at, spans, serving, waits, stream, playing, answer>>

(* Once the player has ended the recorder is of no interest any more.      *)
Recording ==
    /\ up \in {"off", "up"} /\ Record
    /\ UNCHANGED <<up, at, spans, mbox, serving, waits, stream, playing, answer, calls>>

Next == StartPlayer \/ Player \/ PlayNext \/ PlayEnds \/ Read \/ Control \/ Recording

Spec == Init /\ [][Next]_vars

(* The player handles its messages.  Nothing else needs to happen.         *)
FairSpec == Spec /\ WF_vars(Player)

-----------------------------------------------------------------------------
(* Recorder: only the oldest data is deleted, and the disk does not fill. *)
ChunksKept == NewestKept /\ WithinLimits

(* Answers fit together, whatever was recorded, deleted or asked for in    *)
(* between: next goes on to later messages, prev to earlier ones, and each *)
(* undoes the other, across chunks that are empty or lost their end.       *)
InTurn ==
    [][LET a == answer
           b == answer'
       IN  serving # NoRequest /\ serving' = NoRequest /\ up' = "up"
           /\ a.m # None /\ (a.op = "ref" => ~a.late) =>
             /\ a.op # "prev" /\ b.op = "next" => b.m > a.m
             /\ a.op # "prev" /\ b.op = "prev" => b.m = a.m
             /\ a.op = "prev" /\ b.op = "next" => b.m = a.m
             /\ a.op = "prev" /\ b.op = "prev" => b.m < a.m]_vars

(* A reference is answered with the message that was there when the player *)
(* started, or not at all, unless its index was on disk before its data.   *)
RefRight ==
    answer.op = "ref" /\ answer.m # None /\ ~answer.late =>
        \E s \in Range(spans) :
            LET i == answer.n - s.from + 1 IN
            /\ s.from <= answer.n /\ (answer.n < s.to \/ Len(spans) = 1)
            /\ i <= Len(file[s.file].data) /\ answer.m = file[s.file].data[i]

(* The player never meets the end of a process it does not know.           *)
ChildrenKnown == up # "unknown_child"

(* A reader who came to the end goes on when there is a next chunk with    *)
(* something in it, as long as that is not deleted.                        *)
Behind == up = "up" /\ serving.op = "next" /\ at.chunk + 1 \in DOMAIN dir
          /\ file[dir[at.chunk + 1]].onDisk > 0
GoesOn == Behind ~> ~Behind

(* "Always have a file open." (player.erl:42)                              *)
AlwaysOpen == up = "up" => at.data # Closed
=============================================================================
