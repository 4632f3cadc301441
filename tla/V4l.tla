-------------------------------- MODULE V4l --------------------------------
(***************************************************************************)
(* A camera: the driver of the kernel with its buffers, the port program   *)
(* c_src/v4l.c, and the process of v4l.erl that asks for a frame, passes   *)
(* it on, and asks for the next one.                                       *)
(*                                                                         *)
(* The driver is external: it fills the buffers that are queued, in turn,  *)
(* and drops a picture when there is none.  A picture is known by its      *)
(* number; the motion of a frame by the picture it was compared with, 0    *)
(* being the black one at the beginning.                                   *)
(***************************************************************************)
EXTENDS Integers, FiniteSets, Sequences

CONSTANTS
  NbBuffers,     \* req.count, at least 2 in the code
  MaxPictures    \* bound: pictures of the camera

ASSUME CameraAssumption == NbBuffers \in Nat \ {0} /\ MaxPictures \in Nat

VARIABLES
  picture,       \* external: number of the last picture
  content,       \* external: buffer -> picture
  queued,        \* external: buffers that the driver may fill, in turn
  filled,        \* external: buffers that are full, in turn
  requests,      \* empty packets on their way to the program
  stage,         \* of the program: "request", "dequeue", "sum", "requeue", "jpeg", "stats", "gone"
  buffer,        \* buf.index
  frame,         \* picture in the frame
  last,          \* picture in last_y
  motion,        \* picture that the frame was compared with
  output,        \* messages of the port
  up,            \* the process of v4l.erl has not ended
  broadcast,     \* history: what it passed on
  captured       \* history: pictures that the driver handed out

driverVars == <<picture, content, queued, filled>>
programVars == <<stage, buffer, frame, last, motion>>
v4lVars == <<driverVars, requests, programVars, output, up, broadcast, captured>>

Buffers == 1..NbBuffers
Black == 0

-----------------------------------------------------------------------------
Capture ==
  /\ picture < MaxPictures /\ picture' = picture + 1
  /\ IF queued = <<>> THEN UNCHANGED <<content, queued, filled>>
     ELSE /\ content' = [content EXCEPT ![Head(queued)] = picture + 1]
          /\ queued' = Tail(queued)
          /\ filled' = Append(filled, Head(queued))
  /\ UNCHANGED <<requests, programVars, output, up, broadcast, captured>>

(* v4l.c: a request is read. *)
ReadRequest ==
  /\ stage = "request" /\ requests > 0
  /\ requests' = requests - 1 /\ stage' = "dequeue"
  /\ UNCHANGED <<driverVars, buffer, frame, last, motion, output, up, broadcast, captured>>

DequeueRequeues ==   \* faulty: the buffer is given back before it is read
  /\ stage = "dequeue" /\ filled # <<>>
  /\ buffer' = Head(filled) /\ filled' = Tail(filled)
  /\ captured' = Append(captured, content[Head(filled)])
  /\ queued' = Append(queued, Head(filled)) /\ stage' = "sum"
  /\ UNCHANGED <<picture, content, requests, frame, last, motion, output, up, broadcast>>

(* VIDIOC_DQBUF waits for a buffer that is full, whenever it was filled. *)
Dequeue ==
  /\ stage = "dequeue" /\ filled # <<>>
  /\ buffer' = Head(filled) /\ filled' = Tail(filled)
  /\ captured' = Append(captured, content[Head(filled)])
  /\ stage' = "sum"
  /\ UNCHANGED <<picture, content, queued, requests, frame, last, motion, output, up, broadcast>>

(* The picture is added to an empty frame. *)
SumFrame ==
  /\ stage = "sum"
  /\ frame' = content[buffer] /\ stage' = "requeue"
  /\ UNCHANGED <<driverVars, requests, buffer, last, motion, output, up, broadcast, captured>>

(* VIDIOC_QBUF *)
Requeue ==
  /\ stage = "requeue"
  /\ queued' = Append(queued, buffer) /\ stage' = "jpeg"
  /\ UNCHANGED <<picture, content, filled, requests, buffer, frame, last, motion, output, up,
                 broadcast, captured>>

(* compress, and the write of the picture. *)
WriteJpeg ==
  /\ stage = "jpeg"
  /\ motion' = last /\ last' = frame
  /\ output' = Append(output, <<"jpeg", frame>>)
  /\ stage' = "stats"
  /\ UNCHANGED <<driverVars, requests, buffer, frame, up, broadcast, captured>>

WriteStats ==
  /\ stage = "stats"
  /\ output' = Append(output, <<"stats", frame, motion>>)
  /\ stage' = "request"
  /\ UNCHANGED <<driverVars, requests, buffer, frame, last, motion, up, broadcast, captured>>

(* The camera is unplugged: an ioctl fails, and the program ends. *)
Unplug ==
  /\ stage # "gone"
  /\ stage' = "gone" /\ requests' = 0
  /\ output' = Append(output, <<"exit">>)
  /\ UNCHANGED <<driverVars, buffer, frame, last, motion, up, broadcast, captured>>

-----------------------------------------------------------------------------
(* v4l.erl: a picture is passed on and the next one asked for, stats are   *)
(* passed on, and the end of the program ends the process.  port_command   *)
(* to a program that has ended is lost, or fails when the port knows.      *)
PassOn ==
  /\ up /\ output # <<>>
  /\ output' = Tail(output)
  /\ LET m == Head(output)
     IN /\ broadcast' = IF m[1] = "exit" THEN broadcast ELSE Append(broadcast, m)
        /\ requests' = IF m[1] = "jpeg" /\ stage # "gone" THEN requests + 1 ELSE requests
        /\ up' \in (CASE m[1] = "exit" -> {FALSE}
                      [] m[1] = "jpeg" /\ stage = "gone" -> BOOLEAN
                      [] OTHER -> {TRUE})
  /\ UNCHANGED <<driverVars, programVars, captured>>

(* All buffers are queued, and the process asks for the first frame. *)
CameraInit ==
  /\ picture = 0 /\ content = [b \in Buffers |-> Black]
  /\ queued = [b \in Buffers |-> b] /\ filled = <<>>
  /\ requests = 1
  /\ stage = "request" /\ buffer = 1 /\ frame = Black /\ last = Black /\ motion = Black
  /\ output = <<>> /\ up = TRUE /\ broadcast = <<>> /\ captured = <<>>

CameraProgram == ReadRequest \/ Dequeue \/ SumFrame \/ Requeue \/ WriteJpeg \/ WriteStats

CameraNext == Capture \/ CameraProgram \/ Unplug \/ PassOn

CameraSpec ==
  CameraInit /\ [][CameraNext]_v4lVars /\ WF_v4lVars(CameraProgram) /\ WF_v4lVars(PassOn)

-----------------------------------------------------------------------------
CameraTypeOK ==
  /\ picture \in 0..MaxPictures /\ content \in [Buffers -> 0..MaxPictures]
  /\ queued \in Seq(Buffers) /\ filled \in Seq(Buffers)
  /\ requests \in Nat /\ buffer \in Buffers /\ up \in BOOLEAN
  /\ stage \in {"request", "dequeue", "sum", "requeue", "jpeg", "stats", "gone"}
  /\ {frame, last, motion} \subseteq 0..MaxPictures

(* What is passed on is, for every picture that the driver handed out, the *)
(* picture and its stats, each compared with the one before, in the order  *)
(* of the camera, though the driver goes on to fill the buffers.           *)
Passed(i) ==
  LET n == (i + 1) \div 2
  IN IF i % 2 = 1 THEN <<"jpeg", captured[n]>>
     ELSE <<"stats", captured[n], IF n = 1 THEN Black ELSE captured[n - 1]>>

FramesTrue ==
  /\ \A i \in 1..(Len(captured) - 1) : captured[i] < captured[i + 1]
  /\ \A i \in DOMAIN broadcast : broadcast[i] = Passed(i)

(* "It limits the data rate to something the pipe can handle": there is    *)
(* one request, one frame in work, or one picture on its way.              *)
Jpegs == {i \in DOMAIN output : output[i][1] = "jpeg"}

RateLimited ==
  stage # "gone" =>
    /\ Len(output) <= 3
    /\ requests + (IF stage \in {"dequeue", "sum", "requeue", "jpeg"} THEN 1 ELSE 0)
         + Cardinality(Jpegs) = 1

(* Pictures and stats are passed on in order, none mixed with another, and *)
(* one at a time.                                                          *)
V4lFrames == FramesTrue /\ RateLimited

(* A full buffer is taken and goes back to the driver: the exchange of     *)
(* requests and pictures does not stop.                                    *)
In(b, q) == \E i \in DOMAIN q : q[i] = b

BuffersReturn == \A b \in Buffers : In(b, filled) ~> (In(b, queued) \/ stage = "gone")
=============================================================================
