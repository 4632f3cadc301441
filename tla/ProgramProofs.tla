---------------------------- MODULE ProgramProofs ---------------------------
(***************************************************************************)
(* Theorems about three port programs: GpioPoll for any number of pins and *)
(* edges, V4l for any number of buffers and pictures, and Axo for any      *)
(* clients, tags and sizes.                                                *)
(***************************************************************************)
EXTENDS GpioPoll, V4l, Axo, SequenceTheorems, FiniteSetTheorems, TLAPS

(***************************************************************************)
(* GpioPoll.  The invariant says where the level of a pin without an event *)
(* is to be found at any moment of a round: in the line that is in the     *)
(* buffer, or, when there is none, in the one that was flushed.  It fails  *)
(* only for the pin that is being read, whose event is taken and whose     *)
(* level is not.                                                           *)
(***************************************************************************)
RoundsClean ==
  /\ reading # NoPin => at = "scan" /\ reading \in ready
  /\ at = "poll" => ready = {} /\ printed = [p \in Pins |-> NoLine]

LastLine(p) == IF printed[p] = NoLine THEN shown[p] ELSE printed[p]

LinesTrue ==
  at # "gone" => \A p \in Pins : ~event[p] /\ reading # p => LastLine(p) = level[p]

IInv == TypeOK /\ RoundsClean /\ LinesTrue

(* No pin has the number that stands for none. *)
LEMMA NoPinIsNone == NoPin \notin Pins
BY DEF NoPin, Pins

LEMMA InitIInv == Init => IInv
<1> SUFFICES ASSUME Init PROVE IInv
  OBVIOUS
<1>1. TypeOK
  BY DEF Init, TypeOK
<1>2. RoundsClean
  BY DEF Init, RoundsClean
<1>3. LinesTrue
  BY DEF Init, LinesTrue
<1> QED BY <1>1, <1>2, <1>3 DEF IInv

LEMMA EdgeIInv ==
  ASSUME IInv, NEW p \in Pins, Edge(p)
  PROVE  IInv'
<1> USE DEF IInv, Edge
<1>1. TypeOK'
  BY DEF TypeOK
<1>2. RoundsClean'
  BY DEF RoundsClean
<1>3. LinesTrue'
  BY DEF LinesTrue, LastLine, TypeOK
<1> QED BY <1>1, <1>2, <1>3

LEMMA ReadEventIInv ==
  ASSUME IInv, NEW p \in Pins, ReadEvent(p)
  PROVE  IInv'
<1> USE DEF IInv, ReadEvent
<1>1. TypeOK'
  BY DEF TypeOK
<1>2. RoundsClean'
  BY DEF RoundsClean
<1>3. LinesTrue'
  BY NoPinIsNone DEF LinesTrue, LastLine, TypeOK
<1> QED BY <1>1, <1>2, <1>3

LEMMA ReadLevelIInv ==
  ASSUME IInv, ReadLevel
  PROVE  IInv'
<1> USE DEF IInv, ReadLevel, pinVars
<1>1. reading \in Pins /\ level[reading] \in {0, 1}
  BY DEF TypeOK
<1>2. TypeOK'
  BY <1>1 DEF TypeOK
<1>3. RoundsClean'
  BY DEF RoundsClean
<1>4. LinesTrue'
  <2> SUFFICES ASSUME at # "gone", NEW p \in Pins, ~event[p]
               PROVE  LastLine(p)' = level[p]
    BY DEF LinesTrue
  <2>1. CASE p = reading
    BY <2>1, <1>1 DEF LastLine, NoLine, TypeOK
  <2>2. CASE p # reading
    BY <2>2 DEF LastLine, LinesTrue, TypeOK
  <2> QED BY <2>1, <2>2
<1> QED BY <1>2, <1>3, <1>4

LEMMA FlushIInv ==
  ASSUME IInv, Flush
  PROVE  IInv'
<1> USE DEF IInv, Flush, pinVars
<1>1. TypeOK'
  BY DEF TypeOK, NoLine
<1>2. RoundsClean'
  BY DEF RoundsClean
<1>3. LinesTrue'
  BY NoPinIsNone DEF LinesTrue, LastLine, TypeOK
<1> QED BY <1>1, <1>2, <1>3

LEMMA NextIInv == IInv /\ [Next]_vars => IInv'
<1> SUFFICES ASSUME IInv, [Next]_vars PROVE IInv'
  OBVIOUS
<1>1. CASE \E p \in Pins : Edge(p)
  BY <1>1, EdgeIInv
<1>2. CASE HangUp
  BY <1>2 DEF HangUp, IInv, TypeOK, RoundsClean, LinesTrue, LastLine
<1>3. CASE Poll
  BY <1>3 DEF Poll, pinVars, IInv, TypeOK, RoundsClean, LinesTrue, LastLine
<1>4. CASE \E p \in Pins : ReadEvent(p)
  BY <1>4, ReadEventIInv
<1>5. CASE ReadLevel
  BY <1>5, ReadLevelIInv
<1>6. CASE Flush
  BY <1>6, FlushIInv
<1>7. CASE UNCHANGED vars
  BY <1>7 DEF vars, pinVars, IInv, TypeOK, RoundsClean, LinesTrue, LastLine
<1> QED BY <1>1, <1>2, <1>3, <1>4, <1>5, <1>6, <1>7 DEF Next, Program

LEMMA Invariance == Spec => []IInv
BY InitIInv, NextIInv, PTL DEF Spec

-----------------------------------------------------------------------------
(* Every reachable state has the types of TypeOK.                          *)
THEOREM TypeCorrect == Spec => []TypeOK
<1>1. IInv => TypeOK
  BY DEF IInv
<1> QED BY <1>1, Invariance, PTL

(* Whatever edges come while events are taken and levels are read, the     *)
(* last flushed line of a pin without an event tells its level whenever    *)
(* gpio_poll.c waits: it needs no second look at the pin.                  *)
THEOREM LastLineIsTrue == Spec => []LastLineTrue
<1>1. IInv => LastLineTrue
  <2> SUFFICES ASSUME IInv, at = "poll", NEW p \in Pins, ~event[p]
               PROVE  shown[p] = level[p]
    BY DEF LastLineTrue
  <2>1. reading # p /\ printed[p] = NoLine
    BY NoPinIsNone DEF IInv, RoundsClean, TypeOK
  <2> QED BY <2>1 DEF IInv, LinesTrue, LastLine
<1> QED BY <1>1, Invariance, PTL

(***************************************************************************)
(* V4l.  The invariant says what was made of the pictures at each stage of *)
(* the program: what was passed on and what is on its way are the first    *)
(* packets that the pictures are due, the frame is the last picture that   *)
(* the driver handed out, and last_y is the one before until the picture   *)
(* is compressed.  A buffer is with the driver or with the program, so the *)
(* driver does not write to the one that is read.                          *)
(***************************************************************************)
Message ==
  {<<"exit">>} \cup {<<"jpeg", n>> : n \in Nat} \cup {<<"stats", n, k>> : n, k \in Nat}

Histories ==
  /\ captured \in Seq(Nat) /\ broadcast \in Seq(Message) /\ output \in Seq(Message)

BuffersApart ==
  /\ \A i, j \in 1 .. Len(queued) : queued[i] = queued[j] => i = j
  /\ \A i, j \in 1 .. Len(filled) : filled[i] = filled[j] => i = j
  /\ \A i \in 1 .. Len(queued), j \in 1 .. Len(filled) : queued[i] # filled[j]
  /\ stage \in {"sum", "requeue"} =>
       /\ \A i \in 1 .. Len(queued) : queued[i] # buffer
       /\ \A i \in 1 .. Len(filled) : filled[i] # buffer

PicturesAscend ==
  /\ \A i \in 1 .. Len(captured) : captured[i] <= picture
  /\ \A i \in 1 .. Len(filled) : content[filled[i]] <= picture
  /\ \A i, j \in 1 .. Len(captured) : i < j => captured[i] < captured[j]
  /\ \A i, j \in 1 .. Len(filled) : i < j => content[filled[i]] < content[filled[j]]
  /\ \A i \in 1 .. Len(captured), j \in 1 .. Len(filled) : captured[i] < content[filled[j]]

Taken(n) == IF n = 0 THEN Black ELSE captured[n]

FrameInWork ==
  /\ stage \in {"request", "dequeue"} => last = Taken(Len(captured))
  /\ stage \in {"sum", "requeue", "jpeg"} =>
       Len(captured) > 0 /\ last = Taken(Len(captured) - 1)
  /\ stage = "sum" => content[buffer] = Taken(Len(captured))
  /\ stage \in {"requeue", "jpeg", "stats"} => frame = Taken(Len(captured))
  /\ stage = "stats" =>
       /\ Len(captured) > 0
       /\ last = Taken(Len(captured)) /\ motion = Taken(Len(captured) - 1)

Made == Len(broadcast) + Len(output)

Packets ==
  /\ stage \in {"request", "dequeue"} => Made = 2 * Len(captured)
  /\ stage \in {"sum", "requeue", "jpeg"} => Made = 2 * Len(captured) - 2
  /\ stage = "stats" => Made = 2 * Len(captured) - 1
  /\ \A i \in 1 .. Len(broadcast) : broadcast[i] = Passed(i)
  /\ \A i \in 1 .. Len(output) :
       \/ output[i] = <<"exit">> /\ i = Len(output) /\ stage = "gone"
       \/ output[i] = Passed(Len(broadcast) + i)

InWork == IF stage \in {"dequeue", "sum", "requeue", "jpeg"} THEN 1 ELSE 0

OneAtATime ==
  stage # "gone" => requests + InWork + ((Made + 1) \div 2 - (Len(broadcast) + 1) \div 2) = 1

CameraInv ==
  /\ CameraTypeOK /\ Histories
  /\ BuffersApart /\ PicturesAscend
  /\ FrameInWork /\ Packets /\ OneAtATime

(* Numbers of packets and of pictures.                                     *)
LEMMA Halves ==
  /\ \A n \in Nat : (2 * n) \div 2 = n /\ (2 * n) % 2 = 0
  /\ \A n \in Nat : (2 * n + 1) \div 2 = n /\ (2 * n + 1) % 2 = 1
  /\ \A i \in Nat : \E n \in Nat : i = 2 * n \/ i = 2 * n + 1
<1>1. \A i \in Nat : i = 2 * (i \div 2) \/ i = 2 * (i \div 2) + 1
  OBVIOUS
<1>2. \A i \in Nat : i \div 2 \in Nat
  OBVIOUS
<1>3. \A n \in Nat : (2 * n) \div 2 = n /\ (2 * n) % 2 = 0
  OBVIOUS
<1>4. \A n \in Nat : (2 * n + 1) \div 2 = n /\ (2 * n + 1) % 2 = 1
  OBVIOUS
<1> QED BY <1>1, <1>2, <1>3, <1>4

(* The packets that picture n is due have the numbers 2n - 1 and 2n.       *)
LEMMA PassedJpeg ==
  ASSUME NEW n \in Nat \ {0}
  PROVE  Passed(2 * n - 1) = <<"jpeg", captured[n]>>
<1>1. 2 * n - 1 = 2 * (n - 1) + 1 /\ n - 1 \in Nat /\ 2 * n - 1 + 1 = 2 * n
  OBVIOUS
<1>2. (2 * n - 1) % 2 = 1
  BY <1>1, Halves
<1>3. (2 * n - 1 + 1) \div 2 = n
  BY <1>1, Halves
<1> QED BY <1>2, <1>3 DEF Passed

LEMMA PassedStats ==
  ASSUME NEW n \in Nat \ {0}
  PROVE  Passed(2 * n) = <<"stats", captured[n], Taken(n - 1)>>
<1>1. (2 * n) % 2 = 0 /\ (2 * n + 1) \div 2 = n
  BY Halves
<1>2. (n = 1) <=> (n - 1 = 0)
  OBVIOUS
<1> QED BY <1>1, <1>2 DEF Passed, Taken

(* The kind of the packet number i.                                        *)
LEMMA PassedKind ==
  ASSUME NEW i \in Nat
  PROVE  /\ Passed(i) # <<"exit">>
         /\ Passed(i)[1] = IF i % 2 = 1 THEN "jpeg" ELSE "stats"
  BY DEF Passed

(* What is due of a picture does not change when another one is taken.     *)
LEMMA PassedStays ==
  ASSUME captured \in Seq(Nat), NEW x, captured' = Append(captured, x),
         NEW i \in 1 .. 2 * Len(captured)
  PROVE  Passed(i)' = Passed(i)
<1> DEFINE n == (i + 1) \div 2
<1>1. n \in 1 .. Len(captured)
  OBVIOUS
<1>2. captured'[n] = captured[n] /\ (n # 1 => captured'[n - 1] = captured[n - 1])
  BY <1>1
<1> QED BY <1>2 DEF Passed

-----------------------------------------------------------------------------
LEMMA CameraInitInv == CameraInit => CameraInv
<1> SUFFICES ASSUME CameraInit PROVE CameraInv
  OBVIOUS
<1> USE CameraAssumption
<1>1. CameraTypeOK
  <2>1. queued \in Seq(Buffers) /\ filled \in Seq(Buffers)
    BY DEF CameraInit, Buffers
  <2>2. content \in [Buffers -> 0 .. MaxPictures]
    BY DEF CameraInit, Black
  <2> QED BY <2>1, <2>2 DEF CameraInit, CameraTypeOK, Buffers, Black
<1>2. Histories
  BY DEF CameraInit, Histories
<1>3. BuffersApart /\ PicturesAscend
  BY DEF CameraInit, BuffersApart, PicturesAscend, Buffers
<1>4. FrameInWork
  BY DEF CameraInit, FrameInWork, Taken
<1>5. Packets /\ OneAtATime
  BY DEF CameraInit, Packets, OneAtATime, Made, InWork
<1> QED BY <1>1, <1>2, <1>3, <1>4, <1>5 DEF CameraInv

(* The driver fills the oldest queued buffer, which the program has not.   *)
LEMMA CaptureInv ==
  ASSUME CameraInv, Capture
  PROVE  CameraInv'
<1> USE CameraAssumption
<1>1. PICK h : h = Head(queued)
  OBVIOUS
<1>2. CASE queued = <<>>
  <2>1. CameraTypeOK' /\ Histories'
    BY <1>2, SMTT(30) DEF Capture, CameraInv, CameraTypeOK, Histories, programVars
  <2>2. BuffersApart' /\ PicturesAscend'
    BY <1>2, SMTT(30) DEF Capture, CameraInv, CameraTypeOK, BuffersApart, PicturesAscend, Histories,
                programVars
  <2>3. FrameInWork' /\ Packets' /\ OneAtATime'
    BY <1>2 DEF Capture, CameraInv, FrameInWork, Packets, OneAtATime, Made, InWork, Passed,
                Taken, programVars
  <2> QED BY <2>1, <2>2, <2>3 DEF CameraInv
<1>3. CASE queued # <<>>
  <2>1. /\ queued \in Seq(Buffers) /\ filled \in Seq(Buffers)
        /\ content \in [Buffers -> 0 .. MaxPictures] /\ picture \in 0 .. MaxPictures
    BY DEF CameraInv, CameraTypeOK
  <2>2. /\ picture < MaxPictures /\ picture' = picture + 1
        /\ content' = [content EXCEPT ![h] = picture + 1]
        /\ queued' = Tail(queued) /\ filled' = Append(filled, h)
        /\ UNCHANGED <<requests, programVars, output, up, broadcast, captured>>
    BY <1>1, <1>3 DEF Capture
  <2>3. h \in Buffers /\ h = queued[1] /\ Len(queued) > 0
    BY <1>1, <1>3, <2>1
  <2>4. /\ queued' \in Seq(Buffers) /\ Len(queued') = Len(queued) - 1
        /\ \A i \in 1 .. Len(queued') : queued'[i] = queued[i + 1]
    BY <1>3, <2>1, <2>2
  <2>5. /\ filled' \in Seq(Buffers) /\ Len(filled') = Len(filled) + 1
        /\ \A i \in 1 .. Len(filled) : filled'[i] = filled[i]
        /\ filled'[Len(filled) + 1] = h
    BY <2>1, <2>2, <2>3
  <2>6. /\ \A b \in Buffers : b # h => content'[b] = content[b]
        /\ content'[h] = picture + 1
    BY <2>1, <2>2, <2>3
  <2>7. CameraTypeOK' /\ Histories'
    BY <2>1, <2>2, <2>3, <2>4, <2>5 DEF CameraInv, CameraTypeOK, Histories, programVars
  <2>8. BuffersApart'
    <3>1. BuffersApart
      BY DEF CameraInv
    <3>2. \A i \in 1 .. Len(filled) : filled[i] # h
      BY <3>1, <2>3 DEF BuffersApart
    <3>3. \A i \in 1 .. Len(queued') : queued'[i] # h
      <4> TAKE i \in 1 .. Len(queued')
      <4>1. i + 1 \in 1 .. Len(queued) /\ 1 \in 1 .. Len(queued) /\ i + 1 # 1
        BY <2>1, <2>3, <2>4
      <4>2. queued[i + 1] # queued[1]
        BY <3>1, <4>1 DEF BuffersApart
      <4> QED BY <4>2, <2>3, <2>4
    <3>4. stage \in {"sum", "requeue"} => h # buffer
      BY <3>1, <2>3 DEF BuffersApart
    <3> QED BY <3>1, <3>2, <3>3, <3>4, <2>1, <2>2, <2>4, <2>5, SMTT(30) DEF BuffersApart, programVars
  <2>9. PicturesAscend'
    <3>1. PicturesAscend /\ captured \in Seq(Nat)
      BY DEF CameraInv, Histories
    <3>2. \A i \in 1 .. Len(filled) :
             filled[i] \in Buffers /\ content'[filled[i]] = content[filled[i]]
      BY <2>1, <2>3, <2>6, SMTT(30) DEF CameraInv, BuffersApart
    <3>3. \A i \in 1 .. Len(filled) : content'[filled'[i]] = content[filled[i]]
      BY <3>2, <2>5
    <3>4. content'[filled'[Len(filled) + 1]] = picture + 1
      BY <2>5, <2>6
    <3>5. \A i \in 1 .. Len(filled) : content[filled[i]] \in Nat
      BY <3>2, <2>1
    <3>6. \A i \in 1 .. Len(captured) : captured[i] \in Nat
      BY <3>1
    <3>7. /\ picture' = picture + 1 /\ captured' = captured /\ picture \in Nat
          /\ Len(captured) \in Nat /\ Len(filled) \in Nat /\ Len(filled') = Len(filled) + 1
      BY <3>1, <2>1, <2>2, <2>5
    <3>8. \A i \in 1 .. Len(filled') : i \in 1 .. Len(filled) \/ i = Len(filled) + 1
      BY <3>7
    <3>9. /\ \A i \in 1 .. Len(captured) : captured[i] <= picture
          /\ \A i \in 1 .. Len(filled) : content[filled[i]] <= picture
          /\ \A i, j \in 1 .. Len(captured) : i < j => captured[i] < captured[j]
          /\ \A i, j \in 1 .. Len(filled) : i < j => content[filled[i]] < content[filled[j]]
          /\ \A i \in 1 .. Len(captured), j \in 1 .. Len(filled) : captured[i] < content[filled[j]]
      BY <3>1 DEF PicturesAscend
    <3>10. \A i \in 1 .. Len(filled') : content'[filled'[i]] <= picture'
      BY <3>3, <3>4, <3>5, <3>7, <3>8, <3>9
    <3>11. \A i, j \in 1 .. Len(filled') :
             i < j => content'[filled'[i]] < content'[filled'[j]]
      BY <3>3, <3>4, <3>5, <3>7, <3>8, <3>9
    <3>12. \A i \in 1 .. Len(captured), j \in 1 .. Len(filled') :
             captured[i] < content'[filled'[j]]
      BY <3>3, <3>4, <3>5, <3>6, <3>7, <3>8, <3>9
    <3>13. \A i \in 1 .. Len(captured) : captured[i] <= picture'
      BY <3>6, <3>7, <3>9
    <3> QED BY <3>7, <3>9, <3>10, <3>11, <3>12, <3>13 DEF PicturesAscend
  <2>10. FrameInWork'
    <3>1. stage = "sum" => content'[buffer] = content[buffer]
      BY <2>3, <2>6 DEF CameraInv, CameraTypeOK, BuffersApart
    <3> QED BY <3>1, <2>2 DEF CameraInv, FrameInWork, Taken, programVars
  <2>11. Packets' /\ OneAtATime'
    BY <2>2 DEF CameraInv, Packets, OneAtATime, Made, InWork, Passed, programVars
  <2> QED BY <2>7, <2>8, <2>9, <2>10, <2>11 DEF CameraInv
<1> QED BY <1>2, <1>3

LEMMA ReadRequestInv ==
  ASSUME CameraInv, ReadRequest
  PROVE  CameraInv'
<1>1. CameraTypeOK' /\ Histories'
  BY DEF ReadRequest, CameraInv, CameraTypeOK, Histories, driverVars
<1>2. BuffersApart' /\ PicturesAscend'
  BY DEF ReadRequest, CameraInv, BuffersApart, PicturesAscend, driverVars
<1>3. FrameInWork'
  BY DEF ReadRequest, CameraInv, FrameInWork, Taken, driverVars
<1>4. Packets'
  BY DEF ReadRequest, CameraInv, Packets, Made, Passed, driverVars
<1>5. OneAtATime'
  <2>1. requests' = requests - 1 /\ Made' = Made /\ UNCHANGED broadcast
    BY DEF ReadRequest, Made
  <2>2. InWork = 0 /\ InWork' = 1 /\ stage # "gone"
    BY DEF ReadRequest, InWork
  <2>3. Len(broadcast) \in Nat /\ Made \in Nat /\ requests \in Nat
    BY DEF CameraInv, CameraTypeOK, Histories, Made
  <2> QED BY <2>1, <2>2, <2>3 DEF CameraInv, OneAtATime
<1> QED BY <1>1, <1>2, <1>3, <1>4, <1>5 DEF CameraInv

LEMMA DequeueInv ==
  ASSUME CameraInv, Dequeue
  PROVE  CameraInv'
<1>1. PICK h : h = Head(filled)
  OBVIOUS
<1>2. /\ stage = "dequeue" /\ stage' = "sum" /\ buffer' = h
      /\ filled' = Tail(filled) /\ captured' = Append(captured, content[h])
      /\ UNCHANGED <<picture, content, queued, requests, frame, last, motion, output, up, broadcast>>
  BY <1>1 DEF Dequeue
<1>3. /\ queued \in Seq(Buffers) /\ filled \in Seq(Buffers) /\ captured \in Seq(Nat)
      /\ content \in [Buffers -> 0 .. MaxPictures] /\ picture \in 0 .. MaxPictures
  BY DEF CameraInv, CameraTypeOK, Histories
<1>4. h \in Buffers /\ h = filled[1] /\ Len(filled) > 0
  BY <1>1, <1>3 DEF Dequeue
<1>5. /\ filled' \in Seq(Buffers) /\ Len(filled') = Len(filled) - 1
      /\ \A i \in 1 .. Len(filled') : filled'[i] = filled[i + 1]
  BY <1>2, <1>3, <1>4
<1>6. \A i \in 1 .. Len(filled') :
         i + 1 \in 1 .. Len(filled) /\ 1 \in 1 .. Len(filled) /\ 1 < i + 1
  BY <1>3, <1>5
<1>7. content[h] \in Nat /\ content[h] <= picture
  <2>1. content[h] \in 0 .. MaxPictures
    BY <1>3, <1>4
  <2>2. content[filled[1]] <= picture
    BY <1>4 DEF CameraInv, PicturesAscend
  <2> QED BY <2>1, <2>2, <1>4, CameraAssumption
<1>8. /\ captured' \in Seq(Nat) /\ Len(captured') = Len(captured) + 1
      /\ \A i \in 1 .. Len(captured) : captured'[i] = captured[i]
      /\ captured'[Len(captured) + 1] = content[h]
  BY <1>2, <1>3, <1>7
<1>9. CameraTypeOK'
  BY <1>2, <1>4, <1>5 DEF CameraInv, CameraTypeOK
<1>10. Histories'
  BY <1>2, <1>8 DEF CameraInv, Histories
<1>11. BuffersApart'
  <2>1. BuffersApart
    BY DEF CameraInv
  <2>2. \A i \in 1 .. Len(filled') : filled'[i] # h
    <3> TAKE i \in 1 .. Len(filled')
    <3>1. filled[i + 1] # filled[1]
      BY <2>1, <1>6 DEF BuffersApart
    <3> QED BY <3>1, <1>4, <1>5
  <2>3. \A i \in 1 .. Len(queued) : queued[i] # h
    BY <2>1, <1>4 DEF BuffersApart
  <2>4. \A i, j \in 1 .. Len(filled') : filled'[i] = filled'[j] => i = j
    <3> TAKE i, j \in 1 .. Len(filled')
    <3>1. filled[i + 1] = filled[j + 1] => i + 1 = j + 1
      BY <2>1, <1>6 DEF BuffersApart
    <3> QED BY <3>1, <1>5
  <2>5. \A i \in 1 .. Len(queued), j \in 1 .. Len(filled') : queued[i] # filled'[j]
    BY <2>1, <1>5, <1>6 DEF BuffersApart
  <2> QED BY <2>1, <2>2, <2>3, <2>4, <2>5, <1>2 DEF BuffersApart
<1>12. PicturesAscend'
  <2>1. PicturesAscend
    BY DEF CameraInv
  <2>2. \A i \in 1 .. Len(captured) : captured[i] \in Nat
    BY <1>3
  <2>3. \A i \in 1 .. Len(filled) : content[filled[i]] \in Nat
    BY <1>3, CameraAssumption
  <2>4. \A i \in 1 .. Len(filled') : content[h] < content[filled'[i]]
    BY <2>1, <1>4, <1>5, <1>6 DEF PicturesAscend
  <2>5. content[h] <= picture /\ \A i \in 1 .. Len(captured) : captured[i] < content[h]
    BY <2>1, <1>4 DEF PicturesAscend
  <2>6. /\ Len(captured) \in Nat /\ Len(captured') = Len(captured) + 1
        /\ picture' = picture /\ content' = content
    BY <1>2, <1>3, <1>8
  <2>7. \A i \in 1 .. Len(captured') : i \in 1 .. Len(captured) \/ i = Len(captured) + 1
    BY <2>6
  <2>8. \A i \in 1 .. Len(captured') : captured'[i] <= picture
    <3> TAKE i \in 1 .. Len(captured')
    <3>1. CASE i \in 1 .. Len(captured)
      BY <3>1, <2>1, <1>8 DEF PicturesAscend
    <3>2. CASE i = Len(captured) + 1
      BY <3>2, <2>5, <1>8
    <3> QED BY <3>1, <3>2, <2>7
  <2>9. \A i, j \in 1 .. Len(captured') : i < j => captured'[i] < captured'[j]
    <3> TAKE i, j \in 1 .. Len(captured')
    <3> HAVE i < j
    <3>1. i \in 1 .. Len(captured)
      BY <2>6
    <3>2. CASE j \in 1 .. Len(captured)
      BY <3>1, <3>2, <2>1, <1>8 DEF PicturesAscend
    <3>3. CASE j = Len(captured) + 1
      BY <3>1, <3>3, <2>5, <1>8
    <3> QED BY <3>2, <3>3, <2>7
  <2>10. \A i \in 1 .. Len(filled') : content[filled'[i]] <= picture
    BY <2>1, <1>5, <1>6 DEF PicturesAscend
  <2>11. \A i, j \in 1 .. Len(filled') : i < j => content[filled'[i]] < content[filled'[j]]
    <3> TAKE i, j \in 1 .. Len(filled')
    <3>1. i < j => i + 1 < j + 1
      BY <1>5
    <3>2. i < j => content[filled[i + 1]] < content[filled[j + 1]]
      BY <3>1, <2>1, <1>6 DEF PicturesAscend
    <3> QED BY <3>2, <1>5
  <2>12. \A i \in 1 .. Len(captured'), j \in 1 .. Len(filled') :
           captured'[i] < content[filled'[j]]
    <3> TAKE i \in 1 .. Len(captured'), j \in 1 .. Len(filled')
    <3>1. CASE i \in 1 .. Len(captured)
      BY <3>1, <2>1, <1>5, <1>8, <1>6 DEF PicturesAscend
    <3>2. CASE i = Len(captured) + 1
      BY <3>2, <2>4, <1>8
    <3> QED BY <3>1, <3>2, <2>7
  <2> QED BY <2>6, <2>8, <2>9, <2>10, <2>11, <2>12 DEF PicturesAscend
<1>13. FrameInWork'
  <2>1. last = Taken(Len(captured))
    BY <1>2 DEF CameraInv, FrameInWork
  <2>2. Len(captured) \in Nat /\ Len(captured') > 0 /\ Len(captured') - 1 = Len(captured)
    BY <1>3, <1>8
  <2>3. Taken(Len(captured) - 1)' = Taken(Len(captured))
    <3>1. Len(captured)' = Len(captured) + 1 /\ Len(captured) \in Nat
      BY <1>3, <1>8
    <3>2. Taken(Len(captured) - 1)' = IF Len(captured) = 0 THEN Black ELSE captured'[Len(captured)]
      BY <3>1 DEF Taken
    <3> QED BY <3>1, <3>2, <1>8 DEF Taken
  <2>4. Taken(Len(captured))' = content[h]
    BY <1>8, <2>2 DEF Taken
  <2> QED BY <2>1, <2>2, <2>3, <2>4, <1>2 DEF FrameInWork
<1>14. Packets'
  <2>1. Made = 2 * Len(captured) /\ Made' = Made /\ Packets
    BY <1>2 DEF CameraInv, Packets, Made
  <2>2. Len(broadcast) \in Nat /\ Len(output) \in Nat /\ Len(captured) \in Nat
    BY DEF CameraInv, Histories
  <2>3. Made' = 2 * Len(captured') - 2
    BY <2>1, <2>2, <1>8
  <2>4. \A i \in 1 .. 2 * Len(captured) : Passed(i)' = Passed(i)
    BY <1>2, <1>3, PassedStays
  <2>5. \A i \in 1 .. Len(broadcast) : broadcast'[i] = Passed(i)'
    BY <2>1, <2>2, <2>4, <1>2 DEF Packets, Made
  <2>6. \A i \in 1 .. Len(output) : output'[i] = Passed(Len(broadcast) + i)'
    <3> SUFFICES ASSUME NEW i \in 1 .. Len(output)
                 PROVE  output'[i] = Passed(Len(broadcast) + i)'
      OBVIOUS
    <3>1. output[i] = Passed(Len(broadcast) + i)
      BY <2>1, <1>2 DEF Packets
    <3>2. Len(broadcast) + i \in 1 .. 2 * Len(captured)
      BY <2>1, <2>2 DEF Made
    <3> QED BY <3>1, <3>2, <2>4, <1>2
  <2> QED BY <2>3, <2>5, <2>6, <1>2 DEF Packets
<1>15. OneAtATime'
  BY <1>2 DEF CameraInv, OneAtATime, InWork, Made
<1> QED BY <1>9, <1>10, <1>11, <1>12, <1>13, <1>14, <1>15 DEF CameraInv

LEMMA SumInv ==
  ASSUME CameraInv, SumFrame
  PROVE  CameraInv'
<1>1. CameraTypeOK' /\ Histories'
  <2>1. content[buffer] \in 0 .. MaxPictures
    BY DEF CameraInv, CameraTypeOK
  <2> QED BY <2>1 DEF SumFrame, CameraInv, CameraTypeOK, Histories, driverVars
<1>2. BuffersApart' /\ PicturesAscend'
  BY DEF SumFrame, CameraInv, BuffersApart, PicturesAscend, driverVars
<1>3. FrameInWork'
  BY DEF SumFrame, CameraInv, FrameInWork, Taken, driverVars
<1>4. Packets' /\ OneAtATime'
  BY DEF SumFrame, CameraInv, Packets, OneAtATime, InWork, Made, Passed, driverVars
<1> QED BY <1>1, <1>2, <1>3, <1>4 DEF CameraInv

LEMMA RequeueInv ==
  ASSUME CameraInv, Requeue
  PROVE  CameraInv'
<1>1. /\ queued \in Seq(Buffers) /\ buffer \in Buffers
      /\ stage = "requeue" /\ stage' = "jpeg" /\ queued' = Append(queued, buffer)
      /\ UNCHANGED <<picture, content, filled, requests, buffer, frame, last, motion, output, up,
                     broadcast, captured>>
  BY DEF Requeue, CameraInv, CameraTypeOK
<1>2. /\ queued' \in Seq(Buffers) /\ Len(queued) \in Nat /\ Len(queued') = Len(queued) + 1
      /\ \A i \in 1 .. Len(queued) : queued'[i] = queued[i]
      /\ queued'[Len(queued) + 1] = buffer
  BY <1>1
<1>3. CameraTypeOK' /\ Histories'
  BY <1>1, <1>2 DEF CameraInv, CameraTypeOK, Histories
<1>4. BuffersApart'
  <2>1. \A i \in 1 .. Len(queued') : i \in 1 .. Len(queued) \/ i = Len(queued) + 1
    BY <1>2
  <2>2. \A i \in 1 .. Len(queued) : queued[i] # buffer
    BY <1>1 DEF CameraInv, BuffersApart
  <2>3. \A i, j \in 1 .. Len(queued') : queued'[i] = queued'[j] => i = j
    BY <2>1, <2>2, <1>2 DEF CameraInv, BuffersApart
  <2>4. \A i \in 1 .. Len(queued'), j \in 1 .. Len(filled) : queued'[i] # filled[j]
    BY <2>1, <1>1, <1>2 DEF CameraInv, BuffersApart
  <2> QED BY <2>3, <2>4, <1>1 DEF CameraInv, BuffersApart
<1>5. PicturesAscend'
  BY <1>1 DEF CameraInv, PicturesAscend
<1>6. FrameInWork'
  BY <1>1 DEF CameraInv, FrameInWork, Taken
<1>7. Packets' /\ OneAtATime'
  BY <1>1 DEF CameraInv, Packets, OneAtATime, InWork, Made, Passed
<1> QED BY <1>3, <1>4, <1>5, <1>6, <1>7 DEF CameraInv

(* A packet of the picture in work is written behind the others.           *)
LEMMA WriteKeepsPackets ==
  ASSUME CameraInv, NEW m \in Message, stage # "gone",
         m = Passed(Made + 1), output' = Append(output, m),
         UNCHANGED <<broadcast, captured>>
  PROVE  /\ Made' = Made + 1 /\ Made \in Nat /\ output' \in Seq(Message)
         /\ \A i \in 1 .. Len(broadcast) : broadcast'[i] = Passed(i)'
         /\ \A i \in 1 .. Len(output') : output'[i] = Passed(Len(broadcast) + i)'
<1>1. /\ output \in Seq(Message) /\ Len(broadcast) \in Nat /\ Len(output) \in Nat
      /\ Packets
  BY DEF CameraInv, Histories
<1>2. /\ output' \in Seq(Message) /\ Len(output') = Len(output) + 1
      /\ \A i \in 1 .. Len(output) : output'[i] = output[i]
      /\ output'[Len(output) + 1] = m
  BY <1>1
<1>3. Made' = Made + 1 /\ Made \in Nat
  BY <1>1, <1>2 DEF Made
<1>4. \A i : Passed(i)' = Passed(i)
  BY DEF Passed
<1>5. ASSUME NEW i \in 1 .. Len(output') PROVE output'[i] = Passed(Len(broadcast) + i)
  <2>1. CASE i \in 1 .. Len(output)
    BY <2>1, <1>1, <1>2 DEF Packets
  <2>2. CASE i = Len(output) + 1
    <3>1. Len(broadcast) + i = Made + 1
      BY <2>2, <1>1 DEF Made
    <3> QED BY <3>1, <2>2, <1>2
  <2> QED BY <2>1, <2>2, <1>1, <1>2
<1> QED BY <1>1, <1>2, <1>3, <1>4, <1>5 DEF Packets

LEMMA WriteJpegInv ==
  ASSUME CameraInv, WriteJpeg
  PROVE  CameraInv'
<1> DEFINE m == <<"jpeg", frame>>
           n == Len(captured)
<1>1. /\ stage = "jpeg" /\ stage' = "stats" /\ motion' = last /\ last' = frame
      /\ output' = Append(output, m)
      /\ UNCHANGED <<driverVars, requests, buffer, frame, up, broadcast, captured>>
  BY DEF WriteJpeg
<1>2. n \in Nat \ {0} /\ frame = captured[n] /\ last = Taken(n - 1) /\ Made = 2 * n - 2
  BY <1>1 DEF CameraInv, FrameInWork, Packets, Histories, Taken
<1>3. frame \in 0 .. MaxPictures /\ last \in 0 .. MaxPictures /\ m \in Message
  BY CameraAssumption DEF CameraInv, CameraTypeOK, Message
<1>4. m = Passed(Made + 1)
  <2>1. Made + 1 = 2 * n - 1
    BY <1>2
  <2> HIDE DEF n
  <2> QED BY <2>1, <1>2, PassedJpeg
<1>5. /\ Made' = Made + 1 /\ output' \in Seq(Message)
      /\ \A i \in 1 .. Len(broadcast) : broadcast'[i] = Passed(i)'
      /\ \A i \in 1 .. Len(output') : output'[i] = Passed(Len(broadcast) + i)'
  BY <1>1, <1>3, <1>4, WriteKeepsPackets
<1>6. CameraTypeOK'
  BY <1>1, <1>3 DEF CameraInv, CameraTypeOK, driverVars
<1>7. Histories'
  BY <1>1, <1>5 DEF CameraInv, Histories
<1>8. BuffersApart' /\ PicturesAscend'
  BY <1>1 DEF CameraInv, BuffersApart, PicturesAscend, driverVars
<1>9. FrameInWork'
  BY <1>1, <1>2 DEF FrameInWork, Taken
<1>10. Packets'
  <2>1. Made' = 2 * n - 1
    BY <1>2, <1>5
  <2> QED BY <2>1, <1>1, <1>5 DEF Packets
<1>11. OneAtATime'
  <2>1. (Made + 1) \div 2 = n - 1 /\ (Made' + 1) \div 2 = n
    <3>1. Made + 1 = 2 * (n - 1) + 1 /\ Made' + 1 = 2 * n /\ n - 1 \in Nat /\ n \in Nat
      BY <1>2, <1>5
    <3> HIDE DEF n
    <3> QED BY <3>1, Halves
  <2>2. InWork = 1 /\ InWork' = 0 /\ UNCHANGED <<requests, broadcast>>
    BY <1>1 DEF InWork
  <2>3. (Len(broadcast) + 1) \div 2 \in Nat /\ requests \in Nat
    BY DEF CameraInv, CameraTypeOK, Histories
  <2>4. requests + 1 + ((n - 1) - (Len(broadcast) + 1) \div 2) = 1
    BY <2>1, <2>2, <1>1 DEF CameraInv, OneAtATime
  <2>5. requests + 0 + (n - (Len(broadcast) + 1) \div 2) = 1
    BY <2>3, <2>4, <1>2
  <2> QED BY <2>1, <2>2, <2>5 DEF OneAtATime
<1> QED BY <1>6, <1>7, <1>8, <1>9, <1>10, <1>11 DEF CameraInv

LEMMA WriteStatsInv ==
  ASSUME CameraInv, WriteStats
  PROVE  CameraInv'
<1> DEFINE m == <<"stats", frame, motion>>
           n == Len(captured)
<1>1. /\ stage = "stats" /\ stage' = "request" /\ output' = Append(output, m)
      /\ UNCHANGED <<driverVars, requests, buffer, frame, last, motion, up, broadcast, captured>>
  BY DEF WriteStats
<1>2. /\ n \in Nat \ {0} /\ frame = captured[n] /\ motion = Taken(n - 1)
      /\ last = Taken(n) /\ Made = 2 * n - 1
  BY <1>1 DEF CameraInv, FrameInWork, Packets, Histories, Taken
<1>3. m \in Message
  BY CameraAssumption DEF CameraInv, CameraTypeOK, Message
<1>4. m = Passed(Made + 1)
  <2>1. Made + 1 = 2 * n
    BY <1>2
  <2> HIDE DEF n
  <2> QED BY <2>1, <1>2, PassedStats
<1>5. /\ Made' = Made + 1 /\ output' \in Seq(Message)
      /\ \A i \in 1 .. Len(broadcast) : broadcast'[i] = Passed(i)'
      /\ \A i \in 1 .. Len(output') : output'[i] = Passed(Len(broadcast) + i)'
  BY <1>1, <1>3, <1>4, WriteKeepsPackets
<1>6. CameraTypeOK'
  BY <1>1 DEF CameraInv, CameraTypeOK, driverVars
<1>7. Histories'
  BY <1>1, <1>5 DEF CameraInv, Histories
<1>8. BuffersApart' /\ PicturesAscend'
  BY <1>1 DEF CameraInv, BuffersApart, PicturesAscend, driverVars
<1>9. FrameInWork'
  BY <1>1, <1>2 DEF FrameInWork, Taken
<1>10. Packets'
  <2>1. Made' = 2 * n
    BY <1>2, <1>5
  <2> QED BY <2>1, <1>1, <1>5 DEF Packets
<1>11. OneAtATime'
  <2>1. (Made + 1) \div 2 = n /\ (Made' + 1) \div 2 = n
    <3>1. Made + 1 = 2 * n /\ Made' + 1 = 2 * n + 1 /\ n \in Nat
      BY <1>2, <1>5
    <3> HIDE DEF n
    <3> QED BY <3>1, Halves
  <2>2. InWork = 0 /\ InWork' = 0 /\ UNCHANGED <<requests, broadcast>>
    BY <1>1 DEF InWork
  <2> QED BY <2>1, <2>2, <1>1 DEF CameraInv, OneAtATime
<1> QED BY <1>6, <1>7, <1>8, <1>9, <1>10, <1>11 DEF CameraInv

LEMMA UnplugInv ==
  ASSUME CameraInv, Unplug
  PROVE  CameraInv'
<1>1. /\ stage # "gone" /\ stage' = "gone" /\ requests' = 0
      /\ output' = Append(output, <<"exit">>)
      /\ UNCHANGED <<driverVars, buffer, frame, last, motion, up, broadcast, captured>>
  BY DEF Unplug
<1>2. output \in Seq(Message) /\ <<"exit">> \in Message /\ Len(output) \in Nat
  BY DEF CameraInv, Histories, Message
<1>3. /\ output' \in Seq(Message) /\ Len(output') = Len(output) + 1
      /\ \A i \in 1 .. Len(output) : output'[i] = output[i]
      /\ output'[Len(output) + 1] = <<"exit">>
  BY <1>1, <1>2
<1>4. CameraTypeOK' /\ Histories'
  BY <1>1, <1>3 DEF CameraInv, CameraTypeOK, Histories, driverVars
<1>5. BuffersApart' /\ PicturesAscend'
  BY <1>1 DEF CameraInv, BuffersApart, PicturesAscend, driverVars
<1>6. FrameInWork' /\ OneAtATime'
  BY <1>1 DEF FrameInWork, OneAtATime
<1>7. Packets'
  <2>1. \A i : Passed(i)' = Passed(i)
    BY <1>1 DEF Passed
  <2>2. \A i \in 1 .. Len(output') : i \in 1 .. Len(output) \/ i = Len(output')
    BY <1>2, <1>3
  <2>3. ASSUME NEW i \in 1 .. Len(output')
        PROVE  \/ output'[i] = <<"exit">> /\ i = Len(output')
               \/ output'[i] = Passed(Len(broadcast) + i)
    BY <2>2, <1>1, <1>2, <1>3 DEF CameraInv, Packets
  <2>4. \A i \in 1 .. Len(broadcast) : broadcast[i] = Passed(i)
    BY DEF CameraInv, Packets
  <2> QED BY <2>1, <2>3, <2>4, <1>1 DEF Packets
<1> QED BY <1>4, <1>5, <1>6, <1>7 DEF CameraInv

(* Whatever the server is given was due next, and was asked for once.      *)
LEMMA PassOnInv ==
  ASSUME CameraInv, PassOn
  PROVE  CameraInv'
<1>1. PICK m : m = Head(output)
  OBVIOUS
<1>2. /\ output # <<>> /\ output' = Tail(output)
      /\ broadcast' = IF m[1] = "exit" THEN broadcast ELSE Append(broadcast, m)
      /\ requests' = IF m[1] = "jpeg" /\ stage # "gone" THEN requests + 1 ELSE requests
      /\ up' \in BOOLEAN
      /\ UNCHANGED <<driverVars, programVars, captured>>
  BY <1>1 DEF PassOn
<1>3. /\ output \in Seq(Message) /\ broadcast \in Seq(Message)
      /\ Len(output) \in Nat /\ Len(broadcast) \in Nat /\ requests \in Nat
  BY DEF CameraInv, CameraTypeOK, Histories
<1>4. m \in Message /\ m = output[1] /\ Len(output) > 0
  BY <1>1, <1>2, <1>3
<1>5. /\ output' \in Seq(Message) /\ Len(output') = Len(output) - 1
      /\ \A i \in 1 .. Len(output') : output'[i] = output[i + 1]
  BY <1>2, <1>3
<1>6. CameraTypeOK'
  BY <1>2, <1>3 DEF CameraInv, CameraTypeOK, driverVars, programVars
<1>7. BuffersApart' /\ PicturesAscend' /\ FrameInWork'
  BY <1>2 DEF CameraInv, BuffersApart, PicturesAscend, FrameInWork, Taken, driverVars, programVars
<1>8. \A i : Passed(i)' = Passed(i)
  BY <1>2 DEF Passed
<1>9. CASE m = <<"exit">>
  <2>1. m[1] = "exit"
    BY <1>9
  <2>2. stage = "gone" /\ Len(output) = 1
    <3>1. Len(broadcast) + 1 \in Nat /\ 1 \in 1 .. Len(output)
      BY <1>3, <1>4
    <3>2. Passed(Len(broadcast) + 1) # <<"exit">>
      BY <3>1, PassedKind
    <3>3. \/ output[1] = <<"exit">> /\ 1 = Len(output) /\ stage = "gone"
          \/ output[1] = Passed(Len(broadcast) + 1)
      BY <3>1 DEF CameraInv, Packets
    <3> QED BY <3>2, <3>3, <1>4, <1>9
  <2>3. Len(output') = 0 /\ broadcast' = broadcast /\ stage' = "gone"
    BY <2>1, <2>2, <1>2, <1>5 DEF programVars
  <2>4. Histories'
    BY <2>3, <1>2, <1>3, <1>5 DEF CameraInv, Histories
  <2>5. Packets' /\ OneAtATime'
    BY <2>3, <1>8 DEF CameraInv, Packets, OneAtATime
  <2> QED BY <2>4, <2>5, <1>6, <1>7 DEF CameraInv
<1>10. CASE m # <<"exit">>
  <2> DEFINE n == Len(broadcast) + 1
  <2>1. m = Passed(n)
    BY <1>3, <1>4, <1>10 DEF CameraInv, Packets
  <2>2. m[1] = IF n % 2 = 1 THEN "jpeg" ELSE "stats"
    <3>1. n \in Nat
      BY <1>3
    <3> HIDE DEF n
    <3> QED BY <3>1, <2>1, PassedKind
  <2>3. /\ broadcast' = Append(broadcast, m) /\ broadcast' \in Seq(Message)
        /\ Len(broadcast') = Len(broadcast) + 1
        /\ \A i \in 1 .. Len(broadcast) : broadcast'[i] = broadcast[i]
        /\ broadcast'[Len(broadcast) + 1] = m
    BY <2>2, <1>2, <1>3, <1>4
  <2>4. Made' = Made
    BY <2>3, <1>3, <1>5 DEF Made
  <2>5. Histories'
    BY <2>3, <1>2, <1>5 DEF CameraInv, Histories
  <2>6. \A i \in 1 .. Len(broadcast') : broadcast'[i] = Passed(i)
    <3> TAKE i \in 1 .. Len(broadcast')
    <3>1. CASE i \in 1 .. Len(broadcast)
      BY <3>1, <2>3 DEF CameraInv, Packets
    <3>2. CASE i = n
      BY <3>2, <2>1, <2>3
    <3> QED BY <3>1, <3>2, <2>3, <1>3
  <2>7. ASSUME NEW i \in 1 .. Len(output')
        PROVE  \/ output'[i] = <<"exit">> /\ i = Len(output') /\ stage = "gone"
               \/ output'[i] = Passed(Len(broadcast') + i)
    <3>1. i + 1 \in 1 .. Len(output) /\ output'[i] = output[i + 1]
      BY <1>3, <1>5
    <3>2. (i + 1 = Len(output)) <=> (i = Len(output'))
      BY <1>3, <1>5
    <3>3. Len(broadcast) + (i + 1) = Len(broadcast') + i
      BY <2>3, <1>3
    <3> QED BY <3>1, <3>2, <3>3 DEF CameraInv, Packets
  <2>8. Packets'
    BY <2>4, <2>6, <2>7, <1>2, <1>8 DEF CameraInv, Packets, programVars
  <2>9. OneAtATime'
    <3> SUFFICES ASSUME stage # "gone" PROVE OneAtATime'
      BY <1>2 DEF OneAtATime, programVars
    <3>1. requests + InWork + ((Made + 1) \div 2 - n \div 2) = 1
      BY DEF CameraInv, OneAtATime
    <3>2. InWork' = InWork /\ InWork \in Nat /\ (Made + 1) \div 2 \in Nat
      BY <1>2, <1>3 DEF InWork, programVars, Made
    <3>3. n \in Nat /\ Len(broadcast') + 1 = n + 1
      BY <2>3, <1>3
    <3>4. requests' = IF n % 2 = 1 THEN requests + 1 ELSE requests
      BY <2>2, <1>2
    <3>5. PICK k \in Nat : n = 2 * k \/ n = 2 * k + 1
      <4> HIDE DEF n
      <4> QED BY <3>3, Halves
    <3> HIDE DEF n
    <3>6. CASE n = 2 * k
      <4>1. n \div 2 = k /\ (n + 1) \div 2 = k /\ n % 2 = 0
        BY <3>6, Halves
      <4> QED BY <4>1, <3>1, <3>2, <3>3, <3>4, <2>4 DEF OneAtATime
    <3>7. CASE n = 2 * k + 1
      <4>1. n \div 2 = k /\ n % 2 = 1
        BY <3>7, Halves
      <4>2. (n + 1) \div 2 = k + 1
        <5>1. n + 1 = 2 * (k + 1) /\ k + 1 \in Nat
          BY <3>7
        <5> QED BY <5>1, Halves
      <4>3. requests' = requests + 1
        BY <4>1, <3>4
      <4>4. requests + 1 + InWork + ((Made + 1) \div 2 - (k + 1)) = 1
        BY <4>1, <3>1, <3>2, <1>3
      <4> QED BY <4>2, <4>3, <4>4, <3>2, <3>3, <2>4 DEF OneAtATime
    <3> QED BY <3>5, <3>6, <3>7
  <2> QED BY <2>5, <2>8, <2>9, <1>6, <1>7 DEF CameraInv
<1> QED BY <1>9, <1>10

LEMMA CameraNextInv == CameraInv /\ [CameraNext]_v4lVars => CameraInv'
<1> SUFFICES ASSUME CameraInv, [CameraNext]_v4lVars PROVE CameraInv'
  OBVIOUS
<1>1. CASE UNCHANGED v4lVars
  <2> USE <1>1 DEF v4lVars, driverVars, programVars
  <2>1. CameraTypeOK' /\ Histories'
    BY DEF CameraInv, CameraTypeOK, Histories
  <2>2. BuffersApart' /\ PicturesAscend'
    BY DEF CameraInv, BuffersApart, PicturesAscend
  <2>3. FrameInWork' /\ Packets' /\ OneAtATime'
    BY DEF CameraInv, FrameInWork, Taken, Packets, Passed, OneAtATime, InWork, Made
  <2> QED BY <2>1, <2>2, <2>3 DEF CameraInv
<1>2. CASE Capture
  BY <1>2, CaptureInv
<1>3. CASE ReadRequest
  BY <1>3, ReadRequestInv
<1>4. CASE Dequeue
  BY <1>4, DequeueInv
<1>5. CASE SumFrame
  BY <1>5, SumInv
<1>6. CASE Requeue
  BY <1>6, RequeueInv
<1>7. CASE WriteJpeg
  BY <1>7, WriteJpegInv
<1>8. CASE WriteStats
  BY <1>8, WriteStatsInv
<1>9. CASE Unplug
  BY <1>9, UnplugInv
<1>10. CASE PassOn
  BY <1>10, PassOnInv
<1> QED BY <1>1, <1>2, <1>3, <1>4, <1>5, <1>6, <1>7, <1>8, <1>9, <1>10
        DEF CameraNext, CameraProgram

LEMMA CameraInvariance == CameraSpec => []CameraInv
BY CameraInitInv, CameraNextInv, PTL DEF CameraSpec

-----------------------------------------------------------------------------
(* Every reachable state of the camera has the types of CameraTypeOK.      *)
THEOREM CameraTypeCorrect == CameraSpec => []CameraTypeOK
<1>1. CameraInv => CameraTypeOK
  BY DEF CameraInv
<1> QED BY <1>1, CameraInvariance, PTL

LEMMA FramesTrueOfInv == CameraInv => FramesTrue
<1> SUFFICES ASSUME CameraInv PROVE FramesTrue
  OBVIOUS
<1>1. \A i \in 1 .. (Len(captured) - 1) : captured[i] < captured[i + 1]
  <2> TAKE i \in 1 .. (Len(captured) - 1)
  <2>1. i \in 1 .. Len(captured) /\ i + 1 \in 1 .. Len(captured) /\ i < i + 1
    BY DEF CameraInv, Histories
  <2> QED BY <2>1 DEF CameraInv, PicturesAscend
<1>2. DOMAIN broadcast = 1 .. Len(broadcast)
  BY DEF CameraInv, Histories
<1> QED BY <1>1, <1>2 DEF FramesTrue, CameraInv, Packets

(* The pictures on their way to the server: those with odd numbers among   *)
(* the packets that were made and not passed on.                           *)
LEMMA JpegsOfInv ==
  ASSUME CameraInv, stage # "gone"
  PROVE  Jpegs = {i \in 1 .. Len(output) : (Len(broadcast) + i) % 2 = 1}
<1>1. output \in Seq(Message) /\ DOMAIN output = 1 .. Len(output) /\ Len(broadcast) \in Nat
  BY DEF CameraInv, Histories
<1>2. \A i \in 1 .. Len(output) : output[i] = Passed(Len(broadcast) + i)
  BY DEF CameraInv, Packets
<1>3. ASSUME NEW i \in 1 .. Len(output)
      PROVE  (output[i][1] = "jpeg") <=> ((Len(broadcast) + i) % 2 = 1)
  <2>1. Len(broadcast) + i \in Nat
    BY <1>1
  <2> QED BY <2>1, <1>2, PassedKind
<1> QED BY <1>1, <1>3 DEF Jpegs

LEMMA RateLimitedOfInv == CameraInv => RateLimited
<1> SUFFICES ASSUME CameraInv, stage # "gone"
             PROVE  /\ Len(output) <= 3
                    /\ requests + InWork + Cardinality(Jpegs) = 1
  BY DEF RateLimited, InWork
<1> DEFINE b == Len(broadcast)
           n == Len(output)
           J == {i \in 1 .. n : (b + i) % 2 = 1}
           c == (b + n + 1) \div 2 - (b + 1) \div 2
<1>1. b \in Nat /\ n \in Nat /\ requests \in Nat /\ InWork \in {0, 1}
  BY DEF CameraInv, CameraTypeOK, Histories, InWork
<1>2. Jpegs = J
  BY JpegsOfInv
<1>3. requests + InWork + c = 1
  BY DEF CameraInv, OneAtATime, Made
<1> HIDE DEF b, n
<1>4. c \in 0 .. 1
  BY <1>1, <1>3
<1>5. n <= 3
  BY <1>1, <1>4
<1>6. CASE c = 0
  <2>1. J = {}
    BY <1>1, <1>5, <1>6
  <2>2. Cardinality(J) = 0
    BY <2>1, FS_EmptySet
  <2> QED BY <2>2, <1>2, <1>3, <1>5, <1>6 DEF n
<1>7. CASE c = 1
  <2>1. \E i \in 1 .. n : J = {i}
    <3>1. CASE b % 2 = 0
      <4>1. J = {1}
        BY <3>1, <1>1, <1>5, <1>7
      <4> QED BY <4>1, <1>1
    <3>2. CASE b % 2 = 1
      <4>1. J = {2}
        BY <3>2, <1>1, <1>5, <1>7
      <4> QED BY <4>1, <1>1
    <3> QED BY <3>1, <3>2, <1>1
  <2>2. Cardinality(J) = 1
    BY <2>1, FS_Singleton
  <2> QED BY <2>2, <1>2, <1>3, <1>5, <1>7 DEF n
<1> QED BY <1>4, <1>6, <1>7

(* Whatever buffers the driver fills while v4l.c makes a frame and writes  *)
(* its two packets, and whenever the server asks for the next one: what it *)
(* passes on is each picture and its stats in the order of the camera, and *)
(* no more than one picture is asked for, made or on its way.              *)
THEOREM V4lFramesAlways == CameraSpec => []V4lFrames
<1>1. CameraInv => V4lFrames
  BY FramesTrueOfInv, RateLimitedOfInv DEF V4lFrames
<1> QED BY <1>1, CameraInvariance, PTL

(***************************************************************************)
(* Axo.  On the way to the board the invariant is that of Port: the        *)
(* packets written are those the board has, the one in hand and those that *)
(* wait.  On the way back everything is numbered by the request that it    *)
(* answers: the numbers of the messages in the mailbox ascend and are      *)
(* below those of the transfers, and the pieces of one answer follow each  *)
(* other.  A slot is right because a tag that is not mixed has at most one *)
(* request that is not answered, of the client in the slot.                *)
(***************************************************************************)
Wire == Clients \X Parts \X Nat
Arrived == {Garbage} \cup (Clients \X Tags \X Nat \X {"answer"})

Conversation == [at: {"idle", "writes", "waits", "got", "timeout", "down"}, tag: Tags \cup {NoOne},
                 ops: Nat, answer: Seq(Arrived)]
Posted == [type: {"send"}, bytes: Seq(Wire)] \cup [type: {"call"}, from: Clients, tag: Tags, bytes: Seq(Wire)]
            \cup [type: {"data"}, bytes: Seq(Arrived)] \cup [type: {"exit"}]

AxoTypes ==
  /\ client \in [Clients -> Conversation]
  /\ inbox \in Seq(Posted)
  /\ waiting \in [Tags -> Clients \cup {NoOne}]
  /\ driver \in BOOLEAN /\ within \in BOOLEAN
  /\ packets \in Seq(Seq(Wire)) /\ board \in Seq(Seq(Wire)) /\ written \in Seq(Seq(Wire))
  /\ rest \in Seq(Wire) /\ message \in Seq(Wire)
  /\ transfers \in Seq(Seq(Arrived)) /\ collected \in Seq(Arrived)
  /\ owed \in [Tags -> Int] /\ mixed \subseteq Tags
  /\ start \in Nat /\ (Len(collected) <= RoomSize \/ Len(collected) = start)
  /\ ~driver => packets = <<>> /\ rest = <<>> /\ ~within

(* On the way to the board nothing is lost, and what is not a packet yet   *)
(* is the one that the main thread is at.                                  *)
InHand == IF within THEN 1 ELSE 0

Sent ==
  /\ Len(board) <= Len(written)
  /\ \A k \in 1..Len(board) : board[k] = written[k]
  /\ driver => /\ Len(written) = Len(board) + InHand + Len(packets)
               /\ within => written[Len(board) + 1] = message \o rest
               /\ \A i \in 1..Len(packets) : written[Len(board) + InHand + i] = packets[i]
               /\ ~within => message = <<>> /\ rest = <<>>

(* Whoever is in a slot or has a call in the mailbox has not been answered *)
(* and does nothing else.                                                  *)
Asking == {"waits", "timeout", "down"}

Asked(m) == 
  /\ client[m.from].at \in Asking /\ client[m.from].tag = m.tag
  /\ m.bytes # <<>> /\ m.bytes[1] = <<m.from, m.tag, client[m.from].ops>>
  /\ \A tag \in Tags : waiting[tag] # m.from

SlotsHeld ==
  \A tag \in Tags : waiting[tag] # NoOne =>
    client[waiting[tag]].at \in Asking /\ client[waiting[tag]].tag = tag

CallsAsked == \A i \in 1..Len(inbox) : inbox[i].type = "call" => Asked(inbox[i])

CallsOnce ==
  \A i, j \in 1..Len(inbox) :
    inbox[i].type = "call" /\ inbox[j].type = "call" /\ inbox[i].from = inbox[j].from => i = j

Untagged(bytes) == bytes = <<>> \/ bytes[1][2] \notin Tags

SendsUntagged == \A i \in 1..Len(inbox) : inbox[i].type = "send" => Untagged(inbox[i].bytes)

Slots == SlotsHeld /\ CallsAsked /\ CallsOnce /\ SendsUntagged

(* The requests among the packets behind the first n.  For a tag that is   *)
(* not mixed there is one at most, of the client in the slot, and it is    *)
(* owed.                                                                   *)
RequestAt(k, tag) == written[k] # <<>> /\ written[k][1][2] = tag

Outstanding(n) ==
  \A tag \in Tags \ mixed :
    /\ owed[tag] \in {0, 1}
    /\ \A k \in (n + 1)..Len(written) : RequestAt(k, tag) =>
         /\ owed[tag] = 1 /\ waiting[tag] # NoOne
         /\ written[k][1] = <<waiting[tag], tag, client[waiting[tag]].ops>>
    /\ \A j, k \in (n + 1)..Len(written) : RequestAt(j, tag) /\ RequestAt(k, tag) => j = k

(* What comes from the board is numbered by the requests.  A message may   *)
(* have garbage before the answer; a transfer is a piece of an answer,     *)
(* from some byte on.                                                      *)
Reply(k) == <<written[k][1][1], written[k][1][2], written[k][1][3], "answer">>

Given(g, length, k) == [i \in 1..(g + length) |-> IF i <= g THEN Garbage ELSE Reply(k)]

More(from) == from + Chunk <= ReplySize

Piece(k, from) == [i \in 1..(IF More(from) THEN Chunk ELSE ReplySize - from) |-> Reply(k)]

Numbered(k) == k \in 1..Len(board) /\ written[k] # <<>> /\ written[k][1][2] \in Tags

(* n: the last request whose answer came to the server, or another packet. *)
(* ser: the requests of the messages in the mailbox, for those of the      *)
(* board.  lab: the requests of the transfers, and where they begin.       *)
InOrder(n, ser, lab) ==
  /\ n \in Nat /\ n <= Len(board) /\ ser \in Seq(Nat) /\ lab \in Seq(Nat \X Nat)
  /\ Len(ser) = Len(inbox) /\ Len(lab) = Len(transfers)
  /\ \A i \in 1..Len(inbox) : inbox[i].type = "data" =>
       /\ Numbered(ser[i]) /\ n < ser[i]
       /\ \A j \in 1..Len(inbox) : inbox[j].type = "data" /\ i < j => ser[i] < ser[j]
       /\ \A j \in 1..Len(lab) : ser[i] < lab[j][1]
  /\ \A i \in 1..Len(lab) :
       /\ Numbered(lab[i][1]) /\ n < lab[i][1]
       /\ \A j \in 1..Len(lab) : i < j => lab[i][1] <= lab[j][1] /\ (~More(lab[i][2]) => lab[i][1] < lab[j][1])

Messages(ser) ==
  \A i \in 1..Len(inbox) : inbox[i].type = "data" =>
    \E g \in Nat : inbox[i].bytes = Given(g, ReplySize, ser[i])

Pieces(lab) ==
  /\ \A i \in 1..Len(lab) : lab[i][2] <= ReplySize /\ transfers[i] = Piece(lab[i][1], lab[i][2])
  /\ \A i \in 1..(Len(lab) - 1) :
       IF More(lab[i][2]) THEN lab[i + 1] = <<lab[i][1], lab[i][2] + Chunk>> ELSE lab[i + 1][2] = 0
  /\ lab # <<>> => ~More(lab[Len(lab)][2])

Collected(lab) ==
  driver => \E g \in Nat :
    IF lab = <<>> THEN collected = [i \in 1..g |-> Garbage]
    ELSE collected = Given(g, lab[1][2], lab[1][1])

Answering ==
  \E n, ser, lab :
    Outstanding(n) /\ InOrder(n, ser, lab) /\ Messages(ser) /\ Pieces(lab) /\ Collected(lab)

AxoInv == AxoTypes /\ Sent /\ Slots /\ OwnReply /\ Answering

-----------------------------------------------------------------------------
LEMMA AxoTyped == AxoTypes => AxoTypeOK
BY DEF AxoTypes, AxoTypeOK, Conversation

(* The transfers of an answer.                                             *)
LEMMA DivideBy ==
  ASSUME NEW a \in Nat, NEW b \in Nat \ {0}
  PROVE  /\ a \div b \in Nat
         /\ (a \div b) * b <= a /\ a < (a \div b) * b + b
OBVIOUS

LEMMA TimesLess ==
  ASSUME NEW i \in Nat, NEW j \in Nat, NEW b \in Nat, i <= j
  PROVE  i * b \in Nat /\ i * b <= j * b
<1>1. PICK d \in Nat : j = i + d
  OBVIOUS
<1>2. j * b = i * b + d * b
  BY <1>1
<1>3. i * b \in Nat /\ d * b \in Nat
  OBVIOUS
<1> QED
  BY <1>2, <1>3

LEMMA NextTimes ==
  ASSUME NEW i \in Nat, NEW b \in Nat, i > 0 PROVE i * b = (i - 1) * b + b
OBVIOUS

LEMMA CutIs ==
  ASSUME NEW k, NEW request, request = written[k][1]
  PROVE  \E q \in Nat :
           /\ Cut(Answer(request)) = [i \in 1..(q + 1) |-> Piece(k, (i - 1) * Chunk)]
           /\ \A i \in 1..(q + 1) : (i - 1) * Chunk \in Nat /\ (i - 1) * Chunk <= ReplySize
           /\ \A i \in 1..q : More((i - 1) * Chunk) /\ i * Chunk = (i - 1) * Chunk + Chunk
           /\ ~More(q * Chunk)
<1>1. ReplySize \in Nat /\ Chunk \in Nat \ {0}
  BY AxoAssumption
<1>2. PICK q \in Nat : q = ReplySize \div Chunk
  BY <1>1, DivideBy
<1>3. q * Chunk <= ReplySize /\ ReplySize < q * Chunk + Chunk /\ q * Chunk \in Nat
  BY <1>1, <1>2, DivideBy
<1>4. ASSUME NEW i \in 1..(q + 1)
      PROVE  /\ (i - 1) * Chunk \in Nat /\ (i - 1) * Chunk <= ReplySize
             /\ i * Chunk = (i - 1) * Chunk + Chunk
             /\ i <= q => i * Chunk <= ReplySize
             /\ i > q => i * Chunk > ReplySize
  <2>1. i \in Nat /\ i - 1 \in Nat /\ i - 1 <= q /\ i > 0
    OBVIOUS
  <2>2. (i - 1) * Chunk \in Nat /\ (i - 1) * Chunk <= q * Chunk
    BY <1>1, <2>1, TimesLess
  <2>3. i * Chunk = (i - 1) * Chunk + Chunk
    BY <1>1, <2>1, NextTimes
  <2>4. i <= q => i * Chunk <= q * Chunk
    BY <1>1, <2>1, TimesLess
  <2>5. i > q => i - 1 = q
    OBVIOUS
  <2>6. i > q => (i - 1) * Chunk = q * Chunk
    BY <2>5
  <2> HIDE DEF More
  <2> QED
    BY <1>1, <1>3, <2>1, <2>2, <2>3, <2>4, <2>6
<1>5. PICK r : r = <<request[1], request[2], request[3], "answer">>
  OBVIOUS
<1>6. Answer(request) = [i \in 1..ReplySize |-> r] /\ Reply(k) = r
  BY <1>5 DEF Answer, Reply
<1>7. Len(Answer(request)) = ReplySize
  BY <1>1, <1>6
<1>8. Cut(Answer(request)) = [i \in 1..(q + 1) |->
        SubSeq(Answer(request), (i - 1) * Chunk + 1, IF i * Chunk <= ReplySize THEN i * Chunk ELSE ReplySize)]
  BY <1>2, <1>7 DEF Cut
<1>9. ASSUME NEW i \in 1..(q + 1)
      PROVE  SubSeq(Answer(request), (i - 1) * Chunk + 1, IF i * Chunk <= ReplySize THEN i * Chunk ELSE ReplySize)
               = Piece(k, (i - 1) * Chunk)
  <2>1. PICK from \in Nat : from = (i - 1) * Chunk
    BY <1>4
  <2>2. PICK to \in Nat : to = IF from + Chunk <= ReplySize THEN from + Chunk ELSE ReplySize
    BY <1>1
  <2>3. from <= ReplySize /\ i * Chunk = from + Chunk /\ from <= to /\ to <= ReplySize
    BY <1>1, <1>4, <2>1, <2>2
  <2>4. SubSeq([j \in 1..ReplySize |-> r], from + 1, to) = [j \in 1..(to - from) |-> r]
    BY <1>1, <2>3
  <2>5. to - from = IF More(from) THEN Chunk ELSE ReplySize - from
    BY <1>1, <2>2, <2>3 DEF More
  <2> QED
    BY <1>6, <2>1, <2>2, <2>3, <2>4, <2>5 DEF Piece
<1>10. Cut(Answer(request)) = [i \in 1..(q + 1) |-> Piece(k, (i - 1) * Chunk)]
  BY <1>8, <1>9
<1>11. \A i \in 1..q : More((i - 1) * Chunk) /\ i * Chunk = (i - 1) * Chunk + Chunk
  <2> TAKE i \in 1..q
  <2>1. i \in 1..(q + 1) /\ i <= q
    BY <1>2
  <2> QED
    BY <1>4, <2>1 DEF More
<1>12. ~More(q * Chunk)
  BY <1>1, <1>3 DEF More
<1> QED
  BY <1>4, <1>10, <1>11, <1>12

-----------------------------------------------------------------------------
(* More may be written: what was numbered keeps its number and its answer. *)
Grows ==
  /\ Len(written) <= Len(written') /\ \A k \in 1..Len(written) : written'[k] = written[k]
  /\ Len(board) <= Len(board')

LEMMA NumberedKept ==
  ASSUME AxoTypes, AxoTypes', Sent, Grows, NEW k, Numbered(k)
  PROVE  /\ Numbered(k)' /\ Reply(k)' = Reply(k)
         /\ \A g, l : Given(g, l, k)' = Given(g, l, k)
         /\ \A from : Piece(k, from)' = Piece(k, from)
<1>1. k \in 1..Len(board) /\ k \in 1..Len(written) /\ k \in 1..Len(board')
  <2>1. k \in 1..Len(board)
    BY DEF Numbered
  <2>2. Len(board) \in Nat /\ Len(written) \in Nat /\ Len(board') \in Nat
    BY SMTT(30) DEF AxoTypes
  <2>3. Len(board) <= Len(written) /\ Len(board) <= Len(board')
    BY DEF Sent, Grows
  <2> QED
    BY <2>1, <2>2, <2>3
<1>2. written'[k] = written[k]
  BY <1>1 DEF Grows
<1>3. Numbered(k)'
  BY <1>1, <1>2 DEF Numbered
<1>4. Reply(k)' = Reply(k)
  BY <1>2 DEF Reply
<1>5. ASSUME NEW g, NEW l PROVE Given(g, l, k)' = Given(g, l, k)
  BY <1>4 DEF Given
<1>6. ASSUME NEW from PROVE Piece(k, from)' = Piece(k, from)
  BY <1>4 DEF Piece, More
<1> QED
  BY <1>3, <1>4, <1>5, <1>6

LEMMA ReadingKept ==
  ASSUME AxoTypes, AxoTypes', Sent, Grows, transfers' = transfers,
         driver' => driver /\ collected' = collected,
         NEW n, NEW ser, NEW lab, InOrder(n, ser, lab), Pieces(lab), Collected(lab)
  PROVE  Pieces(lab)' /\ Collected(lab)'
<1>1. \A i \in 1..Len(lab) : Numbered(lab[i][1])
  BY DEF InOrder
<1>2. ASSUME NEW i \in 1..Len(lab) PROVE lab[i][2] <= ReplySize /\ transfers'[i] = Piece(lab[i][1], lab[i][2])'
  <2>1. PICK k : k = lab[i][1]
    OBVIOUS
  <2>2. PICK from : from = lab[i][2]
    OBVIOUS
  <2>3. Piece(k, from)' = Piece(k, from)
    BY <1>1, <2>1, NumberedKept
  <2> QED
    BY <2>1, <2>2, <2>3 DEF Pieces
<1>3. Pieces(lab)'
  BY <1>2 DEF Pieces, More
<1>4. Collected(lab)'
  <2> SUFFICES ASSUME driver' PROVE Collected(lab)'
    BY DEF Collected
  <2>1. PICK g \in Nat : IF lab = <<>> THEN collected = [i \in 1..g |-> Garbage]
                         ELSE collected = Given(g, lab[1][2], lab[1][1])
    BY DEF Collected
  <2>2. CASE lab = <<>>
    BY <2>1, <2>2 DEF Collected
  <2>3. CASE lab # <<>>
    <3>1. PICK k : k = lab[1][1]
      OBVIOUS
    <3>2. PICK from : from = lab[1][2]
      OBVIOUS
    <3>3. 1 \in 1..Len(lab)
      BY <2>3 DEF InOrder
    <3>4. Given(g, from, k)' = Given(g, from, k)
      BY <1>1, <3>1, <3>3, NumberedKept
    <3> QED
      BY <2>1, <2>3, <3>1, <3>2, <3>4 DEF Collected
  <2> QED
    BY <2>2, <2>3
<1> QED
  BY <1>3, <1>4

(* A message comes to the mailbox that is not of the board.                *)
LEMMA OrderPosted ==
  ASSUME AxoTypes, AxoTypes', Sent, Grows, NEW m \in Posted, m.type # "data", inbox' = Append(inbox, m),
         transfers' = transfers, driver' => driver /\ collected' = collected,
         NEW n, NEW ser, NEW lab, InOrder(n, ser, lab), Messages(ser), Pieces(lab), Collected(lab)
  PROVE  \E s : InOrder(n, s, lab)' /\ Messages(s)' /\ Pieces(lab)' /\ Collected(lab)'
<1>1. PICK s : s = Append(ser, 0)
  OBVIOUS
<1>2. /\ ser \in Seq(Nat) /\ inbox \in Seq(Posted) /\ Len(ser) = Len(inbox)
      /\ s \in Seq(Nat) /\ Len(s) = Len(inbox')
  <2>1. ser \in Seq(Nat) /\ inbox \in Seq(Posted) /\ Len(ser) = Len(inbox)
    BY DEF InOrder, AxoTypes
  <2>2. s \in Seq(Nat) /\ Len(s) = Len(ser) + 1 /\ Len(inbox') = Len(inbox) + 1
    BY <1>1, <2>1
  <2> QED
    BY <2>1, <2>2
<1>3. \A i \in 1..Len(inbox') : inbox'[i].type = "data" =>
        i \in 1..Len(inbox) /\ inbox'[i] = inbox[i] /\ s[i] = ser[i]
  BY <1>1, <1>2
<1>4. ASSUME NEW i \in 1..Len(inbox'), inbox'[i].type = "data"
      PROVE  /\ Numbered(s[i])' /\ n < s[i]
             /\ \A j \in 1..Len(inbox') : inbox'[j].type = "data" /\ i < j => s[i] < s[j]
             /\ \A j \in 1..Len(lab) : s[i] < lab[j][1]
             /\ \E g \in Nat : inbox'[i].bytes = Given(g, ReplySize, s[i])'
  <2>1. PICK k : k = s[i]
    OBVIOUS
  <2>2. Numbered(k)' /\ \A g : Given(g, ReplySize, k)' = Given(g, ReplySize, k)
    BY <1>3, <1>4, <2>1, NumberedKept DEF InOrder
  <2>3. PICK g \in Nat : inbox[i].bytes = Given(g, ReplySize, k)
    BY <1>3, <1>4, <2>1 DEF Messages
  <2>4. Numbered(s[i])'
    BY <2>1, <2>2
  <2>5. inbox'[i].bytes = Given(g, ReplySize, s[i])'
    BY <1>3, <1>4, <2>1, <2>2, <2>3
  <2>6. /\ n < s[i]
        /\ \A j \in 1..Len(inbox') : inbox'[j].type = "data" /\ i < j => s[i] < s[j]
        /\ \A j \in 1..Len(lab) : s[i] < lab[j][1]
    BY <1>3, <1>4 DEF InOrder
  <2> QED
    BY <2>4, <2>5, <2>6
<1>5. ASSUME NEW i \in 1..Len(lab) PROVE Numbered(lab[i][1])'
  <2>1. PICK k : k = lab[i][1]
    OBVIOUS
  <2>2. Numbered(k)'
    BY <2>1, NumberedKept DEF InOrder
  <2> QED
    BY <2>1, <2>2
<1>6. n \in Nat /\ n <= Len(board')
  BY DEF InOrder, Grows, AxoTypes
<1>7. InOrder(n, s, lab)'
  BY <1>2, <1>4, <1>5, <1>6 DEF InOrder, More
<1>8. Messages(s)'
  BY <1>4 DEF Messages
<1>9. Pieces(lab)' /\ Collected(lab)'
  BY ReadingKept
<1> QED
  BY <1>7, <1>8, <1>9

(* A message is taken from the mailbox.                                    *)
LEMMA OrderTaken ==
  ASSUME AxoTypes, AxoTypes', Sent, Grows, inbox # <<>>, inbox' = Tail(inbox),
         transfers' = transfers, driver' = driver /\ collected' = collected,
         NEW n, NEW ser, NEW lab, InOrder(n, ser, lab), Messages(ser), Pieces(lab), Collected(lab),
         NEW o \in Nat, o = IF inbox[1].type = "data" THEN ser[1] ELSE n
  PROVE  \E s : InOrder(o, s, lab)' /\ Messages(s)' /\ Pieces(lab)' /\ Collected(lab)'
<1>1. PICK s : s = Tail(ser)
  OBVIOUS
<1>2. /\ ser \in Seq(Nat) /\ inbox \in Seq(Posted) /\ Len(ser) = Len(inbox) /\ ser # <<>>
      /\ s \in Seq(Nat) /\ Len(s) = Len(inbox') /\ Len(inbox) = Len(inbox') + 1 /\ Len(inbox') \in Nat
  BY <1>1 DEF InOrder, AxoTypes
<1>3. \A i \in 1..Len(inbox') : i + 1 \in 1..Len(inbox) /\ inbox'[i] = inbox[i + 1] /\ s[i] = ser[i + 1]
  BY <1>1, <1>2
<1>4. ASSUME NEW i \in 1..Len(inbox'), inbox'[i].type = "data"
      PROVE  /\ Numbered(s[i])' /\ o < s[i]
             /\ \A j \in 1..Len(inbox') : inbox'[j].type = "data" /\ i < j => s[i] < s[j]
             /\ \A j \in 1..Len(lab) : s[i] < lab[j][1]
             /\ \E g \in Nat : inbox'[i].bytes = Given(g, ReplySize, s[i])'
  <2>1. PICK k : k = ser[i + 1]
    OBVIOUS
  <2>2. s[i] = k /\ inbox[i + 1].type = "data" /\ i + 1 \in 1..Len(inbox) /\ 1 \in 1..Len(inbox) /\ 1 < i + 1
    <3>1. i + 1 \in 1..Len(inbox) /\ inbox'[i] = inbox[i + 1] /\ s[i] = ser[i + 1]
      BY <1>3
    <3>2. 1 \in 1..Len(inbox) /\ 1 < i + 1
      BY <3>1
    <3> QED
      BY <1>4, <2>1, <3>1, <3>2
  <2>3. Numbered(k)' /\ \A g : Given(g, ReplySize, k)' = Given(g, ReplySize, k)
    BY <2>1, <2>2, NumberedKept DEF InOrder
  <2>4. PICK g \in Nat : inbox[i + 1].bytes = Given(g, ReplySize, k)
    BY <2>1, <2>2 DEF Messages
  <2>5. Numbered(s[i])'
    BY <2>2, <2>3
  <2>6. inbox'[i].bytes = Given(g, ReplySize, s[i])'
    BY <1>3, <1>4, <2>2, <2>3, <2>4
  <2>7. o < s[i]
    <3>1. n < ser[i + 1]
      BY <2>2 DEF InOrder
    <3>2. inbox[1].type = "data" => ser[1] < ser[i + 1]
      BY <2>2 DEF InOrder
    <3> QED
      BY <2>1, <2>2, <3>1, <3>2
  <2>8. \A j \in 1..Len(inbox') : inbox'[j].type = "data" /\ i < j => s[i] < s[j]
    <3> TAKE j \in 1..Len(inbox')
    <3>1. j + 1 \in 1..Len(inbox) /\ inbox'[j] = inbox[j + 1] /\ s[j] = ser[j + 1]
      BY <1>3
    <3>2. i < j => i + 1 < j + 1
      OBVIOUS
    <3> QED
      BY <2>1, <2>2, <3>1, <3>2 DEF InOrder
  <2>9. \A j \in 1..Len(lab) : s[i] < lab[j][1]
    BY <2>1, <2>2 DEF InOrder
  <2> QED
    BY <2>5, <2>6, <2>7, <2>8, <2>9
<1>5. ASSUME NEW i \in 1..Len(lab) PROVE Numbered(lab[i][1])' /\ o < lab[i][1]
  <2>1. PICK k : k = lab[i][1]
    OBVIOUS
  <2>2. Numbered(k)'
    BY <2>1, NumberedKept DEF InOrder
  <2>3. 1 \in 1..Len(inbox)
    BY <1>2
  <2>4. o < lab[i][1]
    BY <2>3 DEF InOrder
  <2> QED
    BY <2>1, <2>2, <2>4
<1>6. o <= Len(board')
  <2>1. 1 \in 1..Len(inbox) /\ n <= Len(board) /\ n \in Nat
    BY <1>2 DEF InOrder
  <2>2. Len(board) \in Nat /\ Len(board') \in Nat
    BY SMTT(30) DEF AxoTypes
  <2>3. Len(board) <= Len(board')
    BY DEF Grows
  <2>4. inbox[1].type = "data" => ser[1] \in 1..Len(board)
    BY <2>1 DEF InOrder, Numbered
  <2> QED
    BY <2>1, <2>2, <2>3, <2>4
<1>7. InOrder(o, s, lab)'
  BY <1>2, <1>4, <1>5, <1>6 DEF InOrder, More
<1>8. Messages(s)'
  BY <1>4 DEF Messages
<1>9. Pieces(lab)' /\ Collected(lab)'
  BY ReadingKept
<1> QED
  BY <1>7, <1>8, <1>9
-----------------------------------------------------------------------------
LEMMA PacketIs ==
  ASSUME AxoTypes, NEW c \in Clients, NEW part \in Parts
  PROVE  /\ Packet(c, part) \in Seq(Wire)
         /\ part \in Tags => Packet(c, part) # <<>> /\ Packet(c, part)[1] = <<c, part, client[c].ops>>
         /\ part \notin Tags => Packet(c, part) = <<>> \/ Packet(c, part)[1][2] \notin Tags
<1>1. PICK size \in Nat : size = Size[part] /\ (part \in Tags => size > 0)
  BY AxoAssumption DEF Parts
<1>2. PICK b : b = <<c, part, client[c].ops>>
  OBVIOUS
<1>3. b \in Wire /\ b[2] = part
  BY <1>2 DEF AxoTypes, Conversation, Wire
<1>4. Packet(c, part) = [i \in 1..size |-> b]
  BY <1>1, <1>2 DEF Packet
<1>5. Packet(c, part) \in Seq(Wire) /\ Len(Packet(c, part)) = size
  BY <1>3, <1>4
<1>6. size > 0 => Packet(c, part) # <<>> /\ Packet(c, part)[1] = b
  BY <1>4, <1>5
<1>7. size = 0 => Packet(c, part) = <<>>
  BY <1>5
<1> QED
  BY <1>1, <1>2, <1>3, <1>5, <1>6, <1>7

LEMMA PostedIs ==
  ASSUME NEW m \in Posted
  PROVE  /\ m.type \in {"send", "call", "data", "exit"}
         /\ m.type = "send" => m.bytes \in Seq(Wire)
         /\ m.type = "call" => m.from \in Clients /\ m.tag \in Tags /\ m.bytes \in Seq(Wire)
         /\ m.type = "data" => m.bytes \in Seq(Arrived)
BY DEF Posted

LEMMA OneMore ==
  ASSUME AxoTypes, NEW c \in Clients
  PROVE  [client EXCEPT ![c].at = "idle", ![c].ops = @ + 1] \in [Clients -> Conversation]
<1>1. PICK o : o = client[c].ops + 1
  OBVIOUS
<1>2. o \in Nat /\ client[c] \in Conversation
  BY <1>1 DEF AxoTypes, Conversation
<1>3. [client[c] EXCEPT !.at = "idle", !.ops = o] \in Conversation
  BY <1>2 DEF Conversation
<1>4. [client EXCEPT ![c] = [client[c] EXCEPT !.at = "idle", !.ops = o]] \in [Clients -> Conversation]
  BY <1>3 DEF AxoTypes
<1>5. [client EXCEPT ![c].at = "idle", ![c].ops = @ + 1]
        = [client EXCEPT ![c] = [client[c] EXCEPT !.at = "idle", !.ops = o]]
  BY <1>1, <1>2 DEF AxoTypes, Conversation
<1> QED
  BY <1>4, <1>5

LEMMA TypesOfOperations ==
  ASSUME AxoTypes, NEW c \in Clients, Operation(c) PROVE AxoTypes'
<1>1. {"head", "data"} \subseteq Parts /\ Tags \subseteq Parts /\ client \in [Clients -> Conversation]
  BY DEF Parts, AxoTypes
<1>2. CASE WriteHeader(c)
  <2>1. [type |-> "send", bytes |-> Packet(c, "head")] \in Posted
    BY <1>1, PacketIs DEF Posted
  <2>2. inbox' \in Seq(Posted)
    BY <1>2, <2>1 DEF WriteHeader, AxoTypes
  <2>3. client' \in [Clients -> Conversation]
    BY <1>1, <1>2 DEF WriteHeader, Conversation
  <2> QED
    BY <1>2, <2>2, <2>3 DEF WriteHeader, AxoTypes, threadVars, usbVars
<1>3. CASE WriteData(c)
  <2>1. [type |-> "send", bytes |-> Packet(c, "data")] \in Posted
    BY <1>1, PacketIs DEF Posted
  <2>2. inbox' \in Seq(Posted)
    BY <1>3, <2>1 DEF WriteData, AxoTypes
  <2>3. client' \in [Clients -> Conversation]
    BY <1>3, OneMore DEF WriteData
  <2> QED
    BY <1>3, <2>2, <2>3 DEF WriteData, AxoTypes, threadVars, usbVars
<1>4. ASSUME NEW tag \in Tags, Call(c, tag) PROVE AxoTypes'
  <2>1. [type |-> "call", from |-> c, tag |-> tag, bytes |-> Packet(c, tag)] \in Posted
    BY <1>1, PacketIs DEF Posted
  <2>2. inbox' \in Seq(Posted)
    BY <1>4, <2>1, SMTT(30) DEF Call, AxoTypes
  <2>3. client' \in [Clients -> Conversation]
    BY <1>1, <1>4 DEF Call, Conversation
  <2> QED
    BY <1>4, <2>2, <2>3, SMTT(30) DEF Call, AxoTypes, threadVars, usbVars
<1>5. CASE GiveUp(c)
  <2>1. client' \in [Clients -> Conversation]
    BY <1>1, <1>5, ZenonT(30) DEF GiveUp, Conversation
  <2> QED
    BY <1>5, <2>1 DEF GiveUp, AxoTypes, threadVars, usbVars
<1>6. CASE Continue(c)
  <2>1. client' \in [Clients -> Conversation]
    BY <1>6, OneMore DEF Continue
  <2> QED
    BY <1>6, <2>1 DEF Continue, AxoTypes, threadVars, usbVars
<1> QED
  BY <1>2, <1>3, <1>4, <1>5, <1>6 DEF Operation

LEMMA TypesOfHandle ==
  ASSUME AxoTypes, Handle PROVE AxoTypes'
<1>1. PICK m : m = Head(inbox)
  OBVIOUS
<1>2. m \in Posted /\ inbox' \in Seq(Posted)
  BY <1>1 DEF Handle, AxoTypes
<1>3. UNCHANGED <<driver, rest, within, collected, message, board, transfers, start>>
  BY DEF Handle, usbVars
<1>4. \A bytes \in Seq(Wire) : SendPacket(bytes) =>
        packets' \in Seq(Seq(Wire)) /\ written' \in Seq(Seq(Wire)) /\ (~driver => packets' = <<>>)
  BY DEF SendPacket, AxoTypes
<1>5. CASE m.type = "send"
  <2>1. SendPacket(m.bytes) /\ UNCHANGED <<client, waiting, owed, mixed>>
    BY <1>1, <1>5 DEF Handle
  <2> QED
    BY <1>2, <1>3, <1>4, <1>5, <2>1, PostedIs DEF AxoTypes
<1>6. CASE m.type = "call"
  <2>1. TakeCall(m)
    BY <1>1, <1>6 DEF Handle
  <2>2. m.from \in Clients /\ m.tag \in Tags /\ m.bytes \in Seq(Wire)
    BY <1>2, <1>6, PostedIs
  <2>3. waiting' \in [Tags -> Clients \cup {NoOne}] /\ owed' \in [Tags -> Int] /\ mixed' \subseteq Tags
    BY <2>1, <2>2 DEF TakeCall, AxoTypes
  <2>4. packets' \in Seq(Seq(Wire)) /\ written' \in Seq(Seq(Wire)) /\ (~driver => packets' = <<>>)
    BY <1>4, <2>1, <2>2 DEF TakeCall
  <2>5. client' = client
    BY <2>1 DEF TakeCall
  <2> QED
    BY <1>2, <1>3, <2>3, <2>4, <2>5 DEF AxoTypes
<1>7. CASE m.type = "data"
  <2>1. TakeData(m.bytes)
    BY <1>1, <1>7 DEF Handle
  <2>2. PICK bytes \in Seq(Arrived) : bytes = m.bytes
    BY <1>2, <1>7, PostedIs
  <2>3. client' \in [Clients -> Conversation]
    <3>1. Waiter(bytes) = NoOne \/ Waiter(bytes) \in Clients
      BY DEF Waiter, AxoTypes
    <3>2. ASSUME NEW c \in Clients
          PROVE  [client EXCEPT ![c].at = "got", ![c].answer = bytes] \in [Clients -> Conversation]
      <4>1. client \in [Clients -> Conversation] /\ client[c] \in Conversation
        BY DEF AxoTypes
      <4>2. [client[c] EXCEPT !.at = "got", !.answer = bytes] \in Conversation
        BY <4>1 DEF Conversation
      <4>3. [client EXCEPT ![c].at = "got", ![c].answer = bytes]
              = [client EXCEPT ![c] = [client[c] EXCEPT !.at = "got", !.answer = bytes]]
        BY <4>1 DEF Conversation
      <4>4. [client EXCEPT ![c] = [client[c] EXCEPT !.at = "got", !.answer = bytes]] \in [Clients -> Conversation]
        BY <4>1, <4>2
      <4> QED
        BY <4>3, <4>4
    <3> QED
      BY <2>1, <2>2, <3>1, <3>2 DEF TakeData, AxoTypes
  <2>4. waiting' \in [Tags -> Clients \cup {NoOne}]
    BY <2>1, <2>2 DEF TakeData, AxoTypes
  <2>5. owed' \in [Tags -> Int]
    <3>1. PICK tag : tag = Last(bytes)[2]
      OBVIOUS
    <3>2. owed' = [owed EXCEPT ![tag] = @ - 1]
      BY <2>1, <2>2, <3>1 DEF TakeData
    <3>3. owed \in [Tags -> Int]
      BY DEF AxoTypes
    <3>4. CASE tag \in Tags
      <4>1. PICK o \in Int : o = owed[tag] - 1
        BY <3>3, <3>4
      <4>2. owed' = [owed EXCEPT ![tag] = o]
        BY <3>2, <4>1
      <4> QED
        BY <3>3, <4>2
    <3>5. CASE tag \notin Tags
      <4>1. owed' = [t \in Tags |-> owed[t]]
        BY <3>2, <3>3, <3>5
      <4> QED
        BY <3>3, <4>1
    <3> QED
      BY <3>4, <3>5
  <2>6. UNCHANGED <<packets, written, mixed>>
    BY <2>1 DEF TakeData
  <2> QED
    BY <1>2, <1>3, <2>3, <2>4, <2>5, <2>6 DEF AxoTypes
<1>8. CASE m.type = "exit"
  <2>1. TakeExit
    BY <1>1, <1>8 DEF Handle
  <2> QED
    BY <1>2, <1>3, <2>1 DEF AxoTypes, TakeExit
<1> QED
  BY <1>2, <1>5, <1>6, <1>7, <1>8, PostedIs

LEMMA AnswerIs ==
  ASSUME NEW c \in Clients, NEW tag \in Tags, NEW k \in Nat
  PROVE  Answer(<<c, tag, k>>) \in Seq(Arrived)
BY AxoAssumption DEF Answer, Arrived

LEMMA TypesOfThreads ==
  ASSUME AxoTypes, NextPacket \/ NoRoom \/ Unplugged PROVE AxoTypes'
<1>1. CASE NextPacket
  BY <1>1 DEF NextPacket, AxoTypes, usbVars
<1>2. CASE NoRoom \/ Unplugged
  <2>1. [type |-> "exit"] \in Posted
    BY DEF Posted
  <2>2. Exit /\ UNCHANGED <<client, waiting, message, board, transfers, start, written, owed, mixed>>
    BY <1>2 DEF NoRoom, Unplugged, usbVars
  <2>3. inbox' \in Seq(Posted)
    BY <2>1, <2>2 DEF Exit, AxoTypes
  <2>4. collected' \in Seq(Arrived) /\ Len(collected') = 0
    BY <2>2 DEF Exit
  <2>5. Len(collected') <= RoomSize
    BY <2>4, AxoAssumption
  <2>6. /\ packets' = <<>> /\ rest' = <<>> /\ driver' = FALSE /\ within' = FALSE
        /\ packets' \in Seq(Seq(Wire)) /\ rest' \in Seq(Wire)
    BY <2>2 DEF Exit
  <2> QED
    BY <2>2, <2>3, <2>4, <2>5, <2>6 DEF AxoTypes
<1> QED
  BY <1>1, <1>2

LEMMA TypesOfTransfer ==
  ASSUME AxoTypes, Transfer PROVE AxoTypes'
<1>1. Chunk \in Nat \ {0} /\ rest \in Seq(Wire) /\ message \in Seq(Wire) /\ board \in Seq(Seq(Wire))
  BY AxoAssumption DEF AxoTypes
<1>2. PICK bytes : bytes = IF Full(rest) THEN SubSeq(rest, 1, Chunk) ELSE rest
  OBVIOUS
<1>3. Receive(bytes) /\ UNCHANGED <<client, inbox, waiting, driver, packets, collected, start, written, owed, mixed>>
  BY <1>2 DEF Transfer
<1>4. bytes \in Seq(Wire) /\ rest' \in Seq(Wire) /\ within' \in BOOLEAN
  <2>1. Len(rest) \in Nat
    BY <1>1
  <2>2. CASE Full(rest)
    <3>1. SubSeq(rest, 1, Chunk) \in Seq(Wire) /\ SubSeq(rest, Chunk + 1, Len(rest)) \in Seq(Wire)
      BY <1>1, <2>1, <2>2 DEF Full
    <3> QED
      BY <1>2, <2>2, <3>1 DEF Transfer, AxoTypes
  <2>3. CASE ~Full(rest)
    <3>1. bytes = rest /\ rest' = <<>> /\ within' = FALSE
      BY <1>2, <2>3 DEF Transfer
    <3>2. <<>> \in Seq(Wire)
      OBVIOUS
    <3> QED
      BY <1>1, <3>1, <3>2
  <2> QED
    BY <2>2, <2>3
<1>5. message \o bytes \in Seq(Wire)
  BY <1>1, <1>4
<1>6. message' \in Seq(Wire) /\ board' \in Seq(Seq(Wire))
  <2>1. PICK whole \in Seq(Wire) : whole = message \o bytes
    BY <1>5
  <2>2. (message' = whole /\ board' = board) \/ (message' = <<>> /\ board' = Append(board, whole))
    BY <1>3, <2>1 DEF Receive
  <2>3. Append(board, whole) \in Seq(Seq(Wire))
    BY <1>1
  <2>4. <<>> \in Seq(Wire)
    OBVIOUS
  <2> QED
    BY <1>1, <2>2, <2>3, <2>4
<1>7. transfers' \in Seq(Seq(Arrived))
  <2>1. CASE transfers' = transfers
    BY <2>1 DEF AxoTypes
  <2>2. CASE transfers' # transfers
    <3>1. PICK whole : whole = message \o bytes
      OBVIOUS
    <3>2. /\ whole \in Seq(Wire) /\ whole # <<>> /\ whole[1][2] \in Tags
          /\ transfers' = transfers \o Cut(Answer(whole[1]))
      BY <1>3, <1>5, <2>2, <3>1 DEF Receive
    <3>3. PICK c \in Clients, tag \in Parts, k \in Nat : whole[1] = <<c, tag, k>>
      <4>1. whole[1] \in Wire
        BY <3>2
      <4> QED
        BY <4>1 DEF Wire
    <3>4. PICK answer : answer = Answer(whole[1])
      OBVIOUS
    <3>5. answer \in Seq(Arrived)
      <4>1. tag \in Tags
        BY <3>2, <3>3
      <4> QED
        BY <3>3, <3>4, <4>1, AnswerIs
    <3>6. Cut(answer) \in Seq(Seq(Arrived))
      <4> DEFINE end(i) == IF i * Chunk <= Len(answer) THEN i * Chunk ELSE Len(answer)
                 part(i) == SubSeq(answer, (i - 1) * Chunk + 1, end(i))
      <4>1. PICK n \in Nat : n = Len(answer) \div Chunk + 1
        BY <1>1, <3>5, DivideBy
      <4>2. ASSUME NEW i \in 1..n PROVE part(i) \in Seq(Arrived)
        <5>1. i \in Nat /\ i - 1 \in Nat
          OBVIOUS
        <5>2. PICK a \in Nat : a = (i - 1) * Chunk
          BY <1>1, <5>1, TimesLess
        <5>3. PICK b \in Nat : b = end(i)
          BY <1>1, <3>5, <5>1, TimesLess
        <5>4. b <= Len(answer)
          <6>1. PICK stop \in Nat : stop = i * Chunk
            BY <1>1, <5>1, TimesLess
          <6> QED
            BY <3>5, <5>3, <6>1
        <5>5. SubSeq(answer, a + 1, b) \in Seq(Arrived)
          BY <3>5, <5>4
        <5> QED
          BY <5>2, <5>3, <5>5
      <4>3. Cut(answer) = [i \in 1..n |-> part(i)]
        BY <4>1 DEF Cut
      <4> HIDE DEF part
      <4>4. [i \in 1..n |-> part(i)] \in Seq(Seq(Arrived))
        BY <4>1, <4>2
      <4> QED
        BY <4>3, <4>4
    <3>7. transfers \in Seq(Seq(Arrived))
      BY DEF AxoTypes
    <3> QED
      BY <3>2, <3>4, <3>6, <3>7
  <2> QED
    BY <2>1, <2>2
<1>8. driver
  BY DEF AxoTypes, Transfer
<1> QED
  BY <1>3, <1>4, <1>6, <1>7, <1>8 DEF AxoTypes

(* A transfer of the board is never longer than a full one.                *)
LEMMA TransferShort ==
  ASSUME AxoTypes, transfers # <<>>, NEW lab, Len(lab) = Len(transfers), lab \in Seq(Nat \X Nat), Pieces(lab)
  PROVE  /\ Len(Head(transfers)) = IF More(lab[1][2]) THEN Chunk ELSE ReplySize - lab[1][2]
         /\ More(lab[1][2]) <=> Len(Head(transfers)) >= Chunk
         /\ Len(Head(transfers)) <= Chunk
<1>1. Chunk \in Nat \ {0} /\ ReplySize \in Nat
  BY AxoAssumption
<1>2. 1 \in 1..Len(lab) /\ Head(transfers) = transfers[1]
  BY DEF AxoTypes
<1>3. PICK k, from \in Nat : lab[1][1] = k /\ lab[1][2] = from
  BY <1>2
<1>4. from <= ReplySize /\ Head(transfers) = Piece(k, from)
  BY <1>2, <1>3 DEF Pieces
<1>5. PICK size \in Nat : size = IF from + Chunk <= ReplySize THEN Chunk ELSE ReplySize - from
  <2>1. from <= ReplySize
    BY <1>4
  <2>2. (IF from + Chunk <= ReplySize THEN Chunk ELSE ReplySize - from) \in Nat
    BY <1>1, <1>3, <2>1
  <2> QED
    BY <2>2
<1>6. Piece(k, from) = [i \in 1..size |-> Reply(k)]
  BY <1>5 DEF Piece, More
<1>7. Len(Piece(k, from)) = size
  BY <1>6
<1>8. More(from) <=> from + Chunk <= ReplySize
  BY DEF More
<1>9. Len(Head(transfers)) = size /\ lab[1][2] = from
  BY <1>3, <1>4, <1>7
<1>10. /\ size = IF More(from) THEN Chunk ELSE ReplySize - from
       /\ More(from) <=> size >= Chunk
       /\ size <= Chunk
  BY <1>1, <1>3, <1>5, <1>8
<1> QED
  BY <1>9, <1>10

LEMMA TypesOfReadTransfer ==
  ASSUME AxoTypes, Answering, ReadTransfer PROVE AxoTypes'
<1>1. UNCHANGED <<client, waiting, driver, packets, rest, within, message, board, start, written, owed, mixed>>
  BY DEF ReadTransfer
<1>2. transfers \in Seq(Seq(Arrived)) /\ collected \in Seq(Arrived) /\ transfers # <<>>
  BY DEF ReadTransfer, AxoTypes
<1>3. transfers' \in Seq(Seq(Arrived)) /\ Head(transfers) \in Seq(Arrived)
  BY <1>2 DEF ReadTransfer
<1>4. collected \o Head(transfers) \in Seq(Arrived)
      /\ Len(collected \o Head(transfers)) = Len(collected) + Len(Head(transfers))
  BY <1>2, <1>3
<1>5. Len(Head(transfers)) <= Chunk
  <2>1. PICK lab : Len(lab) = Len(transfers) /\ lab \in Seq(Nat \X Nat) /\ Pieces(lab)
    BY DEF Answering, InOrder
  <2> QED
    BY <1>2, <2>1, TransferShort
<1>6. Chunk \in Nat /\ RoomSize \in Nat /\ Len(collected) \in Nat /\ Len(Head(transfers)) \in Nat
  BY <1>2, <1>3, AxoAssumption
<1>7. Len(collected \o Head(transfers)) <= RoomSize
  BY <1>4, <1>5, <1>6 DEF ReadTransfer, Room
<1>8. inbox' \in Seq(Posted)
  <2>1. PICK m : m = [type |-> "data", bytes |-> collected \o Head(transfers)]
    OBVIOUS
  <2>2. m \in Posted
    BY <1>4, <2>1 DEF Posted
  <2>3. inbox \in Seq(Posted) /\ (inbox' = inbox \/ inbox' = Append(inbox, m))
    BY <2>1 DEF ReadTransfer, AxoTypes
  <2> QED
    BY <2>2, <2>3
<1>9. collected' = <<>> \/ collected' = collected \o Head(transfers)
  BY DEF ReadTransfer
<1>10. collected' \in Seq(Arrived) /\ Len(collected') <= RoomSize
  <2>1. Len(<<>>) <= RoomSize /\ <<>> \in Seq(Arrived)
    BY <1>6
  <2> QED
    BY <1>4, <1>7, <1>9, <2>1
<1> QED
  BY <1>1, <1>3, <1>8, <1>10 DEF AxoTypes
-----------------------------------------------------------------------------
(* The way to the board.                                                   *)
LEMMA SentKept ==
  ASSUME AxoTypes, Sent, UNCHANGED <<driver, packets, rest, within, message, board, written>>
  PROVE  Sent' /\ Grows
<1>1. Sent'
  BY DEF Sent, InHand
<1>2. Len(written) \in Nat /\ Len(board) \in Nat
  BY DEF AxoTypes
<1> QED
  BY <1>1, <1>2 DEF Grows

LEMMA SentMore ==
  ASSUME AxoTypes, Sent, NEW bytes \in Seq(Wire), SendPacket(bytes),
         UNCHANGED <<driver, rest, within, message, board>>
  PROVE  Sent' /\ Grows
<1>1. /\ Len(written) \in Nat /\ Len(board) \in Nat /\ Len(packets) \in Nat /\ InHand \in {0, 1}
      /\ written' = Append(written, bytes) /\ Len(written') = Len(written) + 1
      /\ \A k \in 1..Len(written) : written'[k] = written[k]
      /\ written'[Len(written) + 1] = bytes /\ InHand' = InHand
  BY DEF AxoTypes, SendPacket, InHand
<1>2. Grows
  BY <1>1 DEF Grows
<1>3. Len(board') <= Len(written') /\ \A k \in 1..Len(board') : board'[k] = written'[k]
  BY <1>1 DEF Sent
<1>4. ASSUME driver
      PROVE  /\ Len(written') = Len(board) + InHand + Len(packets')
             /\ within => written'[Len(board) + 1] = message \o rest
             /\ \A i \in 1..Len(packets') : written'[Len(board) + InHand + i] = packets'[i]
             /\ ~within => message = <<>> /\ rest = <<>>
  <2>1. /\ packets' = Append(packets, bytes) /\ Len(packets') = Len(packets) + 1
        /\ \A i \in 1..Len(packets) : packets'[i] = packets[i]
        /\ packets'[Len(packets) + 1] = bytes
    BY <1>4 DEF SendPacket, AxoTypes
  <2>2. /\ Len(written) = Len(board) + InHand + Len(packets)
        /\ within => written[Len(board) + 1] = message \o rest
        /\ \A i \in 1..Len(packets) : written[Len(board) + InHand + i] = packets[i]
        /\ ~within => message = <<>> /\ rest = <<>>
    BY <1>4 DEF Sent
  <2>3. Len(written') = Len(board) + InHand + Len(packets')
    BY <1>1, <2>1, <2>2
  <2>4. within => written'[Len(board) + 1] = message \o rest
    BY <1>1, <2>2 DEF InHand
  <2>5. ASSUME NEW i \in 1..Len(packets') PROVE written'[Len(board) + InHand + i] = packets'[i]
    <3>1. CASE i \in 1..Len(packets)
      <4>1. Len(board) + InHand + i \in 1..Len(written)
        BY <1>1, <2>2, <3>1
      <4> QED
        BY <1>1, <2>1, <2>2, <3>1, <4>1
    <3>2. CASE i = Len(packets) + 1
      BY <1>1, <2>1, <2>2, <3>2
    <3>3. i \in 1..Len(packets) \/ i = Len(packets) + 1
      <4>1. PICK l \in Nat : l = Len(packets)
        BY <1>1
      <4>2. i \in 1..(l + 1)
        BY <2>1, <4>1
      <4> QED
        BY <4>1, <4>2
    <3> QED
      BY <3>1, <3>2, <3>3
  <2> QED
    BY <2>2, <2>3, <2>4, <2>5
<1>5. Sent'
  BY <1>1, <1>3, <1>4 DEF Sent
<1> QED
  BY <1>2, <1>5

LEMMA SentExit ==
  ASSUME AxoTypes, Sent, driver' = FALSE, UNCHANGED <<board, written>>
  PROVE  Sent' /\ Grows
<1>1. Sent'
  BY DEF Sent
<1>2. Len(written) \in Nat /\ Len(board) \in Nat
  BY DEF AxoTypes
<1> QED
  BY <1>1, <1>2 DEF Grows

LEMMA SentNext ==
  ASSUME AxoTypes, Sent, NextPacket PROVE Sent' /\ Grows
<1>1. UNCHANGED <<driver, message, board, written>>
  BY DEF NextPacket, usbVars
<1>2. /\ Len(written) \in Nat /\ Len(board) \in Nat /\ Len(packets) \in Nat
      /\ packets \in Seq(Seq(Wire)) /\ packets # <<>> /\ driver /\ ~within /\ within' = TRUE
      /\ rest' = packets[1] /\ packets' = Tail(packets) /\ rest' \in Seq(Wire)
  BY DEF AxoTypes, NextPacket
<1>3. Len(packets) = Len(packets') + 1 /\ \A i \in 1..Len(packets') : i + 1 \in 1..Len(packets) /\ packets'[i] = packets[i + 1]
  BY <1>2
<1>4. /\ Len(written) = Len(board) + Len(packets) /\ message = <<>>
      /\ \A i \in 1..Len(packets) : written[Len(board) + i] = packets[i]
  BY <1>2 DEF Sent, InHand
<1>5. written[Len(board) + 1] = message \o rest'
  BY <1>2, <1>4
<1>6. \A i \in 1..Len(packets') : written[Len(board) + 1 + i] = packets'[i]
  <2> TAKE i \in 1..Len(packets')
  <2>1. i + 1 \in 1..Len(packets) /\ packets'[i] = packets[i + 1]
    BY <1>3
  <2>2. written[Len(board) + (i + 1)] = packets[i + 1]
    BY <1>4, <2>1
  <2>3. Len(board) + (i + 1) = Len(board) + 1 + i
    BY <1>2
  <2> QED
    BY <2>1, <2>2, <2>3
<1>7. Len(written) = Len(board) + 1 + Len(packets')
  BY <1>2, <1>3, <1>4
<1>8. Sent'
  BY <1>1, <1>2, <1>5, <1>6, <1>7 DEF Sent, InHand
<1> QED
  BY <1>1, <1>2, <1>8 DEF Grows

LEMMA Regrouped ==
  ASSUME NEW a \in Seq(Wire), NEW b \in Seq(Wire), NEW c \in Seq(Wire)
  PROVE  (a \o b) \o c = a \o (b \o c)
BY ConcatAssociative

LEMMA TwoParts ==
  ASSUME NEW S, NEW s \in Seq(S), NEW n \in 0..Len(s)
  PROVE  s = SubSeq(s, 1, n) \o SubSeq(s, n + 1, Len(s))
<1>1. Len(s) \in Nat
  OBVIOUS
<1>2. 1 \in 1..Len(s) + 1 /\ n \in 1 - 1..Len(s) /\ Len(s) \in n..Len(s)
  BY <1>1
<1>3. SubSeq(s, 1, n) \o SubSeq(s, n + 1, Len(s)) = SubSeq(s, 1, Len(s))
  BY <1>2, ConcatAdjacentSubSeq
<1>4. SubSeq(s, 1, Len(s)) = s
  BY SubSeqFull
<1> QED
  BY <1>3, <1>4

(* A full transfer leaves the message where it is; a short one gives the   *)
(* board the whole packet.                                                 *)
LEMMA SentTransfer ==
  ASSUME AxoTypes, Sent, Transfer
  PROVE  /\ Sent' /\ Grows
         /\ Full(rest) => board' = board /\ transfers' = transfers
         /\ ~Full(rest) => /\ Len(board) < Len(written) /\ board' = Append(board, written[Len(board) + 1])
                           /\ LET whole == written[Len(board) + 1]
                              IN transfers' = IF whole # <<>> /\ whole[1][2] \in Tags
                                              THEN transfers \o Cut(Answer(whole[1])) ELSE transfers
<1>1. UNCHANGED <<driver, packets, written>> /\ within
  BY DEF Transfer
<1>2. /\ Len(written) \in Nat /\ Len(board) \in Nat /\ Len(packets) \in Nat /\ driver
      /\ rest \in Seq(Wire) /\ message \in Seq(Wire) /\ Chunk \in Nat \ {0} /\ Len(rest) \in Nat
  BY <1>1, AxoAssumption DEF AxoTypes
<1>3. /\ Len(written) = Len(board) + 1 + Len(packets)
      /\ written[Len(board) + 1] = message \o rest
      /\ \A i \in 1..Len(packets) : written[Len(board) + 1 + i] = packets[i]
      /\ \A k \in 1..Len(board) : board[k] = written[k]
  BY <1>1, <1>2 DEF Sent, InHand
<1>4. CASE Full(rest)
  <2>1. PICK bytes : bytes = SubSeq(rest, 1, Chunk)
    OBVIOUS
  <2>2. PICK more : more = SubSeq(rest, Chunk + 1, Len(rest))
    OBVIOUS
  <2>3. bytes \in Seq(Wire) /\ more \in Seq(Wire) /\ Len(bytes) = Chunk /\ Len(more) = Len(rest) - Chunk
    BY <1>2, <1>4, <2>1, <2>2 DEF Full
  <2>4. message' = message \o bytes /\ board' = board /\ transfers' = transfers /\ rest' = more /\ within' = within
    BY <1>4, <2>1, <2>2, <2>3 DEF Transfer, Receive
  <2>5. message \o rest = (message \o bytes) \o more
    <3>1. Chunk \in 0..Len(rest)
      BY <1>2, <1>4 DEF Full
    <3>2. rest = bytes \o more
      BY <1>2, <2>1, <2>2, <3>1, TwoParts
    <3>3. (message \o bytes) \o more = message \o (bytes \o more)
      BY <1>2, <2>3, Regrouped
    <3> QED
      BY <3>2, <3>3
  <2>6. Sent'
    BY <1>1, <1>2, <1>3, <2>4, <2>5 DEF Sent, InHand
  <2> QED
    BY <1>1, <1>2, <1>4, <2>4, <2>6 DEF Grows
<1>5. CASE ~Full(rest)
  <2>1. PICK whole \in Seq(Wire) : whole = message \o rest
    <3>1. message \o rest \in Seq(Wire)
      BY <1>2
    <3> QED
      BY <3>1
  <2>2. Len(rest) # Chunk
    BY <1>2, <1>5 DEF Full
  <2>3. /\ message' = <<>> /\ board' = Append(board, whole) /\ rest' = <<>> /\ within' = FALSE
        /\ transfers' = IF whole # <<>> /\ whole[1][2] \in Tags
                        THEN transfers \o Cut(Answer(whole[1])) ELSE transfers
    BY <1>5, <2>1, <2>2 DEF Transfer, Receive
  <2>4. whole = written[Len(board) + 1]
    BY <1>3, <2>1
  <2>5. board \in Seq(Seq(Wire))
    BY DEF AxoTypes
  <2>6. /\ Len(board') = Len(board) + 1 /\ board'[Len(board) + 1] = whole
        /\ \A k \in 1..Len(board) : board'[k] = board[k]
    BY <2>1, <2>3, <2>5
  <2>7. ASSUME NEW k \in 1..Len(board') PROVE board'[k] = written[k]
    <3>1. PICK l \in Nat : l = Len(board)
      BY <1>2
    <3>2. k \in 1..l \/ k = l + 1
      BY <2>6, <3>1
    <3> QED
      BY <1>3, <2>4, <2>6, <3>1, <3>2
  <2>8. Len(board') <= Len(written) /\ Len(written) = Len(board') + 0 + Len(packets)
    BY <1>2, <1>3, <2>6
  <2>9. \A i \in 1..Len(packets) : written[Len(board') + 0 + i] = packets[i]
    BY <1>2, <1>3, <2>6
  <2>10. Sent'
    BY <1>1, <2>3, <2>7, <2>8, <2>9 DEF Sent, InHand
  <2> QED
    BY <1>1, <1>2, <1>5, <2>3, <2>4, <2>6, <2>8, <2>10 DEF Grows
<1> QED
  BY <1>4, <1>5

LEMMA SentWhole == AxoTypes /\ Sent => WholeMessages
<1> SUFFICES ASSUME AxoTypes, Sent PROVE WholeMessages
  OBVIOUS
<1>1. board \in Seq(Seq(Wire)) /\ written \in Seq(Seq(Wire)) /\ Len(board) \in Nat /\ Len(written) \in Nat
  BY DEF AxoTypes
<1>2. Len(board) <= Len(written) /\ \A k \in 1..Len(board) : board[k] = written[k]
  BY DEF Sent
<1>3. board = SubSeq(written, 1, Len(board))
  BY <1>1, <1>2
<1> QED
  BY <1>1, <1>2, <1>3 DEF WholeMessages, IsPrefix
-----------------------------------------------------------------------------
(* The slots.                                                              *)
Still ==
  \A c \in Clients : client[c].at \in Asking =>
    client'[c].at \in Asking /\ client'[c].tag = client[c].tag /\ client'[c].ops = client[c].ops

LEMMA AskedStill ==
  ASSUME AxoTypes, Still, waiting' = waiting, NEW m \in Posted, m.type = "call", Asked(m) PROVE Asked(m)'
<1>1. m.from \in Clients
  BY PostedIs
<1>2. client[m.from].at \in Asking
  BY DEF Asked
<1>3. /\ client'[m.from].at \in Asking /\ client'[m.from].tag = client[m.from].tag
      /\ client'[m.from].ops = client[m.from].ops
  BY <1>1, <1>2 DEF Still
<1> QED
  BY <1>3 DEF Asked

LEMMA HeldStill ==
  ASSUME AxoTypes, Still, SlotsHeld, waiting' = waiting PROVE SlotsHeld'
BY DEF SlotsHeld, Still, AxoTypes

LEMMA SlotsKept ==
  ASSUME AxoTypes, Slots, Still, waiting' = waiting, inbox' = inbox PROVE Slots'
<1>1. CallsAsked'
  <2> SUFFICES ASSUME NEW i \in 1..Len(inbox), inbox[i].type = "call" PROVE Asked(inbox[i])'
    BY DEF CallsAsked
  <2>1. PICK m \in Posted : m = inbox[i]
    BY DEF AxoTypes
  <2>2. Asked(m)'
    BY <2>1, AskedStill DEF Slots, CallsAsked
  <2> QED
    BY <2>1, <2>2
<1>2. CallsOnce' /\ SendsUntagged'
  BY DEF Slots, CallsOnce, SendsUntagged
<1> QED
  BY <1>1, <1>2, HeldStill DEF Slots

LEMMA SlotsPosted ==
  ASSUME AxoTypes, Slots, Still, waiting' = waiting, NEW m \in Posted, inbox' = Append(inbox, m),
         m.type = "send" => Untagged(m.bytes),
         m.type = "call" => /\ Asked(m)'
                            /\ \A i \in 1..Len(inbox) : inbox[i].type = "call" => inbox[i].from # m.from
  PROVE  Slots'
<1>1. PICK l \in Nat : l = Len(inbox)
  BY DEF AxoTypes
<1>2. inbox \in Seq(Posted) /\ Len(inbox') = l + 1 /\ inbox'[l + 1] = m /\ \A i \in 1..l : inbox'[i] = inbox[i]
  BY <1>1 DEF AxoTypes
<1>3. \A i \in 1..(l + 1) : i \in 1..l \/ i = l + 1
  OBVIOUS
<1>4. CallsAsked'
  <2> SUFFICES ASSUME NEW i \in 1..(l + 1), inbox'[i].type = "call" PROVE Asked(inbox[i])'
    BY <1>2 DEF CallsAsked
  <2>1. CASE i \in 1..l
    <3>1. PICK x \in Posted : x = inbox[i]
      BY <1>1, <1>2, <2>1
    <3>2. Asked(x) /\ x.type = "call" /\ inbox'[i] = x
      BY <1>1, <1>2, <2>1, <3>1 DEF Slots, CallsAsked
    <3>3. Asked(x)'
      BY <3>2, AskedStill
    <3> QED
      BY <3>2, <3>3
  <2>2. CASE i = l + 1
    <3>1. Asked(m)' /\ inbox'[i] = m
      BY <1>2, <2>2
    <3> QED
      BY <3>1
  <2> QED
    BY <1>3, <2>1, <2>2
<1>5. CallsOnce'
  <2> SUFFICES ASSUME NEW i \in 1..(l + 1), NEW j \in 1..(l + 1),
                      inbox'[i].type = "call", inbox'[j].type = "call", inbox'[i].from = inbox'[j].from
               PROVE  i = j
    BY <1>2 DEF CallsOnce
  <2>1. CASE i \in 1..l /\ j \in 1..l
    BY <1>1, <1>2, <2>1 DEF Slots, CallsOnce
  <2>2. CASE i \in 1..l /\ j = l + 1
    BY <1>1, <1>2, <2>2
  <2>3. CASE i = l + 1 /\ j \in 1..l
    BY <1>1, <1>2, <2>3
  <2> QED
    BY <1>3, <2>1, <2>2, <2>3
<1>6. SendsUntagged'
  <2> SUFFICES ASSUME NEW i \in 1..(l + 1), inbox'[i].type = "send" PROVE Untagged(inbox'[i].bytes)
    BY <1>2 DEF SendsUntagged, Untagged
  <2>1. CASE i \in 1..l
    <3>1. inbox'[i] = inbox[i] /\ i \in 1..Len(inbox)
      BY <1>1, <1>2, <2>1
    <3> QED
      BY <3>1 DEF Slots, SendsUntagged
  <2>2. CASE i = l + 1
    BY <1>2, <2>2
  <2> QED
    BY <1>3, <2>1, <2>2
<1>7. SlotsHeld'
  BY HeldStill DEF Slots
<1> QED
  BY <1>4, <1>5, <1>6, <1>7 DEF Slots

LEMMA StillFor ==
  ASSUME NEW c \in Clients, client[c].at \notin Asking, \A d \in Clients \ {c} : client'[d] = client[d]
  PROVE  Still
BY DEF Still

LEMMA SlotsOfOperations ==
  ASSUME AxoTypes, Slots, NEW c \in Clients, Operation(c) PROVE Slots' /\ Still
<1>1. client \in [Clients -> Conversation] /\ {"head", "data"} \subseteq Parts /\ Tags \subseteq Parts
      /\ \A part \in {"head", "data"} : part \notin Tags
  BY AxoAssumption DEF AxoTypes, Parts
<1>2. CASE WriteHeader(c)
  <2>1. PICK m : m = [type |-> "send", bytes |-> Packet(c, "head")]
    OBVIOUS
  <2>2. m \in Posted /\ m.type = "send" /\ Untagged(m.bytes)
    BY <1>1, <2>1, PacketIs DEF Posted, Untagged
  <2>3. Still /\ waiting' = waiting /\ inbox' = Append(inbox, m)
    BY <1>1, <1>2, <2>1 DEF WriteHeader, Begin, Still, Asking, Conversation
  <2> QED
    BY <2>2, <2>3, SlotsPosted
<1>3. CASE WriteData(c)
  <2>1. PICK m : m = [type |-> "send", bytes |-> Packet(c, "data")]
    OBVIOUS
  <2>2. m \in Posted /\ m.type = "send" /\ Untagged(m.bytes)
    BY <1>1, <2>1, PacketIs DEF Posted, Untagged
  <2>3. client[c].at \notin Asking /\ \A d \in Clients \ {c} : client'[d] = client[d]
    BY <1>1, <1>3 DEF WriteData, Asking
  <2>4. Still /\ waiting' = waiting /\ inbox' = Append(inbox, m)
    BY <1>3, <2>1, <2>3, StillFor DEF WriteData
  <2> QED
    BY <2>2, <2>4, SlotsPosted
<1>4. ASSUME NEW tag \in Tags, Call(c, tag) PROVE Slots' /\ Still
  <2>1. PICK m : m = [type |-> "call", from |-> c, tag |-> tag, bytes |-> Packet(c, tag)]
    OBVIOUS
  <2>2. m \in Posted /\ m.type = "call" /\ m.from = c /\ m.tag = tag /\ m.bytes = Packet(c, tag)
    BY <1>1, <2>1, PacketIs DEF Posted
  <2>3. client[c].at = "idle" /\ waiting' = waiting /\ inbox' = Append(inbox, m)
    BY <1>4, <2>1 DEF Call, Begin
  <2>4. client'[c].at = "waits" /\ client'[c].tag = tag /\ client'[c].ops = client[c].ops
    BY <1>1, <1>4 DEF Call, Conversation
  <2>5. Still
    <3>1. client[c].at \notin Asking /\ \A d \in Clients \ {c} : client'[d] = client[d]
      BY <1>1, <1>4, <2>3 DEF Call, Asking
    <3> QED
      BY <3>1, StillFor
  <2>6. ASSUME NEW t \in Tags PROVE waiting[t] # c
    <3>1. c # NoOne
      BY AxoAssumption
    <3> QED
      BY <2>3, <3>1 DEF Slots, SlotsHeld, Asking
  <2>7. ASSUME NEW i \in 1..Len(inbox), inbox[i].type = "call" PROVE inbox[i].from # c
    BY <2>3, <2>7 DEF Slots, CallsAsked, Asked, Asking
  <2>8. Packet(c, tag) # <<>> /\ Packet(c, tag)[1] = <<c, tag, client[c].ops>>
    BY <1>1, PacketIs
  <2>9. Asked(m)'
    BY <2>2, <2>3, <2>4, <2>6, <2>8 DEF Asked, Asking
  <2> QED
    BY <2>2, <2>3, <2>5, <2>7, <2>9, SlotsPosted
<1>5. CASE GiveUp(c)
  <2>1. Still /\ waiting' = waiting /\ inbox' = inbox
    BY <1>1, <1>5 DEF GiveUp, Still, Asking, Conversation
  <2> QED
    BY <2>1, SlotsKept
<1>6. CASE Continue(c)
  <2>1. Still /\ waiting' = waiting /\ inbox' = inbox
    BY <1>1, <1>6 DEF Continue, Still, Asking, Conversation
  <2> QED
    BY <2>1, SlotsKept
<1> QED
  BY <1>2, <1>3, <1>4, <1>5, <1>6 DEF Operation
(* The first message is taken.                                             *)
LEMMA SlotsTaken ==
  ASSUME AxoTypes, Slots, inbox # <<>>, inbox' = Tail(inbox), SlotsHeld',
         \A m \in Posted : /\ m.type = "call" /\ Asked(m)
                           /\ inbox[1].type = "call" => m.from # inbox[1].from
                           => Asked(m)'
  PROVE  Slots'
<1>1. PICK l \in Nat : l = Len(inbox')
  <2>1. inbox' \in Seq(Posted)
    BY DEF AxoTypes
  <2> QED
    BY <2>1
<1>2. /\ inbox \in Seq(Posted) /\ Len(inbox) = l + 1 /\ 1 \in 1..Len(inbox)
      /\ \A i \in 1..l : i + 1 \in 1..Len(inbox) /\ i + 1 # 1 /\ inbox'[i] = inbox[i + 1]
  BY <1>1 DEF AxoTypes
<1>3. CallsAsked'
  <2> SUFFICES ASSUME NEW i \in 1..l, inbox'[i].type = "call" PROVE Asked(inbox[i])'
    BY <1>1 DEF CallsAsked
  <2>1. PICK m \in Posted : m = inbox[i + 1]
    BY <1>2
  <2>2. m.type = "call" /\ Asked(m) /\ inbox'[i] = m
    BY <1>2, <2>1 DEF Slots, CallsAsked
  <2>3. inbox[1].type = "call" => m.from # inbox[1].from
    BY <1>2, <2>1, <2>2 DEF Slots, CallsOnce
  <2>4. Asked(m)'
    BY <2>2, <2>3
  <2> QED
    BY <2>2, <2>4
<1>4. CallsOnce'
  <2> SUFFICES ASSUME NEW i \in 1..l, NEW j \in 1..l,
                      inbox'[i].type = "call", inbox'[j].type = "call", inbox'[i].from = inbox'[j].from
               PROVE  i = j
    BY <1>1 DEF CallsOnce
  <2>1. i + 1 \in 1..Len(inbox) /\ inbox'[i] = inbox[i + 1] /\ j + 1 \in 1..Len(inbox) /\ inbox'[j] = inbox[j + 1]
    BY <1>2
  <2>2. i + 1 = j + 1
    BY <2>1 DEF Slots, CallsOnce
  <2> QED
    BY <2>2
<1>5. SendsUntagged'
  <2> SUFFICES ASSUME NEW i \in 1..l, inbox'[i].type = "send" PROVE Untagged(inbox'[i].bytes)
    BY <1>1 DEF SendsUntagged, Untagged
  <2>1. i + 1 \in 1..Len(inbox) /\ inbox'[i] = inbox[i + 1]
    BY <1>2
  <2> QED
    BY <2>1 DEF Slots, SendsUntagged
<1> QED
  BY <1>3, <1>4, <1>5 DEF Slots

(* What a message of the board is to the server.                           *)
LEMMA GivenIs ==
  ASSUME NEW k, NEW g \in Nat, NEW bytes, bytes = Given(g, ReplySize, k), Numbered(k)
  PROVE  /\ Last(bytes)[2] = written[k][1][2]
         /\ g > 0 => bytes[1][2] \notin Tags
         /\ g = 0 => bytes[1][2] = written[k][1][2] /\ bytes = Answer(written[k][1])
<1>1. ReplySize \in Nat \ {0} /\ "garbage" \notin Tags
  BY AxoAssumption
<1>2. PICK r : r = Reply(k)
  OBVIOUS
<1>3. r[2] = written[k][1][2]
  BY <1>2 DEF Reply
<1>4. bytes = [i \in 1..(g + ReplySize) |-> IF i <= g THEN Garbage ELSE r]
  BY <1>2 DEF Given
<1>5. Len(bytes) = g + ReplySize
  BY <1>1, <1>4
<1>6. Last(bytes) = r
  <2>1. g + ReplySize \in 1..(g + ReplySize) /\ ~(g + ReplySize <= g)
    BY <1>1
  <2> QED
    BY <1>4, <1>5, <2>1 DEF Last
<1>7. 1 \in 1..(g + ReplySize)
  BY <1>1
<1>8. ASSUME g > 0 PROVE bytes[1][2] \notin Tags
  <2>1. bytes[1] = Garbage
    BY <1>4, <1>7, <1>8
  <2> QED
    BY <1>1, <2>1 DEF Garbage
<1>9. ASSUME g = 0 PROVE bytes[1] = r /\ bytes = Answer(written[k][1])
  <2>1. g + ReplySize = ReplySize /\ \A i \in 1..ReplySize : ~(i <= g)
    BY <1>1, <1>9
  <2>2. bytes = [i \in 1..ReplySize |-> r]
    BY <1>4, <2>1
  <2>3. Answer(written[k][1]) = [i \in 1..ReplySize |-> r]
    BY <1>2 DEF Answer, Reply
  <2>4. bytes[1] = r
    BY <1>7, <2>1, <2>2
  <2> QED
    BY <2>2, <2>3, <2>4
<1> QED
  BY <1>3, <1>6, <1>8, <1>9

GivenTo(c, k) ==
  client' = IF client[c].at = "waits"
            THEN [client EXCEPT ![c].at = "got", ![c].answer = Answer(written[k][1])] ELSE client

LEMMA DataTaken ==
  ASSUME AxoTypes, Handle, inbox[1].type = "data", NEW n, NEW ser, NEW lab, InOrder(n, ser, lab), Messages(ser),
         NEW k, k = ser[1]
  PROVE  /\ Numbered(k) /\ n < k /\ k \in Nat
         /\ UNCHANGED <<packets, written, mixed>>
         /\ owed' = [owed EXCEPT ![written[k][1][2]] = @ - 1]
         /\ \/ UNCHANGED <<client, waiting>>
            \/ /\ waiting[written[k][1][2]] # NoOne
               /\ waiting' = [waiting EXCEPT ![written[k][1][2]] = NoOne]
               /\ GivenTo(waiting[written[k][1][2]], k)
<1>1. inbox \in Seq(Posted) /\ inbox # <<>> /\ 1 \in 1..Len(inbox) /\ Head(inbox) = inbox[1]
  BY DEF Handle, AxoTypes
<1>2. Numbered(k) /\ n < k
  BY <1>1 DEF InOrder
<1>3. k \in Nat
  BY <1>2 DEF Numbered, AxoTypes
<1>4. PICK g \in Nat : inbox[1].bytes = Given(g, ReplySize, k)
  BY <1>1 DEF Messages
<1>5. PICK bytes : bytes = inbox[1].bytes
  OBVIOUS
<1>6. TakeData(bytes)
  BY <1>1, <1>5 DEF Handle
<1>7. PICK tag \in Tags : tag = written[k][1][2]
  BY <1>2 DEF Numbered
<1>8. /\ Last(bytes)[2] = tag
      /\ g > 0 => bytes[1][2] \notin Tags
      /\ g = 0 => bytes[1][2] = tag /\ bytes = Answer(written[k][1])
  BY <1>2, <1>4, <1>5, <1>7, GivenIs
<1>9. UNCHANGED <<packets, written, mixed>> /\ owed' = [owed EXCEPT ![tag] = @ - 1]
  BY <1>6, <1>8 DEF TakeData
<1>10. CASE g > 0
  <2>1. Waiter(bytes) = NoOne
    BY <1>8, <1>10 DEF Waiter
  <2>2. UNCHANGED <<client, waiting>>
    BY <1>6, <2>1 DEF TakeData
  <2> QED
    BY <1>2, <1>3, <1>7, <1>9, <2>2
<1>11. CASE g = 0
  <2>1. PICK c : c = waiting[tag]
    OBVIOUS
  <2>2. Waiter(bytes) = c
    BY <1>8, <1>11, <2>1 DEF Waiter
  <2>3. CASE c = NoOne
    <3>1. UNCHANGED <<client, waiting>>
      BY <1>6, <2>2, <2>3 DEF TakeData
    <3> QED
      BY <1>2, <1>3, <1>7, <1>9, <3>1
  <2>4. CASE c # NoOne
    <3>1. /\ waiting' = [waiting EXCEPT ![tag] = NoOne]
          /\ client' = IF client[c].at = "waits"
                       THEN [client EXCEPT ![c].at = "got", ![c].answer = Answer(written[k][1])] ELSE client
      BY <1>6, <1>8, <1>11, <2>2, <2>4 DEF TakeData
    <3> QED
      BY <1>2, <1>3, <1>7, <1>9, <2>1, <2>4, <3>1 DEF GivenTo
  <2> QED
    BY <2>3, <2>4
<1> QED
  BY <1>10, <1>11

LEMMA SlotsOfHandle ==
  ASSUME AxoTypes, Slots, Answering, Handle PROVE Slots'
<1>1. /\ inbox \in Seq(Posted) /\ inbox # <<>> /\ inbox' = Tail(inbox) /\ 1 \in 1..Len(inbox)
      /\ inbox[1] = Head(inbox) /\ inbox[1] \in Posted
  BY DEF Handle, AxoTypes
<1>2. ASSUME UNCHANGED <<client, waiting>> PROVE Slots'
  <2>1. SlotsHeld'
    BY <1>2 DEF Slots, SlotsHeld
  <2>2. \A m \in Posted : Asked(m) => Asked(m)'
    BY <1>2 DEF Asked
  <2> QED
    BY <1>1, <2>1, <2>2, SlotsTaken
<1>3. CASE inbox[1].type = "send" \/ inbox[1].type = "exit"
  BY <1>1, <1>2, <1>3 DEF Handle, TakeExit
<1>4. CASE inbox[1].type = "call"
  <2>1. PICK m : m = inbox[1]
    OBVIOUS
  <2>2. m \in Posted /\ m.from \in Clients /\ m.tag \in Tags /\ m.from # NoOne
    BY <1>1, <1>4, <2>1, PostedIs, AxoAssumption
  <2>3. waiting' = [waiting EXCEPT ![m.tag] = m.from] /\ client' = client /\ waiting \in [Tags -> Clients \cup {NoOne}]
    BY <1>1, <1>4, <2>1 DEF Handle, TakeCall, AxoTypes
  <2>4. Asked(m)
    BY <1>1, <1>4, <2>1 DEF Slots, CallsAsked
  <2>5. SlotsHeld'
    BY <2>2, <2>3, <2>4 DEF Slots, SlotsHeld, Asked
  <2>6. ASSUME NEW x \in Posted, Asked(x), x.from # m.from PROVE Asked(x)'
    BY <2>2, <2>3, <2>6 DEF Asked
  <2> QED
    BY <1>1, <1>4, <2>1, <2>5, <2>6, SlotsTaken
<1>5. CASE inbox[1].type = "data"
  <2>1. PICK n, ser, lab : InOrder(n, ser, lab) /\ Messages(ser)
    BY DEF Answering
  <2>2. PICK k : k = ser[1]
    OBVIOUS
  <2>3. PICK tag \in Tags : tag = written[k][1][2]
    BY <1>5, <2>1, <2>2, DataTaken DEF Numbered
  <2>4. PICK c : c = waiting[tag]
    OBVIOUS
  <2>5. \/ UNCHANGED <<client, waiting>>
        \/ c # NoOne /\ waiting' = [waiting EXCEPT ![tag] = NoOne] /\ GivenTo(c, k)
    BY <1>5, <2>1, <2>2, <2>3, <2>4, DataTaken
  <2>6. CASE c # NoOne /\ waiting' = [waiting EXCEPT ![tag] = NoOne] /\ GivenTo(c, k)
    <3>1. waiting \in [Tags -> Clients \cup {NoOne}] /\ client \in [Clients -> Conversation] /\ c \in Clients
      BY <2>4, <2>6 DEF AxoTypes
    <3>2. client[c].tag = tag
      BY <2>4, <2>6 DEF Slots, SlotsHeld
    <3>3. \A d \in Clients \ {c} : client'[d] = client[d]
      BY <2>6, <3>1 DEF GivenTo
    <3>4. \A t \in Tags : waiting'[t] = IF t = tag THEN NoOne ELSE waiting[t]
      BY <2>6, <3>1
    <3>5. \A t \in Tags : waiting'[t] # NoOne => waiting'[t] = waiting[t] /\ waiting[t] # c /\ waiting[t] \in Clients
      BY <3>1, <3>2, <3>4 DEF Slots, SlotsHeld
    <3>6. SlotsHeld'
      BY <3>3, <3>5 DEF Slots, SlotsHeld
    <3>7. ASSUME NEW m \in Posted, m.type = "call", Asked(m) PROVE Asked(m)'
      <4>1. m.from \in Clients /\ m.from # c /\ m.from # NoOne
        BY <2>4, <3>7, PostedIs, AxoAssumption DEF Asked
      <4>2. client'[m.from] = client[m.from]
        BY <3>3, <4>1
      <4>3. \A t \in Tags : waiting'[t] # m.from
        BY <3>4, <3>7, <4>1 DEF Asked
      <4> QED
        BY <3>7, <4>2, <4>3 DEF Asked
    <3> QED
      BY <1>1, <3>6, <3>7, SlotsTaken
  <2> QED
    BY <1>2, <2>5, <2>6
<1> QED
  BY <1>1, <1>3, <1>4, <1>5, PostedIs
-----------------------------------------------------------------------------
(* The requests that are outstanding.                                      *)
LEMMA OutstandingKept ==
  ASSUME AxoTypes, Slots, Still, UNCHANGED <<waiting, written, owed, mixed>>, NEW n, Outstanding(n)
  PROVE  Outstanding(n)'
<1>1. \A tag \in Tags : waiting[tag] # NoOne => client'[waiting[tag]].ops = client[waiting[tag]].ops
  BY DEF Slots, SlotsHeld, Still, AxoTypes
<1> QED
  BY <1>1 DEF Outstanding, RequestAt

(* A packet that is no request, or the server ends.                        *)
LEMMA OutstandingSend ==
  ASSUME AxoTypes, NEW bytes \in Seq(Wire), Untagged(bytes), written' = Append(written, bytes),
         UNCHANGED <<client, waiting, owed, mixed>>, NEW n \in Nat, Outstanding(n)
  PROVE  Outstanding(n)'
<1>1. PICK l \in Nat : l = Len(written)
  BY DEF AxoTypes
<1>2. Len(written') = l + 1 /\ written'[l + 1] = bytes /\ \A i \in 1..l : written'[i] = written[i]
  BY <1>1 DEF AxoTypes
<1>3. ASSUME NEW tag \in Tags, NEW k \in (n + 1)..(l + 1), RequestAt(k, tag)'
      PROVE  k \in (n + 1)..l /\ RequestAt(k, tag) /\ written'[k] = written[k]
  <2>1. k # l + 1
    BY <1>2, <1>3 DEF RequestAt, Untagged
  <2>2. k \in 1..l /\ k \in (n + 1)..l
    BY <2>1
  <2>3. written'[k] = written[k]
    BY <1>2, <2>2
  <2> QED
    BY <1>3, <2>2, <2>3 DEF RequestAt
<1> QED
  BY <1>1, <1>2, <1>3, SMTT(30) DEF Outstanding

(* A request.                                                              *)
LEMMA OutstandingCall ==
  ASSUME AxoTypes, NEW m \in Posted, m.type = "call", Asked(m), TakeCall(m), NEW n \in Nat, Outstanding(n)
  PROVE  Outstanding(n)'
<1>1. PICK l \in Nat : l = Len(written)
  BY DEF AxoTypes
<1>2. PICK t \in Tags : t = m.tag
  BY PostedIs
<1>3. PICK c \in Clients : c = m.from
  BY PostedIs
<1>4. /\ waiting' = [waiting EXCEPT ![t] = c] /\ owed' = [owed EXCEPT ![t] = @ + 1] /\ client' = client
      /\ mixed' = IF owed[t] > 0 THEN mixed \cup {t} ELSE mixed
      /\ written' = Append(written, m.bytes)
  BY <1>2, <1>3 DEF TakeCall, SendPacket
<1>5. m.bytes \in Seq(Wire) /\ m.bytes # <<>> /\ m.bytes[1] = <<c, t, client[c].ops>> /\ c # NoOne
  BY <1>2, <1>3, PostedIs, AxoAssumption DEF Asked
<1>6. Len(written') = l + 1 /\ written'[l + 1] = m.bytes /\ \A i \in 1..l : written'[i] = written[i]
  BY <1>1, <1>4, <1>5 DEF AxoTypes
<1>7. \A tag \in Tags : /\ owed'[tag] = (IF tag = t THEN owed[tag] + 1 ELSE owed[tag])
                        /\ waiting'[tag] = (IF tag = t THEN c ELSE waiting[tag])
  BY <1>4 DEF AxoTypes
<1>8. ASSUME NEW k \in (n + 1)..(l + 1), k # l + 1, NEW tag \in Tags
      PROVE  k \in (n + 1)..l /\ written'[k] = written[k] /\ (RequestAt(k, tag)' <=> RequestAt(k, tag))
  <2>1. k \in 1..l /\ k \in (n + 1)..l
    BY <1>8
  <2>2. written'[k] = written[k]
    BY <1>6, <2>1
  <2> QED
    BY <2>1, <2>2 DEF RequestAt
<1>9. ASSUME NEW tag \in Tags \ mixed'
      PROVE  /\ owed'[tag] \in {0, 1}
             /\ \A k \in (n + 1)..(l + 1) : RequestAt(k, tag)' =>
                  /\ owed'[tag] = 1 /\ waiting'[tag] # NoOne
                  /\ written'[k][1] = <<waiting'[tag], tag, client[waiting'[tag]].ops>>
             /\ \A j, k \in (n + 1)..(l + 1) : RequestAt(j, tag)' /\ RequestAt(k, tag)' => j = k
  <2>1. tag \in Tags /\ tag \notin mixed
    BY <1>4
  <2>2. /\ owed[tag] \in {0, 1}
        /\ \A k \in (n + 1)..l : RequestAt(k, tag) =>
             /\ owed[tag] = 1 /\ waiting[tag] # NoOne
             /\ written[k][1] = <<waiting[tag], tag, client[waiting[tag]].ops>>
        /\ \A j, k \in (n + 1)..l : RequestAt(j, tag) /\ RequestAt(k, tag) => j = k
    BY <1>1, <2>1 DEF Outstanding
  <2>3. CASE tag = t
    <3>1. owed[tag] = 0 /\ owed'[tag] = 1
      BY <1>4, <1>7, <1>9, <2>1, <2>2, <2>3
    <3>2. \A k \in (n + 1)..l : ~RequestAt(k, tag)
      BY <2>2, <3>1
    <3>3. \A k \in (n + 1)..(l + 1) : RequestAt(k, tag)' => k = l + 1
      BY <1>8, <2>1, <3>2
    <3>4. waiting'[tag] = c /\ written'[l + 1][1] = <<c, tag, client[c].ops>>
      BY <1>5, <1>6, <1>7, <2>1, <2>3
    <3> QED
      BY <1>5, <3>1, <3>3, <3>4
  <2>4. CASE tag # t
    <3>1. owed'[tag] = owed[tag] /\ waiting'[tag] = waiting[tag]
      BY <1>7, <2>1, <2>4
    <3>2. ~RequestAt(l + 1, tag)'
      BY <1>5, <1>6, <2>4 DEF RequestAt
    <3>3. \A k \in (n + 1)..(l + 1) : RequestAt(k, tag)' => k \in (n + 1)..l /\ RequestAt(k, tag) /\ written'[k] = written[k]
      BY <1>8, <2>1, <3>2
    <3> QED
      BY <2>2, <3>1, <3>3
  <2> QED
    BY <2>3, <2>4
<1> QED
  BY <1>4, <1>6, <1>9 DEF Outstanding

(* An answer comes to the server, whoever takes it.                        *)
LEMMA OutstandingData ==
  ASSUME AxoTypes, Slots, Sent, NEW n \in Nat, NEW k \in Nat, n < k, Numbered(k), Outstanding(n),
         UNCHANGED <<written, mixed>>,
         owed' = [owed EXCEPT ![written[k][1][2]] = @ - 1],
         \/ UNCHANGED <<client, waiting>>
         \/ /\ waiting[written[k][1][2]] # NoOne
            /\ waiting' = [waiting EXCEPT ![written[k][1][2]] = NoOne]
            /\ GivenTo(waiting[written[k][1][2]], k)
  PROVE  Outstanding(k)'
<1>1. PICK l \in Nat : l = Len(written)
  BY DEF AxoTypes
<1>2. k \in (n + 1)..l
  <2>1. k \in 1..Len(board) /\ Len(board) \in Nat /\ Len(board) <= l
    BY <1>1 DEF Numbered, Sent, AxoTypes
  <2> QED
    BY <2>1
<1>3. PICK t \in Tags : t = written[k][1][2]
  BY DEF Numbered
<1>4. RequestAt(k, t)
  BY <1>3 DEF RequestAt, Numbered
<1>5. \A tag \in Tags : owed'[tag] = (IF tag = t THEN owed[tag] - 1 ELSE owed[tag])
  BY <1>3 DEF AxoTypes
<1>6. \A tag \in Tags \ {t} : waiting'[tag] = waiting[tag]
  BY <1>3 DEF AxoTypes
<1>7. ASSUME NEW tag \in Tags \ {t}, waiting[tag] # NoOne
      PROVE  client'[waiting[tag]].ops = client[waiting[tag]].ops
  <2>1. CASE client' = client
    BY <2>1
  <2>2. CASE client' # client
    <3>1. PICK c : c = waiting[t]
      OBVIOUS
    <3>2. c # NoOne /\ client' = [client EXCEPT ![c].at = "got", ![c].answer = Answer(written[k][1])]
      BY <1>3, <2>2, <3>1 DEF GivenTo
    <3>3. client[c].tag = t /\ client[waiting[tag]].tag = tag /\ waiting[tag] \in Clients
      BY <1>7, <3>1, <3>2 DEF Slots, SlotsHeld, AxoTypes
    <3>4. waiting[tag] # c
      BY <1>7, <3>3
    <3> QED
      BY <3>2, <3>3, <3>4 DEF AxoTypes
  <2> QED
    BY <2>1, <2>2
<1>8. ASSUME NEW tag \in Tags \ mixed
      PROVE  /\ owed'[tag] \in {0, 1}
             /\ \A j \in (k + 1)..l : RequestAt(j, tag) =>
                  /\ owed'[tag] = 1 /\ waiting'[tag] # NoOne
                  /\ written[j][1] = <<waiting'[tag], tag, client'[waiting'[tag]].ops>>
             /\ \A i, j \in (k + 1)..l : RequestAt(i, tag) /\ RequestAt(j, tag) => i = j
  <2>1. /\ owed[tag] \in {0, 1}
        /\ \A j \in (n + 1)..l : RequestAt(j, tag) =>
             /\ owed[tag] = 1 /\ waiting[tag] # NoOne
             /\ written[j][1] = <<waiting[tag], tag, client[waiting[tag]].ops>>
        /\ \A i, j \in (n + 1)..l : RequestAt(i, tag) /\ RequestAt(j, tag) => i = j
    BY <1>1, <1>8 DEF Outstanding
  <2>2. \A j \in (k + 1)..l : j \in (n + 1)..l /\ j # k
    OBVIOUS
  <2>3. CASE tag = t
    <3>1. owed[tag] = 1
      BY <1>2, <1>4, <2>1, <2>3
    <3>2. owed'[tag] = 0
      BY <1>5, <1>8, <2>3, <3>1
    <3>3. \A j \in (k + 1)..l : ~RequestAt(j, tag)
      BY <1>2, <1>4, <2>1, <2>2, <2>3
    <3> QED
      BY <3>2, <3>3
  <2>4. CASE tag # t
    <3>1. owed'[tag] = owed[tag] /\ waiting'[tag] = waiting[tag]
      BY <1>5, <1>6, <1>8, <2>4
    <3>2. waiting[tag] # NoOne => client'[waiting[tag]].ops = client[waiting[tag]].ops
      BY <1>7, <1>8, <2>4
    <3> QED
      BY <2>1, <2>2, <3>1, <3>2
  <2> QED
    BY <2>3, <2>4
<1> QED
  BY <1>1, <1>8 DEF Outstanding, RequestAt
-----------------------------------------------------------------------------
(* What comes from the board.                                              *)
LEMMA OrderKept ==
  ASSUME AxoTypes, AxoTypes', Sent, Grows, inbox' = inbox, transfers' = transfers,
         driver' = driver /\ collected' = collected,
         NEW n, NEW ser, NEW lab, InOrder(n, ser, lab), Messages(ser), Pieces(lab), Collected(lab)
  PROVE  InOrder(n, ser, lab)' /\ Messages(ser)' /\ Pieces(lab)' /\ Collected(lab)'
<1>1. ASSUME NEW i \in 1..Len(inbox), inbox[i].type = "data"
      PROVE  Numbered(ser[i])' /\ \E g \in Nat : inbox[i].bytes = Given(g, ReplySize, ser[i])'
  <2>1. PICK k : k = ser[i]
    OBVIOUS
  <2>2. Numbered(k)' /\ \A g : Given(g, ReplySize, k)' = Given(g, ReplySize, k)
    BY <1>1, <2>1, NumberedKept DEF InOrder
  <2>3. PICK g \in Nat : inbox[i].bytes = Given(g, ReplySize, k)
    BY <1>1, <2>1 DEF Messages
  <2> QED
    BY <2>1, <2>2, <2>3
<1>2. ASSUME NEW i \in 1..Len(lab) PROVE Numbered(lab[i][1])'
  <2>1. PICK k : k = lab[i][1]
    OBVIOUS
  <2>2. Numbered(k)'
    BY <2>1, NumberedKept DEF InOrder
  <2> QED
    BY <2>1, <2>2
<1>3. n \in Nat /\ n <= Len(board')
  BY DEF InOrder, Grows, AxoTypes
<1>4. InOrder(n, ser, lab)'
  BY <1>1, <1>2, <1>3 DEF InOrder, More
<1>5. Messages(ser)'
  BY <1>1 DEF Messages
<1> QED
  BY <1>4, <1>5, ReadingKept

(* The reader thread takes a transfer.                                     *)
LEMMA Longer ==
  ASSUME NEW k, NEW g \in Nat, NEW from \in Nat, from <= ReplySize,
         NEW size \in Nat, More(from) => size = Chunk, ~More(from) => size = ReplySize - from
  PROVE  Given(g, from, k) \o Piece(k, from) = Given(g, from + size, k)
<1>1. PICK r : r = Reply(k)
  OBVIOUS
<1>2. PICK a : a = [i \in 1..(g + from) |-> IF i <= g THEN Garbage ELSE r]
  OBVIOUS
<1>3. PICK b : b = [i \in 1..size |-> r]
  OBVIOUS
<1>4. Given(g, from, k) = a /\ Piece(k, from) = b
  BY <1>1, <1>2, <1>3 DEF Given, Piece
<1>5. PICK whole : whole = [i \in 1..(g + (from + size)) |-> IF i <= g THEN Garbage ELSE r]
  OBVIOUS
<1>6. Given(g, from + size, k) = whole
  BY <1>1, <1>5 DEF Given
<1>7. PICK S : S = {Garbage, r}
  OBVIOUS
<1>8. a \in Seq(S) /\ b \in Seq(S) /\ whole \in Seq(S) /\ Len(a) = g + from /\ Len(b) = size /\ Len(whole) = g + (from + size)
  <2>1. a \in Seq(S) /\ Len(a) = g + from
    BY <1>2, <1>7
  <2>2. b \in Seq(S) /\ Len(b) = size
    BY <1>3, <1>7
  <2>3. PICK n \in Nat : n = g + (from + size)
    OBVIOUS
  <2>4. whole \in Seq(S) /\ Len(whole) = n
    BY <1>5, <1>7, <2>3
  <2> QED
    BY <2>1, <2>2, <2>3, <2>4
<1>9. /\ a \o b \in Seq(S) /\ Len(a \o b) = Len(a) + Len(b)
      /\ \A i \in 1..Len(a) + Len(b) : (a \o b)[i] = IF i <= Len(a) THEN a[i] ELSE b[i - Len(a)]
  BY <1>8, ConcatProperties
<1>10. ASSUME NEW i \in 1..(g + from + size) PROVE (a \o b)[i] = whole[i]
  <2>1. CASE i <= g + from
    <3>1. (a \o b)[i] = a[i] /\ i \in 1..(g + from)
      BY <1>8, <1>9, <2>1
    <3> QED
      BY <1>2, <1>5, <3>1
  <2>2. CASE ~(i <= g + from)
    <3>1. (a \o b)[i] = b[i - (g + from)] /\ i - (g + from) \in 1..size /\ ~(i <= g)
      BY <1>8, <1>9, <2>2
    <3>2. b[i - (g + from)] = r
      BY <1>3, <3>1
    <3>3. i \in 1..(g + (from + size))
      OBVIOUS
    <3>4. whole[i] = r
      BY <1>5, <3>1, <3>3
    <3> QED
      BY <3>1, <3>2, <3>4
  <2> QED
    BY <2>1, <2>2
<1>11. a \o b = whole
  <2>1. Len(a \o b) = g + from + size /\ Len(whole) = g + from + size
    BY <1>8, <1>9
  <2> QED
    BY <1>8, <1>9, <1>10, <2>1, SeqEqual
<1> QED
  BY <1>4, <1>6, <1>11

LEMMA OrderRead ==
  ASSUME AxoTypes, AxoTypes', Sent, ReadTransfer,
         NEW n, NEW ser, NEW lab, InOrder(n, ser, lab), Messages(ser), Pieces(lab), Collected(lab)
  PROVE  \E s, l : InOrder(n, s, l)' /\ Messages(s)' /\ Pieces(l)' /\ Collected(l)'
<1>1. UNCHANGED <<board, written, driver>> /\ driver /\ transfers # <<>>
  BY DEF ReadTransfer
<1>2. /\ lab \in Seq(Nat \X Nat) /\ ser \in Seq(Nat) /\ Len(lab) = Len(transfers) /\ Len(ser) = Len(inbox)
      /\ transfers \in Seq(Seq(Arrived)) /\ inbox \in Seq(Posted)
  BY DEF InOrder, AxoTypes
<1>3. lab # <<>> /\ 1 \in 1..Len(lab)
  BY <1>1, <1>2
<1>4. PICK k \in Nat, from \in Nat : lab[1] = <<k, from>>
  <2>1. lab[1] \in Nat \X Nat
    BY <1>2, <1>3
  <2> QED
    BY <2>1
<1>5. from <= ReplySize /\ transfers[1] = Piece(k, from) /\ Head(transfers) = transfers[1]
  <2>1. lab[1][2] <= ReplySize /\ transfers[1] = Piece(lab[1][1], lab[1][2])
    BY <1>3 DEF Pieces
  <2>2. Head(transfers) = transfers[1]
    BY <1>1, <1>2
  <2> QED
    BY <1>4, <2>1, <2>2
<1>6. PICK g \in Nat : collected = Given(g, from, k)
  BY <1>1, <1>3, <1>4 DEF Collected
<1>7. PICK size \in Nat : size = IF More(from) THEN Chunk ELSE ReplySize - from
  <2>1. (IF More(from) THEN Chunk ELSE ReplySize - from) \in Nat
    BY <1>5, AxoAssumption
  <2> QED
    BY <2>1
<1>8. collected \o Head(transfers) = Given(g, from + size, k)
  <2>1. Given(g, from, k) \o Piece(k, from) = Given(g, from + size, k)
    <3>1. g \in Nat /\ from \in Nat /\ size \in Nat
      BY <1>4, <1>6, <1>7
    <3>2. from <= ReplySize /\ (More(from) => size = Chunk) /\ (~More(from) => size = ReplySize - from)
      BY <1>5, <1>7
    <3> QED
      BY <3>1, <3>2, Longer
  <2> QED
    BY <1>5, <1>6, <2>1
<1>9. More(from) <=> Len(Head(transfers)) >= Chunk
  BY <1>1, <1>2, <1>4, TransferShort
<1>10. Len(Head(transfers)) \in Nat /\ Chunk \in Nat
  BY <1>1, <1>2, AxoAssumption
<1>11. PICK l : l = Tail(lab)
  OBVIOUS
<1>12. /\ l \in Seq(Nat \X Nat) /\ Len(lab) = Len(l) + 1 /\ Len(l) \in Nat /\ Len(l) = Len(transfers')
       /\ transfers' = Tail(transfers)
  BY <1>1, <1>2, <1>3, <1>11 DEF ReadTransfer
<1>13. \A i \in 1..Len(l) : i + 1 \in 1..Len(lab) /\ l[i] = lab[i + 1] /\ transfers'[i] = transfers[i + 1]
  BY <1>1, <1>2, <1>3, <1>11, <1>12
<1>14. Pieces(l)'
  <2>1. \A i \in 1..Len(l) : l[i][2] <= ReplySize /\ transfers'[i] = Piece(l[i][1], l[i][2])
    BY <1>13 DEF Pieces
  <2>2. \A i \in 1..(Len(l) - 1) :
          IF More(l[i][2]) THEN l[i + 1] = <<l[i][1], l[i][2] + Chunk>> ELSE l[i + 1][2] = 0
    <3> TAKE i \in 1..(Len(l) - 1)
    <3>1. i + 1 \in 1..(Len(lab) - 1) /\ i \in 1..Len(l) /\ i + 1 \in 1..Len(l)
      BY <1>12
    <3>2. l[i] = lab[i + 1] /\ l[i + 1] = lab[(i + 1) + 1]
      BY <1>13, <3>1
    <3> QED
      BY <3>1, <3>2 DEF Pieces
  <2>3. l # <<>> => ~More(l[Len(l)][2])
    <3> HAVE l # <<>>
    <3>1. Len(l) \in 1..Len(l) /\ Len(l) + 1 = Len(lab)
      BY <1>12
    <3>2. l[Len(l)] = lab[Len(lab)]
      BY <1>13, <3>1
    <3> QED
      BY <1>3, <3>2 DEF Pieces
  <2>4. \A i \in 1..Len(l) : Piece(l[i][1], l[i][2])' = Piece(l[i][1], l[i][2])
    BY <1>1 DEF Piece, Reply, More
  <2> QED
    BY <2>1, <2>2, <2>3, <2>4 DEF Pieces, More
<1>15. ASSUME NEW i \in 1..Len(l)
       PROVE  /\ Numbered(l[i][1]) /\ n < l[i][1] /\ k <= l[i][1] /\ (~More(from) => k < l[i][1])
              /\ \A j \in 1..Len(l) : i < j => l[i][1] <= l[j][1] /\ (~More(l[i][2]) => l[i][1] < l[j][1])
  <2>1. i + 1 \in 1..Len(lab) /\ l[i] = lab[i + 1] /\ 1 < i + 1
    BY <1>13
  <2>2. Numbered(l[i][1]) /\ n < l[i][1]
    BY <2>1 DEF InOrder
  <2>3. k <= l[i][1] /\ (~More(from) => k < l[i][1])
    <3>1. lab[1][1] <= lab[i + 1][1] /\ (~More(lab[1][2]) => lab[1][1] < lab[i + 1][1])
      BY <1>3, <2>1 DEF InOrder
    <3> QED
      BY <1>4, <2>1, <3>1
  <2>4. ASSUME NEW j \in 1..Len(l), i < j PROVE l[i][1] <= l[j][1] /\ (~More(l[i][2]) => l[i][1] < l[j][1])
    <3>1. j + 1 \in 1..Len(lab) /\ l[j] = lab[j + 1] /\ i + 1 < j + 1
      BY <1>13, <2>4
    <3> QED
      BY <2>1, <3>1 DEF InOrder
  <2> QED
    BY <2>2, <2>3, <2>4
<1>16. \A x : (Numbered(x)' <=> Numbered(x)) /\ (More(x)' <=> More(x))
  BY <1>1 DEF Numbered, More
<1>17. \A x, y, z : Given(x, y, z)' = Given(x, y, z)
  BY <1>1 DEF Given, Reply
<1>18. n \in Nat /\ n <= Len(board') /\ Numbered(k) /\ n < k
  BY <1>1, <1>3, <1>4 DEF InOrder
<1>19. CASE More(from)
  <2>1. inbox' = inbox /\ collected' = Given(g, from + Chunk, k)
    <3>1. ~(Len(Head(transfers)) < Chunk) /\ size = Chunk
      BY <1>7, <1>9, <1>10, <1>19
    <3>2. inbox' = inbox /\ collected' = collected \o Head(transfers)
      BY <3>1 DEF ReadTransfer
    <3> QED
      BY <1>8, <3>1, <3>2
  <2>2. InOrder(n, ser, l)'
    <3>1. \A i \in 1..Len(inbox) : inbox[i].type = "data" =>
            /\ Numbered(ser[i]) /\ n < ser[i]
            /\ \A j \in 1..Len(inbox) : inbox[j].type = "data" /\ i < j => ser[i] < ser[j]
            /\ \A j \in 1..Len(l) : ser[i] < l[j][1]
      BY <1>13 DEF InOrder
    <3> QED
      BY <1>2, <1>12, <1>15, <1>16, <1>18, <2>1, <3>1 DEF InOrder
  <2>3. Messages(ser)'
    BY <1>17, <2>1 DEF Messages
  <2>4. l # <<>> /\ l[1] = <<k, from + Chunk>>
    <3>1. Len(lab) # 1
      BY <1>3, <1>4, <1>19 DEF Pieces
    <3>2. 1 \in 1..(Len(lab) - 1) /\ 1 \in 1..Len(l)
      <4>1. PICK p \in Nat : p = Len(l)
        BY <1>12
      <4>2. Len(lab) = p + 1 /\ p # 0
        <5>1. Len(lab) = p + 1
          BY <1>12, <4>1
        <5> QED
          BY <3>1, <5>1
      <4>3. Len(lab) - 1 = p
        BY <4>2
      <4> QED
        BY <4>1, <4>2, <4>3
    <3>3. lab[1 + 1] = <<k, from + Chunk>>
      BY <1>4, <1>19, <3>2 DEF Pieces
    <3> QED
      BY <1>13, <3>2, <3>3
  <2>5. Collected(l)'
    BY <1>17, <2>1, <2>4 DEF Collected
  <2> QED
    BY <1>14, <2>2, <2>3, <2>5
<1>20. CASE ~More(from)
  <2>1. PICK m : m = [type |-> "data", bytes |-> Given(g, ReplySize, k)]
    OBVIOUS
  <2>2. inbox' = Append(inbox, m) /\ collected' = <<>>
    <3>1. from + size = ReplySize
      BY <1>5, <1>7, <1>20, AxoAssumption
    <3>2. Len(Head(transfers)) < Chunk
      BY <1>9, <1>10, <1>20
    <3>3. collected \o Head(transfers) = Given(g, ReplySize, k)
      BY <1>8, <3>1
    <3> QED
      BY <2>1, <3>2, <3>3 DEF ReadTransfer
  <2>3. PICK s : s = Append(ser, k)
    OBVIOUS
  <2>4. PICK h \in Nat : h = Len(inbox)
    BY <1>2
  <2>5. /\ s \in Seq(Nat) /\ Len(s) = h + 1 /\ Len(inbox') = h + 1 /\ inbox'[h + 1] = m /\ s[h + 1] = k
        /\ \A i \in 1..h : inbox'[i] = inbox[i] /\ s[i] = ser[i]
    <3>1. m \in Posted
      <4>1. inbox' \in Seq(Posted) /\ Len(inbox') \in Nat
        BY DEF AxoTypes
      <4>2. Len(inbox') = Len(inbox) + 1 /\ inbox'[Len(inbox) + 1] = m
        BY <1>2, <2>2
      <4> QED
        BY <1>2, <4>1, <4>2
    <3>2. inbox \in Seq(Posted) /\ ser \in Seq(Nat) /\ k \in Nat /\ Len(ser) = h
      BY <1>2, <1>4, <2>4
    <3>3. Len(inbox') = h + 1 /\ inbox'[h + 1] = m /\ \A i \in 1..h : inbox'[i] = inbox[i]
      BY <2>2, <2>4, <3>1, <3>2
    <3>4. s \in Seq(Nat) /\ Len(s) = h + 1 /\ s[h + 1] = k /\ \A i \in 1..h : s[i] = ser[i]
      BY <2>3, <3>2, AppendProperties
    <3> QED
      BY <3>3, <3>4
  <2>6. \A i \in 1..(h + 1) : i \in 1..h \/ i = h + 1
    OBVIOUS
  <2>7. ASSUME NEW i \in 1..(h + 1), inbox'[i].type = "data"
        PROVE  /\ Numbered(s[i]) /\ n < s[i]
               /\ \A j \in 1..(h + 1) : inbox'[j].type = "data" /\ i < j => s[i] < s[j]
               /\ \A j \in 1..Len(l) : s[i] < l[j][1]
               /\ \E x \in Nat : inbox'[i].bytes = Given(x, ReplySize, s[i])
    <3>1. CASE i = h + 1
      <4>1. s[i] = k /\ inbox'[i].bytes = Given(g, ReplySize, k)
        BY <2>1, <2>5, <3>1
      <4>2. \A j \in 1..(h + 1) : ~(i < j)
        BY <3>1
      <4> QED
        BY <1>15, <1>18, <1>20, <4>1, <4>2
    <3>2. CASE i \in 1..h
      <4>1. i \in 1..Len(inbox) /\ inbox'[i] = inbox[i] /\ s[i] = ser[i] /\ inbox[i].type = "data"
        BY <2>4, <2>5, <2>7, <3>2
      <4>2. Numbered(ser[i]) /\ n < ser[i] /\ ser[i] < k
        BY <1>3, <1>4, <4>1 DEF InOrder
      <4>3. ASSUME NEW j \in 1..(h + 1), inbox'[j].type = "data", i < j PROVE s[i] < s[j]
        <5>1. CASE j = h + 1
          BY <2>5, <4>1, <4>2, <5>1
        <5>2. CASE j \in 1..h
          BY <2>4, <2>5, <4>1, <4>3, <5>2 DEF InOrder
        <5> QED
          BY <2>6, <5>1, <5>2
      <4>4. \A j \in 1..Len(l) : s[i] < l[j][1]
        BY <1>13, <4>1 DEF InOrder
      <4>5. \E x \in Nat : inbox[i].bytes = Given(x, ReplySize, ser[i])
        BY <4>1 DEF Messages
      <4> QED
        BY <4>1, <4>2, <4>3, <4>4, <4>5
    <3> QED
      BY <2>6, <3>1, <3>2
  <2>8. InOrder(n, s, l)'
    BY <1>12, <1>15, <1>16, <1>18, <2>5, <2>7 DEF InOrder
  <2>9. Messages(s)'
    BY <1>17, <2>5, <2>7 DEF Messages
  <2>10. l # <<>> => l[1][2] = 0
    <3> HAVE l # <<>>
    <3>1. 1 \in 1..(Len(lab) - 1) /\ 1 \in 1..Len(l)
      BY <1>12
    <3>2. lab[1 + 1][2] = 0
      BY <1>4, <1>20, <3>1 DEF Pieces
    <3> QED
      BY <1>13, <3>1, <3>2
  <2>11. Collected(l)'
    <3>1. <<>> = [i \in 1..0 |-> Garbage]
      OBVIOUS
    <3>2. \A x : Given(0, 0, x) = <<>>
      BY DEF Given
    <3> QED
      BY <1>17, <2>2, <2>10, <3>1, <3>2 DEF Collected
  <2> QED
    BY <1>14, <2>8, <2>9, <2>11
<1> QED
  BY <1>19, <1>20
(* A short transfer to the board: an answer may be cut behind the others.  *)
LEMMA OrderAnswered ==
  ASSUME AxoTypes, AxoTypes', Sent, Grows, UNCHANGED <<inbox, written, driver, collected>>,
         NEW b \in Nat, b = Len(board) + 1, Len(board') = b, Numbered(b)',
         transfers' = transfers \o Cut(Answer(written[b][1])),
         NEW n, NEW ser, NEW lab, InOrder(n, ser, lab), Messages(ser), Pieces(lab), Collected(lab)
  PROVE  \E s, l : InOrder(n, s, l)' /\ Messages(s)' /\ Pieces(l)' /\ Collected(l)'
<1>1. PICK q \in Nat :
        /\ Cut(Answer(written[b][1])) = [i \in 1..(q + 1) |-> Piece(b, (i - 1) * Chunk)]
        /\ \A i \in 1..(q + 1) : (i - 1) * Chunk \in Nat /\ (i - 1) * Chunk <= ReplySize
        /\ \A i \in 1..q : More((i - 1) * Chunk) /\ i * Chunk = (i - 1) * Chunk + Chunk
        /\ ~More(q * Chunk)
  BY CutIs
<1>2. PICK new : new = [i \in 1..(q + 1) |-> <<b, (i - 1) * Chunk>>]
  OBVIOUS
<1>3. new \in Seq(Nat \X Nat) /\ Len(new) = q + 1
  <2>1. \A i \in 1..(q + 1) : <<b, (i - 1) * Chunk>> \in Nat \X Nat
    BY <1>1
  <2> QED
    BY <1>2, <2>1
<1>4. PICK h \in Nat : h = Len(lab)
  BY DEF InOrder
<1>5. lab \in Seq(Nat \X Nat) /\ Len(transfers) = h /\ transfers \in Seq(Seq(Arrived))
  BY <1>4 DEF InOrder, AxoTypes
<1>6. PICK l : l = lab \o new
  OBVIOUS
<1>7. l \in Seq(Nat \X Nat) /\ Len(l) = h + (q + 1) /\ \A i \in 1..h + (q + 1) : l[i] = IF i <= h THEN lab[i] ELSE new[i - h]
  <2>1. /\ lab \o new \in Seq(Nat \X Nat) /\ Len(lab \o new) = Len(lab) + Len(new)
        /\ \A i \in 1..Len(lab) + Len(new) : (lab \o new)[i] = IF i <= Len(lab) THEN lab[i] ELSE new[i - Len(lab)]
    BY <1>3, <1>5, ConcatProperties
  <2>2. Len(lab) = h /\ Len(new) = q + 1
    BY <1>3, <1>4
  <2> QED
    BY <1>6, <2>1, <2>2
<1>8. PICK cut : cut = Cut(Answer(written[b][1]))
  OBVIOUS
<1>9. Len(cut) = q + 1 /\ \A i \in 1..(q + 1) : cut[i] = Piece(b, (i - 1) * Chunk)
  BY <1>1, <1>8
<1>10. Len(transfers') = h + (q + 1) /\ \A i \in 1..h + (q + 1) : transfers'[i] = IF i <= h THEN transfers[i] ELSE cut[i - h]
  <2>1. PICK S : S = Seq(Arrived) \cup {cut[i] : i \in 1..(q + 1)}
    OBVIOUS
  <2>2. transfers \in Seq(S)
    BY <1>5, <2>1
  <2>3. cut \in Seq(S)
    <3>1. cut = [i \in 1..(q + 1) |-> Piece(b, (i - 1) * Chunk)]
      BY <1>1, <1>8
    <3>2. \A i \in 1..(q + 1) : Piece(b, (i - 1) * Chunk) \in S
      BY <1>9, <2>1
    <3> QED
      BY <3>1, <3>2
  <2>4. transfers' = transfers \o cut
    BY <1>8
  <2>5. /\ Len(transfers \o cut) = Len(transfers) + Len(cut)
        /\ \A i \in 1..Len(transfers) + Len(cut) :
             (transfers \o cut)[i] = IF i <= Len(transfers) THEN transfers[i] ELSE cut[i - Len(transfers)]
    BY <2>2, <2>3, ConcatProperties
  <2>6. Len(transfers) = h /\ Len(cut) = q + 1
    BY <1>5, <1>9
  <2> QED
    BY <2>4, <2>5, <2>6
<1>11. \A i \in 1..h : i \in 1..h + (q + 1) /\ i \in 1..Len(lab) /\ l[i] = lab[i] /\ transfers'[i] = transfers[i]
  <2> TAKE i \in 1..h
  <2>1. i \in 1..h + (q + 1) /\ i <= h
    OBVIOUS
  <2> QED
    BY <1>4, <1>7, <1>10, <2>1
<1>12. \A i \in 1..(q + 1) : /\ h + i \in 1..h + (q + 1)
                           /\ l[h + i] = <<b, (i - 1) * Chunk>> /\ transfers'[h + i] = Piece(b, (i - 1) * Chunk)
  <2> TAKE i \in 1..(q + 1)
  <2>1. h + i \in 1..h + (q + 1) /\ ~(h + i <= h) /\ (h + i) - h = i
    OBVIOUS
  <2>2. new[i] = <<b, (i - 1) * Chunk>>
    BY <1>2
  <2> QED
    BY <1>7, <1>9, <1>10, <2>1, <2>2
<1>13. \A i \in 1..h + (q + 1) : i \in 1..h \/ \E j \in 1..(q + 1) : i = h + j
  <2> TAKE i \in 1..h + (q + 1)
  <2>1. CASE i <= h
    BY <2>1
  <2>2. CASE ~(i <= h)
    <3>1. i - h \in 1..(q + 1) /\ i = h + (i - h)
      BY <2>2
    <3> QED
      BY <3>1
  <2> QED
    BY <2>1, <2>2
<1>14. Pieces(l)'
  <2>1. ASSUME NEW i \in 1..h + (q + 1) PROVE l[i][2] <= ReplySize /\ transfers'[i] = Piece(l[i][1], l[i][2])
    <3>1. CASE i \in 1..h
      BY <1>11, <3>1 DEF Pieces
    <3>2. ASSUME NEW j \in 1..(q + 1), i = h + j PROVE l[i][2] <= ReplySize /\ transfers'[i] = Piece(l[i][1], l[i][2])
      <4>1. l[i] = <<b, (j - 1) * Chunk>> /\ transfers'[i] = Piece(b, (j - 1) * Chunk)
        BY <1>12, <3>2
      <4>2. (j - 1) * Chunk <= ReplySize
        BY <1>1
      <4> QED
        BY <4>1, <4>2
    <3> QED
      BY <1>13, <3>1, <3>2
  <2>2. ASSUME NEW i \in 1..(h + (q + 1) - 1)
        PROVE  IF More(l[i][2]) THEN l[i + 1] = <<l[i][1], l[i][2] + Chunk>> ELSE l[i + 1][2] = 0
    <3>1. CASE i + 1 <= h
      <4>1. i \in 1..h /\ i + 1 \in 1..h /\ i \in 1..(Len(lab) - 1)
        BY <1>4, <3>1
      <4> QED
        BY <1>11, <4>1 DEF Pieces
    <3>2. CASE i = h
      <4>1. i \in 1..h /\ 1 \in 1..(q + 1)
        BY <3>2
      <4>2. lab # <<>> /\ i = Len(lab)
        BY <1>4, <3>2, <4>1
      <4>3. ~More(l[i][2])
        BY <1>11, <4>1, <4>2 DEF Pieces
      <4>4. (1 - 1) * Chunk = 0
        BY AxoAssumption
      <4>5. l[h + 1] = <<b, (1 - 1) * Chunk>>
        BY <1>12, <4>1
      <4> QED
        BY <3>2, <4>3, <4>4, <4>5
    <3>3. CASE i > h
      <4>1. PICK j \in 1..q : i = h + j
        <5>1. i - h \in 1..q /\ i = h + (i - h)
          BY <3>3
        <5> QED
          BY <5>1
      <4>2. j \in 1..(q + 1) /\ j + 1 \in 1..(q + 1) /\ i + 1 = h + (j + 1) /\ (j + 1) - 1 = j
        BY <4>1
      <4>3. l[i] = <<b, (j - 1) * Chunk>> /\ l[i + 1] = <<b, ((j + 1) - 1) * Chunk>>
        BY <1>12, <4>1, <4>2
      <4>4. More((j - 1) * Chunk) /\ j * Chunk = (j - 1) * Chunk + Chunk
        BY <1>1
      <4> QED
        BY <4>2, <4>3, <4>4
    <3> QED
      BY <3>1, <3>2, <3>3
  <2>3. ~More(l[h + (q + 1)][2])
    <3>1. q + 1 \in 1..(q + 1) /\ (q + 1) - 1 = q
      OBVIOUS
    <3>2. l[h + (q + 1)] = <<b, ((q + 1) - 1) * Chunk>>
      BY <1>12, <3>1
    <3> QED
      BY <1>1, <3>1, <3>2
  <2>4. \A x, y : Piece(x, y)' = Piece(x, y)
    BY DEF Piece, Reply, More
  <2>5. \A x : More(x)' <=> More(x)
    BY DEF More
  <2>6. PICK p \in Nat : p = h + (q + 1)
    OBVIOUS
  <2>7. Len(l) = p
    BY <1>7, <2>6
  <2>8. \A i \in 1..Len(l) : l[i][2] <= ReplySize /\ transfers'[i] = Piece(l[i][1], l[i][2])'
    BY <2>1, <2>4, <2>6, <2>7
  <2>9. \A i \in 1..(Len(l) - 1) :
          IF More(l[i][2])' THEN l[i + 1] = <<l[i][1], l[i][2] + Chunk>> ELSE l[i + 1][2] = 0
    <3>1. \A i \in 1..(p - 1) : IF More(l[i][2]) THEN l[i + 1] = <<l[i][1], l[i][2] + Chunk>> ELSE l[i + 1][2] = 0
      BY <2>2, <2>6
    <3> QED
      BY <2>5, <2>7, <3>1
  <2>10. ~More(l[Len(l)][2])'
    BY <2>3, <2>5, <2>6, <2>7
  <2> QED
    BY <2>8, <2>9, <2>10 DEF Pieces
<1>15. ASSUME NEW x, Numbered(x) PROVE Numbered(x)' /\ x \in Nat /\ x < b
  <2>1. x \in 1..Len(board) /\ Len(board) \in Nat
    BY <1>15 DEF Numbered, AxoTypes
  <2>2. Numbered(x)'
    BY <1>15, NumberedKept
  <2> QED
    BY <2>1, <2>2
<1>16. n \in Nat /\ n <= Len(board') /\ n < b
  <2>1. n \in Nat /\ n <= Len(board)
    BY DEF InOrder
  <2>2. Len(board) \in Nat
    BY DEF AxoTypes
  <2> QED
    BY <2>1, <2>2
<1>17. ASSUME NEW i \in 1..h + (q + 1)
       PROVE  /\ Numbered(l[i][1])' /\ n < l[i][1]
              /\ \A j \in 1..h + (q + 1) : i < j => l[i][1] <= l[j][1] /\ (~More(l[i][2]) => l[i][1] < l[j][1])
  <2>1. CASE i \in 1..h
    <3>1. l[i] = lab[i] /\ Numbered(lab[i][1]) /\ n < lab[i][1]
      BY <1>4, <1>11, <2>1 DEF InOrder
    <3>2. Numbered(lab[i][1])' /\ lab[i][1] < b /\ lab[i][1] \in Nat
      BY <1>15, <3>1
    <3>3. ASSUME NEW j \in 1..h + (q + 1), i < j
          PROVE  l[i][1] <= l[j][1] /\ (~More(l[i][2]) => l[i][1] < l[j][1])
      <4>1. CASE j \in 1..h
        BY <1>4, <1>11, <2>1, <3>3, <4>1 DEF InOrder
      <4>2. ASSUME NEW x \in 1..(q + 1), j = h + x PROVE l[i][1] < l[j][1] /\ l[i][1] <= l[j][1]
        <5>1. l[j] = <<b, (x - 1) * Chunk>>
          <6>1. l[h + x] = <<b, (x - 1) * Chunk>>
            BY <1>12
          <6> QED
            BY <4>2, <6>1
        <5> QED
          BY <3>1, <3>2, <5>1
      <4> QED
        BY <1>13, <4>1, <4>2
    <3> QED
      BY <3>1, <3>2, <3>3
  <2>2. ASSUME NEW x \in 1..(q + 1), i = h + x
        PROVE  /\ Numbered(l[i][1])' /\ n < l[i][1]
               /\ \A j \in 1..h + (q + 1) : i < j => l[i][1] <= l[j][1] /\ (~More(l[i][2]) => l[i][1] < l[j][1])
    <3>1. l[i] = <<b, (x - 1) * Chunk>>
      BY <1>12, <2>2
    <3>2. ASSUME NEW j \in 1..h + (q + 1), i < j
          PROVE  l[i][1] <= l[j][1] /\ (~More(l[i][2]) => l[i][1] < l[j][1])
      <4>1. PICK y \in 1..(q + 1) : j = h + y
        BY <1>13, <2>2, <3>2
      <4>2. l[j] = <<b, (y - 1) * Chunk>>
        BY <1>12, <4>1
      <4>3. x \in 1..q
        BY <2>2, <3>2, <4>1
      <4>4. More((x - 1) * Chunk)
        BY <1>1, <4>3
      <4> QED
        BY <3>1, <4>2, <4>4
    <3>3. Numbered(b)' /\ n < b
      BY <1>16
    <3> QED
      BY <3>1, <3>2, <3>3
  <2> QED
    BY <1>13, <2>1, <2>2
<1>18. ASSUME NEW i \in 1..Len(inbox), inbox[i].type = "data"
       PROVE  /\ Numbered(ser[i])' /\ n < ser[i]
              /\ \A j \in 1..Len(inbox) : inbox[j].type = "data" /\ i < j => ser[i] < ser[j]
              /\ \A j \in 1..h + (q + 1) : ser[i] < l[j][1]
              /\ \E g \in Nat : inbox[i].bytes = Given(g, ReplySize, ser[i])'
  <2>1. Numbered(ser[i]) /\ n < ser[i]
    BY <1>18 DEF InOrder
  <2>2. PICK k : k = ser[i]
    OBVIOUS
  <2>3. Numbered(k)' /\ k < b /\ k \in Nat /\ \A g : Given(g, ReplySize, k)' = Given(g, ReplySize, k)
    BY <1>15, <2>1, <2>2, NumberedKept
  <2>4. \E g \in Nat : inbox[i].bytes = Given(g, ReplySize, ser[i])'
    <3>1. PICK g \in Nat : inbox[i].bytes = Given(g, ReplySize, k)
      BY <1>18, <2>2 DEF Messages
    <3> QED
      BY <2>2, <2>3, <3>1
  <2>5. ASSUME NEW j \in 1..h + (q + 1) PROVE ser[i] < l[j][1]
    <3>1. CASE j \in 1..h
      <4>1. \A x \in 1..Len(lab) : ser[i] < lab[x][1]
        BY <1>18 DEF InOrder
      <4> QED
        BY <1>11, <3>1, <4>1
    <3>2. ASSUME NEW x \in 1..(q + 1), j = h + x PROVE ser[i] < l[j][1]
      <4>1. l[h + x] = <<b, (x - 1) * Chunk>>
        BY <1>12
      <4> QED
        BY <2>2, <2>3, <3>2, <4>1
    <3> QED
      BY <1>13, <3>1, <3>2
  <2>6. \A j \in 1..Len(inbox) : inbox[j].type = "data" /\ i < j => ser[i] < ser[j]
    BY <1>18 DEF InOrder
  <2> QED
    BY <2>1, <2>2, <2>3, <2>4, <2>5, <2>6
<1>19. InOrder(n, ser, l)'
  <2>1. ser \in Seq(Nat) /\ Len(ser) = Len(inbox)
    BY DEF InOrder
  <2> QED
    BY <1>7, <1>10, <1>16, <1>17, <1>18, <2>1 DEF InOrder, More
<1>20. Messages(ser)'
  BY <1>18 DEF Messages
<1>21. Collected(l)'
  <2> SUFFICES ASSUME driver PROVE Collected(l)'
    BY DEF Collected
  <2>1. PICK g \in Nat : IF lab = <<>> THEN collected = [i \in 1..g |-> Garbage]
                         ELSE collected = Given(g, lab[1][2], lab[1][1])
    BY DEF Collected
  <2>2. \A x, y, z : Given(x, y, z)' = Given(x, y, z)
    BY DEF Given, Reply
  <2>3. l # <<>> /\ 1 \in 1..h + (q + 1)
    BY <1>7
  <2>4. collected = Given(g, l[1][2], l[1][1])
    <3>1. CASE lab = <<>>
      <4>1. h = 0 /\ 1 \in 1..(q + 1) /\ (1 - 1) * Chunk = 0
        BY <1>4, <3>1, AxoAssumption
      <4>2. l[1] = <<b, 0>>
        <5>1. l[h + 1] = <<b, (1 - 1) * Chunk>>
          BY <1>12, <4>1
        <5> QED
          BY <4>1, <5>1
      <4>3. Given(g, 0, b) = [i \in 1..g |-> Garbage]
        <5>1. g + 0 = g /\ \A i \in 1..g : i <= g
          OBVIOUS
        <5> QED
          BY <5>1 DEF Given
      <4> QED
        BY <2>1, <3>1, <4>2, <4>3
    <3>2. CASE lab # <<>>
      <4>1. 1 \in 1..h
        BY <1>4, <1>5, <3>2
      <4> QED
        BY <1>11, <2>1, <3>2, <4>1
    <3> QED
      BY <3>1, <3>2
  <2> QED
    BY <2>2, <2>3, <2>4 DEF Collected
<1> QED
  BY <1>14, <1>19, <1>20, <1>21
-----------------------------------------------------------------------------
(* The invariant and its consequences.                                     *)
LEMMA AxoStarts == AxoInit => AxoInv
<1> SUFFICES ASSUME AxoInit PROVE AxoInv
  OBVIOUS
<1>1. start \in Nat
  BY AxoAssumption DEF AxoInit
<1>2. PICK g \in Nat : g = start
  BY <1>1
<1>3. collected = [i \in 1..g |-> Garbage]
  BY <1>2 DEF AxoInit
<1>4. collected \in Seq(Arrived) /\ Len(collected) = g
  <2>1. Garbage \in Arrived
    BY DEF Arrived
  <2> QED
    BY <1>3, <2>1
<1>5. client \in [Clients -> Conversation]
  <2>1. [at |-> "idle", tag |-> NoOne, ops |-> 0, answer |-> <<>>] \in Conversation
    BY DEF Conversation
  <2> QED
    BY <2>1 DEF AxoInit
<1>6. AxoTypes
  <2>1. waiting \in [Tags -> Clients \cup {NoOne}] /\ owed \in [Tags -> Int] /\ mixed \subseteq Tags
    BY DEF AxoInit
  <2>2. /\ inbox \in Seq(Posted) /\ packets \in Seq(Seq(Wire)) /\ board \in Seq(Seq(Wire)) /\ written \in Seq(Seq(Wire))
        /\ rest \in Seq(Wire) /\ message \in Seq(Wire) /\ transfers \in Seq(Seq(Arrived))
    BY DEF AxoInit
  <2>3. driver = TRUE /\ within = FALSE
    BY DEF AxoInit
  <2> QED
    BY <1>1, <1>2, <1>4, <1>5, <2>1, <2>2, <2>3 DEF AxoTypes
<1>7. Sent
  BY DEF AxoInit, Sent, InHand
<1>8. Slots
  BY DEF AxoInit, Slots, SlotsHeld, CallsAsked, CallsOnce, SendsUntagged
<1>9. OwnReply
  BY DEF AxoInit, OwnReply
<1>10. Outstanding(0)
  BY DEF AxoInit, Outstanding
<1>11. PICK none : none = <<>>
  OBVIOUS
<1>12. none \in Seq(Nat) /\ none \in Seq(Nat \X Nat) /\ Len(none) = 0
  BY <1>11
<1>13. inbox = <<>> /\ transfers = <<>> /\ board = <<>>
  BY DEF AxoInit
<1>14. InOrder(0, none, none)
  BY <1>12, <1>13 DEF InOrder
<1>15. Messages(none)
  BY <1>13 DEF Messages
<1>16. Pieces(none)
  BY <1>11, <1>12 DEF Pieces
<1>17. Collected(none)
  BY <1>3, <1>11 DEF Collected
<1>18. Answering
  BY <1>10, <1>14, <1>15, <1>16, <1>17 DEF Answering
<1> QED
  BY <1>6, <1>7, <1>8, <1>9, <1>18 DEF AxoInv

LEMMA OwnReplyKept ==
  ASSUME OwnReply, mixed \subseteq mixed', \A c \in Clients : client'[c].at = "got" => client'[c] = client[c]
  PROVE  OwnReply'
BY DEF OwnReply, Answer

LEMMA OperationStep ==
  ASSUME AxoInv, NEW c \in Clients, Operation(c) PROVE AxoInv'
<1>1. AxoTypes /\ Sent /\ Slots /\ OwnReply /\ Answering
  BY DEF AxoInv
<1>2. AxoTypes'
  BY <1>1, TypesOfOperations
<1>3. /\ UNCHANGED <<waiting, driver, packets, rest, within, message, board, transfers, collected, written, owed, mixed>>
      /\ \A d \in Clients \ {c} : client'[d] = client[d]
      /\ client'[c].at # "got"
  <2>1. client \in [Clients -> Conversation]
    BY <1>1 DEF AxoTypes
  <2>2. CASE WriteHeader(c)
    BY <2>1, <2>2 DEF WriteHeader, threadVars, usbVars, Conversation
  <2>3. CASE WriteData(c)
    BY <2>1, <2>3 DEF WriteData, threadVars, usbVars, Conversation
  <2>4. ASSUME NEW tag \in Tags, Call(c, tag)
        PROVE  /\ UNCHANGED <<waiting, driver, packets, rest, within, message, board, transfers, collected, written, owed, mixed>>
               /\ \A d \in Clients \ {c} : client'[d] = client[d]
               /\ client'[c].at # "got"
    BY <2>1, <2>4 DEF Call, threadVars, usbVars, Conversation
  <2>5. CASE GiveUp(c)
    BY <2>1, <2>5 DEF GiveUp, threadVars, usbVars, Conversation
  <2>6. CASE Continue(c)
    BY <2>1, <2>6 DEF Continue, threadVars, usbVars, Conversation
  <2> QED
    BY <2>2, <2>3, <2>4, <2>5, <2>6 DEF Operation
<1>4. Sent' /\ Grows
  BY <1>1, <1>3, SentKept
<1>5. Slots' /\ Still
  BY <1>1, SlotsOfOperations
<1>6. OwnReply'
  BY <1>1, <1>3, OwnReplyKept
<1>7. PICK n, ser, lab :
        Outstanding(n) /\ InOrder(n, ser, lab) /\ Messages(ser) /\ Pieces(lab) /\ Collected(lab)
  BY <1>1 DEF Answering
<1>8. Outstanding(n)'
  BY <1>1, <1>3, <1>5, <1>7, OutstandingKept
<1>9. inbox' = inbox \/ \E m \in Posted : m.type # "data" /\ inbox' = Append(inbox, m)
  <2>1. {"head", "data"} \subseteq Parts /\ Tags \subseteq Parts
    BY DEF Parts
  <2>2. CASE WriteHeader(c)
    <3>1. PICK m : m = [type |-> "send", bytes |-> Packet(c, "head")]
      OBVIOUS
    <3>2. m \in Posted /\ m.type = "send"
      BY <1>1, <2>1, <3>1, PacketIs DEF Posted
    <3> QED
      BY <2>2, <3>1, <3>2 DEF WriteHeader
  <2>3. CASE WriteData(c)
    <3>1. PICK m : m = [type |-> "send", bytes |-> Packet(c, "data")]
      OBVIOUS
    <3>2. m \in Posted /\ m.type = "send"
      BY <1>1, <2>1, <3>1, PacketIs DEF Posted
    <3> QED
      BY <2>3, <3>1, <3>2 DEF WriteData
  <2>4. ASSUME NEW tag \in Tags, Call(c, tag)
        PROVE  \E m \in Posted : m.type # "data" /\ inbox' = Append(inbox, m)
    <3>1. PICK m : m = [type |-> "call", from |-> c, tag |-> tag, bytes |-> Packet(c, tag)]
      OBVIOUS
    <3>2. m \in Posted /\ m.type = "call"
      BY <1>1, <2>1, <3>1, PacketIs DEF Posted
    <3> QED
      BY <2>4, <3>1, <3>2 DEF Call
  <2>5. CASE GiveUp(c) \/ Continue(c)
    BY <2>5 DEF GiveUp, Continue
  <2> QED
    BY <2>2, <2>3, <2>4, <2>5 DEF Operation
<1>10. CASE inbox' = inbox
  <2>1. InOrder(n, ser, lab)' /\ Messages(ser)' /\ Pieces(lab)' /\ Collected(lab)'
    BY <1>1, <1>2, <1>3, <1>4, <1>7, <1>10, OrderKept
  <2>2. Answering'
    BY <1>8, <2>1 DEF Answering
  <2> QED
    BY <1>2, <1>4, <1>5, <1>6, <2>2 DEF AxoInv
<1>11. ASSUME NEW m \in Posted, m.type # "data", inbox' = Append(inbox, m) PROVE AxoInv'
  <2>1. PICK s : InOrder(n, s, lab)' /\ Messages(s)' /\ Pieces(lab)' /\ Collected(lab)'
    BY <1>1, <1>2, <1>3, <1>4, <1>7, <1>11, OrderPosted
  <2>2. Answering'
    BY <1>8, <2>1 DEF Answering
  <2> QED
    BY <1>2, <1>4, <1>5, <1>6, <2>2 DEF AxoInv
<1> QED
  BY <1>9, <1>10, <1>11

LEMMA OwnReplyGiven ==
  ASSUME AxoTypes, Sent, Slots, OwnReply, NEW n \in Nat, NEW k \in Nat, n < k, Numbered(k), Outstanding(n), mixed' = mixed,
         waiting[written[k][1][2]] # NoOne, GivenTo(waiting[written[k][1][2]], k)
  PROVE  OwnReply'
<1>1. PICK t \in Tags : t = written[k][1][2]
  BY DEF Numbered
<1>2. PICK c \in Clients : c = waiting[t]
  BY <1>1 DEF AxoTypes
<1>3. CASE client' = client
  BY <1>3, OwnReplyKept
<1>4. CASE client' # client
  <2>1. client' = [client EXCEPT ![c].at = "got", ![c].answer = Answer(written[k][1])]
    BY <1>1, <1>2, <1>4 DEF GivenTo
  <2>2. client[c].tag = t
    BY <1>1, <1>2 DEF Slots, SlotsHeld
  <2>3. /\ client'[c].tag = t /\ client'[c].ops = client[c].ops /\ client'[c].answer = Answer(written[k][1])
        /\ \A d \in Clients \ {c} : client'[d] = client[d]
    BY <2>1, <2>2 DEF AxoTypes, Conversation
  <2>4. ASSUME t \notin mixed PROVE written[k][1] = <<c, t, client[c].ops>>
    <3>1. k \in (n + 1)..Len(written)
      <4>1. k \in 1..Len(board) /\ Len(board) <= Len(written)
        BY DEF Numbered, Sent
      <4>2. Len(board) \in Nat /\ Len(written) \in Nat
        BY SMTT(30) DEF AxoTypes
      <4> QED
        BY <4>1, <4>2
    <3>2. RequestAt(k, t)
      BY <1>1 DEF RequestAt, Numbered
    <3> QED
      BY <1>2, <2>4, <3>1, <3>2 DEF Outstanding
  <2>5. ASSUME NEW d \in Clients, client'[d].at = "got", client'[d].tag \notin mixed
        PROVE  client'[d].answer = Answer(<<d, client'[d].tag, client'[d].ops>>)
    <3>1. CASE d = c
      <4>1. written[k][1] = <<d, client'[d].tag, client'[d].ops>>
        BY <2>3, <2>4, <2>5, <3>1
      <4> QED
        BY <2>3, <3>1, <4>1
    <3>2. CASE d # c
      BY <2>3, <2>5, <3>2 DEF OwnReply
    <3> QED
      BY <3>1, <3>2
  <2> QED
    BY <2>5 DEF OwnReply, Answer
<1> QED
  BY <1>3, <1>4

LEMMA HandleStep ==
  ASSUME AxoInv, Handle PROVE AxoInv'
<1>1. AxoTypes /\ Sent /\ Slots /\ OwnReply /\ Answering
  BY DEF AxoInv
<1>2. AxoTypes'
  BY <1>1, TypesOfHandle
<1>3. Slots'
  BY <1>1, SlotsOfHandle
<1>4. PICK n, ser, lab :
        Outstanding(n) /\ InOrder(n, ser, lab) /\ Messages(ser) /\ Pieces(lab) /\ Collected(lab)
  BY <1>1 DEF Answering
<1>5. /\ inbox # <<>> /\ inbox' = Tail(inbox) /\ inbox[1] = Head(inbox) /\ inbox[1] \in Posted /\ 1 \in 1..Len(inbox)
      /\ UNCHANGED <<driver, rest, within, collected, message, board, transfers>>
  BY <1>1 DEF Handle, AxoTypes, usbVars
<1>6. n \in Nat
  BY <1>4 DEF InOrder
<1>7. ASSUME NEW o \in Nat, o = IF inbox[1].type = "data" THEN ser[1] ELSE n, Outstanding(o)', Sent' /\ Grows, OwnReply'
      PROVE  AxoInv'
  <2>1. PICK s : InOrder(o, s, lab)' /\ Messages(s)' /\ Pieces(lab)' /\ Collected(lab)'
    BY <1>1, <1>2, <1>4, <1>5, <1>7, OrderTaken
  <2>2. Answering'
    BY <1>7, <2>1 DEF Answering
  <2> QED
    BY <1>2, <1>3, <1>7, <2>2 DEF AxoInv
<1>8. CASE inbox[1].type = "send"
  <2>1. PICK bytes \in Seq(Wire) : bytes = inbox[1].bytes
    BY <1>5, <1>8, PostedIs
  <2>2. SendPacket(bytes) /\ UNCHANGED <<client, waiting, owed, mixed>>
    BY <1>5, <1>8, <2>1 DEF Handle
  <2>3. Sent' /\ Grows
    BY <1>1, <1>5, <2>2, SentMore
  <2>4. Untagged(bytes)
    BY <1>1, <1>5, <1>8, <2>1 DEF Slots, SendsUntagged
  <2>5. Outstanding(n)'
    BY <1>1, <1>4, <1>6, <2>2, <2>4, OutstandingSend DEF SendPacket
  <2>6. OwnReply'
    BY <1>1, <2>2, OwnReplyKept
  <2> QED
    BY <1>6, <1>7, <1>8, <2>3, <2>5, <2>6
<1>9. CASE inbox[1].type = "call"
  <2>1. PICK m \in Posted : m = inbox[1]
    BY <1>5
  <2>2. TakeCall(m) /\ m.bytes \in Seq(Wire) /\ m.type = "call"
    BY <1>5, <1>9, <2>1, PostedIs DEF Handle
  <2>3. SendPacket(m.bytes) /\ client' = client /\ mixed \subseteq mixed'
    BY <2>2 DEF TakeCall
  <2>4. Sent' /\ Grows
    BY <1>1, <1>5, <2>2, <2>3, SentMore
  <2>5. Asked(m)
    BY <1>1, <1>5, <1>9, <2>1 DEF Slots, CallsAsked
  <2>6. Outstanding(n)'
    BY <1>1, <1>4, <1>6, <2>2, <2>5, OutstandingCall
  <2>7. OwnReply'
    BY <1>1, <2>3, OwnReplyKept
  <2> QED
    BY <1>6, <1>7, <1>9, <2>4, <2>6, <2>7
<1>10. CASE inbox[1].type = "data"
  <2>1. PICK k : k = ser[1]
    OBVIOUS
  <2>2. /\ Numbered(k) /\ n < k /\ k \in Nat
        /\ UNCHANGED <<packets, written, mixed>>
        /\ owed' = [owed EXCEPT ![written[k][1][2]] = @ - 1]
        /\ \/ UNCHANGED <<client, waiting>>
           \/ /\ waiting[written[k][1][2]] # NoOne
              /\ waiting' = [waiting EXCEPT ![written[k][1][2]] = NoOne]
              /\ GivenTo(waiting[written[k][1][2]], k)
    BY <1>1, <1>4, <1>10, <2>1, DataTaken
  <2>3. Sent' /\ Grows
    BY <1>1, <1>5, <2>2, SentKept
  <2>4. Outstanding(k)'
    BY <1>1, <1>4, <1>6, <2>2, OutstandingData
  <2>5. OwnReply'
    <3>1. CASE UNCHANGED <<client, waiting>>
      BY <1>1, <2>2, <3>1, OwnReplyKept
    <3>2. CASE waiting[written[k][1][2]] # NoOne /\ GivenTo(waiting[written[k][1][2]], k)
      BY <1>1, <1>4, <1>6, <2>2, <3>2, OwnReplyGiven
    <3> QED
      BY <2>2, <3>1, <3>2
  <2> QED
    BY <1>7, <1>10, <2>1, <2>2, <2>3, <2>4, <2>5
<1>11. CASE inbox[1].type = "exit"
  <2>1. UNCHANGED <<client, waiting, packets, written, owed, mixed>>
    BY <1>5, <1>11 DEF Handle, TakeExit
  <2>2. Sent' /\ Grows
    BY <1>1, <1>5, <2>1, SentKept
  <2>3. Still
    BY <2>1 DEF Still
  <2>4. Outstanding(n)'
    BY <1>1, <1>4, <2>1, <2>3, OutstandingKept
  <2>5. OwnReply'
    BY <1>1, <2>1, OwnReplyKept
  <2> QED
    BY <1>6, <1>7, <1>11, <2>2, <2>4, <2>5
<1> QED
  BY <1>5, <1>8, <1>9, <1>10, <1>11, PostedIs

(* The steps of the program and the board.                                 *)
LEMMA ProgramStep ==
  ASSUME AxoInv, NextPacket \/ Transfer \/ NoRoom \/ ReadTransfer \/ Unplugged PROVE AxoInv'
<1>1. AxoTypes /\ Sent /\ Slots /\ OwnReply /\ Answering
  BY DEF AxoInv
<1>2. PICK n, ser, lab :
        Outstanding(n) /\ InOrder(n, ser, lab) /\ Messages(ser) /\ Pieces(lab) /\ Collected(lab)
  BY <1>1 DEF Answering
<1>3. UNCHANGED <<client, waiting, written, owed, mixed>>
  BY DEF NextPacket, Transfer, NoRoom, ReadTransfer, Unplugged
<1>4. Still /\ Outstanding(n)'
  <2>1. Still
    BY <1>3 DEF Still
  <2> QED
    BY <1>1, <1>2, <1>3, <2>1, OutstandingKept
<1>5. OwnReply'
  BY <1>1, <1>3, OwnReplyKept
<1>6. ASSUME AxoTypes', Sent', Slots', NEW s, NEW l, InOrder(n, s, l)', Messages(s)', Pieces(l)', Collected(l)'
      PROVE  AxoInv'
  BY <1>4, <1>5, <1>6 DEF AxoInv, Answering
<1>7. CASE NextPacket
  <2>1. AxoTypes'
    BY <1>1, <1>7, TypesOfThreads
  <2>2. Sent' /\ Grows
    BY <1>1, <1>7, SentNext
  <2>3. UNCHANGED <<inbox, transfers, driver, collected>>
    BY <1>7 DEF NextPacket, usbVars
  <2>4. Slots'
    BY <1>1, <1>3, <1>4, <2>3, SlotsKept
  <2>5. InOrder(n, ser, lab)' /\ Messages(ser)' /\ Pieces(lab)' /\ Collected(lab)'
    BY <1>1, <1>2, <2>1, <2>2, <2>3, OrderKept
  <2> QED
    BY <1>6, <2>1, <2>2, <2>4, <2>5
<1>8. CASE Transfer
  <2>1. AxoTypes'
    BY <1>1, <1>8, TypesOfTransfer
  <2>2. /\ Sent' /\ Grows
        /\ Full(rest) => board' = board /\ transfers' = transfers
        /\ ~Full(rest) => /\ Len(board) < Len(written) /\ board' = Append(board, written[Len(board) + 1])
                          /\ LET whole == written[Len(board) + 1]
                             IN transfers' = IF whole # <<>> /\ whole[1][2] \in Tags
                                             THEN transfers \o Cut(Answer(whole[1])) ELSE transfers
    BY <1>1, <1>8, SentTransfer
  <2>3. UNCHANGED <<inbox, driver, collected>>
    BY <1>8 DEF Transfer
  <2>4. Slots'
    BY <1>1, <1>3, <1>4, <2>3, SlotsKept
  <2>5. CASE transfers' = transfers
    <3>1. InOrder(n, ser, lab)' /\ Messages(ser)' /\ Pieces(lab)' /\ Collected(lab)'
      BY <1>1, <1>2, <2>1, <2>2, <2>3, <2>5, OrderKept
    <3> QED
      BY <1>6, <2>1, <2>2, <2>4, <3>1
  <2>6. CASE transfers' # transfers
    <3>1. PICK b \in Nat : b = Len(board) + 1
      BY <1>1 DEF AxoTypes
    <3>2. /\ board' = Append(board, written[b]) /\ written[b] # <<>> /\ written[b][1][2] \in Tags
          /\ transfers' = transfers \o Cut(Answer(written[b][1]))
      BY <2>2, <2>6, <3>1
    <3>3. Len(board') = b
      BY <1>1, <2>2, <2>6, <3>1, <3>2 DEF AxoTypes
    <3>4. Numbered(b)'
      <4>1. b \in 1..b
        BY <1>1, <3>1 DEF AxoTypes
      <4> QED
        BY <1>3, <3>2, <3>3, <4>1 DEF Numbered
    <3>5. PICK s, l : InOrder(n, s, l)' /\ Messages(s)' /\ Pieces(l)' /\ Collected(l)'
      BY <1>1, <1>2, <1>3, <2>1, <2>2, <2>3, <3>1, <3>2, <3>3, <3>4, OrderAnswered
    <3> QED
      BY <1>6, <2>1, <2>2, <2>4, <3>5
  <2> QED
    BY <2>5, <2>6
<1>9. CASE NoRoom \/ Unplugged
  <2>1. AxoTypes'
    BY <1>1, <1>9, TypesOfThreads
  <2>2. driver' = FALSE /\ UNCHANGED <<board, transfers>> /\ inbox' = Append(inbox, [type |-> "exit"])
    BY <1>9 DEF NoRoom, Unplugged, Exit, usbVars
  <2>3. Sent' /\ Grows
    BY <1>1, <1>3, <2>2, SentExit
  <2>4. PICK m : m = [type |-> "exit"]
    OBVIOUS
  <2>5. m \in Posted /\ m.type = "exit" /\ inbox' = Append(inbox, m)
    BY <2>2, <2>4 DEF Posted
  <2>6. Slots'
    BY <1>1, <1>3, <1>4, <2>5, SlotsPosted
  <2>7. PICK s : InOrder(n, s, lab)' /\ Messages(s)' /\ Pieces(lab)' /\ Collected(lab)'
    BY <1>1, <1>2, <2>1, <2>2, <2>3, <2>5, OrderPosted
  <2> QED
    BY <1>6, <2>1, <2>3, <2>6, <2>7
<1>10. CASE ReadTransfer
  <2>1. AxoTypes'
    BY <1>1, <1>10, TypesOfReadTransfer
  <2>2. Sent' /\ Grows
    BY <1>1, <1>3, <1>10, SentKept DEF ReadTransfer
  <2>3. Slots'
    <3>1. CASE inbox' = inbox
      BY <1>1, <1>3, <1>4, <3>1, SlotsKept
    <3>2. CASE inbox' # inbox
      <4>1. PICK m : m = [type |-> "data", bytes |-> collected \o Head(transfers)]
        OBVIOUS
      <4>2. inbox' = Append(inbox, m) /\ m.type = "data"
        BY <1>10, <3>2, <4>1 DEF ReadTransfer
      <4>3. m \in Posted
        <5>1. transfers # <<>> /\ transfers \in Seq(Seq(Arrived)) /\ collected \in Seq(Arrived)
          BY <1>1, <1>10 DEF ReadTransfer, AxoTypes
        <5>2. Head(transfers) \in Seq(Arrived)
          BY <5>1
        <5>3. collected \o Head(transfers) \in Seq(Arrived)
          BY <5>1, <5>2
        <5> QED
          BY <4>1, <5>3 DEF Posted
      <4> QED
        BY <1>1, <1>3, <1>4, <4>2, <4>3, SlotsPosted
    <3> QED
      BY <3>1, <3>2
  <2>4. PICK s, l : InOrder(n, s, l)' /\ Messages(s)' /\ Pieces(l)' /\ Collected(l)'
    BY <1>1, <1>2, <1>10, <2>1, OrderRead
  <2> QED
    BY <1>6, <2>1, <2>2, <2>3, <2>4
<1> QED
  BY <1>7, <1>8, <1>9, <1>10

LEMMA AxoKeeps == AxoInv /\ UNCHANGED axoVars => AxoInv'
<1> SUFFICES ASSUME AxoInv, UNCHANGED axoVars PROVE AxoInv'
  OBVIOUS
<1>1. UNCHANGED <<client, inbox, waiting, driver, packets, rest, within, collected, message, board, transfers,
                  start, written, owed, mixed>>
  BY DEF axoVars, threadVars, usbVars
<1>2. AxoTypes /\ Sent /\ Slots /\ OwnReply /\ Answering
  BY DEF AxoInv
<1>3. AxoTypes'
  BY <1>1, <1>2 DEF AxoTypes
<1>4. Sent' /\ Grows
  BY <1>1, <1>2, SentKept
<1>5. Still
  BY <1>1 DEF Still
<1>6. Slots'
  BY <1>1, <1>2, <1>5, SlotsKept
<1>7. OwnReply'
  BY <1>1, <1>2, OwnReplyKept
<1>8. PICK n, ser, lab :
        Outstanding(n) /\ InOrder(n, ser, lab) /\ Messages(ser) /\ Pieces(lab) /\ Collected(lab)
  BY <1>2 DEF Answering
<1>9. InOrder(n, ser, lab)' /\ Messages(ser)' /\ Pieces(lab)' /\ Collected(lab)'
  BY <1>1, <1>2, <1>3, <1>4, <1>8, OrderKept
<1>10. Outstanding(n)'
  BY <1>1, <1>2, <1>5, <1>8, OutstandingKept
<1> QED
  BY <1>3, <1>4, <1>6, <1>7, <1>9, <1>10 DEF AxoInv, Answering

LEMMA AxoInvAlways == AxoSpec => []AxoInv
<1>1. AxoInit => AxoInv
  BY AxoStarts
<1>2. AxoInv /\ [AxoNext]_axoVars => AxoInv'
  BY OperationStep, HandleStep, ProgramStep, AxoKeeps DEF AxoNext
<1> QED
  BY <1>1, <1>2, PTL DEF AxoSpec

(* Messages, slots, transfers and the buffer of the reader thread hold     *)
(* what they are for.                                                      *)
THEOREM AxoTypeCorrect == AxoSpec => []AxoTypeOK
<1>1. AxoInv => AxoTypeOK
  BY AxoTyped DEF AxoInv
<1> QED
  BY <1>1, AxoInvAlways, PTL

(* For clients, tags, sizes and rooms of any number: the board gets every  *)
(* packet as one message and in the order of sending, and a client that    *)
(* got an answer got the whole answer to its own request, unless its tag   *)
(* was asked for while an older answer was owed.                           *)
THEOREM AxoMessagesAlways == AxoSpec => []AxoMessages
<1>1. AxoInv => AxoMessages
  BY SentWhole DEF AxoInv, AxoMessages
<1> QED
  BY <1>1, AxoInvAlways, PTL
=============================================================================
