--------------------------- MODULE ObjCallProofs ---------------------------
(***************************************************************************)
(* That a remote call leaves nothing behind and that obj.erl implements    *)
(* AtomicObject, for any number of callers, requests and restarts.         *)
(*                                                                         *)
(* A reply does not say which call it is for.  What makes it the answer to *)
(* the call that takes it is that at most one request of a living caller   *)
(* is ever in the mailbox of the object, and that one belongs to the call  *)
(* the caller waits in: Inv says this, and what the mailbox of a caller    *)
(* can then hold.                                                          *)
(***************************************************************************)
EXTENDS ObjCall, SequenceTheorems, TLAPS

(* Before its first call, and in one, a client belongs to a process that   *)
(* made the call itself.                                                   *)
Turns == \A c \in Client :
    /\ dst[c] <= pid
    /\ born[c] <= turn[c] + 1
    /\ pc[c] # "idle" => born[c] <= turn[c]
    /\ watch[c] = IF pc[c] = "waiting" THEN turn[c] ELSE 0

(* A caller that waits has its reply, the end of the process, or both in   *)
(* this order; any other one has no message.                               *)
MailShape(c) ==
    /\ pc[c] # "waiting" => mail[c] = <<>>
    /\ Len(mail[c]) <= 2
    /\ Len(mail[c]) > 1 => mail[c][1].kind = "obj_reply" /\ mail[c][2].kind = "DOWN"
    /\ \A i \in DOMAIN mail[c] :
          /\ mail[c][i].pid = dst[c] /\ mail[c][i].turn = turn[c]
          /\ mail[c][i].kind = "DOWN" => ~(up /\ dst[c] = pid)

(* A request whose caller lives is the one of the call it waits in.        *)
Pending(m) ==
    /\ m.turn <= turn[m.from]
    /\ pc[m.from] = "resolved" => m.turn < turn[m.from]
    /\ m.turn >= born[m.from] => /\ pc[m.from] = "waiting" /\ m.turn = turn[m.from]
                                 /\ dst[m.from] = pid /\ mail[m.from] = <<>>

InboxShape ==
    /\ ~up => inbox = <<>> /\ map = Nothing
    /\ \A i \in DOMAIN inbox : Pending(inbox[i])
    /\ \A i, j \in DOMAIN inbox :
          inbox[i].from = inbox[j].from /\ inbox[i].turn = inbox[j].turn => i = j

Inv == TypeOK /\ Turns /\ (\A c \in Client : MailShape(c)) /\ InboxShape

-----------------------------------------------------------------------------
(* What the operators of the model return.                                 *)
LEMMA MapsAreMaps ==
  ASSUME NEW m \in Maps, NEW r \in Requests
  PROVE  /\ Nothing \in Maps
         /\ Reply(r, m) \in Maps
         /\ After(r, m) \in Maps
<1> USE ObjAssumption DEF Maps, Nothing, Absent, Op
<1>1. \A v \in 0 .. MaxValue : Count(v) \in 0 .. MaxValue
  BY DEF Count
<1>2. r.key \in Key /\ r.map \in Maps /\ r.op \in Op
  OBVIOUS
<1>3. Nothing \in Maps
  OBVIOUS
<1>4. Reply(r, m) \in Maps
  BY <1>1, <1>2, <1>3 DEF Reply
<1>5. After(r, m) \in Maps
  BY <1>1, <1>2, <1>3 DEF After
<1> QED
  BY <1>3, <1>4, <1>5

LEMMA RemoveAtOne ==
  ASSUME NEW S, NEW s \in Seq(S), s # <<>>
  PROVE  RemoveAt(s, 1) = Tail(s)
<1>1. SubSeq(s, 1, 0) = <<>>
  OBVIOUS
<1>2. Tail(s) = SubSeq(s, 2, Len(s)) /\ Tail(s) \in Seq(S)
  BY HeadTailProperties, TailIsSubSeq
<1>3. <<>> \o Tail(s) = Tail(s)
  BY <1>2, ConcatEmptySeq
<1> QED
  BY <1>1, <1>2, <1>3 DEF RemoveAt

-----------------------------------------------------------------------------
LEMMA InvInit == Init => Inv
<1> SUFFICES ASSUME Init PROVE Inv
  OBVIOUS
<1> USE ObjAssumption DEF Init
<1>1. Nothing \in Maps
  BY DEF Nothing, Maps, Absent
<1>2. (CHOOSE r \in Requests : TRUE) \in Requests
  OBVIOUS
<1>3. TypeOK
  BY <1>1, <1>2 DEF TypeOK, Pid
<1>4. Turns
  BY DEF Turns
<1>5. \A c \in Client : MailShape(c)
  BY DEF MailShape
<1>6. InboxShape
  BY DEF InboxShape
<1> QED
  BY <1>3, <1>4, <1>5, <1>6 DEF Inv

(* Sequences of one element and of two.                                    *)
LEMMA OneLong ==
  ASSUME NEW S, NEW s \in Seq(S), s # <<>>, ~(Len(s) > 1)
  PROVE  DOMAIN s = {1} /\ Tail(s) = <<>>
<1>1. Len(s) \in Nat \ {0} /\ DOMAIN s = 1 .. Len(s)
  BY EmptySeq, LenProperties
<1>2. Tail(s) \in Seq(S) /\ Len(Tail(s)) = Len(s) - 1
  BY HeadTailProperties
<1>3. ~(Len(Tail(s)) > 0)
  BY <1>1, <1>2
<1> QED
  BY <1>1, <1>2, <1>3, EmptySeq

LEMMA TwoLong ==
  ASSUME NEW S, NEW s \in Seq(S), Len(s) > 1, Len(s) <= 2
  PROVE  /\ s # <<>> /\ Tail(s) \in Seq(S) /\ Tail(s) # <<>>
         /\ ~(Len(Tail(s)) > 1) /\ Tail(s)[1] = s[2]
<1>1. s # <<>> /\ Len(s) \in Nat
  BY EmptySeq, LenProperties
<1>2. /\ Tail(s) \in Seq(S) /\ Len(Tail(s)) = Len(s) - 1
      /\ \A i \in 1 .. Len(Tail(s)) : Tail(s)[i] = s[i + 1]
  BY <1>1, HeadTailProperties
<1>3. ~(Len(Tail(s)) > 1) /\ Len(Tail(s)) > 0 /\ 1 \in 1 .. Len(Tail(s))
  BY <1>1, <1>2
<1>4. Tail(s)[1] = s[2]
  BY <1>2, <1>3
<1>5. Tail(s) # <<>>
  <2>1. ~(Len(<<>>) > 0)
    OBVIOUS
  <2> QED
    BY <1>3, <2>1
<1> QED
  BY <1>1, <1>2, <1>3, <1>4, <1>5

LEMMA InboxTyped == TypeOK => \A i \in DOMAIN inbox : inbox[i] \in Question
  BY DEF TypeOK

LEMMA InvResolve ==
  ASSUME Inv, NEW c \in Client, NEW r \in Requests, Resolve(c, r)
  PROVE  Inv'
<1> USE ObjAssumption DEF Inv, Resolve, object
<1>1. TypeOK'
  BY DEF TypeOK, Pid
<1>2. Turns'
  BY SMTT(30) DEF Turns, TypeOK, Pid
<1>3. \A k \in Client : MailShape(k)'
  BY SMTT(30) DEF MailShape, TypeOK, Pid
<1>4. ASSUME NEW m \in Question, Pending(m)
      PROVE  Pending(m)'
  BY <1>4, SMTT(30) DEF Pending, Question, TypeOK, Turns, Pid
<1>5. InboxShape'
  BY <1>4, InboxTyped DEF InboxShape
<1> QED
  BY <1>1, <1>2, <1>3, <1>5

LEMMA InvSend ==
  ASSUME Inv, NEW c \in Client, Send(c)
  PROVE  Inv'
<1> USE ObjAssumption DEF Inv
<1>1. turn[c] \in 1 .. MaxCalls /\ mail[c] = <<>>
  BY DEF Send, TypeOK, Turns, MailShape
<1>2. Asked(c) \in Question /\ Down(dst[c], turn[c]) \in Letter
  BY <1>1, MapsAreMaps DEF Asked, Down, Question, Letter, TypeOK, Nothing, Maps, Absent
<1>3. TypeOK'
  <2>1. Append(inbox, Asked(c)) \in Seq(Question)
    BY <1>2, AppendProperties DEF TypeOK
  <2>2. Append(mail[c], Down(dst[c], turn[c])) \in Seq(Letter)
    BY <1>2, AppendProperties DEF TypeOK
  <2> QED
    BY <1>1, <2>1, <2>2 DEF TypeOK, Send, Pid
<1>4. Turns'
  BY DEF Turns, TypeOK, Send, Pid
<1>5. CASE up /\ dst[c] = pid
  <2>1. \A k \in Client : MailShape(k)'
    BY <1>1, <1>5 DEF MailShape, TypeOK, Send
  <2>2. ASSUME NEW m \in Question, Pending(m)
        PROVE  Pending(m)'
    BY <2>2, <1>5 DEF Pending, Question, TypeOK, Send, Pid, Turns
  <2>3. Pending(Asked(c))'
    BY <1>1, <1>5 DEF Pending, Asked, TypeOK, Send, Pid, Turns
  <2>4. \A i \in DOMAIN inbox : inbox[i].from = c => inbox[i].turn < turn[c]
    BY InboxTyped DEF InboxShape, Pending, Send
  <2>5. /\ inbox' = Append(inbox, Asked(c)) /\ up' = up /\ inbox \in Seq(Question)
        /\ Asked(c).from = c /\ Asked(c).turn = turn[c]
    BY <1>5 DEF Send, TypeOK, Asked
  <2>6. /\ DOMAIN inbox' = 1 .. Len(inbox) + 1 /\ DOMAIN inbox = 1 .. Len(inbox)
        /\ \A i \in DOMAIN inbox : inbox'[i] = inbox[i] /\ inbox[i] \in Question
        /\ inbox'[Len(inbox) + 1] = Asked(c)
    BY <2>5, <1>2, AppendProperties, InboxTyped
  <2>7. ASSUME NEW i \in DOMAIN inbox'
        PROVE  Pending(inbox[i])'
    <3>1. CASE i = Len(inbox) + 1
      BY <2>3, <2>6, <3>1 DEF Pending, Asked, Send
    <3>2. CASE i \in DOMAIN inbox
      BY <2>2, <2>6, <3>2 DEF InboxShape, Pending
    <3> QED
      BY <2>5, <2>6, <3>1, <3>2, LenProperties
  <2>8. \A i, j \in DOMAIN inbox' :
          inbox'[i].from = inbox'[j].from /\ inbox'[i].turn = inbox'[j].turn => i = j
    <3>1. \A i \in DOMAIN inbox' : i \in DOMAIN inbox \/ i = Len(inbox) + 1
      BY <2>5, <2>6, LenProperties
    <3>2. \A i \in DOMAIN inbox : ~(inbox[i].from = c /\ inbox[i].turn = turn[c])
      BY <2>4, <2>6, <1>1 DEF Question
    <3> QED
      BY <2>5, <2>6, <3>1, <3>2 DEF InboxShape
  <2> QED
    BY <1>3, <1>4, <1>5, <2>1, <2>5, <2>7, <2>8 DEF InboxShape
<1>6. CASE ~(up /\ dst[c] = pid)
  <2>1. MailShape(c)'
    <3>1. mail'[c] = <<Down(dst[c], turn[c])>>
      BY <1>1, <1>6 DEF TypeOK, Send
    <3> QED
      BY <1>6, <3>1 DEF MailShape, TypeOK, Send, Down
  <2>2. \A k \in Client \ {c} : MailShape(k)'
    BY <1>6 DEF MailShape, TypeOK, Send
  <2>3. ASSUME NEW m \in Question, Pending(m), up
        PROVE  Pending(m)'
    BY <2>3, <1>6 DEF Pending, Question, TypeOK, Send, Pid, Turns
  <2>4. InboxShape'
    BY <1>6, <2>3, InboxTyped DEF InboxShape, Send
  <2> QED
    BY <1>3, <1>4, <2>1, <2>2, <2>4
<1> QED
  BY <1>5, <1>6

LEMMA InvDies ==
  ASSUME Inv, up, Dies
  PROVE  Inv'
<1> USE ObjAssumption DEF Inv
<1>1. \A c \in Client : watch[c] # 0 => Down(pid, watch[c]) \in Letter
  BY MapsAreMaps DEF Down, Letter, TypeOK, Nothing, Maps, Absent
<1>2. TypeOK'
  <2>1. Nothing \in Maps
    BY DEF Nothing, Maps, Absent
  <2>2. mail' \in [Client -> Seq(Letter)]
    BY <1>1, AppendProperties DEF Dies, TypeOK
  <2> QED
    BY <2>1, <2>2, EmptySeq DEF TypeOK, Dies
<1>3. Turns'
  BY DEF Turns, Dies
<1>4. ASSUME NEW c \in Client
      PROVE  MailShape(c)'
  <2>0. mail[c] \in Seq(Letter)
    BY DEF TypeOK
  <2>1. CASE watch[c] # 0 /\ dst[c] = pid
    <3>1. /\ mail'[c] = Append(mail[c], Down(pid, watch[c]))
          /\ pc[c] = "waiting" /\ watch[c] = turn[c]
      BY <2>1 DEF Dies, Turns
    <3>2. DOMAIN mail[c] = 1 .. Len(mail[c]) /\ Len(mail[c]) \in Nat
      BY <2>0, LenProperties
    <3>3. \A i \in DOMAIN mail[c] : mail[c][i].kind # "DOWN" /\ mail[c][i] \in Letter
      BY <2>0, <2>1, ElementOfSeq, LenProperties DEF MailShape
    <3>4. ~(Len(mail[c]) > 1)
      BY <3>2, <3>3 DEF MailShape
    <3>5. Len(mail[c]) <= 1
      BY <3>2, <3>4
    <3> QED
      BY <2>0, <2>1, <3>1, <3>2, <3>3, <3>5, <1>1 DEF MailShape, Letter, Dies, Down
  <2>2. CASE ~(watch[c] # 0 /\ dst[c] = pid)
    BY <2>2 DEF MailShape, TypeOK, Dies
  <2> QED
    BY <2>1, <2>2
<1>5. InboxShape'
  BY DEF InboxShape, Dies
<1> QED
  BY <1>2, <1>3, <1>4, <1>5

LEMMA InboxHead ==
  ASSUME Inv, up, inbox # <<>>
  PROVE  /\ Head(inbox) = inbox[1] /\ Head(inbox) \in Question /\ Pending(Head(inbox))
         /\ Tail(inbox) \in Seq(Question)
         /\ \A i \in DOMAIN Tail(inbox) :
               /\ Tail(inbox)[i] = inbox[i + 1] /\ i + 1 \in DOMAIN inbox /\ i \in Nat \ {0}
               /\ Tail(inbox)[i] \in Question /\ Pending(Tail(inbox)[i])
               /\ ~(Tail(inbox)[i].from = Head(inbox).from /\ Tail(inbox)[i].turn = Head(inbox).turn)
         /\ \A i, j \in DOMAIN Tail(inbox) :
               Tail(inbox)[i].from = Tail(inbox)[j].from /\ Tail(inbox)[i].turn = Tail(inbox)[j].turn => i = j
<1> USE DEF Inv
<1>1. inbox \in Seq(Question)
  BY DEF TypeOK
<1>2. Head(inbox) = inbox[1] /\ 1 \in DOMAIN inbox
  BY <1>1
<1>3. /\ Tail(inbox) \in Seq(Question)
      /\ \A i \in DOMAIN Tail(inbox) : /\ Tail(inbox)[i] = inbox[i + 1]
                                       /\ i + 1 \in DOMAIN inbox /\ i \in Nat \ {0}
  BY <1>1, HeadTailProperties, LenProperties
<1>4. \A i \in DOMAIN inbox : inbox[i] \in Question /\ Pending(inbox[i])
  BY InboxTyped DEF InboxShape
<1> QED
  BY <1>2, <1>3, <1>4 DEF InboxShape

LEMMA InvHandle ==
  ASSUME Inv, Handle
  PROVE  Inv'
<1> USE ObjAssumption DEF Inv
<1>1. up /\ inbox # <<>>
  BY DEF Handle
<1>2. CASE Dies
  BY <1>1, <1>2, InvDies
<1>3. CASE ~Dies
  <2> DEFINE m == Head(inbox)
             R == [kind |-> "obj_reply", pid |-> pid, turn |-> m.turn, val |-> Reply(m.req, map)]
  <2>1. /\ map' = After(m.req, map) /\ inbox' = Tail(inbox)
        /\ mail' = IF m.turn < born[m.from] THEN mail
                   ELSE [mail EXCEPT ![m.from] = Append(@, R)]
        /\ UNCHANGED <<up, pid, pc, turn, born, dst, req, watch, got>>
    BY <1>3 DEF Handle
  <2>2. m \in Question /\ Pending(m) /\ inbox' \in Seq(Question)
    BY <1>1, <2>1, InboxHead
  <2>3. map' \in Maps /\ R \in Letter
    BY <2>1, <2>2, MapsAreMaps DEF Question, Letter, TypeOK
  <2>4. ASSUME NEW i \in DOMAIN inbox'
        PROVE  /\ inbox'[i] \in Question /\ Pending(inbox'[i])
               /\ ~(inbox'[i].from = m.from /\ inbox'[i].turn = m.turn)
    BY <1>1, <2>1, InboxHead
  <2>5. \A i, j \in DOMAIN inbox' :
          inbox'[i].from = inbox'[j].from /\ inbox'[i].turn = inbox'[j].turn => i = j
    BY <1>1, <2>1, InboxHead
  <2>6. Turns'
    BY <2>1 DEF Turns
  <2> HIDE DEF m, R
  <2>7. CASE m.turn < born[m.from]
    <3>1. mail' = mail
      BY <2>1, <2>7
    <3>2. TypeOK'
      BY <2>1, <2>2, <2>3, <3>1 DEF TypeOK
    <3>3. \A c \in Client : MailShape(c)'
      BY <2>1, <3>1 DEF MailShape
    <3>4. \A i \in DOMAIN inbox' : Pending(inbox[i])'
      BY <2>1, <2>4, <3>1 DEF Pending
    <3> QED
      BY <1>1, <2>1, <2>5, <2>6, <3>2, <3>3, <3>4 DEF InboxShape
  <2>8. CASE ~(m.turn < born[m.from])
    <3>1. m.from \in Client /\ m.turn \in 1 .. MaxCalls /\ m.req \in Requests
      BY <2>2 DEF Question
    <3>2. /\ m.turn >= born[m.from] /\ pc[m.from] = "waiting" /\ m.turn = turn[m.from]
          /\ dst[m.from] = pid /\ mail[m.from] = <<>>
      BY <2>2, <2>8, <3>1 DEF Pending, TypeOK
    <3>3. mail' = [mail EXCEPT ![m.from] = <<R>>]
      BY <2>1, <2>8, <3>2
    <3>4. <<R>> \in Seq(Letter) /\ mail \in [Client -> Seq(Letter)]
      BY <2>3 DEF TypeOK
    <3>5. TypeOK'
      BY <2>1, <2>2, <2>3, <3>3, <3>4 DEF TypeOK
    <3>6. ASSUME NEW c \in Client
          PROVE  MailShape(c)'
      <4>1. CASE c = m.from
        <5>1. mail'[c] = <<R>> /\ R.kind = "obj_reply" /\ R.pid = dst[c] /\ R.turn = turn[c]
          BY <3>2, <3>3, <3>4, <4>1 DEF R
        <5>2. ~(Len(mail'[c]) > 1) /\ Len(mail'[c]) <= 2 /\ DOMAIN mail'[c] = {1}
          BY <5>1
        <5>3. \A i \in DOMAIN mail'[c] : /\ mail'[c][i].kind = "obj_reply"
                                         /\ mail'[c][i].pid = dst'[c]
                                         /\ mail'[c][i].turn = turn'[c]
          BY <2>1, <5>1, <5>2
        <5>4. pc'[c] = "waiting"
          BY <2>1, <3>2, <4>1
        <5> QED
          BY <5>2, <5>3, <5>4 DEF MailShape
      <4>2. CASE c # m.from
        <5>1. mail'[c] = mail[c]
          BY <3>3, <3>4, <4>2
        <5>2. pc' = pc /\ dst' = dst /\ turn' = turn /\ up' = up /\ pid' = pid
          BY <2>1
        <5>3. MailShape(c)
          OBVIOUS
        <5> HIDE DEF Inv
        <5> QED
          BY <5>1, <5>2, <5>3 DEF MailShape
      <4> QED
        BY <4>1, <4>2
    <3>7. ASSUME NEW i \in DOMAIN inbox'
          PROVE  Pending(inbox[i])'
      <4>1. inbox'[i].from = m.from => ~(inbox'[i].turn >= born[m.from])
        BY <2>4, <3>2 DEF Pending
      <4>2. inbox'[i].from # m.from => mail'[inbox'[i].from] = mail[inbox'[i].from]
        BY <2>4, <3>3, <3>4 DEF Question
      <4> QED
        BY <2>1, <2>4, <4>1, <4>2 DEF Pending
    <3> QED
      BY <1>1, <2>1, <2>5, <2>6, <3>5, <3>6, <3>7 DEF InboxShape
  <2> QED
    BY <2>7, <2>8
<1> QED
  BY <1>2, <1>3

LEMMA InvRestart ==
  ASSUME Inv, Restart
  PROVE  Inv'
<1> USE ObjAssumption DEF Inv, Restart, caller
<1>1. TypeOK'
  BY DEF TypeOK, Pid
<1>2. Turns'
  BY DEF Turns, TypeOK, Pid
<1>3. \A c \in Client : MailShape(c)'
  BY DEF MailShape, TypeOK, Pid, Turns
<1>4. InboxShape'
  BY DEF InboxShape
<1> QED
  BY <1>1, <1>2, <1>3, <1>4

(* A caller takes the first message, and none is left behind it.           *)
LEMMA ReceiveTakes ==
  ASSUME Inv, NEW c \in Client, pc[c] = "waiting", Matches(c) # {}
  PROVE  /\ mail[c] # <<>> /\ First(Matches(c)) = 1
         /\ Flushed(c, RemoveAt(mail[c], 1)) = <<>>
<1> USE DEF Inv
<1>1. /\ mail[c] \in Seq(Letter)
      /\ DOMAIN mail[c] = 1 .. Len(mail[c]) /\ Len(mail[c]) \in Nat
      /\ \A i \in DOMAIN mail[c] : mail[c][i] \in Letter
  BY LenProperties, ElementOfSeq DEF TypeOK
<1>2. Matches(c) = DOMAIN mail[c]
  <2>1. \A i \in DOMAIN mail[c] : Match(c, mail[c][i])
    BY <1>1 DEF Match, MailShape, Turns, Letter
  <2> QED
    BY <2>1 DEF Matches
<1>3. mail[c] # <<>> /\ 1 \in DOMAIN mail[c]
  BY <1>1, <1>2
<1>4. First(Matches(c)) = 1
  BY <1>1, <1>2, <1>3 DEF First
<1>5. RemoveAt(mail[c], 1) = Tail(mail[c])
  BY <1>1, <1>3, RemoveAtOne
<1>6. CASE ~(Len(mail[c]) > 1)
  <2>1. Tail(mail[c]) = <<>>
    BY <1>1, <1>3, <1>6, OneLong
  <2>2. Flushed(c, <<>>) = <<>>
    BY DEF Flushed
  <2> QED
    BY <1>3, <1>4, <1>5, <2>1, <2>2
<1>7. CASE Len(mail[c]) > 1
  <2> DEFINE D == Tail(mail[c])
  <2>1. Len(mail[c]) <= 2 /\ 2 \in DOMAIN mail[c]
    BY <1>1, <1>7 DEF MailShape
  <2>2. D \in Seq(Letter) /\ D # <<>> /\ ~(Len(D) > 1) /\ D[1] = mail[c][2]
    BY <1>1, <1>7, <2>1, TwoLong
  <2>3. mail[c][2].kind = "DOWN" /\ mail[c][2].turn = watch[c]
    BY <1>7, <2>1 DEF MailShape, Turns
  <2> HIDE DEF D
  <2>4. DOMAIN D = {1} /\ Tail(D) = <<>> /\ RemoveAt(D, 1) = Tail(D)
    BY <2>2, OneLong, RemoveAtOne
  <2>5. {i \in DOMAIN D : D[i].kind = "DOWN" /\ D[i].turn = watch[c]} = {1}
    BY <2>2, <2>3, <2>4
  <2>6. First({1}) = 1
    BY DEF First
  <2>7. Flushed(c, D) = <<>>
    BY <2>4, <2>5, <2>6 DEF Flushed
  <2> QED
    BY <1>3, <1>4, <1>5, <2>7 DEF D
<1> QED
  BY <1>6, <1>7

(* A call that ends leaves its caller as it was before the call, and no    *)
(* request of it is still pending.                                         *)
LEMMA InvEnds ==
  ASSUME Inv, NEW c \in Client, pc[c] = "waiting", NEW b \in {born[c], turn[c] + 1},
         b = turn[c] + 1 \/ mail[c] # <<>>,
         pc' = [pc EXCEPT ![c] = "idle"], mail' = [mail EXCEPT ![c] = <<>>],
         watch' = [watch EXCEPT ![c] = 0], born' = [born EXCEPT ![c] = b],
         got' \in [Client -> {<<>>} \cup {<<v>> : v \in Maps}],
         UNCHANGED <<object, turn, dst, req>>
  PROVE  Inv'
<1> USE ObjAssumption DEF Inv, object
<1>1. b \in 1 .. MaxCalls + 1 /\ b <= turn[c] + 1
  BY DEF TypeOK, Turns
<1>2. TypeOK'
  <2>1. mail' \in [Client -> Seq(Letter)]
    BY EmptySeq DEF TypeOK
  <2> QED
    BY <1>1, <2>1 DEF TypeOK
<1>3. Turns'
  BY <1>1 DEF Turns, TypeOK
<1>4. \A k \in Client : MailShape(k)'
  BY DEF MailShape, TypeOK
<1>5. ASSUME NEW m \in Question, Pending(m)
      PROVE  Pending(m)'
  <2>1. CASE m.from = c
    <3>1. ~(m.turn >= b)
      BY <1>5, <2>1 DEF Pending, Question, TypeOK
    <3> QED
      BY <1>5, <2>1, <3>1 DEF Pending, Question, TypeOK
  <2>2. CASE m.from # c
    BY <1>5, <2>2 DEF Pending, Question, TypeOK
  <2> QED
    BY <2>1, <2>2
<1>6. InboxShape'
  BY <1>5, InboxTyped DEF InboxShape
<1> QED
  BY <1>2, <1>3, <1>4, <1>6

LEMMA InvReceive ==
  ASSUME Inv, NEW c \in Client, Receive(c)
  PROVE  Inv'
<1>1. pc[c] = "waiting" /\ Matches(c) # {}
  BY DEF Receive
<1>2. mail[c] # <<>> /\ First(Matches(c)) = 1 /\ Flushed(c, RemoveAt(mail[c], 1)) = <<>>
  BY <1>1, ReceiveTakes
<1>3. mail' = [mail EXCEPT ![c] = <<>>]
  BY <1>2 DEF Receive
<1>4. got' \in [Client -> {<<>>} \cup {<<v>> : v \in Maps}]
  <2>1. mail[c] \in Seq(Letter)
    BY DEF Inv, TypeOK
  <2>2. 1 \in 1 .. Len(mail[c])
    BY <1>2, <2>1, EmptySeq
  <2>3. mail[c][1] \in Letter
    BY <2>1, <2>2, ElementOfSeq
  <2> QED
    BY <1>2, <2>3 DEF Receive, Inv, TypeOK, Letter
<1>5. born' = [born EXCEPT ![c] = born[c]]
  BY DEF Receive, Inv, TypeOK
<1> QED
  BY <1>1, <1>2, <1>3, <1>4, <1>5, InvEnds DEF Receive

LEMMA InvTimeout ==
  ASSUME Inv, NEW c \in Client, Timeout(c)
  PROVE  Inv'
<1>1. got' \in [Client -> {<<>>} \cup {<<v>> : v \in Maps}]
  BY DEF Timeout, Inv, TypeOK
<1> QED
  BY <1>1, InvEnds DEF Timeout

LEMMA InvNext == Inv /\ [Next]_vars => Inv'
<1> SUFFICES ASSUME Inv, [Next]_vars PROVE Inv'
  OBVIOUS
<1>1. ASSUME NEW c \in Client, NEW r \in Requests, Resolve(c, r) PROVE Inv'
  BY <1>1, InvResolve
<1>2. ASSUME NEW c \in Client, Send(c) PROVE Inv'
  BY <1>2, InvSend
<1>3. ASSUME NEW c \in Client, Receive(c) PROVE Inv'
  BY <1>3, InvReceive
<1>4. ASSUME NEW c \in Client, Timeout(c) PROVE Inv'
  BY <1>4, InvTimeout
<1>5. CASE Handle
  BY <1>5, InvHandle
<1>6. CASE Killed
  BY <1>6, InvDies DEF Killed
<1>7. CASE Restart
  BY <1>7, InvRestart
<1>8. CASE UNCHANGED vars
  <2>1. TypeOK'
    BY <1>8 DEF Inv, TypeOK, vars, object, caller
  <2>2. Turns' /\ \A c \in Client : MailShape(c)'
    BY <1>8 DEF Inv, Turns, MailShape, vars, object, caller
  <2>3. InboxShape'
    BY <1>8 DEF Inv, InboxShape, Pending, vars, object, caller
  <2> QED
    BY <2>1, <2>2, <2>3 DEF Inv
<1> QED
  BY <1>1, <1>2, <1>3, <1>4, <1>5, <1>6, <1>7, <1>8 DEF Next

LEMMA InvAlways == Spec => []Inv
  BY InvInit, InvNext, PTL DEF Spec

-----------------------------------------------------------------------------
(* Every variable of obj.erl keeps its shape, whatever is asked and        *)
(* whenever the object dies, is started again, or a caller gives up.       *)
THEOREM TypeCorrect == Spec => []TypeOK
  BY InvAlways, PTL DEF Inv

(* However a call ends -- reply, death of the object or timeout -- neither *)
(* a message nor a monitor of it is left for the next call (wait_reply/1). *)
THEOREM CallsCleanUp == Spec => []NothingLeft
<1>1. Inv => NothingLeft
  BY DEF Inv, Turns, MailShape, NothingLeft
<1> QED
  BY <1>1, InvAlways, PTL

-----------------------------------------------------------------------------
(* The refinement: what the mapping of ObjCall makes of every step.        *)

(* The only answer in a mailbox is its first message.                      *)
LEMMA AnswerFirst ==
  ASSUME Inv, NEW c \in Client
  PROVE  /\ mail[c] \in Seq(Letter)
         /\ Answers(c) \in {{}, {1}}
         /\ Answers(c) = {1} <=> mail[c] # <<>> /\ mail[c][1].kind = "obj_reply"
<1>1. /\ mail[c] \in Seq(Letter)
      /\ DOMAIN mail[c] = 1 .. Len(mail[c]) /\ Len(mail[c]) \in Nat
  BY LenProperties DEF Inv, TypeOK
<1>2. \A i \in DOMAIN mail[c] : mail[c][i].turn = turn[c]
  BY DEF Inv, MailShape
<1>3. \A i \in DOMAIN mail[c] : i \in Nat \ {0} /\ ~(i > 2) /\ (i > 1 => mail[c][2].kind = "DOWN")
  BY <1>1 DEF Inv, MailShape
<1>4. \A i \in DOMAIN mail[c] : i > 1 => i = 2
  BY <1>3
<1>5. \A i \in Answers(c) : i = 1
  BY <1>3, <1>4 DEF Answers
<1>6. 1 \in DOMAIN mail[c] <=> mail[c] # <<>>
  BY <1>1, EmptySeq
<1> QED
  BY <1>1, <1>2, <1>5, <1>6 DEF Answers

LEMMA FirstOne == First({1}) = 1
  BY DEF First

(* What a caller sees of its call depends on its mailbox alone.            *)
Sees(c) ==
    /\ Status[c] = IF pc[c] = "idle" THEN "idle"
                   ELSE IF mail[c] # <<>> /\ mail[c][1].kind = "obj_reply" THEN "done" ELSE "open"
    /\ Value[c] = IF pc[c] # "idle" /\ mail[c] # <<>> /\ mail[c][1].kind = "obj_reply"
                  THEN mail[c][1].val ELSE Nothing

LEMMA StatusValue == Inv => \A c \in Client : Sees(c)
  BY AnswerFirst, FirstOne DEF Status, Value, Sees

LEMMA StatusValueNext == Inv' => (\A c \in Client : Sees(c))'
  BY StatusValue, PTL

LEMMA ExceptOne ==
  ASSUME NEW f, NEW g, NEW S, NEW c \in S, NEW v,
         f = [k \in S |-> f[k]], g = [k \in S |-> g[k]],
         g[c] = v, \A k \in S : k # c => g[k] = f[k]
  PROVE  g = [f EXCEPT ![c] = v]
  OBVIOUS

LEMMA SameOn ==
  ASSUME NEW f, NEW g, NEW S,
         f = [k \in S |-> f[k]], g = [k \in S |-> g[k]], \A k \in S : g[k] = f[k]
  PROVE  g = f
  OBVIOUS

LEMMA MappedFunctions ==
  /\ Status = [k \in Client |-> Status[k]] /\ Status' = [k \in Client |-> Status'[k]]
  /\ Value = [k \in Client |-> Value[k]] /\ Value' = [k \in Client |-> Value'[k]]
  BY DEF Status, Value

LEMMA StepResolve ==
  ASSUME Inv, Inv', NEW c \in Client, NEW r \in Requests, Resolve(c, r)
  PROVE  Atomic!Call(c, r)
<1>1. \A k \in Client : Sees(k) /\ Sees(k)'
  BY StatusValue, StatusValueNext
<1>2. mail[c] = <<>> /\ mail' = mail
  BY DEF Inv, MailShape, Resolve
<1>3. /\ Status[c] = "idle" /\ Status'[c] = "open" /\ Value'[c] = Value[c]
      /\ \A k \in Client : k # c => Status'[k] = Status[k] /\ Value'[k] = Value[k]
  BY <1>1, <1>2 DEF Sees, Resolve, Inv, TypeOK
<1>4. Status' = [Status EXCEPT ![c] = "open"] /\ Value' = Value
  BY <1>3, MappedFunctions, ExceptOne, SameOn
<1>5. Loose' = Loose \cup {[from |-> c, turn |-> turn[c] + 1, req |-> r]}
  BY DEF Loose, Asked, Resolve, object, Inv, TypeOK
<1> QED
  BY <1>3, <1>4, <1>5 DEF Atomic!Call, Resolve, object, Inv, TypeOK

LEMMA StepSend ==
  ASSUME Inv, Inv', NEW c \in Client, Send(c)
  PROVE  UNCHANGED Atomic!vars
<1>1. \A k \in Client : Sees(k) /\ Sees(k)'
  BY StatusValue, StatusValueNext
<1>2. /\ pc[c] = "resolved" /\ mail[c] = <<>> /\ mail \in [Client -> Seq(Letter)]
      /\ pc \in [Client -> {"idle", "resolved", "waiting"}] /\ pc' = [pc EXCEPT ![c] = "waiting"]
      /\ UNCHANGED <<up, pid, map, turn, dst, req, got>>
  BY DEF Inv, MailShape, Send, TypeOK
<1>3. CASE up /\ dst[c] = pid
  <2>1. mail' = mail /\ inbox' = Append(inbox, Asked(c))
    BY <1>3 DEF Send
  <2>2. \A k \in Client : Status'[k] = Status[k] /\ Value'[k] = Value[k]
    BY <1>1, <1>2, <2>1 DEF Sees
  <2>3. {inbox'[i] : i \in DOMAIN inbox'} = {inbox[i] : i \in DOMAIN inbox} \cup {Asked(c)}
    <3>1. Asked(c) \in Question /\ inbox \in Seq(Question)
      BY <1>2 DEF Inv, TypeOK, Turns, Asked, Question
    <3>2. DOMAIN inbox' = 1 .. Len(inbox) + 1 /\ DOMAIN inbox = 1 .. Len(inbox) /\ Len(inbox) \in Nat
      BY <2>1, <3>1, AppendProperties, LenProperties
    <3>3. inbox'[Len(inbox) + 1] = Asked(c) /\ \A i \in DOMAIN inbox : inbox'[i] = inbox[i]
      BY <2>1, <3>1, <3>2, AppendProperties
    <3> QED
      BY <3>2, <3>3
  <2>4. Loose' = Loose
    <3>1. \A k \in Client : Asked(k)' = Asked(k)
      BY <1>2 DEF Asked
    <3>2. {k \in Client : pc'[k] = "resolved" /\ up' /\ dst'[k] = pid'}
          = {k \in Client : pc[k] = "resolved" /\ up /\ dst[k] = pid} \ {c}
      BY <1>2
    <3>3. c \in {k \in Client : pc[k] = "resolved" /\ up /\ dst[k] = pid}
      BY <1>2, <1>3
    <3> QED
      BY <2>3, <3>1, <3>2, <3>3 DEF Loose
  <2> QED
    BY <1>2, <2>2, <2>4, MappedFunctions, SameOn DEF Atomic!vars
<1>4. CASE ~(up /\ dst[c] = pid)
  <2>1. mail' = [mail EXCEPT ![c] = <<Down(dst[c], turn[c])>>] /\ inbox' = inbox
    BY <1>2, <1>4 DEF Send
  <2>2. /\ mail'[c] = <<Down(dst[c], turn[c])>> /\ mail'[c][1].kind = "DOWN"
        /\ \A k \in Client : k # c => mail'[k] = mail[k]
    BY <1>2, <2>1 DEF Down
  <2>3. ASSUME NEW k \in Client
        PROVE  Status'[k] = Status[k] /\ Value'[k] = Value[k]
    <3>1. CASE k = c
      <4>1. pc'[c] = "waiting" /\ mail'[c][1].kind # "obj_reply"
        BY <1>2, <2>2
      <4>2. Status'[c] = "open" /\ Value'[c] = Nothing'
        BY <1>1, <4>1 DEF Sees
      <4>3. Status[c] = "open" /\ Value[c] = Nothing
        BY <1>1, <1>2 DEF Sees
      <4> QED
        BY <3>1, <4>2, <4>3 DEF Nothing
    <3>2. CASE k # c
      BY <1>1, <1>2, <2>2, <3>2, SMTT(30) DEF Sees
    <3> QED
      BY <3>1, <3>2
  <2>4. Loose' = Loose
    BY <1>2, <1>4, <2>1 DEF Loose, Asked
  <2> QED
    BY <1>2, <2>3, <2>4, MappedFunctions, SameOn DEF Atomic!vars
<1> QED
  BY <1>3, <1>4

LEMMA StepDies ==
  ASSUME Inv, Inv', Dies
  PROVE  Atomic!Lose
<1>1. \A k \in Client : Sees(k) /\ Sees(k)'
  BY StatusValue, StatusValueNext
<1>2. /\ map' = Nothing /\ inbox' = <<>> /\ ~up'
      /\ UNCHANGED <<pc, turn, got>>
  BY DEF Dies
<1>3. ASSUME NEW k \in Client
      PROVE  Status'[k] = Status[k] /\ Value'[k] = Value[k]
  <2>1. CASE mail'[k] = mail[k]
    BY <1>1, <1>2, <2>1 DEF Sees, Nothing
  <2>2. CASE mail'[k] = Append(mail[k], Down(pid, watch[k])) /\ watch[k] # 0
    <3>1. mail[k] \in Seq(Letter) /\ Down(pid, watch[k]) \in Letter
      <4>1. Nothing \in Maps
        BY ObjAssumption DEF Nothing, Maps, Absent
      <4>2. watch[k] \in 1 .. MaxCalls /\ pid \in Pid /\ mail[k] \in Seq(Letter)
        BY <2>2, ObjAssumption DEF Inv, TypeOK
      <4> QED
        BY <4>1, <4>2 DEF Down, Letter
    <3>2. CASE mail[k] = <<>>
      <4>1. mail'[k] = <<Down(pid, watch[k])>>
        BY <2>2, <3>2
      <4>2. mail'[k][1].kind # "obj_reply"
        BY <4>1 DEF Down
      <4> QED
        BY <1>1, <1>2, <3>2, <4>2 DEF Sees, Nothing
    <3>3. CASE mail[k] # <<>>
      <4>1. mail'[k][1] = mail[k][1] /\ mail'[k] # <<>>
        BY <2>2, <3>1, <3>3, AppendProperties, EmptySeq
      <4> QED
        BY <1>1, <1>2, <3>3, <4>1 DEF Sees, Nothing
    <3> QED
      BY <3>2, <3>3
  <2> QED
    BY <2>1, <2>2 DEF Dies
<1>4. Loose' = {}
  BY <1>2 DEF Loose
<1> QED
  BY <1>2, <1>3, <1>4, MappedFunctions, SameOn DEF Atomic!Lose

LEMMA StepRestart ==
  ASSUME Inv, Inv', Restart
  PROVE  UNCHANGED Atomic!vars
<1>1. /\ ~up /\ pid' = pid + 1 /\ inbox = <<>> /\ pid \in Nat /\ dst \in [Client -> Nat]
      /\ UNCHANGED <<map, inbox, pc, turn, dst, req, mail, got>>
  BY DEF Restart, caller, Inv, InboxShape, TypeOK, Pid
<1>2. \A k \in Client : dst'[k] # pid'
  BY <1>1 DEF Inv, Turns
<1>3. Status' = Status /\ Value' = Value
  BY <1>1 DEF Status, Value, Answers, Nothing
<1>4. Loose' = Loose
  BY <1>1, <1>2 DEF Loose
<1> QED
  BY <1>1, <1>3, <1>4 DEF Atomic!vars

LEMMA StepEnds ==
  ASSUME Inv, Inv', NEW c \in Client, pc[c] = "waiting",
         pc' = [pc EXCEPT ![c] = "idle"], mail' = [mail EXCEPT ![c] = <<>>],
         UNCHANGED <<object, turn, dst, req>>
  PROVE  /\ Status' = [Status EXCEPT ![c] = "idle"]
         /\ Value' = [Value EXCEPT ![c] = Nothing]
         /\ Loose' = Loose
<1>1. \A k \in Client : Sees(k) /\ Sees(k)'
  BY StatusValue, StatusValueNext
<1>2. pc'[c] = "idle" /\ \A k \in Client : k # c => pc'[k] = pc[k] /\ mail'[k] = mail[k]
  BY DEF Inv, TypeOK
<1>3. Status'[c] = "idle" /\ Value'[c] = Nothing
  BY <1>1, <1>2 DEF Sees, Nothing
<1>4. \A k \in Client : k # c => Status'[k] = Status[k] /\ Value'[k] = Value[k]
  BY <1>1, <1>2 DEF Sees, Nothing
<1>5. {k \in Client : pc'[k] = "resolved" /\ up' /\ dst'[k] = pid'}
      = {k \in Client : pc[k] = "resolved" /\ up /\ dst[k] = pid}
  BY <1>2 DEF object
<1>6. Loose' = Loose
  BY <1>5 DEF Loose, Asked, object
<1> QED
  BY <1>3, <1>4, <1>6, MappedFunctions, ExceptOne

LEMMA StepReceive ==
  ASSUME Inv, Inv', NEW c \in Client, Receive(c)
  PROVE  Atomic!Return(c) \/ Atomic!Fail(c)
<1>1. pc[c] = "waiting" /\ Matches(c) # {}
  BY DEF Receive
<1>2. mail[c] # <<>> /\ First(Matches(c)) = 1 /\ Flushed(c, RemoveAt(mail[c], 1)) = <<>>
  BY <1>1, ReceiveTakes
<1>3. /\ mail' = [mail EXCEPT ![c] = <<>>] /\ pc' = [pc EXCEPT ![c] = "idle"]
      /\ got' = [got EXCEPT ![c] = IF mail[c][1].kind = "DOWN" THEN <<>> ELSE <<mail[c][1].val>>]
      /\ UNCHANGED <<object, turn, dst, req>>
  BY <1>2 DEF Receive
<1>4. /\ Status' = [Status EXCEPT ![c] = "idle"] /\ Value' = [Value EXCEPT ![c] = Nothing]
      /\ Loose' = Loose
  BY <1>1, <1>3, StepEnds
<1>5. Sees(c)
  BY StatusValue
<1>6. mail[c][1].kind \in {"obj_reply", "DOWN"}
  <2>1. mail[c] \in Seq(Letter)
    BY DEF Inv, TypeOK
  <2>2. mail[c][1] \in Letter
    BY <1>2, <2>1, EmptySeq, ElementOfSeq
  <2> QED
    BY <2>2 DEF Letter
<1>7. CASE mail[c][1].kind = "obj_reply"
  <2>1. Status[c] = "done" /\ Value[c] = mail[c][1].val
    BY <1>1, <1>2, <1>5, <1>7 DEF Sees
  <2> QED
    BY <1>3, <1>4, <1>7, <2>1 DEF Atomic!Return, object
<1>8. CASE mail[c][1].kind = "DOWN"
  <2>1. Status[c] = "open" /\ Value[c] = Nothing
    BY <1>1, <1>2, <1>5, <1>8 DEF Sees
  <2>2. Value' = Value
    BY <1>4, <2>1, MappedFunctions
  <2> QED
    BY <1>3, <1>4, <1>8, <2>1, <2>2 DEF Atomic!Fail, object
<1> QED
  BY <1>6, <1>7, <1>8

LEMMA StepTimeout ==
  ASSUME Inv, Inv', NEW c \in Client, Timeout(c)
  PROVE  Atomic!Fail(c)
<1>1. /\ pc[c] = "waiting" /\ Matches(c) = {} /\ got' = [got EXCEPT ![c] = <<>>]
      /\ mail' = [mail EXCEPT ![c] = <<>>] /\ pc' = [pc EXCEPT ![c] = "idle"]
      /\ UNCHANGED <<object, turn, dst, req>>
  BY DEF Timeout
<1>2. mail[c] = <<>>
  <2>1. mail[c] \in Seq(Letter) /\ \A i \in DOMAIN mail[c] : mail[c][i] \in Letter
    BY ElementOfSeq, LenProperties DEF Inv, TypeOK
  <2>2. \A i \in DOMAIN mail[c] : Match(c, mail[c][i])
    BY <1>1, <2>1 DEF Match, Inv, MailShape, Turns, Letter
  <2>3. DOMAIN mail[c] = {}
    BY <1>1, <2>2 DEF Matches
  <2>4. mail[c] # <<>> => Len(mail[c]) \in Nat \ {0}
    BY <2>1, EmptySeq
  <2>5. DOMAIN mail[c] = 1 .. Len(mail[c])
    BY <2>1, LenProperties
  <2> QED
    BY <2>3, <2>4, <2>5
<1>3. /\ Status' = [Status EXCEPT ![c] = "idle"] /\ Value' = [Value EXCEPT ![c] = Nothing]
      /\ Loose' = Loose
  BY <1>1, StepEnds
<1>4. Status[c] = "open" /\ Value[c] = Nothing
  BY <1>1, <1>2, StatusValue DEF Sees
<1>5. Value' = Value
  BY <1>3, <1>4, MappedFunctions
<1> QED
  BY <1>1, <1>3, <1>4, <1>5 DEF Atomic!Fail, object

LEMMA LooseHandled ==
  ASSUME Inv, up, inbox # <<>>, inbox' = Tail(inbox), UNCHANGED <<up, pid, pc, turn, dst, req>>
  PROVE  Head(inbox) \in Loose /\ Loose' = Loose \ {Head(inbox)}
<1> DEFINE m == Head(inbox)
           Open == {Asked(k) : k \in {j \in Client : pc[j] = "resolved" /\ up /\ dst[j] = pid}}
<1>1. /\ inbox \in Seq(Question) /\ m \in Question /\ m = inbox[1] /\ 1 \in DOMAIN inbox
      /\ Pending(m)
  BY InboxHead, EmptySeq, LenProperties DEF Inv, TypeOK
<1>2. /\ DOMAIN inbox = 1 .. Len(inbox) /\ Len(inbox) \in Nat
      /\ DOMAIN Tail(inbox) = 1 .. Len(inbox) - 1
  BY <1>1, HeadTailProperties, LenProperties
<1>3. \A i \in DOMAIN Tail(inbox) : Tail(inbox)[i] = inbox[i + 1] /\ Tail(inbox)[i] # m
  BY InboxHead
<1>4. {inbox[i] : i \in DOMAIN inbox} = {m} \cup {Tail(inbox)[i] : i \in DOMAIN Tail(inbox)}
  <2>1. ASSUME NEW i \in DOMAIN inbox, i # 1
        PROVE  i - 1 \in DOMAIN Tail(inbox) /\ inbox[i] = Tail(inbox)[i - 1]
    BY <1>2, <1>3, <2>1
  <2>2. \A i \in DOMAIN Tail(inbox) : i + 1 \in DOMAIN inbox
    BY <1>2
  <2>3. ASSUME NEW i \in DOMAIN inbox
        PROVE  inbox[i] \in {m} \cup {Tail(inbox)[j] : j \in DOMAIN Tail(inbox)}
    BY <1>1, <2>1
  <2>4. ASSUME NEW j \in DOMAIN Tail(inbox)
        PROVE  Tail(inbox)[j] \in {inbox[i] : i \in DOMAIN inbox}
    BY <1>3, <2>2
  <2>5. m \in {inbox[i] : i \in DOMAIN inbox}
    BY <1>1
  <2> QED
    BY <2>3, <2>4, <2>5
<1>5. m \notin {Tail(inbox)[i] : i \in DOMAIN Tail(inbox)}
  BY <1>3
<1>6. m \notin Open
  <2>1. ASSUME NEW k \in Client, pc[k] = "resolved", m = Asked(k)
        PROVE  FALSE
    <3>1. m.from = k /\ m.turn = turn[k] /\ turn[k] \in Nat
      BY <2>1 DEF Asked, Inv, TypeOK
    <3>2. m.turn < turn[m.from]
      BY <1>1, <2>1, <3>1 DEF Pending
    <3> QED
      BY <3>1, <3>2
  <2> QED
    BY <2>1
<1>7. Loose = {inbox[i] : i \in DOMAIN inbox} \cup Open
  BY DEF Loose
<1>8. Loose' = {Tail(inbox)[i] : i \in DOMAIN Tail(inbox)} \cup Open
  BY DEF Loose, Asked
<1> HIDE DEF m, Open
<1>9. m \in Loose /\ Loose' = Loose \ {m}
  BY <1>4, <1>5, <1>6, <1>7, <1>8
<1> QED
  BY <1>9 DEF m

LEMMA StepHandle ==
  ASSUME Inv, Inv', Handle
  PROVE  Atomic!Lose \/ \E m \in Loose : Atomic!Perform(m)
<1>1. CASE Dies
  BY <1>1, StepDies
<1>2. CASE ~Dies
  <2> DEFINE m == Head(inbox)
             R == [kind |-> "obj_reply", pid |-> pid, turn |-> m.turn, val |-> Reply(m.req, map)]
  <2>1. /\ up /\ inbox # <<>> /\ ~Fails(m.req, map)
        /\ map' = After(m.req, map) /\ inbox' = Tail(inbox)
        /\ mail' = IF m.turn < born[m.from] THEN mail
                   ELSE [mail EXCEPT ![m.from] = Append(@, R)]
        /\ UNCHANGED <<up, pid, pc, turn, born, dst, req, watch, got>>
    BY <1>2 DEF Handle
  <2>2. m \in Loose /\ Loose' = Loose \ {m}
    BY <2>1, LooseHandled
  <2>3. m \in Question /\ Pending(m)
    BY <2>1, InboxHead
  <2>4. R.kind = "obj_reply" /\ R.val = Reply(m.req, map)
    OBVIOUS
  <2>5. \A k \in Client : Sees(k) /\ Sees(k)'
    BY StatusValue, StatusValueNext
  <2> HIDE DEF m, R
  <2>6. m.from \in Client /\ m.turn \in 1 .. MaxCalls
    BY <2>3 DEF Question
  <2>7. CASE m.turn < born[m.from]
    <3>1. mail' = mail
      BY <2>1, <2>7
    <3>2. Status' = Status /\ Value' = Value
      BY <2>1, <3>1 DEF Status, Value, Answers, Nothing
    <3>3. ~(Status[m.from] = "open" /\ turn[m.from] = m.turn)
      <4>1. pc[m.from] = "idle" => Status[m.from] = "idle"
        BY <2>6 DEF Status
      <4>2. pc[m.from] # "idle" => born[m.from] <= turn[m.from]
        BY <2>6 DEF Inv, Turns
      <4>3. born[m.from] \in Int
        BY <2>6 DEF Inv, TypeOK
      <4> QED
        BY <2>6, <2>7, <4>1, <4>2, <4>3
    <3>4. /\ Status' = [Status EXCEPT ![m.from] = Status[m.from]]
          /\ Value' = [Value EXCEPT ![m.from] = Value[m.from]]
      BY <3>2, MappedFunctions
    <3> QED
      BY <2>1, <2>2, <3>3, <3>4 DEF Atomic!Perform
  <2>8. CASE ~(m.turn < born[m.from])
    <3>1. pc[m.from] = "waiting" /\ m.turn = turn[m.from] /\ mail[m.from] = <<>>
      BY <2>3, <2>6, <2>8 DEF Pending, Inv, TypeOK
    <3>2. mail \in [Client -> Seq(Letter)] /\ mail' = [mail EXCEPT ![m.from] = <<R>>]
      BY <2>1, <2>8, <3>1 DEF Inv, TypeOK
    <3>3. mail'[m.from] = <<R>> /\ \A k \in Client : k # m.from => mail'[k] = mail[k]
      BY <2>6, <3>2
    <3>4. /\ mail'[m.from] # <<>> /\ mail'[m.from][1].kind = "obj_reply"
          /\ mail'[m.from][1].val = Reply(m.req, map)
      BY <2>4, <3>3
    <3>5. Status'[m.from] = "done" /\ Value'[m.from] = Reply(m.req, map)
      BY <2>1, <2>5, <2>6, <3>1, <3>4 DEF Sees
    <3>6. Status[m.from] = "open"
      BY <2>5, <2>6, <3>1 DEF Sees
    <3>7. \A k \in Client : k # m.from => Status'[k] = Status[k] /\ Value'[k] = Value[k]
      BY <2>1, <2>5, <3>3 DEF Sees, Nothing
    <3>8. /\ Status' = [Status EXCEPT ![m.from] = "done"]
          /\ Value' = [Value EXCEPT ![m.from] = Reply(m.req, map)]
      BY <2>6, <3>5, <3>7, MappedFunctions, ExceptOne
    <3> QED
      BY <2>1, <2>2, <3>1, <3>6, <3>8 DEF Atomic!Perform
  <2> QED
    BY <2>7, <2>8
<1> QED
  BY <1>1, <1>2

(* obj.erl implements AtomicObject: although a reply does not say which    *)
(* call it is for, a call returns the answer to itself, found in the step  *)
(* in which it took effect, and takes effect at most once.                 *)
THEOREM CallsTakeEffectOnce == Spec => CallsAreAtomic
<1>1. Init => Atomic!Init
  BY DEF Init, Atomic!Init, Status, Value, Answers, Loose, Nothing
<1>2. Inv /\ Inv' /\ [Next]_vars => [Atomic!Next]_(Atomic!vars)
  <2> SUFFICES ASSUME Inv, Inv', [Next]_vars
               PROVE  Atomic!Next \/ UNCHANGED Atomic!vars
    OBVIOUS
  <2>1. ASSUME NEW c \in Client, NEW r \in Requests, Resolve(c, r) PROVE Atomic!Next
    BY <2>1, StepResolve DEF Atomic!Next
  <2>2. ASSUME NEW c \in Client, Send(c) PROVE UNCHANGED Atomic!vars
    BY <2>2, StepSend
  <2>3. ASSUME NEW c \in Client, Receive(c) PROVE Atomic!Next
    BY <2>3, StepReceive DEF Atomic!Next
  <2>4. ASSUME NEW c \in Client, Timeout(c) PROVE Atomic!Next
    BY <2>4, StepTimeout DEF Atomic!Next
  <2>5. CASE Handle
    BY <2>5, StepHandle DEF Atomic!Next
  <2>6. CASE Killed
    BY <2>6, StepDies DEF Atomic!Next, Killed
  <2>7. CASE Restart
    BY <2>7, StepRestart
  <2>8. CASE UNCHANGED vars
    BY <2>8 DEF vars, object, caller, Atomic!vars, Status, Value, Answers, Loose, Asked, Nothing
  <2> QED
    BY <2>1, <2>2, <2>3, <2>4, <2>5, <2>6, <2>7, <2>8 DEF Next
<1> QED
  BY <1>1, <1>2, InvAlways, PTL DEF Spec, CallsAreAtomic, Atomic!Spec
=============================================================================
