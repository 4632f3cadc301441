---------------------------- MODULE ServerProofs ----------------------------
(***************************************************************************)
(* Theorems about TaskQueue, Throttle and Broadcast, three servers with    *)
(* one mailbox each.                                                       *)
(*                                                                         *)
(* TaskQueue: tasks run one at a time and answers are never mixed up, for  *)
(* any number of clients, calls and kills.  The inductive invariant is     *)
(* KeptMoving: there is exactly one thing that can move the queue, so a    *)
(* task is never started twice, and what moves it is for the head, which   *)
(* is where the answer goes.                                               *)
(*                                                                         *)
(* Throttle: one worker runs at a time, and no trigger is lost or given    *)
(* out of order, for any number of triggers.  OneWorker is inductive with  *)
(* the types: the worker in the state is the only one that can send a DOWN *)
(* message, so there is one at most, and it cannot find the state idle.    *)
(* NothingLost is inductive once the state again is known to be the one    *)
(* that has triggers (ArgsOfState).                                        *)
(*                                                                         *)
(* Broadcast: subscribers are sent what is due to them and the dead leave, *)
(* for any processes, filters and messages.  The table of entries has to   *)
(* be what the messages handled make of it (FirstKept), and who runs and   *)
(* has an entry is monitored (Monitored).                                  *)
(***************************************************************************)
EXTENDS TaskQueue, Throttle, Broadcast, SequenceTheorems, TLAPS

(***************************************************************************)
(* TaskQueue.                                                              *)
(***************************************************************************)
(* Taking the only element out leaves nothing.                             *)
LEMMA RemoveOnly ==
    ASSUME NEW s \in Seq(Request), Len(s) <= 1, NEW i \in DOMAIN s
    PROVE  RemoveAt(s, i) = <<>>
<1>1. DOMAIN s = 1 .. Len(s) /\ Len(s) \in Nat
    BY LenProperties
<1>2. Len(s) = 1 /\ i = 1
    BY <1>1
<1>3. SubSeq(s, 1, 0) = <<>> /\ SubSeq(s, 2, 1) = <<>>
    BY SubSeqEmpty
<1> QED BY <1>2, <1>3 DEF RemoveAt

LEMMA RemoveType ==
    ASSUME NEW s \in Seq(Request), NEW i \in DOMAIN s
    PROVE  RemoveAt(s, i) \in Seq(Request)
<1>1. DOMAIN s = 1 .. Len(s) /\ Len(s) \in Nat /\ i \in 1 .. Len(s)
    BY LenProperties
<1>2. SubSeq(s, 1, i-1) \in Seq(Request) /\ SubSeq(s, i+1, Len(s)) \in Seq(Request)
    BY <1>1, SubSeqProperties
<1> QED BY <1>2, ConcatProperties DEF RemoveAt

-----------------------------------------------------------------------------
(* What a message at the end of a mailbox does to its tokens.              *)
LEMMA TokensOfAppend ==
    ASSUME NEW s \in Seq(Message), NEW e \in Message
    PROVE  /\ Append(s, e) \in Seq(Message)
           /\ Len(s) + 1 \notin TokensOf(s)
           /\ \A i \in TokensOf(s) : Append(s, e)[i] = s[i]
           /\ Append(s, e)[Len(s) + 1] = e
           /\ TokensOf(Append(s, e)) =
                  IF e.kind \in {"task_next", "task_done"}
                  THEN TokensOf(s) \cup {Len(s) + 1} ELSE TokensOf(s)
<1>1. /\ DOMAIN s = 1 .. Len(s) /\ Len(s) \in Nat
      /\ Append(s, e) \in Seq(Message) /\ Len(Append(s, e)) = Len(s) + 1
      /\ \A i \in 1 .. Len(s) : Append(s, e)[i] = s[i]
      /\ Append(s, e)[Len(s) + 1] = e
    BY LenProperties, AppendProperties
<1>2. DOMAIN Append(s, e) = 1 .. Len(s) + 1
    BY <1>1, LenProperties
<1> QED BY <1>1, <1>2 DEF TokensOf

(* Taking the first message out shifts the tokens behind it.               *)
LEMMA TokensOfTail ==
    ASSUME NEW s \in Seq(Message), s # <<>>
    PROVE  /\ Tail(s) \in Seq(Message) /\ Head(s) \in Message
           /\ Head(s) = s[1]
           /\ \A i \in TokensOf(Tail(s)) :
                  i + 1 \in TokensOf(s) /\ i \in Nat \ {0} /\ Tail(s)[i] = s[i + 1]
           /\ Head(s).kind \in {"task_next", "task_done"} => 1 \in TokensOf(s)
           /\ Head(s).kind \notin {"task_next", "task_done"} =>
                  (TokensOf(s) # {} => TokensOf(Tail(s)) # {})
<1>1. /\ DOMAIN s = 1 .. Len(s) /\ Len(s) \in Nat \ {0}
      /\ Tail(s) \in Seq(Message) /\ Head(s) \in Message /\ Len(Tail(s)) = Len(s) - 1
      /\ \A i \in 1 .. Len(Tail(s)) : Tail(s)[i] = s[i + 1]
    BY LenProperties, HeadTailProperties, EmptySeq
<1>2. DOMAIN Tail(s) = 1 .. Len(s) - 1
    BY <1>1, LenProperties
<1>3. Head(s) = s[1]
    BY <1>1
<1>4. \A i \in TokensOf(s) : i # 1 => i - 1 \in TokensOf(Tail(s))
    BY <1>1, <1>2 DEF TokensOf
<1>5. ASSUME NEW i \in TokensOf(Tail(s))
      PROVE  i + 1 \in TokensOf(s) /\ i \in Nat \ {0} /\ Tail(s)[i] = s[i + 1]
    <2>1. i \in 1 .. Len(s) - 1 /\ Tail(s)[i].kind \in {"task_next", "task_done"}
        BY <1>2 DEF TokensOf
    <2>2. i + 1 \in 1 .. Len(s) /\ Tail(s)[i] = s[i + 1]
        BY <1>1, <2>1
    <2> QED BY <1>1, <2>1, <2>2 DEF TokensOf
<1>6. Head(s).kind \in {"task_next", "task_done"} <=> 1 \in TokensOf(s)
    BY <1>1, <1>3 DEF TokensOf
<1>7. ASSUME Head(s).kind \notin {"task_next", "task_done"}, TokensOf(s) # {}
      PROVE  TokensOf(Tail(s)) # {}
    BY <1>4, <1>6, <1>7
<1> QED BY <1>1, <1>3, <1>5, <1>6, <1>7

-----------------------------------------------------------------------------
(* A message of each kind is a message.                                    *)
LEMMA MessageKinds ==
    /\ TaskNext \in Message /\ Exit \in Message
    /\ TaskNext.kind = "task_next" /\ Exit.kind = "EXIT"
    /\ \A r \in Request : [kind |-> "task", req |-> r] \in Message
    /\ \A r \in Request, v \in Outcome :
          [kind |-> "task_done", req |-> r, rv |-> v] \in Message
    /\ \A m \in Message : m.kind = "task" => m.req \in Request
    /\ \A m \in Message : m.kind = "task_done" => m.req \in Request /\ m.rv \in Outcome
BY DEF Message, TaskNext, Exit

(* What starting the head of a queue leaves in running.                    *)
LEMMA StartType ==
    ASSUME NEW q \in Seq(Request), running \in Seq(Request), StartHead(q)
    PROVE  /\ running' \in Seq(Request)
           /\ q = <<>> => running' = running
           /\ q # <<>> => running' = Append(running, Head(q))
BY HeadTailProperties, AppendProperties DEF StartHead

(* A reply changes the client it is for, and only when it waits.           *)
LEMMA ReplyType ==
    ASSUME NEW r \in Request, NEW m \in [req : Request, rv : Outcome],
           TypeOK, Reply(r, m)
    PROVE  /\ pc' \in [Client -> {"idle", "waiting"}]
           /\ got' \in [Client -> {<<>>} \cup {<<x>> : x \in [req : Request, rv : Outcome]}]
           /\ \A c \in Client : got'[c] # got[c] =>
                  c = r.from /\ turn[c] = r.turn /\ got'[c] = <<m>>
<1>1. r.from \in Client
    BY DEF Request
<1>2. CASE pc[r.from] = "waiting" /\ turn[r.from] = r.turn
    <2>1. pc' = [pc EXCEPT ![r.from] = "idle"] /\ got' = [got EXCEPT ![r.from] = <<m>>]
        BY <1>2 DEF Reply
    <2>2. <<m>> \in {<<x>> : x \in [req : Request, rv : Outcome]}
        OBVIOUS
    <2> QED BY <1>1, <1>2, <2>1, <2>2 DEF TypeOK
<1>3. CASE ~(pc[r.from] = "waiting" /\ turn[r.from] = r.turn)
    BY <1>3 DEF Reply, TypeOK
<1> QED BY <1>2, <1>3

-----------------------------------------------------------------------------
(* TypeOK: whatever messages arrive in whatever order, the hub's queue and *)
(* mailbox hold what task_queue.erl puts there.                            *)
THEOREM TasksTypeCorrect == Spec => []TypeOK
<1>1. Init => TypeOK
    BY QueueAssumption, EmptySeq DEF Init, TypeOK
<1>2. ASSUME TypeOK, [Next]_vars
      PROVE  TypeOK'
    <2>0. MaxCalls \in Nat /\ MaxKills \in Nat
        BY QueueAssumption DEF QueueAssumption
    <2>1. ASSUME NEW c \in Client, Ask(c)
          PROVE  TypeOK'
        <3>1. turn[c] + 1 \in 1 .. MaxCalls /\ turn' \in [Client -> 0 .. MaxCalls]
            BY <1>2, <2>0, <2>1 DEF TypeOK, Ask
        <3>2. [from |-> c, turn |-> turn[c] + 1] \in Request
            BY <3>1 DEF Request
        <3>3. inbox' \in Seq(Message)
            BY <1>2, <2>1, <3>2, MessageKinds, AppendProperties DEF TypeOK, Ask
        <3> QED BY <1>2, <2>1, <3>1, <3>3 DEF TypeOK, Ask
    <2>2. ASSUME NEW c \in Client, GiveUp(c)
          PROVE  TypeOK'
        BY <1>2, <2>2 DEF TypeOK, GiveUp
    <2>3. CASE TakeTask
        <3>1. Head(inbox) \in Message /\ Tail(inbox) \in Seq(Message)
            BY <1>2, <2>3, HeadTailProperties DEF TypeOK, TakeTask
        <3>2. queue' \in Seq(Request)
            BY <1>2, <2>3, <3>1, MessageKinds, AppendProperties DEF TypeOK, TakeTask
        <3>3. inbox' \in Seq(Message)
            BY <1>2, <2>3, <3>1, MessageKinds, AppendProperties DEF TypeOK, TakeTask
        <3> QED BY <1>2, <2>3, <3>2, <3>3 DEF TypeOK, TakeTask
    <2>4. CASE TakeTaskNext
        <3>1. Tail(inbox) \in Seq(Message) /\ running' \in Seq(Request)
            BY <1>2, <2>4, HeadTailProperties, StartType DEF TypeOK, TakeTaskNext
        <3> QED BY <1>2, <2>4, <3>1 DEF TypeOK, TakeTaskNext
    <2>5. CASE TakeTaskDone
        <3>1. Head(inbox) \in Message /\ Tail(inbox) \in Seq(Message)
              /\ Head(queue) \in Request /\ Tail(queue) \in Seq(Request)
            BY <1>2, <2>5, HeadTailProperties DEF TypeOK, TakeTaskDone
        <3>2. [req |-> Head(inbox).req, rv |-> Head(inbox).rv] \in [req : Request, rv : Outcome]
            BY <2>5, <3>1, MessageKinds DEF TakeTaskDone
        <3>3. running' \in Seq(Request)
            BY <1>2, <2>5, <3>1, StartType DEF TypeOK, TakeTaskDone
        <3> QED BY <1>2, <2>5, <3>1, <3>2, <3>3, ReplyType DEF TypeOK, TakeTaskDone
    <2>6. CASE TakeExit
        BY <1>2, <2>6, HeadTailProperties DEF TypeOK, TakeExit
    <2>7. ASSUME NEW i \in DOMAIN running, Finish(i)
          PROVE  TypeOK'
        <3>1. running[i] \in Request /\ RemoveAt(running, i) \in Seq(Request)
            BY <1>2, LenProperties, ElementOfSeq, RemoveType DEF TypeOK
        <3>2. PICK v \in Outcome : inbox' = Append(Append(inbox,
                    [kind |-> "task_done", req |-> running[i], rv |-> v]), Exit)
            BY <2>7 DEF Finish
        <3>3. inbox' \in Seq(Message)
            BY <1>2, <3>1, <3>2, MessageKinds, AppendProperties DEF TypeOK
        <3> QED BY <1>2, <2>7, <3>1, <3>3 DEF TypeOK, Finish
    <2>8. ASSUME NEW i \in DOMAIN running, Kill(i)
          PROVE  TypeOK'
        <3>1. RemoveAt(running, i) \in Seq(Request) /\ inbox' \in Seq(Message)
            BY <1>2, <2>8, RemoveType, MessageKinds, AppendProperties DEF TypeOK, Kill
        <3>2. kills' \in 0 .. MaxKills
            BY <1>2, <2>0, <2>8 DEF TypeOK, Kill
        <3> QED BY <1>2, <2>8, <3>1, <3>2 DEF TypeOK, Kill
    <2>9. CASE UNCHANGED vars
        BY <1>2, <2>9 DEF TypeOK, vars
    <2> QED BY <1>2, <2>1, <2>2, <2>3, <2>4, <2>5, <2>6, <2>7, <2>8, <2>9
            DEF Next, Hub, Work
<1> QED BY <1>1, <1>2, PTL DEF Spec

-----------------------------------------------------------------------------
(* A message that is no token, taken out of the mailbox or put into it,    *)
(* changes nothing of what keeps the queue moving.                         *)
LEMMA OtherMessages ==
    ASSUME TypeOK, KeptMoving, UNCHANGED <<queue, running, kills>>,
           NEW m \in Message, m.kind \notin {"task_next", "task_done"},
           inbox' = Append(inbox, m) \/ (inbox # <<>> /\ m = Head(inbox) /\ inbox' = Tail(inbox))
    PROVE  KeptMoving'
<1>1. CASE inbox' = Append(inbox, m)
    <2>1. inbox \in Seq(Message)
        BY DEF TypeOK
    <2>2. /\ TokensOf(Append(inbox, m)) = TokensOf(inbox)
          /\ \A i \in TokensOf(inbox) : Append(inbox, m)[i] = inbox[i]
        BY <2>1, TokensOfAppend
    <2>3. Tokens' = Tokens /\ \A i \in Tokens : inbox'[i] = inbox[i]
        BY <1>1, <2>2 DEF Tokens
    <2> QED BY <2>3 DEF KeptMoving, OneTask
<1>2. CASE inbox # <<>> /\ m = Head(inbox) /\ inbox' = Tail(inbox)
    <2>1. /\ \A i \in Tokens' : i + 1 \in Tokens /\ i \in Nat /\ inbox'[i] = inbox[i + 1]
          /\ Tokens # {} => Tokens' # {}
        BY <1>2, TokensOfTail DEF Tokens, TypeOK
    <2>2. \A i, j \in Tokens' : i = j
        BY <2>1 DEF KeptMoving
    <2>3. Tokens' # {} <=> Tokens # {}
        BY <2>1
    <2>4. \A i \in Tokens' : inbox'[i].kind = "task_done" => inbox'[i].req = Head(queue)
        BY <2>1 DEF KeptMoving
    <2> QED BY <2>2, <2>3, <2>4 DEF KeptMoving, OneTask
<1> QED BY <1>1, <1>2

(* Taking the token out: nothing moves the queue any more.                 *)
LEMMA TokenTaken ==
    ASSUME TypeOK, KeptMoving, inbox # <<>>,
           Head(inbox).kind \in {"task_next", "task_done"}
    PROVE  /\ TokensOf(Tail(inbox)) = {}
           /\ running = <<>> /\ queue # <<>>
           /\ Head(inbox).kind = "task_done" => Head(inbox).req = Head(queue)
<1>1. 1 \in Tokens /\ Head(inbox) = inbox[1]
    BY TokensOfTail DEF Tokens, TypeOK
<1>2. ASSUME NEW i \in TokensOf(Tail(inbox))
      PROVE  FALSE
    <2>1. i + 1 \in Tokens /\ i \in Nat \ {0}
        BY <1>2, TokensOfTail DEF Tokens, TypeOK
    <2> QED BY <1>1, <2>1 DEF KeptMoving
<1> QED BY <1>1, <1>2 DEF KeptMoving

(* Starting the head of a queue q when nothing moves it.                   *)
LEMMA Started ==
    ASSUME NEW q \in Seq(Request), running = <<>>, StartHead(q), queue' = q, Tokens' = {}
    PROVE  KeptMoving'
<1>1. CASE q = <<>>
    <2>1. running' = <<>> /\ Len(running') <= 1
        BY <1>1, EmptySeq DEF StartHead
    <2> QED BY <1>1, <2>1 DEF KeptMoving, OneTask
<1>2. CASE q # <<>>
    <2>1. Head(q) \in Request
        BY <1>2, HeadTailProperties
    <2>2. /\ running' = Append(<<>>, Head(q)) /\ running' # <<>>
          /\ Len(running') = 1 /\ running'[1] = Head(q)
        BY <1>2, <2>1, EmptySeq, AppendProperties DEF StartHead
    <2> QED BY <1>2, <2>2 DEF KeptMoving, OneTask
<1> QED BY <1>1, <1>2

(* A new token when there was none and no task process either.             *)
LEMMA TokenSent ==
    ASSUME NEW s \in Seq(Message), TokensOf(s) = {}, running' = <<>>, queue' # <<>>,
           NEW m \in Message, m.kind \in {"task_next", "task_done"},
           m.kind = "task_done" => m.req = Head(queue'),
           inbox' = Append(s, m)
    PROVE  KeptMoving'
<1>1. Tokens' = {Len(s) + 1} /\ inbox'[Len(s) + 1] = m
    BY TokensOfAppend DEF Tokens
<1>2. Len(running') <= 1
    BY EmptySeq
<1> QED BY <1>1, <1>2 DEF KeptMoving, OneTask

(* KeptMoving: a task is never started twice, the queue is moved by one    *)
(* thing at a time, and task_done never meets an empty queue.              *)
THEOREM QueueKeptMoving == Spec => []KeptMoving
<1>1. Init => KeptMoving
    <2>1. ASSUME Init
          PROVE  Tokens = {} /\ Len(running) = 0
        BY <2>1, EmptySeq DEF Init, Tokens, TokensOf
    <2> QED BY <2>1 DEF Init, KeptMoving, OneTask
<1>2. ASSUME TypeOK, TypeOK', KeptMoving, [Next]_vars
      PROVE  KeptMoving'
    <2>1. ASSUME NEW c \in Client, Ask(c)
          PROVE  KeptMoving'
        <3>1. [from |-> c, turn |-> turn[c] + 1] \in Request
            BY <1>2, <2>1, QueueAssumption DEF TypeOK, Ask, Request
        <3> QED BY <1>2, <2>1, <3>1, MessageKinds, OtherMessages DEF Ask
    <2>2. ASSUME NEW c \in Client, GiveUp(c)
          PROVE  KeptMoving'
        BY <1>2, <2>2 DEF KeptMoving, OneTask, Tokens, GiveUp
    <2>3. CASE TakeTask
        <3>1. /\ Head(inbox) \in Message /\ Head(inbox).req \in Request
              /\ Tail(inbox) \in Seq(Message)
            BY <1>2, <2>3, MessageKinds, HeadTailProperties DEF TypeOK, TakeTask
        <3>2. /\ \A i \in TokensOf(Tail(inbox)) : i + 1 \in Tokens /\ i \in Nat
                                                /\ Tail(inbox)[i] = inbox[i + 1]
              /\ Tokens # {} => TokensOf(Tail(inbox)) # {}
            BY <1>2, <2>3, TokensOfTail DEF Tokens, TypeOK, TakeTask
        <3>3. CASE queue = <<>>
            <4>1. TokensOf(Tail(inbox)) = {} /\ running' = <<>> /\ queue' # <<>>
                BY <1>2, <2>3, <3>1, <3>2, <3>3, EmptySeq, AppendProperties
                   DEF KeptMoving, TakeTask, TypeOK
            <4> QED BY <2>3, <3>1, <3>3, <4>1, MessageKinds, TokenSent DEF TakeTask
        <3>4. CASE queue # <<>>
            <4>1. queue' # <<>> /\ Head(queue') = Head(queue)
                BY <1>2, <2>3, <3>1, <3>4, AppendProperties, LenProperties, EmptySeq
                   DEF TakeTask, TypeOK
            <4>2. inbox' = Tail(inbox) /\ UNCHANGED <<running, kills>>
                BY <2>3, <3>4 DEF TakeTask
            <4>3. \A i, j \in Tokens' : i = j
                BY <1>2, <3>2, <4>2 DEF KeptMoving, Tokens
            <4>4. Tokens' # {} <=> Tokens # {}
                BY <3>2, <4>2 DEF Tokens
            <4>5. \A i \in Tokens' : inbox'[i].kind = "task_done" =>
                                       inbox'[i].req = Head(queue')
                BY <1>2, <3>2, <4>1, <4>2 DEF KeptMoving, Tokens
            <4> QED BY <1>2, <3>4, <4>1, <4>2, <4>3, <4>4, <4>5 DEF KeptMoving, OneTask
        <3> QED BY <3>3, <3>4
    <2>4. CASE TakeTaskNext
        <3>1. TokensOf(Tail(inbox)) = {} /\ running = <<>>
            BY <1>2, <2>4, TokenTaken DEF TakeTaskNext
        <3> QED BY <1>2, <2>4, <3>1, Started DEF TakeTaskNext, Tokens, TypeOK
    <2>5. CASE TakeTaskDone
        <3>1. TokensOf(Tail(inbox)) = {} /\ running = <<>>
            BY <1>2, <2>5, TokenTaken DEF TakeTaskDone
        <3>2. Tail(queue) \in Seq(Request)
            BY <1>2, <2>5, HeadTailProperties DEF TakeTaskDone, TypeOK
        <3> QED BY <2>5, <3>1, <3>2, Started DEF TakeTaskDone, Tokens
    <2>6. CASE TakeExit
        BY <1>2, <2>6, HeadTailProperties, OtherMessages DEF TakeExit, TypeOK
    <2>7. ASSUME NEW i \in DOMAIN running, Finish(i)
          PROVE  KeptMoving'
        <3>1. running[i] \in Request /\ DOMAIN running = 1 .. Len(running) /\ Len(running) \in Nat
            BY <1>2, LenProperties, ElementOfSeq DEF TypeOK
        <3>2. i = 1 /\ running # <<>> /\ running' = <<>>
            BY <1>2, <2>7, <3>1, EmptySeq, RemoveOnly DEF KeptMoving, OneTask, Finish, TypeOK
        <3>3. PICK v \in Outcome : inbox' = Append(Append(inbox,
                    [kind |-> "task_done", req |-> running[i], rv |-> v]), Exit)
            BY <2>7 DEF Finish
        <3> DEFINE done == [kind |-> "task_done", req |-> running[i], rv |-> v]
        <3>4. done \in Message /\ done.kind = "task_done" /\ done.req = Head(queue)
            BY <1>2, <3>1, <3>2, MessageKinds DEF KeptMoving
        <3>5. Tokens = {} /\ queue # <<>> /\ UNCHANGED queue
            BY <1>2, <2>7, <3>2 DEF KeptMoving, Finish
        <3>6. /\ Append(inbox, done) \in Seq(Message)
              /\ TokensOf(Append(inbox, done)) = {Len(inbox) + 1}
              /\ Append(inbox, done)[Len(inbox) + 1] = done
            BY <1>2, <3>4, <3>5, TokensOfAppend DEF TypeOK, Tokens
        <3>7. Tokens' = {Len(inbox) + 1} /\ inbox'[Len(inbox) + 1] = done
            <4> DEFINE s == Append(inbox, done)
            <4>1. s \in Seq(Message) /\ Exit \in Message /\ Exit.kind = "EXIT" /\ inbox' = Append(s, Exit)
                BY <3>3, <3>6, MessageKinds
            <4>2. s[Len(inbox) + 1] = done /\ TokensOf(s) = {Len(inbox) + 1}
                BY <3>6
            <4> HIDE DEF s, done
            <4>3. /\ TokensOf(Append(s, Exit)) = TokensOf(s)
                  /\ \A k \in TokensOf(s) : Append(s, Exit)[k] = s[k]
                BY <4>1, TokensOfAppend
            <4> QED BY <4>1, <4>2, <4>3 DEF Tokens
        <3>8. Len(running') <= 1
            BY <3>2, EmptySeq
        <3> QED BY <3>2, <3>4, <3>5, <3>7, <3>8 DEF KeptMoving, OneTask
    <2>8. ASSUME NEW i \in DOMAIN running, Kill(i)
          PROVE  KeptMoving'
        <3>1. running # <<>> /\ running' = <<>>
            BY <1>2, <2>8, LenProperties, EmptySeq, RemoveOnly DEF KeptMoving, OneTask, Kill, TypeOK
        <3>2. Tokens' = {}
            BY <1>2, <2>8, <3>1, MessageKinds, TokensOfAppend DEF KeptMoving, Kill, Tokens, TypeOK
        <3>3. kills' # 0 /\ Len(running') <= 1
            BY <1>2, <2>8, <3>1, QueueAssumption, EmptySeq DEF Kill, TypeOK
        <3> QED BY <3>1, <3>2, <3>3 DEF KeptMoving, OneTask
    <2>9. CASE UNCHANGED vars
        BY <1>2, <2>9 DEF KeptMoving, OneTask, Tokens, vars
    <2> QED BY <1>2, <2>1, <2>2, <2>3, <2>4, <2>5, <2>6, <2>7, <2>8, <2>9
            DEF Next, Hub, Work
<1> QED BY <1>1, <1>2, TasksTypeCorrect, PTL DEF Spec

(* OneTask: tasks never overlap, "to make bluepill:need/1 sequential".     *)
THEOREM TasksAreSerial == Spec => []OneTask
<1>1. KeptMoving => OneTask
    BY DEF KeptMoving
<1> QED BY <1>1, QueueKeptMoving, PTL

(* OwnAnswer: task_queue.erl answers whoever is at the head, and that is   *)
(* the client whose task has reported, whatever else gave up or was killed.*)
THEOREM AnswersAreOwn == Spec => []OwnAnswer
<1>1. Init => OwnAnswer
    BY DEF Init, OwnAnswer
<1>2. ASSUME TypeOK, KeptMoving, OwnAnswer, [Next]_vars
      PROVE  OwnAnswer'
    <2>1. ASSUME NEW c \in Client, Ask(c)
          PROVE  OwnAnswer'
        BY <1>2, <2>1 DEF OwnAnswer, Ask, TypeOK
    <2>2. CASE TakeTaskDone
        <3>1. /\ Head(inbox) \in Message /\ Head(queue) \in Request
              /\ Head(inbox).req = Head(queue)
            BY <1>2, <2>2, HeadTailProperties, TokenTaken DEF TakeTaskDone, TypeOK
        <3> DEFINE m == [req |-> Head(inbox).req, rv |-> Head(inbox).rv]
        <3>2. m \in [req : Request, rv : Outcome] /\ m.req = Head(queue)
            BY <2>2, <3>1, MessageKinds DEF TakeTaskDone
        <3>3. /\ turn' = turn
              /\ \A c \in Client : got'[c] # got[c] =>
                    c = Head(queue).from /\ turn[c] = Head(queue).turn /\ got'[c] = <<m>>
            BY <1>2, <2>2, <3>1, <3>2, ReplyType DEF TakeTaskDone
        <3>4. ASSUME NEW c \in Client, got'[c] # got[c]
              PROVE  got'[c][1].req = [from |-> c, turn |-> turn[c]]
            <4>1. got'[c][1] = m /\ Head(queue).from = c /\ Head(queue).turn = turn[c]
                BY <3>3, <3>4
            <4> QED BY <3>1, <3>2, <4>1 DEF Request
        <3> QED BY <1>2, <3>3, <3>4 DEF OwnAnswer
    <2>3. ASSUME UNCHANGED <<turn, got>>
          PROVE  OwnAnswer'
        BY <1>2, <2>3 DEF OwnAnswer
    <2> QED BY <1>2, <2>1, <2>2, <2>3
            DEF Next, Hub, Work, GiveUp, TakeTask, TakeTaskNext, TakeExit, Finish, Kill, vars
<1> QED BY <1>1, <1>2, TasksTypeCorrect, QueueKeptMoving, PTL DEF Spec

(***************************************************************************)
(* Throttle and Broadcast.                                                 *)
(***************************************************************************)
(* A message at the end of the mailbox. *)
LEMMA AtTheEnd ==
  ASSUME ThrottleTypeOK, NEW e \in Notice, mbox' = Append(mbox, e)
  PROVE  /\ mbox' \in Seq(Notice) /\ Len(mbox') = Len(mbox) + 1
         /\ DOMAIN mbox = 1..Len(mbox) /\ DOMAIN mbox' = 1..(Len(mbox) + 1) /\ Len(mbox) \in Nat
         /\ \A i \in 1..Len(mbox) : mbox'[i] = mbox[i]
         /\ mbox'[Len(mbox) + 1] = e
         /\ Downs' = IF e.down THEN Downs \cup {Len(mbox) + 1} ELSE Downs
<1>1. mbox \in Seq(Notice)
  BY DEF ThrottleTypeOK
<1>2. /\ DOMAIN mbox = 1..Len(mbox) /\ Len(mbox) \in Nat
      /\ mbox' \in Seq(Notice) /\ Len(mbox') = Len(mbox) + 1
      /\ \A i \in 1..Len(mbox) : mbox'[i] = mbox[i]
      /\ mbox'[Len(mbox) + 1] = e
  BY <1>1, LenProperties, AppendProperties
<1>3. DOMAIN mbox' = 1..(Len(mbox) + 1)
  BY <1>2, LenProperties
<1> QED BY <1>2, <1>3 DEF Downs

(* The first message taken out of the mailbox. *)
LEMMA TakenOut ==
  ASSUME ThrottleTypeOK, mbox # <<>>, mbox' = Tail(mbox)
  PROVE  /\ mbox' \in Seq(Notice) /\ Head(mbox) \in Notice /\ Head(mbox) = mbox[1]
         /\ Len(mbox) \in Nat \ {0} /\ Len(mbox') = Len(mbox) - 1
         /\ DOMAIN mbox = 1..Len(mbox) /\ DOMAIN mbox' = 1..(Len(mbox) - 1)
         /\ \A i \in DOMAIN mbox' : i + 1 \in DOMAIN mbox /\ mbox'[i] = mbox[i + 1]
         /\ 1 \in Downs <=> Head(mbox).down
         /\ \A i \in Int : i \in Downs' <=> i \in Nat \ {0} /\ i + 1 \in Downs
<1>1. mbox \in Seq(Notice)
  BY DEF ThrottleTypeOK
<1>2. /\ DOMAIN mbox = 1..Len(mbox) /\ Len(mbox) \in Nat \ {0}
      /\ mbox' \in Seq(Notice) /\ Len(mbox') = Len(mbox) - 1
      /\ Head(mbox) \in Notice /\ Head(mbox) = mbox[1]
      /\ \A i \in 1..Len(mbox') : mbox'[i] = mbox[i + 1]
  BY <1>1, LenProperties, EmptySeq, HeadTailProperties
<1>3. DOMAIN mbox' = 1..(Len(mbox) - 1)
  BY <1>2, LenProperties
<1> QED BY <1>2, <1>3 DEF Downs

-----------------------------------------------------------------------------
(* Every reachable state of the throttle has the types of ThrottleTypeOK.  *)
THEOREM TypeCorrect == ThrottleSpec => []ThrottleTypeOK
<1>1. ThrottleInit => ThrottleTypeOK
  <2>1. <<>> \in Seq(Notice) /\ <<>> \in Seq(Nat) /\ <<>> \in Seq(Seq(Nat)) /\ 0 \in 0..MaxTriggers
    BY EmptySeq, ThrottleAssumption
  <2> HAVE ThrottleInit
  <2>2. mbox \in Seq(Notice) /\ args \in Seq(Nat) /\ batches \in Seq(Seq(Nat))
    BY <2>1, Zenon DEF ThrottleInit
  <2>3. triggers \in 0..MaxTriggers /\ crashed \in BOOLEAN
    BY <2>1 DEF ThrottleInit
  <2> QED BY <2>2, <2>3 DEF ThrottleInit, ThrottleTypeOK
<1>2. ASSUME ThrottleTypeOK, [ThrottleNext]_throttleVars
      PROVE  ThrottleTypeOK'
  <2>1. CASE Trigger
    <3>1. [down |-> FALSE, n |-> triggers + 1] \in Notice
      BY <1>2, ThrottleAssumption DEF Notice, ThrottleTypeOK
    <3>2. mbox' \in Seq(Notice)
      BY <1>2, <2>1, <3>1, AtTheEnd DEF Trigger
    <3> QED BY <1>2, <2>1, <3>2, ThrottleAssumption DEF Trigger, ThrottleTypeOK
  <2>2. ASSUME NEW batch \in Seq(Nat), StartWorker(batch)
        PROVE  /\ batches' \in Seq(Seq(Nat)) /\ refpid' \in Nat /\ alive' \in SUBSET Nat
               /\ state' \in {"idle", "busy", "again"} /\ args' \in Seq(Nat)
    <3>1. batches \in Seq(Seq(Nat)) /\ alive \in SUBSET Nat
      BY <1>2 DEF ThrottleTypeOK
    <3>2. Append(batches, batch) \in Seq(Seq(Nat)) /\ Len(batches) + 1 \in Nat
      <4> DEFINE Batch == Seq(Nat)
      <4>1. batches \in Seq(Batch) /\ batch \in Batch
        BY <3>1
      <4> HIDE DEF Batch
      <4>2. Append(batches, batch) \in Seq(Batch) /\ Len(batches) \in Nat
        BY <4>1, AppendProperties, LenProperties
      <4> QED BY <4>2 DEF Batch
    <3>3. <<>> \in Seq(Nat)
      BY EmptySeq
    <3> QED BY <2>2, <3>1, <3>2, <3>3 DEF StartWorker
  <2>3. CASE TakeTrigger
    <3>1. mbox' \in Seq(Notice) /\ Head(mbox).n \in Nat
      BY <1>2, <2>3, TakenOut DEF TakeTrigger, Notice
    <3>2. <<Head(mbox).n>> \in Seq(Nat) /\ <<Head(mbox).n>> \o args \in Seq(Nat)
      BY <1>2, <3>1, ConcatProperties DEF ThrottleTypeOK
    <3> QED BY <1>2, <2>2, <2>3, <3>1, <3>2 DEF TakeTrigger, ThrottleTypeOK
  <2>4. CASE TakeDown
    <3>1. mbox' \in Seq(Notice)
      BY <1>2, <2>4, TakenOut DEF TakeDown
    <3>2. crashed' \in BOOLEAN /\ triggers' \in 0..MaxTriggers
      <4>1. crashed' = (state = "idle") /\ triggers' = triggers
        BY <2>4 DEF TakeDown
      <4> QED BY <1>2, <4>1 DEF ThrottleTypeOK
    <3>3. /\ batches' \in Seq(Seq(Nat)) /\ refpid' \in Nat /\ alive' \in SUBSET Nat
          /\ state' \in {"idle", "busy", "again"} /\ args' \in Seq(Nat)
      <4>1. CASE state = "again"
        <5>1. StartWorker(args)
          BY <2>4, <4>1 DEF TakeDown
        <5>2. args \in Seq(Nat)
          BY <1>2 DEF ThrottleTypeOK
        <5> QED BY <2>2, <5>1, <5>2
      <4>2. CASE state # "again"
        <5>1. /\ batches' = batches /\ args' = args /\ alive' = alive
              /\ state' \in {"idle", state} /\ refpid' \in {0, refpid}
          BY <2>4, <4>2 DEF TakeDown
        <5> QED BY <1>2, <5>1 DEF ThrottleTypeOK
      <4> QED BY <4>1, <4>2
    <3> QED BY <3>1, <3>2, <3>3 DEF ThrottleTypeOK
  <2>5. ASSUME NEW w \in alive, WorkerEnds(w)
        PROVE  ThrottleTypeOK'
    <3>1. [down |-> TRUE, n |-> w] \in Notice
      BY <1>2, <2>5 DEF Notice, ThrottleTypeOK
    <3>2. mbox' \in Seq(Notice)
      BY <1>2, <2>5, <3>1, AtTheEnd DEF WorkerEnds
    <3> QED BY <1>2, <2>5, <3>2 DEF WorkerEnds, ThrottleTypeOK
  <2>6. CASE UNCHANGED throttleVars
    BY <1>2, <2>6 DEF throttleVars, ThrottleTypeOK
  <2> QED BY <1>2, <2>1, <2>3, <2>4, <2>5, <2>6 DEF ThrottleNext, ThrottleHandle, Workers
<1> QED BY <1>1, <1>2, PTL DEF ThrottleSpec

-----------------------------------------------------------------------------
(* OneWorker: throttle.erl starts a worker only when it is idle or has the *)
(* DOWN message of the one before, so two never run at once.               *)
THEOREM WorkersAreSerial == ThrottleSpec => []OneWorker
<1>1. ThrottleInit => OneWorker
  BY EmptySeq, LenProperties DEF ThrottleInit, OneWorker, Downs
<1>2. ASSUME ThrottleTypeOK, OneWorker, [ThrottleNext]_throttleVars
      PROVE  OneWorker'
  <2>1. CASE Trigger
    <3> DEFINE e == [down |-> FALSE, n |-> triggers + 1]
    <3>1. e \in Notice /\ ~e.down /\ mbox' = Append(mbox, e)
      BY <1>2, <2>1, ThrottleAssumption DEF Notice, ThrottleTypeOK, Trigger
    <3> HIDE DEF e
    <3>2. Downs' = Downs /\ \A i \in Downs : mbox'[i] = mbox[i]
      BY <1>2, <3>1, AtTheEnd DEF Downs
    <3> QED BY <1>2, <2>1, <3>2 DEF Trigger, OneWorker
  <2>2. CASE TakeTrigger
    <3>1. \A i \in Downs' : i + 1 \in Downs /\ i \in Int /\ mbox'[i] = mbox[i + 1]
      BY <1>2, <2>2, TakenOut DEF TakeTrigger, Downs
    <3>2. (Downs' = {}) <=> (Downs = {})
      <4>1. \A i \in Downs : i \in Nat \ {0, 1} /\ i - 1 \in Downs'
        BY <1>2, <2>2, TakenOut DEF TakeTrigger, Downs
      <4> QED BY <3>1, <4>1
    <3>3. \A i, j \in Downs' : i = j
      BY <1>2, <3>1 DEF OneWorker
    <3>4. CASE state = "idle"
      BY <1>2, <2>2, <3>1, <3>2, <3>3, <3>4 DEF TakeTrigger, StartWorker, OneWorker
    <3>5. CASE state # "idle"
      BY <1>2, <2>2, <3>1, <3>2, <3>3, <3>5 DEF TakeTrigger, OneWorker
    <3> QED BY <3>4, <3>5
  <2>3. CASE TakeDown
    <3>1. 1 \in Downs
      BY <1>2, <2>3, TakenOut DEF TakeDown
    <3>2. Downs = {1} /\ alive = {} /\ state # "idle"
      BY <1>2, <3>1 DEF OneWorker
    <3>3. Downs' = {}
      <4>1. \A i \in Downs' : i \in Nat \ {0} /\ i + 1 \in Downs
        BY <1>2, <2>3, TakenOut DEF TakeDown, Downs
      <4> QED BY <3>2, <4>1
    <3>4. ~crashed'
      BY <2>3, <3>2 DEF TakeDown
    <3>5. \/ state' = "idle" /\ alive' = {}
          \/ state' = "busy" /\ alive' = {refpid'}
      BY <2>3, <3>2 DEF TakeDown, StartWorker
    <3> QED BY <3>3, <3>4, <3>5 DEF OneWorker
  <2>4. ASSUME NEW w \in alive, WorkerEnds(w)
        PROVE  OneWorker'
    <3> DEFINE e == [down |-> TRUE, n |-> w]
    <3>1. e \in Notice /\ e.down /\ e.n = w /\ mbox' = Append(mbox, e)
      BY <1>2, <2>4 DEF Notice, ThrottleTypeOK, WorkerEnds
    <3>2. w = refpid /\ alive' = {} /\ Downs = {} /\ state # "idle"
      BY <1>2, <2>4 DEF OneWorker, WorkerEnds
    <3> HIDE DEF e
    <3>3. Downs' = {Len(mbox) + 1} /\ mbox'[Len(mbox) + 1] = e
      BY <1>2, <3>1, <3>2, AtTheEnd
    <3> QED BY <1>2, <2>4, <3>1, <3>2, <3>3 DEF WorkerEnds, OneWorker
  <2>5. CASE UNCHANGED throttleVars
    BY <1>2, <2>5 DEF throttleVars, OneWorker, Downs
  <2> QED BY <1>2, <2>1, <2>2, <2>3, <2>4, <2>5 DEF ThrottleNext, ThrottleHandle, Workers
<1> QED BY <1>1, <1>2, TypeCorrect, PTL DEF ThrottleSpec

-----------------------------------------------------------------------------
(* The state again is the one that keeps triggers. *)
ArgsOfState == state = "again" <=> args # <<>>

LEMMA ArgsFollowState == ThrottleSpec => []ArgsOfState
<1>1. ThrottleInit => ArgsOfState
  BY DEF ThrottleInit, ArgsOfState
<1>2. ASSUME ThrottleTypeOK, ArgsOfState, [ThrottleNext]_throttleVars
      PROVE  ArgsOfState'
  <2>1. CASE TakeTrigger
    <3>1. Head(mbox).n \in Nat /\ args \in Seq(Nat)
      BY <1>2, <2>1, TakenOut DEF TakeTrigger, Notice, ThrottleTypeOK
    <3>2. <<Head(mbox).n>> \o args # <<>>
      BY <3>1, ConcatProperties, EmptySeq, LenProperties
    <3> QED BY <1>2, <2>1, <3>2 DEF TakeTrigger, StartWorker, ArgsOfState
  <2>2. CASE TakeDown
    BY <1>2, <2>2 DEF TakeDown, StartWorker, ArgsOfState, ThrottleTypeOK
  <2>3. CASE UNCHANGED <<state, args>>
    BY <1>2, <2>3 DEF ArgsOfState
  <2> QED BY <1>2, <2>1, <2>2, <2>3
          DEF ThrottleNext, ThrottleHandle, Workers, Trigger, WorkerEnds, throttleVars
<1> QED BY <1>1, <1>2, TypeCorrect, PTL DEF ThrottleSpec

(* What the numbers of triggers are. *)
LEMMA Numbers ==
  ASSUME ThrottleTypeOK, GivenInOrder, KeptInOrder
  PROVE  /\ DOMAIN batches = 1..Len(batches) /\ Len(batches) \in Nat
         /\ \A n \in 0..Len(batches) : Given(n) \in Nat
         /\ LastTaken \in Nat /\ LastTaken >= Given(Len(batches))
         /\ DOMAIN args = 1..Len(args) /\ Len(args) = LastTaken - Given(Len(batches))
<1>1. batches \in Seq(Seq(Nat)) /\ args \in Seq(Nat)
  BY DEF ThrottleTypeOK
<1>2. DOMAIN batches = 1..Len(batches) /\ Len(batches) \in Nat
  BY <1>1, LenProperties
<1>3. ASSUME NEW s \in Seq(Nat), s # <<>>
      PROVE  s[1] \in Nat /\ 1 \in DOMAIN s
  BY <1>3, EmptySeq, LenProperties, ElementOfSeq
<1>4. \A n \in 0..Len(batches) : Given(n) \in Nat
  <2>1. \A n \in DOMAIN batches : batches[n] \in Seq(Nat) /\ batches[n] # <<>>
    BY <1>1, <1>2 DEF GivenInOrder
  <2> QED BY <1>2, <1>3, <2>1 DEF Given
<1>5. LastTaken \in Nat
  BY <1>1, <1>2, <1>3, <1>4 DEF LastTaken
<1>6. DOMAIN args = 1..Len(args) /\ Len(args) \in Nat
  BY <1>1, LenProperties
<1>7. DOMAIN args = 1..(LastTaken - Given(Len(batches)))
  BY <1>2, <1>4, <1>5 DEF KeptInOrder, NewestFirst
<1>8. CASE args = <<>>
  BY <1>2, <1>4, <1>5, <1>6, <1>8, EmptySeq DEF LastTaken
<1>9. CASE args # <<>>
  BY <1>1, <1>2, <1>3, <1>4, <1>5, <1>6, <1>7, <1>9
<1> QED BY <1>2, <1>4, <1>5, <1>6, <1>8, <1>9

-----------------------------------------------------------------------------
(* A worker started with what follows on what was given before. *)
LEMMA StartedInOrder ==
  ASSUME ThrottleTypeOK, GivenInOrder, KeptInOrder,
         NEW batch \in Seq(Nat), batch # <<>>,
         batch = NewestFirst(Given(Len(batches)), batch[1]),
         StartWorker(batch)
  PROVE  GivenInOrder' /\ KeptInOrder' /\ LastTaken' = batch[1]
<1>0. PICK N \in Nat : N = Len(batches)
  BY Numbers
<1>1. DOMAIN batches = 1..N /\ Given(N) \in Nat
  BY <1>0, Numbers
<1>2. batch[1] \in Nat
  BY EmptySeq, LenProperties, ElementOfSeq
<1>3. /\ DOMAIN batches' = 1..(N + 1) /\ Len(batches') = N + 1
      /\ \A n \in 1..N : batches'[n] = batches[n]
      /\ batches'[N + 1] = batch
  <2> DEFINE Batch == Seq(Nat)
  <2>1. batches \in Seq(Batch) /\ batch \in Batch
    BY DEF ThrottleTypeOK
  <2> HIDE DEF Batch
  <2>2. batches' = Append(batches, batch)
    BY DEF StartWorker
  <2>3. /\ batches' \in Seq(Batch) /\ Len(batches') = N + 1
        /\ \A n \in 1..N : batches'[n] = batches[n]
        /\ batches'[N + 1] = batch
    BY <1>0, <2>1, <2>2, AppendProperties
  <2> QED BY <2>3, LenProperties
<1>4. \A n \in 0..N : Given(n)' = Given(n)
  BY <1>1, <1>3 DEF Given
<1>5. Given(N + 1)' = batch[1]
  BY <1>1, <1>3 DEF Given
<1>6. args' = <<>>
  BY DEF StartWorker
<1>7. LastTaken' = batch[1] /\ Given(Len(batches))' = batch[1]
  BY <1>1, <1>3, <1>5, <1>6 DEF LastTaken, Given
<1>8. KeptInOrder'
  <2>1. NewestFirst(batch[1], batch[1]) = <<>>
    BY <1>2 DEF NewestFirst
  <2> QED BY <1>6, <1>7, <2>1 DEF KeptInOrder, NewestFirst
<1>9. GivenInOrder'
  <2> SUFFICES ASSUME NEW n \in 1..(N + 1)
               PROVE  batches'[n] # <<>> /\ batches'[n] = NewestFirst(Given(n - 1)', Given(n)')
    BY <1>3 DEF GivenInOrder, NewestFirst
  <2>1. CASE n \in 1..N
    <3>1. n - 1 \in 0..N /\ n \in 0..N /\ n \in DOMAIN batches
      BY <1>1, <2>1
    <3>2. batches[n] # <<>> /\ batches[n] = NewestFirst(Given(n - 1), Given(n))
      BY <3>1 DEF GivenInOrder
    <3> QED BY <1>3, <1>4, <2>1, <3>1, <3>2
  <2>2. CASE n = N + 1
    <3>1. n - 1 = N /\ N \in 0..N
      BY <1>1, <2>2
    <3>2. batches'[n] = batch /\ Given(n - 1)' = Given(Len(batches)) /\ Given(n)' = batch[1]
      BY <1>0, <1>3, <1>4, <1>5, <2>2, <3>1
    <3> QED BY <3>2
  <2> QED BY <1>1, <2>1, <2>2
<1> QED BY <1>7, <1>8, <1>9

(* What was kept and given stays as it was. *)
LEMMA KeptAsTheyAre ==
  ASSUME GivenInOrder, KeptInOrder, UNCHANGED <<args, batches>>
  PROVE  GivenInOrder' /\ KeptInOrder' /\ LastTaken' = LastTaken
<1>1. \A n : Given(n)' = Given(n)
  BY DEF Given
<1> QED BY <1>1 DEF LastTaken, GivenInOrder, KeptInOrder, NewestFirst, Given

-----------------------------------------------------------------------------
(* The mailbox when a message leaves or enters it. *)
LEMMA TriggerLeaves ==
  ASSUME ThrottleTypeOK, ComingInOrder, LastTaken \in Nat,
         mbox # <<>>, ~Head(mbox).down, mbox' = Tail(mbox), triggers' = triggers
  PROVE  /\ Head(mbox).n = LastTaken + 1
         /\ LastTaken' = LastTaken + 1 => ComingInOrder'
<1>1. 1 \in DOMAIN mbox \ Downs
  BY TakenOut
<1>2. \A i \in Int : DownsBefore(i) \in {0, 1} /\ DownsBefore(1) = 0
  BY TakenOut DEF DownsBefore, Downs
<1>3. Head(mbox).n = LastTaken + 1
  BY <1>1, <1>2, TakenOut, SMTT(30) DEF ComingInOrder
<1>4. \A i \in Nat : DownsBefore(i)' = DownsBefore(i + 1)
  <2> SUFFICES ASSUME NEW i \in Nat
               PROVE  (\E j \in Downs' : j < i) <=> (\E j \in Downs : j < i + 1)
    BY DEF DownsBefore
  <2>1. ASSUME NEW j \in Downs', j < i
        PROVE  \E k \in Downs : k < i + 1
    <3>1. j \in Int
      BY TakenOut DEF Downs
    <3>2. j + 1 \in Downs /\ j + 1 < i + 1
      BY <2>1, <3>1, TakenOut
    <3> QED BY <3>2
  <2>2. ASSUME NEW k \in Downs, k < i + 1
        PROVE  \E j \in Downs' : j < i
    <3>1. k \in Nat \ {0, 1}
      BY <1>1, TakenOut DEF Downs
    <3>2. k - 1 \in Downs' /\ k - 1 < i
      BY <2>2, <3>1, TakenOut
    <3> QED BY <3>2
  <2> QED BY <2>1, <2>2
<1>5. ASSUME LastTaken' = LastTaken + 1
      PROVE  ComingInOrder'
  <2>1. ASSUME NEW i \in DOMAIN mbox' \ Downs'
        PROVE  mbox'[i].n = LastTaken' + i - DownsBefore(i)'
    <3>1. i \in Nat /\ i + 1 \in DOMAIN mbox \ Downs /\ mbox'[i] = mbox[i + 1]
      BY <2>1, TakenOut
    <3>2. mbox[i + 1].n = LastTaken + (i + 1) - DownsBefore(i + 1)
      BY <3>1 DEF ComingInOrder
    <3>3. DownsBefore(i + 1) \in {0, 1} /\ DownsBefore(i)' = DownsBefore(i + 1)
      BY <1>2, <1>4, <3>1
    <3> QED BY <1>5, <3>1, <3>2, <3>3
  <2>2. triggers' = LastTaken' + Len(mbox)' - DownsBefore(Len(mbox) + 1)'
    <3>1. Len(mbox) \in Nat \ {0} /\ Len(mbox') = Len(mbox) - 1
      BY TakenOut
    <3>2. DownsBefore(Len(mbox) + 1)' = DownsBefore(Len(mbox) + 1)
      BY <1>4, <3>1 DEF DownsBefore
    <3>3. DownsBefore(Len(mbox) + 1) \in {0, 1}
      BY <1>2, <3>1
    <3> QED BY <1>5, <3>1, <3>2, <3>3, SMTT(30) DEF ComingInOrder
  <2> QED BY <2>1, <2>2 DEF ComingInOrder, DownsBefore
<1> QED BY <1>3, <1>5

LEMMA DownLeaves ==
  ASSUME ThrottleTypeOK, OneWorker, ComingInOrder, LastTaken \in Nat,
         mbox # <<>>, Head(mbox).down, mbox' = Tail(mbox), triggers' = triggers,
         LastTaken' = LastTaken
  PROVE  ComingInOrder'
<1>1. Downs = {1}
  BY TakenOut DEF OneWorker
<1>2. Downs' = {}
  <2>1. \A i \in Downs' : i \in Nat \ {0} /\ i + 1 \in Downs
    BY TakenOut DEF Downs
  <2> QED BY <1>1, <2>1
<1>3. \A i \in Nat : DownsBefore(i)' = 0 /\ (i > 0 => DownsBefore(i + 1) = 1)
  BY <1>1, <1>2 DEF DownsBefore
<1>4. ASSUME NEW i \in DOMAIN mbox' \ Downs'
      PROVE  mbox'[i].n = LastTaken' + i - DownsBefore(i)'
  <2>1. i \in Nat \ {0} /\ i + 1 \in DOMAIN mbox \ Downs /\ mbox'[i] = mbox[i + 1]
    BY <1>1, <1>4, TakenOut
  <2>2. mbox[i + 1].n = LastTaken + (i + 1) - DownsBefore(i + 1)
    BY <2>1 DEF ComingInOrder
  <2>3. DownsBefore(i + 1) = 1 /\ DownsBefore(i)' = 0
    BY <1>3, <2>1
  <2> QED BY <2>1, <2>2, <2>3
<1>5. triggers' = LastTaken' + Len(mbox)' - DownsBefore(Len(mbox) + 1)'
  <2>1. Len(mbox) \in Nat \ {0} /\ Len(mbox') = Len(mbox) - 1
    BY TakenOut
  <2>2. DownsBefore(Len(mbox) + 1) = 1 /\ DownsBefore(Len(mbox) + 1)' = 0
    BY <1>2, <1>3, <2>1 DEF DownsBefore
  <2> QED BY <2>1, <2>2 DEF ComingInOrder
<1> QED BY <1>4, <1>5 DEF ComingInOrder, DownsBefore

LEMMA TriggerComes ==
  ASSUME ThrottleTypeOK, ComingInOrder, LastTaken \in Nat,
         mbox' = Append(mbox, [down |-> FALSE, n |-> triggers + 1]), triggers' = triggers + 1,
         LastTaken' = LastTaken
  PROVE  ComingInOrder'
<1>1. PICK L \in Nat : L = Len(mbox)
  BY LenProperties DEF ThrottleTypeOK
<1>2. [down |-> FALSE, n |-> triggers + 1] \in Notice
  BY ThrottleAssumption DEF Notice, ThrottleTypeOK
<1>3. /\ DOMAIN mbox = 1..L /\ DOMAIN mbox' = 1..(L + 1) /\ Len(mbox') = L + 1
      /\ \A i \in 1..L : mbox'[i] = mbox[i]
      /\ mbox'[L + 1].n = triggers + 1 /\ Downs' = Downs
  BY <1>1, <1>2, AtTheEnd
<1>4. \A i : DownsBefore(i)' = DownsBefore(i)
  BY <1>3 DEF DownsBefore
<1>5. DownsBefore(L + 1) \in {0, 1} /\ DownsBefore(L + 2) = DownsBefore(L + 1)
  BY <1>3 DEF DownsBefore, Downs
<1>6. triggers = LastTaken + L - DownsBefore(L + 1)
  BY <1>1 DEF ComingInOrder
<1>7. ASSUME NEW i \in DOMAIN mbox' \ Downs'
      PROVE  mbox'[i].n = LastTaken' + i - DownsBefore(i)'
  <2>1. CASE i \in 1..L
    <3>1. i \in DOMAIN mbox \ Downs /\ mbox'[i] = mbox[i]
      BY <1>3, <1>7, <2>1
    <3>2. mbox[i].n = LastTaken + i - DownsBefore(i)
      BY <3>1 DEF ComingInOrder
    <3>3. DownsBefore(i)' = DownsBefore(i)
      BY <1>4
    <3>4. DownsBefore(i) \in {0, 1} /\ i \in Nat
      BY <1>3, <3>1 DEF DownsBefore
    <3> QED BY <3>1, <3>2, <3>3, <3>4
  <2>2. CASE i = L + 1
    <3>1. DownsBefore(i)' = DownsBefore(L + 1) /\ mbox'[i].n = triggers + 1
      BY <1>3, <1>4, <2>2
    <3>2. mbox'[i].n = LastTaken + L - DownsBefore(L + 1) + 1
      BY <1>6, <3>1
    <3>3. LastTaken' + i - DownsBefore(i)' = LastTaken + (L + 1) - DownsBefore(L + 1)
      BY <2>2, <3>1
    <3>4. PICK d \in {0, 1} : d = DownsBefore(L + 1)
      BY <1>5
    <3>5. LastTaken + L - d + 1 = LastTaken + (L + 1) - d
      OBVIOUS
    <3> QED BY <3>2, <3>3, <3>4, <3>5
  <2> QED BY <1>3, <1>7, <2>1, <2>2
<1>8. triggers' = LastTaken' + Len(mbox)' - DownsBefore(Len(mbox) + 1)'
  <2>1. Len(mbox)' = L + 1 /\ Len(mbox') + 1 = L + 2
    BY <1>3
  <2>2. DownsBefore(Len(mbox) + 1)' = DownsBefore(L + 2)
    BY <1>3, <2>1 DEF DownsBefore
  <2> QED BY <1>5, <1>6, <2>1, <2>2, SMTT(30)
<1> QED BY <1>7, <1>8 DEF ComingInOrder, DownsBefore

LEMMA DownComes ==
  ASSUME ThrottleTypeOK, ComingInOrder, LastTaken \in Nat, Downs = {},
         NEW w \in Nat, mbox' = Append(mbox, [down |-> TRUE, n |-> w]), triggers' = triggers,
         LastTaken' = LastTaken
  PROVE  ComingInOrder'
<1>1. PICK L \in Nat : L = Len(mbox)
  BY LenProperties DEF ThrottleTypeOK
<1>2. [down |-> TRUE, n |-> w] \in Notice
  BY DEF Notice
<1>3. /\ DOMAIN mbox = 1..L /\ DOMAIN mbox' = 1..(L + 1) /\ Len(mbox') = L + 1
      /\ \A i \in 1..L : mbox'[i] = mbox[i]
      /\ Downs' = {L + 1}
  BY <1>1, <1>2, AtTheEnd
<1>4. /\ \A i \in Int : DownsBefore(i) = 0
      /\ \A i \in 1..L : DownsBefore(i)' = 0
  BY <1>3 DEF DownsBefore
<1>5. \A i \in DOMAIN mbox' \ Downs' : mbox'[i].n = LastTaken' + i - DownsBefore(i)'
  BY <1>3, <1>4 DEF ComingInOrder
<1>6. triggers' = LastTaken' + Len(mbox)' - DownsBefore(Len(mbox) + 1)'
  <2>1. DownsBefore(Len(mbox) + 1)' = 1
    BY <1>3 DEF DownsBefore
  <2>2. triggers = LastTaken + L
    BY <1>1, <1>4 DEF ComingInOrder
  <2> QED BY <1>3, <2>1, <2>2
<1> QED BY <1>5, <1>6 DEF ComingInOrder, DownsBefore

-----------------------------------------------------------------------------
(* NothingLost: "the worker gets passed all the requests that have come in *)
(* since last finish, most recent one first" (throttle.erl:14): every      *)
(* trigger is in the mailbox, kept, or given to exactly one worker, and    *)
(* all of them in order.                                                   *)
THEOREM TriggersAreKept == ThrottleSpec => []NothingLost
<1>1. ThrottleInit => NothingLost
  <2> HAVE ThrottleInit
  <2>1. DOMAIN batches = {} /\ DOMAIN mbox = {} /\ Len(batches) = 0 /\ Len(mbox) = 0
    BY DEF ThrottleInit
  <2>2. Given(Len(batches)) = 0 /\ LastTaken = 0
    BY <2>1 DEF ThrottleInit, Given, LastTaken
  <2>3. GivenInOrder
    BY <2>1 DEF GivenInOrder
  <2>4. KeptInOrder
    BY <2>2 DEF ThrottleInit, KeptInOrder, NewestFirst
  <2>5. ComingInOrder
    BY <2>1, <2>2 DEF ThrottleInit, ComingInOrder, DownsBefore, Downs
  <2> QED BY <2>3, <2>4, <2>5 DEF NothingLost
<1>2. ASSUME ThrottleTypeOK, OneWorker, ArgsOfState, NothingLost, [ThrottleNext]_throttleVars
      PROVE  NothingLost'
  <2>0. GivenInOrder /\ KeptInOrder /\ ComingInOrder /\ LastTaken \in Nat
    BY <1>2, Numbers DEF NothingLost
  <2>1. CASE Trigger
    <3>1. GivenInOrder' /\ KeptInOrder' /\ LastTaken' = LastTaken
      BY <2>0, <2>1, KeptAsTheyAre DEF Trigger
    <3>2. ComingInOrder'
      BY <1>2, <2>0, <2>1, <3>1, TriggerComes DEF Trigger
    <3> QED BY <3>1, <3>2 DEF NothingLost
  <2>2. CASE TakeTrigger
    <3>1. /\ Head(mbox).n = LastTaken + 1
          /\ LastTaken' = LastTaken + 1 => ComingInOrder'
      BY <1>2, <2>0, <2>2, TriggerLeaves DEF TakeTrigger
    <3> DEFINE t == Head(mbox).n
    <3>2. CASE state = "idle"
      <4>1. args = <<>> /\ LastTaken = Given(Len(batches)) /\ StartWorker(<<t>>)
        BY <1>2, <2>2, <3>2 DEF ArgsOfState, LastTaken, TakeTrigger
      <4>2. <<t>> \in Seq(Nat) /\ <<t>> # <<>> /\ <<t>>[1] = t
        BY <2>0, <3>1
      <4>3. <<t>> = NewestFirst(Given(Len(batches)), <<t>>[1])
        BY <2>0, <3>1, <4>1, <4>2 DEF NewestFirst
      <4>4. GivenInOrder' /\ KeptInOrder' /\ LastTaken' = t
        BY <1>2, <2>0, <4>1, <4>2, <4>3, StartedInOrder
      <4> QED BY <3>1, <4>4 DEF NothingLost
    <3>3. CASE state # "idle"
      <4>1. args' = <<t>> \o args /\ UNCHANGED batches
        BY <2>2, <3>3 DEF TakeTrigger
      <4>2. args \in Seq(Nat) /\ t \in Nat
        BY <1>2, <2>0, <3>1 DEF ThrottleTypeOK
      <4>3. /\ DOMAIN args' = 1..(Len(args) + 1) /\ args'[1] = t /\ args' # <<>>
            /\ \A j \in 2..(Len(args) + 1) : args'[j] = args[j - 1]
        BY <4>1, <4>2, ConcatProperties, LenProperties, EmptySeq
      <4>4. LastTaken' = t
        BY <4>3 DEF LastTaken
      <4>5. GivenInOrder'
        BY <2>0, <4>1 DEF GivenInOrder, Given, NewestFirst
      <4>6. KeptInOrder'
        <5>1. PICK g \in Nat : g = Given(Len(batches)) /\ Len(args) = LastTaken - g
          BY <1>2, <2>0, Numbers, SMTT(30)
        <5>2. Given(Len(batches))' = g
          BY <4>1, <5>1 DEF Given
        <5>3. \A j \in 1..(LastTaken - g) : args[j] = LastTaken - j + 1
          BY <2>0, <5>1 DEF KeptInOrder, NewestFirst
        <5>4. \A j \in 1..(t - g) : args'[j] = t - j + 1
          <6> SUFFICES ASSUME NEW j \in 1..(t - g)
                       PROVE  args'[j] = t - j + 1
            OBVIOUS
          <6>1. j = 1 \/ (j \in 2..(Len(args) + 1) /\ j - 1 \in 1..(LastTaken - g))
            BY <2>0, <3>1, <5>1
          <6>2. CASE j = 1
            BY <2>0, <3>1, <4>3, <6>2
          <6>3. CASE j \in 2..(Len(args) + 1) /\ j - 1 \in 1..(LastTaken - g)
            <7>1. args'[j] = args[j - 1] /\ args[j - 1] = LastTaken - (j - 1) + 1
              BY <4>3, <5>3, <6>3
            <7> QED BY <2>0, <3>1, <6>3, <7>1
          <6> QED BY <6>1, <6>2, <6>3
        <5>5. args' = [j \in 1..(t - g) |-> t - j + 1]
          <6>1. DOMAIN args' = 1..(t - g)
            BY <2>0, <3>1, <4>3, <5>1
          <6>2. args' \in Seq(Nat)
            BY <4>1, <4>2, ConcatProperties
          <6> QED BY <5>4, <6>1, <6>2
        <5> QED BY <4>4, <5>2, <5>5 DEF KeptInOrder, NewestFirst
      <4> QED BY <3>1, <4>4, <4>5, <4>6 DEF NothingLost
    <3> QED BY <3>2, <3>3
  <2>3. CASE TakeDown
    <3>1. state # "idle"
      BY <1>2, <2>3, TakenOut DEF TakeDown, OneWorker
    <3>2. GivenInOrder' /\ KeptInOrder' /\ LastTaken' = LastTaken
      <4>1. CASE state = "busy"
        BY <2>0, <2>3, <4>1, KeptAsTheyAre DEF TakeDown
      <4>2. CASE state = "again"
        <5>1. StartWorker(args) /\ args # <<>> /\ args \in Seq(Nat) /\ LastTaken = args[1]
          BY <1>2, <2>3, <4>2 DEF TakeDown, ArgsOfState, ThrottleTypeOK, LastTaken
        <5>2. args = NewestFirst(Given(Len(batches)), args[1])
          BY <2>0, <5>1 DEF KeptInOrder
        <5> QED BY <1>2, <2>0, <5>1, <5>2, StartedInOrder
      <4> QED BY <2>3, <3>1, <4>1, <4>2 DEF TakeDown
    <3>3. ComingInOrder'
      BY <1>2, <2>0, <2>3, <3>2, DownLeaves DEF TakeDown
    <3> QED BY <3>2, <3>3 DEF NothingLost
  <2>4. ASSUME NEW w \in alive, WorkerEnds(w)
        PROVE  NothingLost'
    <3>1. GivenInOrder' /\ KeptInOrder' /\ LastTaken' = LastTaken
      BY <2>0, <2>4, KeptAsTheyAre DEF WorkerEnds
    <3>2. Downs = {} /\ w \in Nat
      BY <1>2 DEF OneWorker, ThrottleTypeOK
    <3>3. ComingInOrder'
      BY <1>2, <2>0, <2>4, <3>1, <3>2, DownComes DEF WorkerEnds
    <3> QED BY <3>1, <3>3 DEF NothingLost
  <2>5. CASE UNCHANGED throttleVars
    BY <2>0, <2>5 DEF throttleVars, NothingLost, GivenInOrder, KeptInOrder, ComingInOrder,
                      NewestFirst, Given, LastTaken, DownsBefore, Downs
  <2> QED BY <1>2, <2>1, <2>2, <2>3, <2>4, <2>5 DEF ThrottleNext, ThrottleHandle, Workers
<1> QED BY <1>1, <1>2, TypeCorrect, WorkersAreSerial, ArgsFollowState, PTL DEF ThrottleSpec

-----------------------------------------------------------------------------
(* The broadcaster takes the message m, the one after those in handled.    *)
HandlesNext(m) == handled \in Seq(Messaged) /\ m \in Messaged /\ handled' = Append(handled, m)

LEMMA HandledGrows ==
  ASSUME NEW m, HandlesNext(m)
  PROVE  /\ handled' \in Seq(Messaged) /\ Len(handled) \in Nat /\ Len(handled') = Len(handled) + 1
         /\ DOMAIN handled = 1 .. Len(handled) /\ DOMAIN handled' = 1 .. (Len(handled) + 1)
         /\ \A i \in 1 .. Len(handled) : handled'[i] = handled[i]
         /\ handled'[Len(handled) + 1] = m
<1>1. /\ handled' \in Seq(Messaged) /\ Len(handled) \in Nat /\ Len(handled') = Len(handled) + 1
      /\ DOMAIN handled = 1 .. Len(handled)
      /\ \A i \in 1 .. Len(handled) : handled'[i] = handled[i]
      /\ handled'[Len(handled) + 1] = m
  BY LenProperties, AppendProperties DEF HandlesNext
<1>2. DOMAIN handled' = 1 .. (Len(handled) + 1)
  BY <1>1, LenProperties
<1> QED
  BY <1>1, <1>2

(* What is in force at one of the messages handled stays what it is; after *)
(* the next one, a removal leaves nothing, a subscription adds itself.     *)
LEMMA InForceKept ==
  ASSUME NEW m, HandlesNext(m), NEW p, NEW i \in 1 .. (Len(handled) + 1)
  PROVE  InForce(p, i)' = InForce(p, i)
<1>1. \A k \in 1 .. (i - 1) : handled'[k] = handled[k]
  BY HandledGrows
<1>2. i \in Nat
  BY HandledGrows
<1> QED
  BY <1>1, <1>2 DEF InForce

LEMMA InForceNext ==
  ASSUME NEW m, HandlesNext(m), NEW p
  PROVE  InForce(p, Len(handled) + 1)' =
           IF Removes(m, p) THEN {}
           ELSE InForce(p, Len(handled) + 1) \cup (IF Subscribes(m, p) THEN {Len(handled) + 1} ELSE {})
<1> DEFINE n == Len(handled)
<1>1. n \in Nat /\ Len(handled') = n + 1 /\ handled'[n + 1] = m /\ \A k \in 1 .. n : handled'[k] = handled[k]
  BY HandledGrows
<1>2. InForce(p, Len(handled) + 1)' =
        {s \in 1 .. (n + 1) : Subscribes(handled'[s], p) /\ \A k \in s .. (n + 1) : ~Removes(handled'[k], p)}
  BY <1>1 DEF InForce, Subscribes, Removes
<1>3. InForce(p, n + 1) =
        {s \in 1 .. n : Subscribes(handled[s], p) /\ \A k \in s .. n : ~Removes(handled[k], p)}
  BY <1>1 DEF InForce
<1>4. Removes(m, p) => ~Subscribes(m, p)
  BY DEF Removes, Subscribes
<1> HIDE DEF n
<1>5. ASSUME NEW s
      PROVE  s \in InForce(p, Len(handled) + 1)' <=>
               ~Removes(m, p) /\ (s \in InForce(p, n + 1) \/ (s = n + 1 /\ Subscribes(m, p)))
  <2>1. CASE s = n + 1
    BY <1>1, <1>2, <1>3, <1>4, <2>1
  <2>2. CASE s \in 1 .. n
    <3>1. \A k \in s .. (n + 1) : k = n + 1 \/ (k \in s .. n /\ k \in 1 .. n)
      BY <1>1, <2>2
    <3>2. n + 1 \in s .. (n + 1) /\ s # n + 1 /\ s \in 1 .. (n + 1) /\ \A k \in s .. n : k \in s .. (n + 1)
      BY <1>1, <2>2
    <3>3. (\A k \in s .. (n + 1) : ~Removes(handled'[k], p)) <=> ~Removes(m, p) /\ \A k \in s .. n : ~Removes(handled[k], p)
      BY <1>1, <3>1, <3>2
    <3>4. Subscribes(handled'[s], p) <=> Subscribes(handled[s], p)
      BY <1>1, <2>2
    <3> QED
      BY <1>2, <1>3, <2>2, <3>2, <3>3, <3>4
  <2>3. CASE s # n + 1 /\ s \notin 1 .. n
    BY <1>1, <1>2, <1>3, <2>3
  <2> QED
    BY <2>1, <2>2, <2>3
<1> QED
  BY <1>5 DEF n

(* Whether a message passes to p at the place i: p has a subscription in   *)
(* force, and the filter of the first one passes it.                       *)
Passes(p, i, msg) == \E s \in InForce(p, i) : First(p, i, s) /\ msg \in FilterOf(handled[s])

LEMMA PassesKept ==
  ASSUME NEW m, HandlesNext(m), NEW p, NEW i \in 1 .. (Len(handled) + 1), NEW msg
  PROVE  Passes(p, i, msg)' = Passes(p, i, msg)
<1>1. InForce(p, i)' = InForce(p, i)
  BY InForceKept
<1>2. \A s \in InForce(p, i) : handled'[s] = handled[s]
  BY HandledGrows DEF InForce
<1> QED
  BY <1>1, <1>2 DEF Passes, First

LEMMA DueNext ==
  ASSUME NEW m, HandlesNext(m), NEW p
  PROVE  Due(p)' = Due(p) \cup (IF m.type = "broadcast" /\ Passes(p, Len(handled) + 1, m.msg)
                                THEN {Len(handled) + 1} ELSE {})
<1> DEFINE n == Len(handled)
<1>1. /\ n \in Nat /\ DOMAIN handled = 1 .. n /\ DOMAIN handled' = 1 .. (n + 1)
      /\ \A i \in 1 .. n : handled'[i] = handled[i]
      /\ handled'[n + 1] = m
  BY HandledGrows
<1>2. Due(p) = {i \in DOMAIN handled : handled[i].type = "broadcast" /\ Passes(p, i, handled[i].msg)}
  BY DEF Due, Passes
<1>3. ASSUME NEW i \in 1 .. (n + 1)
      PROVE  i \in Due(p)' <=> handled'[i].type = "broadcast" /\ Passes(p, i, handled'[i].msg)
  <2>1. PICK msg : msg = handled'[i].msg
    OBVIOUS
  <2>2. Passes(p, i, msg)' = Passes(p, i, msg)
    BY PassesKept
  <2>3. i \in Due(p)' <=> handled'[i].type = "broadcast" /\ Passes(p, i, msg)'
    BY <1>1, <2>1 DEF Due, Passes
  <2> QED
    BY <2>1, <2>2, <2>3
<1>4. Due(p)' \subseteq 1 .. (n + 1)
  BY <1>1 DEF Due
<1> HIDE DEF n
<1>5. 1 .. (n + 1) = (1 .. n) \cup {n + 1}
  BY <1>1
<1>6. \A i \in 1 .. n : i \in Due(p)' <=> i \in Due(p)
  BY <1>1, <1>2, <1>3, <1>5
<1>7. n + 1 \in Due(p)' <=> m.type = "broadcast" /\ Passes(p, n + 1, m.msg)
  BY <1>1, <1>3, <1>5
<1>8. Due(p) \subseteq 1 .. n
  BY <1>1, <1>2
<1> QED
  BY <1>4, <1>5, <1>6, <1>7, <1>8 DEF n

-----------------------------------------------------------------------------
(* What the messages have, and that those of a death are messages.         *)
LEMMA MessageFields ==
  ASSUME NEW m \in Messaged
  PROVE  /\ m.type \in {"subscribe", "name", "unsubscribe", "EXIT", "broadcast", "DOWN"}
         /\ m.type # "broadcast" => m.pid \in Subscribers
         /\ m.type = "subscribe" => m.filter \in Filters
         /\ m.type = "broadcast" => m.msg \in Messages
BY DEF Messaged, Requests

LEMMA LeaveMessages ==
  ASSUME NEW p \in Subscribers, NEW n \in Nat
  PROVE  /\ DownOf(p) \in Messaged /\ ExitOf(p) \in Messaged
         /\ [i \in 1 .. n |-> DownOf(p)] \in Seq(Messaged) /\ Len([i \in 1 .. n |-> DownOf(p)]) = n
         /\ (IF p = Starter THEN <<ExitOf(p)>> ELSE <<>>) \in Seq(Messaged)
<1>1. DownOf(p) \in Messaged /\ ExitOf(p) \in Messaged
  BY DEF DownOf, ExitOf, Messaged, Requests
<1> DEFINE d == DownOf(p)
<1>2. [i \in 1 .. n |-> d] \in Seq(Messaged) /\ Len([i \in 1 .. n |-> d]) = n
  <2>1. d \in Messaged
    BY <1>1
  <2> HIDE DEF d
  <2> QED
    BY <2>1
<1> QED
  BY <1>1, <1>2

(* Every reachable state of the broadcaster has the types of               *)
(* BroadcastTypeOK.                                                        *)
THEOREM BroadcastTypeCorrect == BroadcastSpec => []BroadcastTypeOK
<1>1. BroadcastInit => BroadcastTypeOK
  BY EmptySeq, BroadcastAssumption DEF BroadcastInit, BroadcastTypeOK
<1>2. ASSUME BroadcastTypeOK, [BroadcastNext]_bcVars
      PROVE  BroadcastTypeOK'
  <2> USE <1>2
  <2>1. ASSUME NEW m \in Requests, Requested(m) PROVE BroadcastTypeOK'
    <3>1. bcMbox' \in Seq(Messaged)
      BY <2>1, AppendProperties DEF Requested, Messaged, BroadcastTypeOK
    <3>2. requests' \in 0 .. MaxRequests
      BY <2>1, BroadcastAssumption DEF Requested, BroadcastTypeOK
    <3>3. UNCHANGED <<bcPids, monitors, present, received, handled>>
      BY <2>1 DEF Requested
    <3> QED
      BY <3>1, <3>2, <3>3 DEF BroadcastTypeOK
  <2>2. ASSUME NEW p \in Subscribers, Dies(p) PROVE BroadcastTypeOK'
    <3>1. monitors[p] \in Nat /\ bcMbox \in Seq(Messaged)
      BY DEF BroadcastTypeOK
    <3>2. bcMbox' \in Seq(Messaged)
      BY <2>2, <3>1, LeaveMessages, ConcatProperties DEF Dies
    <3>3. monitors' \in [Subscribers -> Nat]
      BY <2>2 DEF Dies, BroadcastTypeOK
    <3> QED
      BY <2>2, <3>2, <3>3 DEF Dies, BroadcastTypeOK
  <2>3. CASE Handle
    <3>1. PICK m : m = Head(bcMbox)
      OBVIOUS
    <3>2. m \in Messaged /\ Tail(bcMbox) \in Seq(Messaged) /\ handled' \in Seq(Messaged)
      BY <2>3, <3>1, HeadTailProperties, AppendProperties DEF Handle, BroadcastTypeOK
    <3>3. ASSUME NEW p \in Subscribers, NEW filter \in Filters \cup {Messages}, Subscribe(p, filter)
          PROVE  /\ bcMbox' \in Seq(Messaged) /\ monitors' \in [Subscribers -> Nat]
                 /\ bcPids' \subseteq Subscribers \X (Filters \cup {Messages})
      <4>1. Append(Tail(bcMbox), DownOf(p)) \in Seq(Messaged)
        BY <3>2, LeaveMessages, AppendProperties
      <4>2. monitors \in [Subscribers -> Nat] /\ bcPids \subseteq Subscribers \X (Filters \cup {Messages})
        BY DEF BroadcastTypeOK
      <4>3. bcMbox' \in {Tail(bcMbox), Append(Tail(bcMbox), DownOf(p))}
        BY <3>3 DEF Subscribe
      <4>4. monitors' \in {monitors, [monitors EXCEPT ![p] = @ + 1]}
        BY <3>3 DEF Subscribe
      <4>5. monitors' \in [Subscribers -> Nat]
        BY <4>2, <4>4
      <4>6. bcPids' \subseteq bcPids \cup {<<p, filter>>}
        BY <3>3 DEF Subscribe
      <4>7. <<p, filter>> \in Subscribers \X (Filters \cup {Messages})
        OBVIOUS
      <4>8. bcPids' \subseteq Subscribers \X (Filters \cup {Messages})
        BY <4>2, <4>6, <4>7
      <4> QED
        BY <3>2, <4>1, <4>3, <4>5, <4>8
    <3>4. CASE TakeSubscribe
      <4>1. /\ bcMbox' \in Seq(Messaged) /\ monitors' \in [Subscribers -> Nat]
            /\ bcPids' \subseteq Subscribers \X (Filters \cup {Messages})
        <5>1. m.type = "subscribe" => m.pid \in Subscribers /\ m.filter \in Filters
          BY <3>2, MessageFields
        <5>2. m.type = "name" => m.pid \in Subscribers
          BY <3>2, MessageFields
        <5>3. \/ m.type = "subscribe" /\ Subscribe(m.pid, m.filter)
              \/ m.type = "name" /\ Subscribe(m.pid, Messages)
              \/ bcMbox' = Tail(bcMbox) /\ UNCHANGED <<bcPids, monitors>>
          BY <3>1, <3>4 DEF TakeSubscribe
        <5>4. CASE m.type = "subscribe" /\ Subscribe(m.pid, m.filter)
          BY <3>3, <5>1, <5>4
        <5>5. CASE m.type = "name" /\ Subscribe(m.pid, Messages)
          BY <3>3, <5>2, <5>5
        <5>6. CASE bcMbox' = Tail(bcMbox) /\ UNCHANGED <<bcPids, monitors>>
          BY <3>2, <5>6 DEF BroadcastTypeOK
        <5> QED
          BY <5>3, <5>4, <5>5, <5>6
      <4> QED
        BY <2>3, <3>2, <3>4, <4>1 DEF TakeSubscribe, Handle, BroadcastTypeOK
    <3>5. CASE TakeRemoval
      BY <2>3, <3>2, <3>5 DEF TakeRemoval, Handle, BroadcastTypeOK
    <3>6. CASE TakeBroadcast
      <4>1. m.msg \in Messages /\ Len(handled) + 1 \in Nat
        BY <3>1, <3>2, <3>6, MessageFields, LenProperties DEF TakeBroadcast, BroadcastTypeOK
      <4>2. PICK s : s = [msg |-> m.msg, at |-> Len(handled) + 1]
        OBVIOUS
      <4>3. s \in [msg: Messages, at: Nat]
        BY <4>1, <4>2
      <4>4. ASSUME NEW p \in Subscribers PROVE received'[p] \in Seq([msg: Messages, at: Nat])
        <5>1. received'[p] \in {received[p], Append(received[p], s)}
          BY <3>1, <3>6, <4>2 DEF TakeBroadcast
        <5> DEFINE Sent == [msg: Messages, at: Nat]
        <5>2. received[p] \in Seq(Sent) /\ s \in Sent
          BY <4>3 DEF BroadcastTypeOK
        <5> HIDE DEF Sent
        <5>3. Append(received[p], s) \in Seq(Sent)
          BY <5>2, AppendProperties
        <5>4. received'[p] \in Seq(Sent)
          BY <5>1, <5>2, <5>3
        <5> QED
          BY <5>4 DEF Sent
      <4>5. received' = [p \in Subscribers |-> received'[p]]
        BY <3>6 DEF TakeBroadcast
      <4> QED
        BY <2>3, <3>2, <3>6, <4>4, <4>5 DEF TakeBroadcast, Handle, BroadcastTypeOK
    <3> QED
      BY <2>3, <3>4, <3>5, <3>6 DEF Handle
  <2>4. CASE UNCHANGED bcVars
    BY <2>4 DEF bcVars, BroadcastTypeOK
  <2> QED
    BY <2>1, <2>2, <2>3, <2>4 DEF BroadcastNext
<1> QED
  BY <1>1, <1>2, PTL DEF BroadcastSpec

-----------------------------------------------------------------------------
(* The entry of a process that runs is what it asked for first of all that *)
(* is in force, and it is monitored.                                       *)
FirstKept ==
  \A p \in present :
    /\ InForce(p, Len(handled) + 1) # {} => Subscribed(p)
    /\ \A e \in bcPids :
         e[1] = p => \E s \in InForce(p, Len(handled) + 1) :
                       First(p, Len(handled) + 1, s) /\ e[2] = FilterOf(handled[s])

Monitored == \A p \in present : Subscribed(p) => monitors[p] > 0

(* A first subscription stays the first, and its message what it is.       *)
LEMMA FirstNext ==
  ASSUME NEW m, HandlesNext(m), NEW p,
         NEW s \in InForce(p, Len(handled) + 1), First(p, Len(handled) + 1, s), ~Removes(m, p)
  PROVE  /\ s \in InForce(p, Len(handled) + 1)' /\ First(p, Len(handled) + 1, s)'
         /\ FilterOf(handled'[s]) = FilterOf(handled[s])
<1> DEFINE n == Len(handled)
<1>1. n \in Nat /\ Len(handled') = n + 1 /\ \A k \in 1 .. n : handled'[k] = handled[k]
  BY HandledGrows
<1>2. s \in 1 .. n
  BY <1>1 DEF InForce
<1>3. InForce(p, Len(handled) + 1)' \in {InForce(p, n + 1), InForce(p, n + 1) \cup {n + 1}}
  BY InForceNext
<1>4. s \in InForce(p, Len(handled) + 1)' /\ \A t \in InForce(p, Len(handled) + 1)' : s <= t
  <2>1. \A t \in InForce(p, n + 1) : s <= t
    BY DEF First
  <2>2. s <= n + 1
    BY <1>1, <1>2
  <2> QED
    BY <1>3, <2>1, <2>2
<1>5. First(p, Len(handled) + 1, s)'
  BY <1>4 DEF First
<1> QED
  BY <1>1, <1>2, <1>4, <1>5

LEMMA FirstStays ==
  ASSUME BroadcastTypeOK, FirstKept, Handle
  PROVE  FirstKept'
<1> DEFINE n == Len(handled)
<1>1. PICK m : m = Head(bcMbox)
  OBVIOUS
<1>2. m \in Messaged /\ HandlesNext(m)
  BY <1>1, HeadTailProperties DEF Handle, HandlesNext, BroadcastTypeOK
<1>3. n \in Nat /\ handled'[n + 1] = m
  BY <1>2, HandledGrows
<1>4. present' = present
  BY DEF Handle
<1> SUFFICES ASSUME NEW p \in present
             PROVE  /\ InForce(p, Len(handled) + 1)' # {} => Subscribed(p)'
                    /\ \A e \in bcPids' :
                         e[1] = p => \E s \in InForce(p, Len(handled) + 1)' :
                                       First(p, Len(handled) + 1, s)' /\ e[2] = FilterOf(handled'[s])
  BY <1>4 DEF FirstKept
<1>5. /\ InForce(p, n + 1) # {} => Subscribed(p)
      /\ \A e \in bcPids :
           e[1] = p => \E s \in InForce(p, n + 1) : First(p, n + 1, s) /\ e[2] = FilterOf(handled[s])
  BY DEF FirstKept
(* What is no removal of p leaves the entries there are right.             *)
<1>6. ASSUME ~Removes(m, p), NEW e \in bcPids, e[1] = p
      PROVE  \E s \in InForce(p, Len(handled) + 1)' :
               First(p, Len(handled) + 1, s)' /\ e[2] = FilterOf(handled'[s])
  <2>1. PICK s \in InForce(p, n + 1) : First(p, n + 1, s) /\ e[2] = FilterOf(handled[s])
    BY <1>5, <1>6
  <2> QED
    BY <1>2, <1>6, <2>1, FirstNext
<1>7. CASE Removes(m, p)
  <2>1. InForce(p, Len(handled) + 1)' = {}
    BY <1>2, <1>7, InForceNext
  <2>2. TakeRemoval
    BY <1>1, <1>7 DEF Removes, Handle, TakeSubscribe, TakeBroadcast
  <2>3. \A e \in bcPids' : e[1] # p
    BY <1>1, <1>7, <2>2 DEF Removes, TakeRemoval
  <2> QED
    BY <2>1, <2>3
<1>8. CASE ~Removes(m, p) /\ ~Subscribes(m, p)
  <2>1. InForce(p, Len(handled) + 1)' = InForce(p, n + 1)
    BY <1>2, <1>8, InForceNext
  <2>2. \A e : e[1] = p => (e \in bcPids' <=> e \in bcPids)
    <3>1. CASE TakeRemoval
      BY <1>1, <1>8, <3>1 DEF TakeRemoval, Removes
    <3>2. CASE TakeSubscribe
      <4>1. m.pid # p
        BY <1>1, <1>8, <3>2 DEF TakeSubscribe, Subscribes
      <4>2. bcPids' = bcPids \/ \E f : bcPids' = bcPids \cup {<<m.pid, f>>}
        BY <1>1, <3>2 DEF TakeSubscribe, Subscribe
      <4> QED
        BY <4>1, <4>2
    <3>3. CASE TakeBroadcast
      BY <3>3 DEF TakeBroadcast
    <3> QED
      BY <3>1, <3>2, <3>3 DEF Handle
  <2>3. Subscribed(p)' <=> Subscribed(p)
    BY <2>2 DEF Subscribed
  <2> QED
    BY <1>5, <1>6, <1>8, <2>1, <2>2, <2>3
<1>9. CASE Subscribes(m, p)
  <2>1. ~Removes(m, p) /\ m.pid = p
    BY <1>9 DEF Subscribes, Removes
  <2>2. Subscribe(p, FilterOf(m))
    BY <1>1, <1>9, <2>1 DEF Subscribes, FilterOf, Handle, TakeSubscribe, TakeRemoval, TakeBroadcast
  <2>3. CASE Subscribed(p)
    <3>1. bcPids' = bcPids
      BY <2>2, <2>3 DEF Subscribe
    <3>2. Subscribed(p)'
      BY <2>3, <3>1 DEF Subscribed
    <3> QED
      BY <1>6, <2>1, <3>1, <3>2
  <2>4. CASE ~Subscribed(p)
    <3>1. PICK k : k = n + 1
      OBVIOUS
    <3>2. k \in InForce(p, Len(handled) + 1)' /\ First(p, Len(handled) + 1, k)' /\ FilterOf(handled'[k]) = FilterOf(m)
      <4>1. InForce(p, Len(handled) + 1)' = {k}
        BY <1>2, <1>5, <1>9, <2>1, <2>4, <3>1, InForceNext
      <4>2. k \in InForce(p, Len(handled) + 1)' /\ \A t \in InForce(p, Len(handled) + 1)' : k <= t
        BY <1>3, <3>1, <4>1
      <4> QED
        BY <1>3, <3>1, <4>2 DEF First
    <3>3. bcPids' = bcPids \cup {<<p, FilterOf(m)>>}
      BY <2>2, <2>4 DEF Subscribe
    <3>4. \A e \in bcPids' : e[1] = p => e[2] = FilterOf(m)
      BY <2>4, <3>3 DEF Subscribed
    <3>5. Subscribed(p)'
      <4>1. <<p, FilterOf(m)>> \in bcPids' /\ <<p, FilterOf(m)>>[1] = p
        BY <3>3
      <4> QED
        BY <4>1 DEF Subscribed
    <3> QED
      BY <3>2, <3>4, <3>5
  <2> QED
    BY <2>3, <2>4
<1> QED
  BY <1>7, <1>8, <1>9

(* What a handler makes of the entries and the monitor of one process.     *)
LEMMA EntriesNext ==
  ASSUME BroadcastTypeOK, Handle, NEW p \in Subscribers, Subscribed(p)'
  PROVE  \/ Subscribed(p) /\ Head(bcMbox) # DownOf(p) /\ monitors'[p] >= monitors[p]
         \/ p \in present /\ monitors'[p] > 0
         \/ p \notin present /\ bcMbox' = Append(Tail(bcMbox), DownOf(p))
<1>1. PICK m : m = Head(bcMbox)
  OBVIOUS
<1>2. m \in Messaged /\ monitors \in [Subscribers -> Nat]
  BY <1>1, HeadTailProperties DEF Handle, BroadcastTypeOK
<1>3. PICK e \in bcPids' : e[1] = p
  BY DEF Subscribed
<1>4. m = DownOf(p) => m.type = "DOWN" /\ m.pid = p
  BY DEF DownOf
<1>5. CASE TakeRemoval
  <2>1. e \in bcPids /\ m.pid # p /\ monitors' = monitors
    BY <1>1, <1>3, <1>5 DEF TakeRemoval
  <2> QED
    BY <1>1, <1>2, <1>3, <1>4, <2>1 DEF Subscribed
<1>6. CASE TakeBroadcast
  <2>1. e \in bcPids /\ m.type = "broadcast" /\ monitors' = monitors
    BY <1>1, <1>3, <1>6 DEF TakeBroadcast
  <2> QED
    BY <1>1, <1>2, <1>3, <1>4, <2>1 DEF Subscribed
<1>7. CASE TakeSubscribe
  <2>1. m.type \in {"subscribe", "name"} /\ m # DownOf(p)
    BY <1>1, <1>4, <1>7 DEF TakeSubscribe
  <2>2. m.pid \in Subscribers
    BY <1>2, <2>1, MessageFields
  <2>3. \/ \E f : Subscribe(m.pid, f)
        \/ bcPids' = bcPids /\ monitors' = monitors
    BY <1>1, <1>7 DEF TakeSubscribe
  <2>4. CASE bcPids' = bcPids /\ monitors' = monitors
    BY <1>1, <1>2, <1>3, <2>1, <2>4 DEF Subscribed
  <2>5. ASSUME NEW f, Subscribe(m.pid, f)
        PROVE  \/ Subscribed(p) /\ monitors'[p] >= monitors[p]
               \/ p \in present /\ monitors'[p] > 0
               \/ p \notin present /\ bcMbox' = Append(Tail(bcMbox), DownOf(p))
    <3>1. monitors' \in {monitors, [monitors EXCEPT ![m.pid] = @ + 1]}
      BY <2>5 DEF Subscribe
    <3>2. monitors[p] \in Nat /\ monitors[m.pid] \in Nat /\ monitors'[p] >= monitors[p]
      BY <1>2, <2>2, <3>1
    <3>3. CASE e \in bcPids
      BY <1>3, <3>2, <3>3 DEF Subscribed
    <3>4. CASE e \notin bcPids
      <4>1. e = <<m.pid, f>> /\ m.pid = p /\ ~Subscribed(m.pid)
        BY <1>3, <2>5, <3>4 DEF Subscribe
      <4>2. CASE p \in present
        <5>1. monitors' = [monitors EXCEPT ![p] = @ + 1]
          BY <2>5, <4>1, <4>2 DEF Subscribe
        <5> QED
          BY <1>2, <3>2, <4>2, <5>1
      <4>3. CASE p \notin present
        BY <2>5, <4>1, <4>3 DEF Subscribe
      <4> QED
        BY <4>2, <4>3
    <3> QED
      BY <3>3, <3>4
  <2> QED
    BY <1>1, <2>1, <2>3, <2>4, <2>5
<1> QED
  BY <1>5, <1>6, <1>7 DEF Handle

(* A message that is not taken stays; one that is appended is there.       *)
LEMMA StaysBehindHead ==
  ASSUME NEW q \in Seq(Messaged), q # <<>>, NEW d, Head(q) # d, \E i \in DOMAIN q : q[i] = d
  PROVE  \E i \in DOMAIN Tail(q) : Tail(q)[i] = d
<1>1. PICK i \in 1 .. Len(q) : q[i] = d
  BY LenProperties
<1>2. i # 1 /\ Len(q) \in Nat /\ Tail(q) \in Seq(Messaged) /\ Len(Tail(q)) = Len(q) - 1
  BY <1>1, HeadTailProperties, LenProperties
<1>3. i - 1 \in 1 .. Len(Tail(q)) /\ (i - 1) + 1 = i
  BY <1>2
<1>4. Tail(q)[i - 1] = d
  BY <1>1, <1>3, HeadTailProperties
<1> QED
  BY <1>2, <1>3, <1>4, LenProperties

LEMMA StaysBefore ==
  ASSUME NEW q \in Seq(Messaged), NEW r \in Seq(Messaged), NEW d, \E i \in DOMAIN q : q[i] = d
  PROVE  \E i \in DOMAIN (q \o r) : (q \o r)[i] = d
<1>1. /\ Len(q) \in Nat /\ Len(r) \in Nat /\ q \o r \in Seq(Messaged) /\ DOMAIN (q \o r) = 1 .. (Len(q) + Len(r))
      /\ DOMAIN q = 1 .. Len(q)
      /\ \A i \in 1 .. Len(q) + Len(r) : (q \o r)[i] = IF i <= Len(q) THEN q[i] ELSE r[i - Len(q)]
  BY LenProperties, ConcatProperties
<1>2. ASSUME NEW i \in DOMAIN q, q[i] = d PROVE i \in DOMAIN (q \o r) /\ (q \o r)[i] = d
  BY <1>1, <1>2
<1> QED
  BY <1>2

LEMMA AppendedIsThere ==
  ASSUME NEW q \in Seq(Messaged), NEW d \in Messaged
  PROVE  \E i \in DOMAIN Append(q, d) : Append(q, d)[i] = d
<1>1. Len(q) \in Nat /\ Append(q, d) \in Seq(Messaged) /\ Len(Append(q, d)) = Len(q) + 1
      /\ Append(q, d)[Len(q) + 1] = d
  BY LenProperties, AppendProperties
<1>2. DOMAIN Append(q, d) = 1 .. Len(q) + 1
  BY <1>1, LenProperties
<1>3. Len(q) + 1 \in DOMAIN Append(q, d)
  BY <1>1, <1>2
<1> QED
  BY <1>1, <1>3

LEMMA IsBehind ==
  ASSUME NEW q \in Seq(Messaged), NEW r \in Seq(Messaged), NEW i \in DOMAIN r
  PROVE  \E j \in DOMAIN (q \o r) : (q \o r)[j] = r[i]
<1>1. /\ Len(q) \in Nat /\ Len(r) \in Nat /\ q \o r \in Seq(Messaged) /\ DOMAIN (q \o r) = 1 .. (Len(q) + Len(r))
      /\ DOMAIN r = 1 .. Len(r)
      /\ \A j \in 1 .. Len(q) + Len(r) : (q \o r)[j] = IF j <= Len(q) THEN q[j] ELSE r[j - Len(q)]
  BY LenProperties, ConcatProperties
<1>2. PICK j : j = Len(q) + i
  OBVIOUS
<1>3. j \in 1 .. (Len(q) + Len(r)) /\ ~(j <= Len(q)) /\ j - Len(q) = i
  BY <1>1, <1>2
<1>4. (q \o r)[j] = r[i]
  BY <1>1, <1>3
<1> QED
  BY <1>1, <1>3, <1>4

(* Those that run are monitored, and the DOWN message of one that does not *)
(* is on its way as long as it has an entry.                               *)
LEMMA MonitoredStep ==
  ASSUME BroadcastTypeOK, BroadcastTypeOK', Monitored, DeadLeave, [BroadcastNext]_bcVars
  PROVE  Monitored' /\ DeadLeave'
<1>0. bcMbox \in Seq(Messaged) /\ present \subseteq Subscribers
  BY DEF BroadcastTypeOK
<1>1. ASSUME NEW m \in Requests, Requested(m) PROVE Monitored' /\ DeadLeave'
  <2>1. Monitored'
    BY <1>1 DEF Requested, Monitored, Subscribed
  <2>2. bcMbox' = bcMbox \o <<m>> /\ <<m>> \in Seq(Messaged)
    BY <1>0, <1>1, AppendIsConcat DEF Requested, Messaged
  <2>3. present' = present /\ bcPids' = bcPids
    BY <1>1 DEF Requested
  <2>4. ASSUME NEW p \in Subscribers \ present, Subscribed(p) PROVE \E i \in DOMAIN bcMbox' : bcMbox'[i] = DownOf(p)
    BY <1>0, <2>2, <2>4, StaysBefore DEF DeadLeave
  <2> QED
    BY <2>1, <2>3, <2>4 DEF DeadLeave, Subscribed
<1>2. ASSUME NEW q \in Subscribers, Dies(q) PROVE Monitored' /\ DeadLeave'
  <2>1. monitors \in [Subscribers -> Nat]
    BY DEF BroadcastTypeOK
  <2>2. present' = present \ {q} /\ bcPids' = bcPids /\ q \in present /\ monitors' = [monitors EXCEPT ![q] = 0]
    BY <1>2 DEF Dies
  <2>3. Monitored'
    BY <1>0, <2>1, <2>2 DEF Monitored, Subscribed
  <2> DEFINE r == IF q = Starter THEN <<ExitOf(q)>> ELSE <<>>
             d == [i \in 1 .. monitors[q] |-> DownOf(q)]
  <2>4. bcMbox' = (bcMbox \o r) \o d /\ r \in Seq(Messaged) /\ d \in Seq(Messaged) /\ bcMbox \o r \in Seq(Messaged)
    <3>1. r \in Seq(Messaged) /\ d \in Seq(Messaged)
      BY <2>1, LeaveMessages
    <3> QED
      BY <1>0, <1>2, <3>1, ConcatProperties DEF Dies
  <2>5. ASSUME NEW p \in Subscribers \ present', Subscribed(p)
        PROVE  \E i \in DOMAIN bcMbox' : bcMbox'[i] = DownOf(p)
    <3>1. CASE p = q
      <4>1. monitors[q] > 0 /\ monitors[q] \in Nat
        BY <2>1, <2>2, <2>5, <3>1 DEF Monitored
      <4>2. 1 \in DOMAIN d /\ d[1] = DownOf(q)
        BY <4>1
      <4> HIDE DEF d, r
      <4>3. \E j \in DOMAIN ((bcMbox \o r) \o d) : ((bcMbox \o r) \o d)[j] = d[1]
        BY <2>4, <4>2, IsBehind
      <4> QED
        BY <2>4, <3>1, <4>2, <4>3
    <3>2. CASE p # q
      <4>1. \E i \in DOMAIN bcMbox : bcMbox[i] = DownOf(p)
        BY <2>2, <2>5, <3>2 DEF DeadLeave
      <4> HIDE DEF d, r
      <4>2. \E i \in DOMAIN (bcMbox \o r) : (bcMbox \o r)[i] = DownOf(p)
        BY <1>0, <2>4, <4>1, StaysBefore, SMTT(30)
      <4> QED
        BY <2>4, <4>2, StaysBefore
    <3> QED
      BY <3>1, <3>2
  <2> QED
    BY <2>2, <2>3, <2>5 DEF DeadLeave, Subscribed
<1>3. CASE Handle
  <2>1. present' = present /\ bcMbox # <<>> /\ Tail(bcMbox) \in Seq(Messaged)
    BY <1>0, <1>3, HeadTailProperties DEF Handle
  <2>2. monitors \in [Subscribers -> Nat] /\ monitors' \in [Subscribers -> Nat]
    BY DEF BroadcastTypeOK
  <2>3. ASSUME NEW p \in present, Subscribed(p)' PROVE monitors'[p] > 0
    <3>1. \/ Subscribed(p) /\ monitors'[p] >= monitors[p]
          \/ monitors'[p] > 0
      BY <1>0, <1>3, <2>3, EntriesNext
    <3>2. Subscribed(p) => monitors[p] > 0
      BY DEF Monitored
    <3>3. monitors[p] \in Nat /\ monitors'[p] \in Nat
      BY <1>0, <2>2
    <3> QED
      BY <3>1, <3>2, <3>3
  <2>4. ASSUME NEW p \in Subscribers \ present, Subscribed(p)'
        PROVE  \E i \in DOMAIN bcMbox' : bcMbox'[i] = DownOf(p)
    <3>1. DownOf(p) \in Messaged
      BY LeaveMessages
    <3>2. \E n : n \in Messaged /\ bcMbox' \in {Tail(bcMbox), Append(Tail(bcMbox), n)}
      <4>1. PICK m : m = Head(bcMbox)
        OBVIOUS
      <4>2. m \in Messaged
        BY <1>0, <2>1, <4>1, HeadTailProperties
      <4>3. m.type \in {"subscribe", "name"} => DownOf(m.pid) \in Messaged
        BY <4>2, MessageFields, LeaveMessages
      <4>4. bcMbox' = Tail(bcMbox) \/ (m.type \in {"subscribe", "name"} /\ bcMbox' = Append(Tail(bcMbox), DownOf(m.pid)))
        BY <1>3, <4>1 DEF Handle, TakeSubscribe, TakeRemoval, TakeBroadcast, Subscribe
      <4> QED
        BY <3>1, <4>3, <4>4
    <3>3. PICK n \in Messaged : bcMbox' \in {Tail(bcMbox), Append(Tail(bcMbox), n)}
      BY <3>2
    <3>4. Append(Tail(bcMbox), n) = Tail(bcMbox) \o <<n>> /\ <<n>> \in Seq(Messaged)
      BY <2>1, AppendIsConcat
    <3>5. \/ Subscribed(p) /\ Head(bcMbox) # DownOf(p)
          \/ bcMbox' = Append(Tail(bcMbox), DownOf(p))
      BY <1>3, <2>4, EntriesNext
    <3>6. CASE Subscribed(p) /\ Head(bcMbox) # DownOf(p)
      <4>1. \E i \in DOMAIN bcMbox : bcMbox[i] = DownOf(p)
        BY <3>6 DEF DeadLeave
      <4>2. \E i \in DOMAIN Tail(bcMbox) : Tail(bcMbox)[i] = DownOf(p)
        BY <1>0, <2>1, <3>6, <4>1, StaysBehindHead
      <4> QED
        BY <2>1, <3>3, <3>4, <4>2, StaysBefore
    <3>7. CASE bcMbox' = Append(Tail(bcMbox), DownOf(p))
      <4>1. PICK q \in Seq(Messaged), d \in Messaged : q = Tail(bcMbox) /\ d = DownOf(p)
        BY <2>1, <3>1
      <4>2. bcMbox' = Append(q, d)
        BY <3>7, <4>1
      <4>3. \E i \in DOMAIN Append(q, d) : Append(q, d)[i] = d
        BY <4>1, AppendedIsThere
      <4> QED
        BY <4>1, <4>2, <4>3
    <3> QED
      BY <3>5, <3>6, <3>7
  <2> QED
    BY <2>1, <2>3, <2>4 DEF Monitored, DeadLeave
<1>4. CASE UNCHANGED bcVars
  BY <1>4 DEF bcVars, Monitored, DeadLeave, Subscribed
<1> QED
  BY <1>1, <1>2, <1>3, <1>4 DEF BroadcastNext

-----------------------------------------------------------------------------
(* What is broadcast goes to those that run and whose entry passes it:     *)
(* those to whom it is due.                                                *)
LEMMA EntryPasses ==
  ASSUME FirstKept, NEW p \in present, NEW msg
  PROVE  (\E e \in bcPids : e[1] = p /\ msg \in e[2]) <=> Passes(p, Len(handled) + 1, msg)
<1> DEFINE n == Len(handled) + 1
<1>1. /\ InForce(p, n) # {} => Subscribed(p)
      /\ \A e \in bcPids : e[1] = p => \E s \in InForce(p, n) : First(p, n, s) /\ e[2] = FilterOf(handled[s])
  BY DEF FirstKept
<1>2. ASSUME NEW e \in bcPids, e[1] = p, msg \in e[2] PROVE Passes(p, n, msg)
  BY <1>1, <1>2 DEF Passes
<1>3. ASSUME Passes(p, n, msg) PROVE \E e \in bcPids : e[1] = p /\ msg \in e[2]
  <2>1. PICK s \in InForce(p, n) : First(p, n, s) /\ msg \in FilterOf(handled[s])
    BY <1>3 DEF Passes
  <2>2. PICK e \in bcPids : e[1] = p
    BY <1>1, <2>1 DEF Subscribed
  <2>3. PICK t \in InForce(p, n) : First(p, n, t) /\ e[2] = FilterOf(handled[t])
    BY <1>1, <2>2
  <2>4. s <= t /\ t <= s /\ s \in Int /\ t \in Int
    BY <2>1, <2>3 DEF First, InForce
  <2>5. s = t
    BY <2>4
  <2> QED
    BY <2>1, <2>2, <2>3, <2>5
<1> QED
  BY <1>2, <1>3

(* A message handled leaves what was delivered what is due.                *)
LEMMA DeliveredHandle ==
  ASSUME BroadcastTypeOK, BroadcastTypeOK', FirstKept, Handle, NEW p \in Subscribers, DeliveredTo(p)
  PROVE  DeliveredTo(p)'
<1> DEFINE n == Len(handled)
           L == received[p]
<1>1. PICK m : m = Head(bcMbox)
  OBVIOUS
<1>2. m \in Messaged /\ HandlesNext(m)
  BY <1>1, HeadTailProperties DEF Handle, HandlesNext, BroadcastTypeOK
<1>3. /\ n \in Nat /\ handled'[n + 1] = m /\ DOMAIN handled = 1 .. n
      /\ \A i \in 1 .. n : handled'[i] = handled[i]
  BY <1>2, HandledGrows
<1>4. present' = present
  BY DEF Handle
<1>5. Due(p)' = Due(p) \cup (IF m.type = "broadcast" /\ Passes(p, n + 1, m.msg) THEN {n + 1} ELSE {})
  BY <1>2, DueNext
<1>6. Due(p) \subseteq 1 .. n
  BY <1>3 DEF Due
<1>7. /\ \A j \in DOMAIN L : L[j].msg = handled[L[j].at].msg
      /\ \A j, k \in DOMAIN L : j < k => L[j].at < L[k].at
      /\ \A j \in DOMAIN L : L[j].at \in Due(p)
      /\ \A i \in Due(p) \ SentAt(p) : p \notin present /\ \A a \in SentAt(p) : a < i
      /\ SentAt(p) = {L[j].at : j \in DOMAIN L}
  BY DEF DeliveredTo, SentAt
<1>8. \A j \in DOMAIN L : L[j].msg = handled'[L[j].at].msg /\ L[j].at \in 1 .. n
  BY <1>3, <1>6, <1>7
<1>9. CASE m.type = "broadcast" /\ p \in present /\ Passes(p, n + 1, m.msg)
  <2>1. PICK s : s = [msg |-> m.msg, at |-> n + 1]
    OBVIOUS
  <2>2. received'[p] = Append(L, s)
    <3>1. TakeBroadcast
      BY <1>1, <1>9 DEF Handle, TakeSubscribe, TakeRemoval
    <3>2. \E e \in bcPids : e[1] = p /\ m.msg \in e[2]
      BY <1>9, EntryPasses
    <3> QED
      BY <1>1, <1>9, <2>1, <3>1, <3>2 DEF TakeBroadcast
  <2>3. PICK l : l = Len(L) /\ l \in Nat
    BY LenProperties DEF BroadcastTypeOK
  <2>4. /\ DOMAIN L = 1 .. l /\ DOMAIN received'[p] = 1 .. (l + 1)
        /\ \A j \in 1 .. l : received'[p][j] = L[j]
        /\ received'[p][l + 1] = s
    <3> DEFINE Sent == [msg: Messages, at: Nat]
    <3>1. L \in Seq(Sent) /\ s \in Sent
      <4>1. m.msg \in Messages
        BY <1>2, <1>9, MessageFields
      <4>2. s \in Sent
        BY <1>3, <2>1, <4>1
      <4>3. L \in Seq(Sent)
        BY DEF BroadcastTypeOK
      <4> QED
        BY <4>2, <4>3
    <3> HIDE DEF Sent, L
    <3>2. Append(L, s) \in Seq(Sent) /\ Len(Append(L, s)) = l + 1
      BY <2>3, <3>1, AppendProperties
    <3> QED
      BY <2>2, <2>3, <3>1, <3>2, AppendProperties, LenProperties
  <2>5. 1 .. (l + 1) = (1 .. l) \cup {l + 1}
    BY <2>3
  <2>6. SentAt(p)' = SentAt(p) \cup {n + 1}
    <3>1. SentAt(p)' = {received'[p][j].at : j \in 1 .. (l + 1)}
      BY <2>4 DEF SentAt
    <3>2. SentAt(p) = {received'[p][j].at : j \in 1 .. l}
      BY <1>7, <2>4
    <3> QED
      BY <2>1, <2>4, <2>5, <3>1, <3>2
  <2>7. Due(p)' = Due(p) \cup {n + 1}
    BY <1>5, <1>9
  <2>8. \A j \in DOMAIN received'[p] : received'[p][j].msg = handled'[received'[p][j].at].msg
    BY <1>3, <1>8, <2>1, <2>4, <2>5
  <2>9. \A j, k \in DOMAIN received'[p] : j < k => received'[p][j].at < received'[p][k].at
    <3> TAKE j, k \in DOMAIN received'[p]
    <3> HAVE j < k
    <3>1. j \in 1 .. l
      BY <2>3, <2>4
    <3>2. CASE k \in 1 .. l
      BY <1>7, <2>4, <3>1, <3>2
    <3>3. CASE k = l + 1
      <4>1. L[j].at <= n /\ received'[p][j] = L[j] /\ received'[p][k].at = n + 1 /\ L[j].at \in Int
        BY <1>8, <2>1, <2>4, <3>1, <3>3
      <4> QED
        BY <1>3, <4>1
    <3> QED
      BY <2>4, <2>5, <3>2, <3>3
  <2>10. SentAt(p)' \subseteq Due(p)'
    BY <1>7, <2>6, <2>7
  <2>11. \A i \in Due(p)' \ SentAt(p)' : p \notin present' /\ \A a \in SentAt(p)' : a < i
    BY <1>7, <1>9, <2>6, <2>7
  <2> QED
    BY <2>8, <2>9, <2>10, <2>11 DEF DeliveredTo
<1>10. CASE ~(m.type = "broadcast" /\ p \in present /\ Passes(p, n + 1, m.msg))
  <2>1. received'[p] = L
    <3>1. CASE TakeBroadcast
      <4>1. m.type = "broadcast"
        BY <1>1, <3>1 DEF TakeBroadcast
      <4>2. p \in present => ~ \E e \in bcPids : e[1] = p /\ m.msg \in e[2]
        BY <1>10, <4>1, EntryPasses
      <4> QED
        BY <1>1, <3>1, <4>2 DEF TakeBroadcast
    <3>2. CASE ~TakeBroadcast
      BY <3>2 DEF Handle, TakeSubscribe, TakeRemoval
    <3> QED
      BY <3>1, <3>2
  <2>2. SentAt(p)' = SentAt(p)
    BY <2>1 DEF SentAt
  <2>3. Due(p)' \in {Due(p), Due(p) \cup {n + 1}} /\ (p \in present => Due(p)' = Due(p))
    BY <1>5, <1>10
  <2>4. \A a \in SentAt(p) : a < n + 1
    BY <1>3, <1>7, <1>8
  <2>5. \A i \in Due(p)' \ SentAt(p)' : p \notin present' /\ \A a \in SentAt(p)' : a < i
    BY <1>4, <1>7, <2>2, <2>3, <2>4
  <2>6. SentAt(p)' \subseteq Due(p)'
    BY <1>7, <2>2, <2>3
  <2>7. \A j \in DOMAIN received'[p] : received'[p][j].msg = handled'[received'[p][j].at].msg
    BY <1>8, <2>1
  <2>8. \A j, k \in DOMAIN received'[p] : j < k => received'[p][j].at < received'[p][k].at
    BY <1>7, <2>1
  <2> QED
    BY <2>5, <2>6, <2>7, <2>8 DEF DeliveredTo
<1> QED
  BY <1>9, <1>10

(* BroadcastsReachSubscribers: however subscriptions, removals, deaths and *)
(* broadcasts meet in the mailbox of bc_handle/2, each process is sent     *)
(* what it is entitled to, once and in order, and the dead are removed.    *)
THEOREM BroadcastsReach == BroadcastSpec => []BroadcastsReachSubscribers
<1> DEFINE Inv == FirstKept /\ Monitored /\ DeadLeave /\ Delivered
<1>1. BroadcastInit => Inv
  <2> HAVE BroadcastInit
  <2>1. handled = <<>> /\ bcPids = {} /\ present = Subscribers /\ \A p \in Subscribers : received[p] = <<>>
    BY DEF BroadcastInit
  <2>2. Len(handled) = 0 /\ DOMAIN handled = {} /\ \A p \in Subscribers : DOMAIN received[p] = {}
    BY <2>1
  <2>3. \A p : InForce(p, Len(handled) + 1) = {}
    <3>1. 1 .. ((0 + 1) - 1) = {}
      OBVIOUS
    <3>2. \A p : InForce(p, Len(handled) + 1) \subseteq 1 .. ((Len(handled) + 1) - 1)
      BY DEF InForce
    <3> QED
      BY <2>2, <3>1, <3>2
  <2>4. FirstKept /\ Monitored /\ DeadLeave
    BY <2>1, <2>3 DEF FirstKept, Monitored, DeadLeave, Subscribed
  <2>5. \A p \in Subscribers : Due(p) = {} /\ SentAt(p) = {}
    BY <2>2 DEF Due, SentAt
  <2>6. Delivered
    BY <2>2, <2>5 DEF Delivered, DeliveredTo
  <2> QED
    BY <2>4, <2>6
<1>2. ASSUME BroadcastTypeOK, BroadcastTypeOK', Inv, [BroadcastNext]_bcVars
      PROVE  Inv'
  <2>1. Monitored' /\ DeadLeave'
    BY <1>2, MonitoredStep
  <2>2. ASSUME UNCHANGED <<bcPids, handled, received>>, present' \subseteq present
        PROVE  FirstKept' /\ Delivered'
    <3>1. FirstKept'
      BY <1>2, <2>2 DEF FirstKept, InForce, First, Subscribed
    <3>2. \A p : Due(p)' = Due(p) /\ SentAt(p)' = SentAt(p)
      BY <2>2 DEF Due, SentAt, InForce, First
    <3>3. Delivered'
      BY <1>2, <2>2, <3>2 DEF Delivered, DeliveredTo
    <3> QED
      BY <3>1, <3>3
  <2>3. CASE Handle
    <3>1. FirstKept'
      BY <1>2, <2>3, FirstStays
    <3>2. \A p \in Subscribers : DeliveredTo(p)'
      BY <1>2, <2>3, DeliveredHandle DEF Delivered, DeliveredTo
    <3> QED
      BY <2>1, <3>1, <3>2 DEF Delivered, DeliveredTo
  <2>4. CASE ~Handle
    <3>1. UNCHANGED <<bcPids, handled, received>> /\ present' \subseteq present
      BY <1>2, <2>4 DEF BroadcastNext, Requested, Dies, bcVars
    <3> QED
      BY <2>1, <2>2, <3>1
  <2> QED
    BY <2>3, <2>4
<1>3. Inv => BroadcastsReachSubscribers
  BY DEF BroadcastsReachSubscribers
<1> QED
  BY <1>1, <1>2, <1>3, BroadcastTypeCorrect, PTL DEF BroadcastSpec
=============================================================================
