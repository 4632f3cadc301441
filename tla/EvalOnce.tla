------------------------------ MODULE EvalOnce ------------------------------
(***************************************************************************)
(* What the evaluator of redo.erl promises to the clients of one           *)
(* transaction, whatever the rules are: a product is evaluated at most     *)
(* once, every caller that asks for it is told that one verdict, and a     *)
(* client goes on only when each of its calls was answered.  A product     *)
(* that has no rule is refused to everyone who asks.                       *)
(***************************************************************************)
CONSTANTS Product, Client, Unknown, Verdict, Join(_, _)

VARIABLES
    status,  \* of a product: "none", "waiting" or its verdict
    open,    \* open[c]: the products c has asked for and was not told about
    sum      \* sum[c]: the verdicts c was told, joined

vars == <<status, open, sum>>

Init ==
    /\ status = [p \in Product |-> "none"]
    /\ open   = [c \in Client |-> {}]
    /\ sum    = [c \in Client |-> "false"]

(* c, which waits for nothing, asks for some products.                     *)
Call(c) ==
    /\ open[c] = {}
    /\ open' = [open EXCEPT ![c] = open'[c]]
    /\ sum'  = [sum EXCEPT ![c] = "false"]

(* A new transaction: nothing is being evaluated and nobody waits.  A push *)
(* brings the verdicts of some products along.                             *)
Begin(c) ==
    /\ \A p \in Product : status[p] # "waiting" /\ status'[p] # "waiting"
    /\ \A k \in Client : open[k] = {}
    /\ Call(c)

Ask(c) == Call(c) /\ UNCHANGED status

Start(p) ==
    /\ status[p] = "none" /\ p \notin Unknown
    /\ \E c \in Client : p \in open[c]
    /\ status' = [status EXCEPT ![p] = "waiting"]
    /\ UNCHANGED <<open, sum>>

(* The verdict is found, and some who have asked for it are told at once.  *)
Settle(p) ==
    /\ status[p] = "waiting" /\ status'[p] \in Verdict
    /\ status' = [status EXCEPT ![p] = status'[p]]
    /\ LET told == {c \in Client : p \in open[c] /\ p \notin open'[c]}
       IN  /\ open' = [c \in Client |-> IF c \in told THEN open[c] \ {p} ELSE open[c]]
           /\ sum'  = [c \in Client |-> IF c \in told THEN Join(sum[c], status'[p])
                                        ELSE sum[c]]

Tell(c, p) ==
    /\ status[p] \in Verdict /\ p \in open[c]
    /\ open' = [open EXCEPT ![c] = @ \ {p}]
    /\ sum'  = [sum EXCEPT ![c] = Join(@, status[p])]
    /\ UNCHANGED status

Refuse(c, p) ==
    /\ status[p] = "none" /\ p \in Unknown /\ p \in open[c]
    /\ open' = [open EXCEPT ![c] = @ \ {p}]
    /\ sum'  = [sum EXCEPT ![c] = "error"]
    /\ UNCHANGED status

(* The evaluator dies with everything that was asked of it.                *)
Lose ==
    /\ status' = [p \in Product |-> "none"]
    /\ open'   = [c \in Client |-> {}]
    /\ sum'    = [c \in Client |-> "false"]

Next ==
    \/ \E c \in Client : Begin(c) \/ Ask(c)
    \/ \E p \in Product : Start(p) \/ Settle(p)
    \/ \E c \in Client, p \in Product : Tell(c, p) \/ Refuse(c, p)
    \/ Lose

Spec == Init /\ [][Next]_vars
=============================================================================
