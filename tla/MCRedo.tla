------------------------------- MODULE MCRedo -------------------------------
(* Small networks for Redo.                                                *)
EXTENDS Redo, TLC

CONSTANTS f, x, a, b, c, u

(* a copies f and c reads x and a; but when x says so it is a that needs c.*)
Same(D) == [v \in Version |-> D]
ChainFirst  == a :> {f} @@ c :> {x}
ChainSecond == a :> [v \in Version |-> IF v = 2 THEN {c} ELSE {}]
               @@ c :> [v \in Version |-> IF v = 2 THEN {} ELSE {a}]
PullAll  == {{a, c}}

(* c reads what a copies from x; but when x says so it is a that needs c.  *)
BendFirst  == a :> {x} @@ c :> {}
BendSecond == ChainSecond
PullEither == {{a}, {c}}

(* b needs a, which copies x; what it reads there decides whether it needs *)
(* the product u that has no rule.                                         *)
SwitchFirst  == a :> {x} @@ b :> {a} @@ u :> {}
SwitchSecond == a :> Same({}) @@ u :> Same({})
                @@ b :> [v \in Version |-> IF v = 1 THEN {u} ELSE {}]
PullSome == {{b}, {a, b, u}}
PushFile == {<<{x}, {}>>}

(* x decides which of a and b needs the other: never a cycle of needs.     *)
TurnFirst  == a :> {x} @@ b :> {x}
TurnSecond == a :> [v \in Version |-> IF v = 1 THEN {b} ELSE {}]
              @@ b :> [v \in Version |-> IF v = 1 THEN {} ELSE {a}]
PullBoth == {{a, b}}

(* b is made from a, and a from x.                                         *)
LineFirst  == a :> {x} @@ b :> {a}
LineSecond == a :> Same({}) @@ b :> Same({})

(* The files stay as they are while a transaction is under way.            *)
QuietNext == Next /\ (edits' # edits => pc[Outer] = "idle")
QuietSpec == Init /\ [][QuietNext]_vars /\ WF_vars(Work)
=============================================================================
