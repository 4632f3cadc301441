----------------------------- MODULE MCObjCall -----------------------------
(* Two callers of one object: one waits for ever, the other does not.      *)
EXTENDS ObjCall, TLC

CONSTANTS k1, k2

Ask(op, k, m) == [op |-> op, key |-> k, map |-> m]
MCRequests ==
    {Ask("set", k1, k1 :> 2 @@ k2 :> 0), Ask("update", k1, Nothing),
     Ask("find", k1, Nothing), Ask("remove", k1, Nothing), Ask("dump", k1, Nothing),
     Ask("merge", k1, k1 :> 0 @@ k2 :> 1), Ask("replace", k1, k1 :> 1 @@ k2 :> 0),
     Ask("update_all", k1, Nothing), Ask("shutdown", k1, Nothing)}
=============================================================================
