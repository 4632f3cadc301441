------------------------------ MODULE MCSqlite ------------------------------
(* Two clients that insert the same values as text and as blob, run into   *)
(* values that are there, statements that are wrong, checks that fail and  *)
(* a query with one binding more than there is room for.                   *)
EXTENDS Sqlite

A == <<65>>
T(v) == <<Text, v>>
B(v) == <<Blob, v>>

SomeTransactions ==
  { <<Query(Insert, <<T(A)>>), Query(Insert, <<B(A)>>), Query(Select, <<>>)>>,
    <<Query(Insert, <<B(A)>>), Query(Insert, <<B(A)>>), Query(Select, <<>>)>>,
    <<Query(Insert, <<B(A), T(A)>>), Query(Select, <<>>), Check(1)>>,
    <<Query(<<9>>, <<>>)>>,
    <<Query(Insert, <<T(A), T(A), B(A)>>)>> }
=============================================================================
