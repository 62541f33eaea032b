------------------------ MODULE MCFtxMarketDataClient ------------------------
(***************************************************************************)
(* Instance of FtxMarketDataClient, with WebSocketBase under it, for TLC:  *)
(* two pairs, three prices, books that are empty on a side or deeper than  *)
(* the checksum.                                                           *)
(***************************************************************************)
EXTENDS FtxMarketDataClient

MCSnapshots ==
    {[bid |-> [p \in Prices |-> IF p = 2 THEN 1 ELSE 0], ask |-> [p \in Prices |-> 1]],
     [bid |-> [p \in Prices |-> 0], ask |-> [p \in Prices |-> IF p = 3 THEN 2 ELSE 0]]}

MCChanges ==
    {[side |-> "ask", quantities |-> (1 :> 0)],
     [side |-> "ask", quantities |-> (1 :> 0 @@ 2 :> 2)],
     [side |-> "ask", quantities |-> (2 :> 0 @@ 3 :> 0)],
     [side |-> "ask", quantities |-> (1 :> 2 @@ 3 :> 0)],
     [side |-> "bid", quantities |-> (1 :> 2 @@ 3 :> 2)],
     [side |-> "bid", quantities |-> (2 :> 0)]}

\* The merge, of any levels of three prices and quantities up to 2, with any change of them.
ASSUME MergeAssumption ==
    MergesExactly(0 .. 2, UNION {[changed -> 0 .. 2] : changed \in SUBSET Prices}) /\ NoLevelsOfNothing
=============================================================================
