----------------------------- MODULE MCAnalytics -----------------------------
(* An instance of Analytics for TLC: requests with and without a publisher, filled and empty responses of *)
(* a fast and a slow bidder, impressions a known and an unknown publisher    *)
(* reports with and without a miner, and pods that complete or not.          *)
EXTENDS Analytics

CONSTANTS p1, p2, m1

MCOperations ==
    [kind : {"request"}, hasPublisher : BOOLEAN]
      \cup {[kind |-> "response", filled |-> f, price |-> 150, latency |-> IF f THEN 1 ELSE 4] :
               f \in BOOLEAN}
      \cup {[kind |-> "impression", publisher |-> p, price |-> 150,
             miner |-> IF p = p1 THEN m1 ELSE NoMiner] : p \in {p1, p2}}
      \cup [kind : {"pod"}, completed : BOOLEAN]
=============================================================================
