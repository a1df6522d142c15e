---------------------------- MODULE MCRTBExchange ----------------------------
(* Instances of RTBExchange for TLC. *)
EXTENDS RTBExchange, TLC

CONSTANTS r1, r2, d1, d2

\* d1 bids below the floor, or highest with something r1 blocks.
MCOffers == {[dsp |-> d1, price |-> 15, labels |-> {}],
             [dsp |-> d1, price |-> 31, labels |-> {"gambling"}],
             [dsp |-> d2, price |-> 25, labels |-> {}]}
MCBlocked == (r1 :> {"gambling"}) @@ (r2 :> {})
=============================================================================
