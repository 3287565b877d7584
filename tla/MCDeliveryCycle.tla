--------------------------- MODULE MCDeliveryCycle ---------------------------
(* Instances of DeliveryCycle for TLC: all DM rows belong to one user, so  *)
(* that the rate limit bites.                                              *)
EXTENDS DeliveryCycle

CONSTANT u1

OneUser == [d \in DmRows |-> u1]
=============================================================================
