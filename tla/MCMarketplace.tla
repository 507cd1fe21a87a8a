--------------------------- MODULE MCMarketplace ---------------------------
(***************************************************************************)
(* Two sellers who also buy from each other, and a third buyer.  What was *)
(* removed or sold is listed again, and the helmet becomes cheaper.        *)
(***************************************************************************)
EXTENDS Marketplace

CONSTANTS ana, rui, eva, helmet, radio

MCSeller == [p \in Products |-> IF p = helmet THEN ana ELSE rui]
MCListPrice == [p \in Products |-> IF p = helmet THEN 10 ELSE 5]
MCPatches ==
    {[product |-> helmet, status |-> Keep, price |-> 6],
     [product |-> helmet, status |-> "ACTIVE", price |-> Keep],
     [product |-> radio, status |-> "ACTIVE", price |-> Keep]}
MCInitialBalance == [u \in Users |-> IF u = eva THEN 40 ELSE 21]
=============================================================================
