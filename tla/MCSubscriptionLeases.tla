------------------------ MODULE MCSubscriptionLeases ------------------------
(* A whole market and one symbol of it, held by a lease each. *)
EXTENDS SubscriptionLeases

OneGroup == [s \in {"all", "x"} |-> "l2"]
EachOne  == [l \in {"m", "p"} |-> IF l = "m" THEN {"all"} ELSE {"x"}]
=============================================================================
