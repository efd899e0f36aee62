--------------------------- MODULE MCServerWrites ---------------------------
(* Small instances of ServerWrites for TLC. *)
EXTENDS ServerWrites

ASSUME CancelsNameOrdersAssumption == CancelsNameOrders

Ask(s, k, act, b, r, p) ==
  [session |-> s, key |-> k, action |-> act, body |-> b, account |-> "acc",
   about |-> r, priced |-> p]

\* Two orders and a cancel that compete for the daily limits of an account; the
\* other session repeats the first order and asks what became of it, naming
\* another price.
LimitReq ==
  [r \in {"p1", "p2", "p3", "c1", "q1"} |->
     CASE r = "p1" -> Ask("s1", "k1", "place",   "buy at 10", "p1", TRUE)
       [] r = "p2" -> Ask("s1", "k2", "place",   "sell",      "p2", TRUE)
       [] r = "p3" -> Ask("s2", "k1", "place",   "buy at 10", "p1", TRUE)
       [] r = "c1" -> Ask("s1", "k3", "cancel",  "p1",        "p1", FALSE)
       [] r = "q1" -> Ask("s2", "k1", "resolve", "buy at 11", "p1", FALSE)]

\* The order list does not tell the two prices apart.
LimitContract ==
  [b \in {"buy at 10", "buy at 11", "sell", "p1", "-"} |->
     IF b \in {"buy at 10", "buy at 11"} THEN "buy" ELSE b]

\* One key used twice, also for another payload, and a second key for
\* which the cache has no room.
ReuseReq ==
  [r \in {"p1", "p2", "p3"} |->
     CASE r = "p1" -> Ask("s1", "k1", "place",   "buy",  "p1", TRUE)
       [] r = "p2" -> Ask("s2", "k1", "place",   "sell", "p2", FALSE)
       [] r = "p3" -> Ask("s2", "k2", "place",   "buy",  "p3", TRUE)]

ReuseContract == [b \in {"buy", "sell", "-"} |-> b]
=============================================================================
