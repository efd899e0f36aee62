--------------------------- MODULE MCRemoteWrites ---------------------------
(* A small instance of RemoteWrites for TLC. *)
EXTENDS RemoteWrites

Ask(s, k, act, b, r) ==
  [session |-> s, key |-> k, action |-> act, body |-> b, account |-> "acc",
   about |-> r, priced |-> TRUE]

\* An order and its cancel on the first session; the order is resolved on a
\* second one, the cancel on its own.
CallReq ==
  [r \in {"p", "c", "qp", "qc"} |->
     CASE r = "p"  -> Ask("s1", "k1", "place",   "buy", "p")
       [] r = "c"  -> Ask("s1", "k2", "cancel",  "p",   "p")
       [] r = "qp" -> Ask("s2", "k1", "resolve", "buy", "p")
       [] r = "qc" -> Ask("s2", "k2", "resolve", "p",   "c")]

CallContract == [b \in {"buy", "p", "-"} |-> b]

CallResolve == [w \in {"p", "c"} |-> IF w = "p" THEN "qp" ELSE "qc"]
=============================================================================
