---------------------------- MODULE MCRemoteLink ----------------------------
(* Small instances of RemoteLink for TLC. *)
EXTENDS RemoteLink

\* What SubscribedAreServed is proved under holds of every instance.
ASSUME SubscriptionsAssumption == KeysApart /\ RoomForAll

\* A snapshot installation and an order, no subscriptions.
CallKinds == [c \in {"w", "i"} |-> IF c = "w" THEN "write" ELSE "install"]
CallKey  == [c \in {"w", "i"} |-> "k"]
CallWant == [c \in {"w", "i"} |-> {}]

\* Two overlapping subscriptions of one provider, which has one key, and the
\* cancellation of the key as a whole.
SubKinds == [c \in {"s1", "s2", "u"} |-> IF c = "u" THEN "unsubscribe" ELSE "subscribe"]
SubKey   == [c \in {"s1", "s2", "u"} |-> "k"]
SubWant  == [c \in {"s1", "s2", "u"} |->
               CASE c = "s1" -> {"x"} [] c = "s2" -> {"x", "y"} [] c = "u" -> {}]

\* One subscription.
OneKinds == [c \in {"s1"} |-> "subscribe"]
OneKey   == [c \in {"s1"} |-> "k"]
OneWant  == [c \in {"s1"} |-> {"x"}]
=============================================================================
