-------------------------- MODULE MCFeedbackDelivery --------------------------
(***************************************************************************)
(* Instances of FeedbackDelivery for TLC.                                  *)
(***************************************************************************)
EXTENDS FeedbackDelivery, TLC

CONSTANTS c1, c2, h1, h2, w1, w2, w3

OneCitizen == {c1}
TwoCitizens == {c1, c2}
OneHandler == {h1}
TwoHandlers == {h1, h2}
OneWorker == {w1}
TwoWorkers == {w1, w2}
ThirdWorker == {w3}
Nobody == {}

HandlerSymmetry == Permutations(TwoHandlers)

=============================================================================
