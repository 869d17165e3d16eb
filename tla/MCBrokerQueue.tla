--------------------------- MODULE MCBrokerQueue ---------------------------
(* BrokerQueue on small instances, with model values for the publishers and  *)
(* the subscribers.  Publishers all run the same program.                    *)
EXTENDS BrokerQueue

PublisherSymmetry == Permutations(Publishers)

\* A subscriber comes back when no thread is at work: no race explains what is violated.
NoOverlap == opened' # opened => Quiescent
=============================================================================
