----------------------------- MODULE MCOAuthBroker -----------------------------
(* A small instance of OAuthBroker for TLC.                                  *)
EXTENDS OAuthBroker, TLC

ActorSymmetry == Permutations(Actors)
=============================================================================
