-------------------------- MODULE MCComposedQueries --------------------------
(* A merge of one leg, and a composed query that may read the leg and the  *)
(* merge, on a stream with one loop.                                       *)
EXTENDS ComposedQueries, TLC

CONSTANTS leg, merge, compose

MCLegs == (merge :> {leg}) @@ (compose :> {})
MCBefore == (leg :> {}) @@ (merge :> {leg}) @@ (compose :> {})
=============================================================================
