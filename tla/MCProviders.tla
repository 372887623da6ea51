---------------------------- MODULE MCProviders ----------------------------
(***************************************************************************)
(* Small instances of Providers for TLC.                                   *)
(***************************************************************************)
EXTENDS ProvidersInvariant, TLC

CONSTANTS p1, p2, q1, q2, k1

\* Names that do not share a credential.
OwnRef == (p1 :> "KEY_1") @@ (p2 :> "KEY_2")

\* The requests run the same code.
Requests == Permutations(Request)

Priorities == (p1 :> 1) @@ (p2 :> 2)

\* What the theorem about StoredKeyUsed takes for granted is so here.
ASSUME HypothesisHolds == OwnCredentials

=============================================================================
