----------------------------- MODULE MCIdentity -----------------------------
(* Small instances of Identity.                                            *)
EXTENDS Identity, TLC

CONSTANTS s1, s2, e1, g1, g2

\* Two identity-provider accounts share a mailbox; the tokens of one of them
\* may carry no address.
SharedClaims == s1 :> {e1} @@ s2 :> {e1, NoEmail}

\* As above, with the address in every token.
SteadyClaims == s1 :> {e1} @@ s2 :> {e1}

OneClaim == s1 :> {e1}

NobodyInvited == [g \in Grants |-> NoOne]
OneInvited    == [g \in Grants |-> IF g = g1 THEN e1 ELSE NoOne]

Symmetry == Permutations(Requests) \cup Permutations(Replicas) \cup Permutations(Grants)
=============================================================================
