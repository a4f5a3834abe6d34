---------------------------- MODULE MCGateRelease ----------------------------
(***************************************************************************)
(* Small instances of GateRelease: what the requests of a run ask for.     *)
(***************************************************************************)
EXTENDS GateRelease, TLC

CONSTANTS Kinds,     \* the handlers that are called
          Verdicts,  \* what proofs and signatures verify to
          MaxHeld    \* bound on the rights a document has ever given

\* The roots a client may have computed: of any list without repetition.
Listed(c, d) == {<<c, c>>, <<c, d>>, <<d, d>>}
Lists == {Listed(c, d) : c, d \in Commitments}

MCProofs ==
  {o \in [kind : {"proof"}, doc : Docs, scope : Docs, nonce : Nonces, root : Lists,
          signer : Commitments, valid : Verdicts] : o.kind \in Kinds /\ o.signer \in In(o.root)}
MCSignatures ==
  {o \in [kind : {"signature"}, doc : Docs, nonce : Nonces, signer : Commitments,
          valid : Verdicts] : o.kind \in Kinds}
MCChallenges == {o \in [kind : {"challenge"}, doc : Docs] : o.kind \in Kinds}
MCPolls == {o \in [kind : {"editBound"}, doc : Docs] : o.kind \in Kinds}

MCOperations == MCProofs \cup MCSignatures \cup MCChallenges \cup MCPolls

HistoryBound == \A d \in Docs : Cardinality(held[d]) <= MaxHeld

Symmetry == Permutations(Docs) \cup Permutations(Groups) \cup Permutations(Commitments)
              \cup Permutations(Nonces) \cup Permutations(Requests)
=============================================================================
