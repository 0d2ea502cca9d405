--------------------------- MODULE MCEvidenceWrite ---------------------------
(* Instances of EvidenceWrite for TLC: the ids are model values. *)
EXTENDS EvidenceWrite, TLC

AnyOrder == Permutations(Agents) \cup Permutations(Clients)
                \cup Permutations(Claims) \cup Permutations(Runs)
=============================================================================
