----------------------------- MODULE MCRunRecovery -----------------------------
(* One Agent; a Run that has read the first Evidence, and two more.            *)
EXTENDS RunRecovery

CONSTANTS r1, r2, r3, a1, e1, e2

MCAgentOf   == [r \in Runs |-> a1]
MCPermitted == [a \in Agents |-> Evidence]
\* The first Run's comes from what it has read, though it names no contributor.
MCProposals == {[run |-> r1, evidence |-> e2, contributors |-> {}],
                [run |-> r2, evidence |-> e2, contributors |-> {e1}]}
MCRequests  == {[evidence |-> e1, end |-> "COMPROMISED"], [evidence |-> e2, end |-> "REVOKED"]}
MCSymmetry  == Permutations(Reconciles)
=============================================================================
