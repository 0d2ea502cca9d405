-------------------------- MODULE MCEvidenceLedger --------------------------
EXTENDS EvidenceLedger

CONSTANTS e1, e2, e3, e4, run, governance

\* Three records of one Run and one of the governance chain.
MCChainOf == [e \in Events |-> IF e = e4 THEN governance ELSE run]
=============================================================================
