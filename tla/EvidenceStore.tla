----------------------------- MODULE EvidenceStore -----------------------------
(***************************************************************************)
(* What the Evidence store promises those who read it, the broker that     *)
(* builds capsules and the routes that walk the derivations: Evidence is   *)
(* committed once, ACTIVE, and derived from Evidence that is there; only   *)
(* what is ACTIVE is superseded; what is there may be revoked or           *)
(* compromised, and is neither given another derivation nor taken away.    *)
(***************************************************************************)
CONSTANTS Evidence,
          Existing   \* the Evidence at the start

VARIABLES
    status,   \* Evidence -> the status of its latest version, or "none"
    derived   \* Evidence -> what it is derived from

vars == <<status, derived>>

Recorded == {e \in Evidence : status[e] # "none"}

Init ==
    /\ status = [e \in Evidence |-> IF e \in Existing THEN "ACTIVE" ELSE "none"]
    /\ derived = [e \in Evidence |-> {}]

Commit(e) ==
    /\ e \notin Recorded
    /\ status' = [status EXCEPT ![e] = "ACTIVE"]
    /\ \E sources \in SUBSET Recorded : derived' = [derived EXCEPT ![e] = sources]

Supersede(e) ==
    /\ status[e] = "ACTIVE"
    /\ status' = [status EXCEPT ![e] = "SUPERSEDED"]
    /\ UNCHANGED derived

End(e) ==
    /\ e \in Recorded
    /\ \E s \in {"REVOKED", "COMPROMISED"} : status' = [status EXCEPT ![e] = s]
    /\ UNCHANGED derived

Next == \E e \in Evidence : Commit(e) \/ Supersede(e) \/ End(e)

Spec == Init /\ [][Next]_vars

\* No Evidence is derived from itself, however many steps it takes: of any Evidence
\* there is some is derived from none of the rest.
DerivationFounded ==
    \A S \in SUBSET Recorded : S # {} => \E e \in S : derived[e] \cap S = {}

\* INV-8, as readers see it: what is revoked or compromised stays one or the other.
EndedStays ==
    [][\A e \in Evidence : status[e] \in {"REVOKED", "COMPROMISED"}
           => status'[e] \in {"REVOKED", "COMPROMISED"}]_vars
=============================================================================
