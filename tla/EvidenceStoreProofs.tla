-------------------------- MODULE EvidenceStoreProofs --------------------------
(***************************************************************************)
(* What follows from the promise of the Evidence store alone, and so holds *)
(* of every module that implements it, for any set of Evidence.            *)
(***************************************************************************)
EXTENDS EvidenceStore, TLAPS

Typed ==
    /\ DOMAIN status = Evidence
    /\ derived \in [Evidence -> SUBSET Recorded]

\* A function on Evidence stays one, and its values change in one place only.
LEMMA UpdateFacts ==
    ASSUME NEW f, DOMAIN f = Evidence, NEW e \in Evidence, NEW value,
           NEW g, g = [f EXCEPT ![e] = value]
    PROVE  DOMAIN g = Evidence /\ g[e] = value /\ \A d \in Evidence \ {e} : g[d] = f[d]
  OBVIOUS

\* What is recorded stays recorded, and derivations lead to what is.
LEMMA TypedStep == Typed /\ [Next]_vars => Typed' /\ Recorded \subseteq Recorded'
<1> SUFFICES ASSUME Typed, [Next]_vars
             PROVE  Typed' /\ Recorded \subseteq Recorded'
  OBVIOUS
<1>1. CASE UNCHANGED vars
  BY <1>1 DEF vars, Typed, Recorded
<1>2. ASSUME NEW e \in Evidence, NEW s, s # "none", status' = [status EXCEPT ![e] = s]
      PROVE  DOMAIN status' = Evidence /\ Recorded' = Recorded \cup {e}
  BY <1>2, UpdateFacts DEF Typed, Recorded
<1>3. ASSUME NEW e \in Evidence, Commit(e)
      PROVE  Typed' /\ Recorded \subseteq Recorded'
  <2>1. DOMAIN status' = Evidence /\ Recorded' = Recorded \cup {e}
    BY <1>2, <1>3 DEF Commit
  <2>2. derived' \in [Evidence -> SUBSET Recorded]
    BY <1>3 DEF Commit, Typed
  <2> QED BY <2>1, <2>2 DEF Typed
<1>4. ASSUME NEW e \in Evidence, Supersede(e) \/ End(e)
      PROVE  Typed' /\ Recorded \subseteq Recorded'
  <2>1. DOMAIN status' = Evidence /\ Recorded' = Recorded \cup {e} /\ derived' = derived
    BY <1>2, <1>4 DEF Supersede, End
  <2> QED BY <2>1 DEF Typed
<1> QED BY <1>1, <1>3, <1>4 DEF Next

\* Evidence that is committed is derived from what was there before: it closes no circle.
LEMMA FoundedStep == Typed /\ DerivationFounded /\ [Next]_vars => DerivationFounded'
<1> SUFFICES ASSUME Typed, DerivationFounded, [Next]_vars,
                    NEW S \in SUBSET Recorded', S # {}
             PROVE  \E e \in S : derived'[e] \cap S = {}
  BY DEF DerivationFounded
<1>1. CASE UNCHANGED vars
  BY <1>1 DEF vars, DerivationFounded, Recorded
<1>2. ASSUME NEW c \in Evidence, Commit(c)
      PROVE  \E e \in S : derived'[e] \cap S = {}
  <2>1. S \ {c} \subseteq Recorded
    BY <1>2, UpdateFacts DEF Commit, Typed, Recorded
  <2>2. c \notin Recorded /\ derived'[c] \subseteq Recorded
    BY <1>2 DEF Commit, Typed
  <2>3. \A e \in Recorded : derived'[e] = derived[e] /\ c \notin derived[e]
    BY <1>2 DEF Commit, Typed, Recorded
  <2>4. CASE S \ {c} = {}
    BY <2>2, <2>4
  <2>5. CASE S \ {c} # {}
    <3>1. PICK e \in S \ {c} : derived[e] \cap (S \ {c}) = {}
      BY <2>1, <2>5 DEF DerivationFounded
    <3> QED BY <2>1, <2>3, <3>1
  <2> QED BY <2>4, <2>5
<1>3. ASSUME NEW c \in Evidence, Supersede(c) \/ End(c)
      PROVE  \E e \in S : derived'[e] \cap S = {}
  <2>1. derived' = derived /\ Recorded' \subseteq Recorded
    BY <1>3, UpdateFacts DEF Supersede, End, Typed, Recorded
  <2> QED BY <2>1 DEF DerivationFounded
<1> QED BY <1>1, <1>2, <1>3 DEF Next

\* The graph of derivations that a revocation is followed along has no circles.
THEOREM Founded == Spec => []DerivationFounded
<1>1. Init => Typed /\ DerivationFounded
  BY DEF Init, Typed, DerivationFounded, Recorded
<1> QED BY <1>1, TypedStep, FoundedStep, PTL DEF Spec

\* What is revoked or compromised is never ACTIVE again, nor taken for superseded.
THEOREM Ended == Spec => EndedStays
<1>1. Init => Typed
  BY DEF Init, Typed, Recorded
<1>2. ASSUME Typed, [Next]_vars
      PROVE  [\A e \in Evidence : status[e] \in {"REVOKED", "COMPROMISED"}
                  => status'[e] \in {"REVOKED", "COMPROMISED"}]_vars
  <2>1. SUFFICES ASSUME NEW e \in Evidence, status[e] \in {"REVOKED", "COMPROMISED"}, Next
                 PROVE  status'[e] \in {"REVOKED", "COMPROMISED"}
    BY <1>2
  <2>2. ~Commit(e) /\ ~Supersede(e)
    BY <2>1 DEF Commit, Supersede, Recorded
  <2>3. PICK c \in Evidence : Commit(c) \/ Supersede(c) \/ End(c)
    BY <2>1 DEF Next
  <2>4. CASE c = e
    BY <1>2, <2>2, <2>3, <2>4, UpdateFacts DEF End, Typed
  <2>5. CASE c # e
    BY <1>2, <2>1, <2>3, <2>5, UpdateFacts DEF Commit, Supersede, End, Typed
  <2> QED BY <2>4, <2>5
<1> QED BY <1>1, <1>2, TypedStep, PTL DEF Spec, EndedStays
=============================================================================
