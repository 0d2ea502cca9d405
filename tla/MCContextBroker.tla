--------------------------- MODULE MCContextBroker ---------------------------
(***************************************************************************)
(* A Run, on nobody's behalf as AgentService has it, and a share between   *)
(* two Agents on a user's.  The first Evidence needs two scopes, of which  *)
(* one matches more than itself; the second needs the scope that it        *)
(* matches, and contradicts the first.                                     *)
(***************************************************************************)
EXTENDS ContextBroker

CONSTANTS r1, s1, a1, a2, a3, user, x, y, any, first, second

MCCandidates == <<first, second>>
MCRunInputs == {[agent |-> a, principal |-> None] : a \in {a1, a3}}
MCRequiredScopes == (first :> <<x, any>>) @@ (second :> <<y>>)
MCMatches == (x :> {x}) @@ (y :> {y}) @@ (any :> {any, y})
MCLevel == (first :> 1) @@ (second :> 2)
MCCeiling == (a1 :> 2) @@ (a2 :> 1) @@ (a3 :> 2)
MCTopic == [e \in Evidence |-> "launch date"]
MCClaimHash == [e \in Evidence |-> e]

Offer(agent, principal, covers, action, until) ==
    [agent |-> agent, principal |-> principal, covers |-> covers, action |-> action, until |-> until]
Issued(offer) == offer @@ [from |-> 0, closed |-> FALSE, by |-> None]

\* The scopes x and y by a grant that expires; the right to share, of the sender and of the
\* user.
MCGranted == <<Issued(Offer(a1, None, {x, y}, "consume", 1)),
               Issued(Offer(a2, None, {x, y, any}, "share", Forever)),
               Issued(Offer(a2, user, {x, y, any}, "share", Forever))>>
MCOffers == {Offer(a1, None, {x, y, any}, "consume", Forever)}
MCShareInputs == {[from |-> a2, to |-> a1, evidence |-> first, principal |-> user]}
=============================================================================
