SPECIFICATION Spec
CONSTANTS
    r1 = r1  r2 = r2  r3 = r3  a1 = a1  e1 = e1  e2 = e2
    Runs = {r1, r2, r3}
    Agents = {a1}
    Evidence = {e1, e2}
    None = None
    Requests <- MCRequests
    Reconciles = {c1, c2}
    AgentOf <- MCAgentOf
    Permitted <- MCPermitted
    Existing = {e1}
    Past = {r1}
    Sent = {r2}
    Proposals <- MCProposals
    MaxMishaps = 1
SYMMETRY MCSymmetry
CHECK_DEADLOCK FALSE
INVARIANTS
    TypeOK
    TagsAreDownstream
    TagsAreComplete
    OneReplacementPerTag
    RecoveryIsReal
