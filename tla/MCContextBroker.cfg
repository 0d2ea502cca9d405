SPECIFICATION Spec
CONSTANTS
    r1 = r1  a1 = a1  a2 = a2  user = user  x = x  y = y  any = any
    first = first  second = second
    a3 = a3
    Runs = {r1}
    Shares = {s1}
    s1 = s1
    Agents = {a1, a2, a3}
    Principals = {user}
    Scopes = {x, y, any}
    None = None
    Everyone = Everyone
    Candidates <- MCCandidates
    RunInputs <- MCRunInputs
    RequiredScopes <- MCRequiredScopes
    Matches <- MCMatches
    Level <- MCLevel
    Ceiling <- MCCeiling
    DenyAgents = {a3}
    Topic <- MCTopic
    ClaimHash <- MCClaimHash
    Granted <- MCGranted
    Offers <- MCOffers
    ShareInputs <- MCShareInputs
    Existing = {first}
    MaxGrants = 6
    MaxChanges = 2
    MaxClock = 1
    MaxFaults = 1
CHECK_DEADLOCK FALSE
INVARIANTS
    TypeOK
    CapsuleIsExact
    CapsuleIsBacked
    ShareIsBacked
