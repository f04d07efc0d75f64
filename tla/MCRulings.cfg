SPECIFICATION MCSpec
CONSTANTS
    pollen = pollen  o1 = o1  o2 = o2  plot = plot  field = field
    Pollen = {pollen}
    Op = {o1, o2}
    Substrate = {plot, field}
    Impact <- MCImpact
    r1 = r1  r2 = r2  Requester = {r1, r2}
    Admin = {a1, a2}
    Command <- MCCommand
    FirstGrants <- MCWideGrants
    NoGrant = NoGrant
    TTL = 0
    MaxTime = 1
    MaxRecords = 2
    MaxGiven = 2
    p1 = p1  b1 = b1  b2 = b2  v1 = v1  v2 = v2  k1 = k1  k2 = k2
    s1 = s1  c1 = c1  g1 = g1  Unset = Unset
    l1 = l1  l2 = l2  f1 = f1
SYMMETRY Symmetric
INVARIANTS
    ApprovalIsSingleUse
    OnlyTheApprovedIsConsumed
    GrantAndConfirmation
PROPERTIES
    CommandWidensOnlyWhatItNames
    RhizomeIsObeyed
    RowsTellTheTruth
CHECK_DEADLOCK FALSE
