CONSTANTS
    Subject = {s1, s2}
    Token = {t1, t2, t3}
    Sealed = {t2, t3}
    Replica = {w1, w2}
    BatchSize = 1
    MaxShift = 1
    MaxAge = 1
    MaxFaults = 2
    None = None
SPECIFICATION FairSpec
INVARIANTS TypeOK ClaimsAreExclusive SignedInTokensAreKept
PROPERTIES OnlyRevokedTokensLeave DetachedTokensAreRevoked
