SPECIFICATION Spec
CONSTANTS
    Users = {u1}
    Tokens = {t1}
    Chats = {c1, c2}
    RuleIds = {r1, r2}
    MaxRules = 2
    ThrottleTTL = 2
    CacheTTL = 1
    None = None
    LostReplies = FALSE
    Failures = TRUE
    TierChanges = TRUE
INVARIANT TypeOK
INVARIANT AlertsSpaced
INVARIANT AlertsSettle
