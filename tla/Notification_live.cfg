SPECIFICATION FairSpec
CONSTANTS
    Users = {u1}
    Tokens = {t1}
    Chats = {c1, c2}
    RuleIds = {r1}
    MaxRules = 2
    ThrottleTTL = 2
    CacheTTL = 1
    None = None
    LostReplies = TRUE
    Failures = TRUE
    TierChanges = TRUE
PROPERTY LastingRuleAlerts
