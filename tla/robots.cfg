SPECIFICATION FairSpec
CONSTANTS
    Workers = {w1, w2}
    Hosts = {A}
    Rules = {open, closed}
    TTL = 2
    Timeout = 1
INVARIANTS
    TypeOK
    KeyHasEnd
PROPERTIES
    RulesAreFresh
    NewRulesTakeEffect
