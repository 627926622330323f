\* A page that is hidden once and comes back, with two logins: answers in any order.
SPECIFICATION LiveSpec
CONSTANTS
    s1 = s1
    s2 = s2
    Secrets = {s1, s2}
    None = None
    MaxHides = 1
    MaxRuns = 2
INVARIANTS SavedIsProved OneWay
PROPERTIES UserKeepsControl PageGoesOn
CHECK_DEADLOCK FALSE
