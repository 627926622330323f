\* Three applications on one web server, two patches of fetch by others: every order of
\* applying, failing, tampering and disposing.
SPECIFICATION EpochsSpec
CONSTANTS
    a1 = a1
    a2 = a2
    a3 = a3
    Instances = {a1, a2, a3}
    Nobody = Nobody
    Foreign = Foreign
    MaxForeign = 2
SYMMETRY Symmetry
INVARIANT OneServes
PROPERTIES OthersUnharmed ImplementsDoor
