SPECIFICATION Spec
CONSTANTS
    Members = {m1}
    StaleAfter = 2
    MaxWrites = 3
    MaxMishaps = 0
INVARIANT MembersCatchUp
