SPECIFICATION ASpec
CONSTANTS
    s1 = s1  s2 = s2  r1 = r1  r2 = r2  b1 = b1  b2 = b2  q1 = q1  q2 = q2
    Site <- MCSite
    Rack <- MCRack
    Blade <- MCBlade
    Request <- MCRequest
    Size = {1, 2}
    Plan <- MCPlan
    ByHand = {2}
    Limit = 5
    Default <- Wide
    None = None
    Own = Own
    New = New
    Gone = Gone
SYMMETRY Alike
VIEW NoMAC
INVARIANTS AddressesDistinct BlocksApart NumbersDistinct
CHECK_DEADLOCK FALSE
