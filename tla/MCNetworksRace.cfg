SPECIFICATION Spec
CONSTANTS
    half = half
    inside = inside
    outside = outside
    Id = {n1, n2, n3}
    Tenant = {t1}
    Name = {a, b}
    Cidr = {half, inside, outside}
    Block <- MCBlock
    Request = {r1, r2}
    None = None
INVARIANTS
    NetworksDisjoint
SYMMETRY MCSymmetry
CHECK_DEADLOCK FALSE
