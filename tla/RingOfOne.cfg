SPECIFICATION Spec
CONSTANTS
    Items = {1, 2}
    NoItem = 0
    Producers = {m1}
    Consumers = {k1}
    Lookers = {}
    Teams = {{m1, k1}}
    Slots = 1
    Modulus = 8
    First = 7
    Retries = 2
    m1 = m1
    k1 = k1
INVARIANT Bounded
CHECK_DEADLOCK FALSE
