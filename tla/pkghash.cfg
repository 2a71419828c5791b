\* Four names in tables of 3, 5 and 19 buckets, with every hash function over
\* values that collide and wrap around.
SPECIFICATION Spec
CONSTANTS
    Names = {1, 2, 3, 4}
    HashValues = {0, 4, 18}
    Primes <- MCPrimes
    Sizes = {0, 2}
    Null = Null
INVARIANTS FindIsMember
PROPERTIES OperationsEnd RefinesSet
