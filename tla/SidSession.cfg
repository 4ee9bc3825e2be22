\* No cache, and cache lifetimes of one and two ticks.
SPECIFICATION FairSpec
CONSTANT MaxTtl = 2
INVARIANT ExecutedAtMostOnce
INVARIANT LostSessionHealed
INVARIANT PasswordTriedOnce
PROPERTY CallEnds
