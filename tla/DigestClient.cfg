\* A nonce count of three values in place of 2^32.
SPECIFICATION DigestSpec
CONSTANT MaxCount = 3
INVARIANT NoReplay
INVARIANT ExecutedAtMostOnce
INVARIANT StaleNonceHealed
