----------------------- MODULE MCVerifiableEncryption -----------------------
EXTENDS VerifiableEncryption

Bits == 0 .. 1

Strings(n) == UNION {[1 .. i -> Bits] : i \in 0 .. n}

(* Two binary digits, the low one first.                                   *)
TwoDigits(n) == <<n % 2, (n \div 2) % 2>>

XorBits(a, b) == (a + b) % 2

Weight(s) == Len(SelectSeq(s, LAMBDA b : b = 1))

(* Stand-ins that depend on every byte of their arguments and, for the     *)
(* keystream, on the order of key and nonce and on the position.           *)
Digest(s)       == TwoDigits(Len(s) + 2 * Weight(s))
Stream(k, n, i) == (Weight(k) + 2 * Weight(n) + i * (1 + k[1]) + n[1]) % 2

SliceSet == Strings(3)
TextSet  == Strings(2)
=============================================================================
