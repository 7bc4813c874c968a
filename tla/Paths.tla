------------------------------- MODULE Paths -------------------------------
(***************************************************************************)
(* Digests as the bytes they are, and the directions their bits spell.     *)
(* Module Tree takes a path to be a sequence of directions and a prefix to *)
(* be a part of one; this module is what the code does instead.            *)
(***************************************************************************)
EXTENDS Naturals, Sequences, FiniteSetsExt

CONSTANTS
    Bytes,   \* HASH_LENGTH (32 in the code)
    Width    \* bits of a byte (8 in the code)

ASSUME PathsAssumption == Bytes \in Nat \ {0} /\ Width \in Nat \ {0}

Bits == Bytes * Width
Byte == 0..(2 ^ Width - 1)
Digest == [0..(Bytes - 1) -> Byte]

Opposite(direction) == IF direction = "L" THEN "R" ELSE "L"

\* Path::split: the byte an index is in, and the bit, the highest first.
InByte(index) == index \div Width
InBit(index) == index % Width

Mask(index) == 2 ^ (Width - 1 - InBit(index))

\* Path::index: a bit that is set leads to the left.
At(path, index) == IF (path[InByte(index)] \div Mask(index)) % 2 = 1 THEN "L" ELSE "R"

\* Path::set.
Turned(path, index, direction) ==
    CASE At(path, index) = direction -> path
      [] At(path, index) # direction /\ direction = "L" ->
            [path EXCEPT ![InByte(index)] = @ + Mask(index)]
      [] At(path, index) # direction /\ direction = "R" ->
            [path EXCEPT ![InByte(index)] = @ - Mask(index)]

\* Fault: the bits beyond the last full byte are not compared.
DeepEqFull(lho, rho, depth) == \A byte \in 0..(InByte(depth) - 1) : lho[byte] = rho[byte]

\* Path::deepeq: full bytes, then the highest bits of the next.
DeepEq(lho, rho, depth) ==
    LET full == InByte(depth)
        shift == 2 ^ (Width - InBit(depth))
    IN  /\ \A byte \in 0..(full - 1) : lho[byte] = rho[byte]
        /\ InBit(depth) > 0 => lho[full] \div shift = rho[full] \div shift

\* The order of Path: the bytes one by one.
Precedes(lho, rho) ==
    \E byte \in DOMAIN lho :
        /\ lho[byte] < rho[byte]
        /\ \A before \in 0..(byte - 1) : lho[before] = rho[before]

-----------------------------------------------------------------------------
(***************************************************************************)
(* Prefixes.  A depth is a u8, and a digest has as many bits as a u8 has   *)
(* values: the depth after the last is 0 again.                            *)
(***************************************************************************)
Prefix(path, depth) == [path |-> path, depth |-> depth % Bits]

RootPrefix == Prefix([byte \in 0..(Bytes - 1) |-> 0], 0)

ChildOf(prefix, direction) ==
    Prefix(Turned(prefix.path, prefix.depth, direction), prefix.depth + 1)

PrefixContains(prefix, path) == DeepEq(prefix.path, path, prefix.depth)

\* Prefix::eq: the bits beyond the depth do not count.
SamePrefix(lho, rho) == lho.depth = rho.depth /\ DeepEq(lho.path, rho.path, lho.depth)

\* Prefix::common: two equal paths have their whole length in common, which is no depth.
Common(lho, rho) ==
    Prefix(lho, Max({ n \in 0..Bits : \A i \in 0..(n - 1) : At(lho, i) = At(rho, i) }))

Ancestor(prefix, generations) == Prefix(prefix.path, prefix.depth - generations)
=============================================================================
