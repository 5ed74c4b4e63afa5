------------------------------ MODULE Location ------------------------------
(***************************************************************************)
(* Positions of entities and blocks (Minecraft/Location.cpp).  An entity   *)
(* stands at whole coordinates (the code truncates fractions before it     *)
(* compares); a BlockLocation is built from the same coordinates and       *)
(* compared with the entity's.                                             *)
(***************************************************************************)
EXTENDS Integers

CONSTANT Sample    \* bound: the coordinates tried, natural numbers, with either sign

Coordinate == Sample \cup {-n : n \in Sample}

VARIABLES x, y, z,    \* the coordinates of an entity
          block       \* the BlockLocation built from them, or NoBlock

vars == <<x, y, z, block>>

NoBlock == [x |-> -1]

uint8_t(n) == n % 256

\* C++ divides towards zero.
Quotient(n) == IF n >= 0 THEN n \div 16 ELSE -((-n) \div 16)

ChunkLocation(a, b, c) == [x |-> a, y |-> b, z |-> uint8_t(c)]

\* The offset in the chunk; that of z is taken from the chunk's x.
BlockLocation(a, b, c) ==
  [ x |-> uint8_t(a - Quotient(a) * 16),
    y |-> uint8_t(b - Quotient(b) * 16),
    z |-> uint8_t(c - Quotient(a) * 16),
    chunk |-> ChunkLocation(Quotient(a), Quotient(b), Quotient(c)) ]

\* operator| of an EntityLocation with a BlockLocation.
IsInBlock(a, b, c, loc) == a = loc.x /\ b = loc.y /\ c = loc.z

Init == /\ x \in Coordinate
        /\ y \in Coordinate
        /\ z \in Coordinate
        /\ block = NoBlock

Build == /\ block = NoBlock
         /\ block' = BlockLocation(x, y, z)
         /\ UNCHANGED <<x, y, z>>

Spec == Init /\ [][Build]_vars

-----------------------------------------------------------------------------
\* "check if pos is in block" (Location.h:43): a position is in the block built
\* from it.
InOwnBlock == block # NoBlock => IsInBlock(x, y, z, block)
=============================================================================
