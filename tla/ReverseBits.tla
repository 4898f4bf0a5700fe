---------------------------- MODULE ReverseBits ----------------------------
(***************************************************************************)
(* The bit operations of rchkKVStoreScan.  A word is the set of the        *)
(* positions of its ones: | is \cup, & is \cap, and a shift moves the      *)
(* positions.  A cursor has 64 bits in the code; rev() works for every     *)
(* power of two.                                                           *)
(***************************************************************************)
EXTENDS ReverseCursor

CONSTANT Width    \* bits of a cursor

ASSUME WidthAssumption ==
  /\ Width \in Nat /\ MaxBits \in Nat /\ MaxBits <= Width
  /\ \E k \in 0 .. Width : Width = 2^k    \* "must be power of 2"

Positions == 0 .. Width-1
Word == SUBSET Positions

\* The ones of a number.
WordOf(n) == {i \in Positions : (n \div 2^i) % 2 = 1}

Complement(w) == Positions \ w
ShiftLeft(w, s) == {i \in Positions : i - s \in w}
ShiftRight(w, s) == {i \in Positions : i + s \in w}

\* w++: the carry clears the ones below the lowest zero, or falls off the word.
PlusOne(w) ==
  LET clear == Complement(w)
  IN IF clear = {} THEN {} ELSE {Min(clear)} \cup {i \in w : i > Min(clear)}

-----------------------------------------------------------------------------
(* The loop of rev(): halves, quarters ... single bits change places       *)

Locals == [s : 0 .. Width, mask : Word, v : Word]

\* s >>= 1 and the body.
Round(r) ==
  LET s == r.s \div 2
      mask == SymDiff(r.mask, ShiftLeft(r.mask, s))
  IN [s |-> s, mask |-> mask,
      v |-> (ShiftRight(r.v, s) \cap mask) \cup (ShiftLeft(r.v, s) \cap Complement(mask))]

\* A slip: the loop ends before single bits change places.
RevShort(v) ==
  LET loop[r \in Locals] == IF r.s \div 2 <= 1 THEN r.v ELSE loop[Round(r)]
  IN loop[[s |-> Width, mask |-> Positions, v |-> v]]

Rev(v) ==
  LET loop[r \in Locals] == IF r.s \div 2 = 0 THEN r.v ELSE loop[Round(r)]
  IN loop[[s |-> Width, mask |-> Positions, v |-> v]]

\* "cursor |= ~mask", rev, cursor++, rev
CursorAfter(c, mask) == Rev(PlusOne(Rev(c \cup Complement(mask))))
=============================================================================
