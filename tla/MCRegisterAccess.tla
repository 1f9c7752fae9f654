-------------------------- MODULE MCRegisterAccess --------------------------
(***************************************************************************)
(* The instance of RegisterAccess that TLC checks: a word is two cells of  *)
(* one bit, and there are two registers of a word, side by side.  CR has   *)
(* one field, its upper bit and one bit beyond the word, so that a field   *)
(* write has a lower bit, and another register, not to touch: of the two   *)
(* values, 3 fits in a word but, as the field, makes a word that is too    *)
(* long; 5 does not fit in a word, and is cut to a field that does.        *)
(***************************************************************************)
EXTENDS RegisterAccess, TLC

Symmetric == Permutations(Clients)

At(a, n) == [address |-> a, size |-> n]
Bits(o, w) == [offset |-> o, width |-> w]

TwoWords == [CR |-> At(0, 2), DR |-> At(2, 2)]
OneField == [CR |-> {Bits(1, 2)}, DR |-> {}]

\* DR is one cell wide: OwnRegisterOnly does not hold here.
Narrow == [CR |-> At(0, 2), DR |-> At(1, 1)]
NoFields == [CR |-> {}, DR |-> {}]
=============================================================================
