----------------------------- MODULE MCClassIds -----------------------------
(***************************************************************************)
(* A project of three units.  u2, the first of the project, has the class  *)
(* B, u1 the classes A and C; B derives from A and C from B.  u3 calls     *)
(* functions of B and asks for A and B, u1 asks for A.                     *)
(***************************************************************************)
EXTENDS ClassIds

CONSTANTS A, B, C, u1, u2, u3

MCUnits == {u1, u2, u3}
MCDeclarations == <<B, A, C>>
MCUnitOf == [c \in {A, B, C} |-> IF c = B THEN u2 ELSE u1]
MCBase == [c \in {A, B, C} |-> CASE c = A -> NoCid [] c = B -> A [] c = C -> B]
MCAsked == [u \in MCUnits |-> CASE u = u1 -> {A} [] u = u2 -> {} [] u = u3 -> {A, B}]
MCDependents == [u \in MCUnits |-> IF u = u2 THEN {u3} ELSE {}]
===========================================================================
