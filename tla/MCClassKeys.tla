---------------------------- MODULE MCClassKeys ----------------------------
(***************************************************************************)
(* Instances of ClassKeys: all forests of four classes, and hierarchies of *)
(* more classes in which identifiers go wrong.  Classes are numbered in    *)
(* the order they were declared; those a program does not have are classes *)
(* without base and virtual functions.                                     *)
(***************************************************************************)
EXTENDS ClassKeys

MCClasses == 1..8

Cids == [c \in MCClasses |-> c - 1]
Program(base, virtuals) ==
  [base |-> [c \in MCClasses |-> IF c \in DOMAIN base THEN base[c] ELSE None],
   virtual |-> virtuals, cid |-> Cids]

(* No class is its own ancestor. *)
RECURSIVE Reach(_, _)
Reach(base, cs) ==
  LET more == {base[c] : c \in cs} \ {None}
  IN  IF more \subseteq cs THEN cs ELSE Reach(base, cs \cup more)
Acyclic(base) ==
  \A c \in DOMAIN base :
    base[c] = None \/ c \notin Reach(base, {base[c]})

Small == 1..4
Forests == {b \in [Small -> Small \cup {None}] : Acyclic(b)}
Roots(b) == {c \in Small : b[c] = None}
SmallPrograms ==
  {Program(b, Roots(b)) : b \in Forests} \cup {Program(b, {3}) : b \in Forests}

(* B is 1, A is 2.  A1 and A2 have children, so they come before B1; A3,   *)
(* which has none, comes after.                                            *)
TwinsBases == <<None, None, 2, 2, 3, 4, 1, 2>>
WithTwins == Program(TwinsBases, {1, 2})

(* A1, A2 and A3 get more keys than B1 uses again.                         *)
CousinBases == <<None, None, 1, 1, 1, 2, 3>>
WithCousins == Program(CousinBases, {1, 2})

(* A chain whose keys multiply to more than Modulus.                       *)
DeepBases == <<None, 1, 2, 3, 4, 3>>
Deep == Program(DeepBases, {1})

MCPrograms == SmallPrograms \cup {WithTwins, WithCousins, Deep}
MCTwins == {WithTwins}
===========================================================================
