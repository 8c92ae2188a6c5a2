--------------------------- MODULE MCBreakpoints ---------------------------
(***************************************************************************)
(* A program of three functions for Breakpoints: main calls f in two       *)
(* statements; f calls itself or g, and throws or leaves by one of two     *)
(* exits.  The calls return to the lines 2, 5 and 8; line 2 is also the    *)
(* first line of the second statement of main, and no statement starts on  *)
(* 5 and 8.                                                                *)
(***************************************************************************)
EXTENDS Breakpoints

MCNodes == {"m1", "m2", "f1", "f2", "f3", "f4", "g1"}
MCCLines == 1..9
MCCLine == [m1 |-> 1, m2 |-> 2, f1 |-> 4, f2 |-> 6, f3 |-> 7, f4 |-> 3, g1 |-> 9]
MCKind == [m1 |-> "plain", m2 |-> "catch", f1 |-> "plain", f2 |-> "throw",
           f3 |-> "exit", f4 |-> "exit", g1 |-> "plain"]
MCFunction == [m1 |-> "main", m2 |-> "main", f1 |-> "f", f2 |-> "f",
               f3 |-> "f", f4 |-> "f", g1 |-> "g"]
MCSucc == [m1 |-> {"m2"}, m2 |-> {}, f1 |-> {"f2", "f3"}, f2 |-> {"f4"},
           f3 |-> {}, f4 |-> {}, g1 |-> {}]
MCCalls == [m1 |-> <<[entries |-> {"f1"}, return |-> 2]>>,
            m2 |-> <<[entries |-> {"f1"}, return |-> 8]>>,
            f1 |-> <<[entries |-> {"f1", "g1"}, return |-> 5]>>,
            f2 |-> <<>>, f3 |-> <<>>, f4 |-> <<>>, g1 |-> <<>>]
MCFrames == {[function |-> "main", depth |-> 1, return |-> NoLine],
             [function |-> "f", depth |-> 2, return |-> 2],
             [function |-> "f", depth |-> 2, return |-> 8],
             [function |-> "f", depth |-> 3, return |-> 5],
             [function |-> "g", depth |-> 3, return |-> 5]}
===========================================================================
