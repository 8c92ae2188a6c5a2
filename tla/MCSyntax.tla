------------------------------ MODULE MCSyntax ------------------------------
(***************************************************************************)
(* Instances of Syntax: the texts of all grammars, and type tests alone.   *)
(***************************************************************************)
EXTENDS Syntax, TLC

Programs == INSTANCE ProgramTexts
Others   == INSTANCE OtherTexts

(* A grammar with the library; the rules absent, levels of binary operators  *)
(* whose operators are not in the alphabet, derive what their operands do.   *)
Linked(rules, library) == rules @@ library
Without(rules, absent) == [r \in DOMAIN rules |-> IF r \in absent THEN rules[r].ps[1] ELSE rules[r]]

AllCases == Programs!ProgramCases @@ Others!TextCases
AllGrammars ==
  LET rules == [g \in DOMAIN Others!OtherGrammars |-> Linked(Others!OtherGrammars[g], Others!Library)]
                 @@ [program |-> Programs!ProgramRules]
  IN [c \in DOMAIN AllCases |-> Without(rules[AllCases[c].grammar], AllCases[c].absent)]
=============================================================================
