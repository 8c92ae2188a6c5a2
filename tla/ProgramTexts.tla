---------------------------- MODULE ProgramTexts ----------------------------
(***************************************************************************)
(* Small alphabets for the grammars of the language (see Syntax).          *)
(***************************************************************************)
EXTENDS DeclarationGrammar, Naturals

Logic      == {"Equivalence", "Implication", "Disjunction", "Conjunction", "BitOr", "BitXor", "Equality"}
Arithmetic == {"Shift", "Additive", "Multiplicative"}
Operators  == Logic \cup Arithmetic \cup {"BitAnd", "Relational"}

Names == {"a", "C", "T"}

(* absent are the rules whose operators are not in the alphabet.           *)
Program(start, absent, fragments, bound) ==
  [grammar |-> "program", absent |-> absent, start |-> start, fragments |-> fragments, bound |-> bound,
   words |-> Names \cup Keywords, spaces |-> {}, glue |-> {"."}, operands |-> Names \cup {"1"},
   general |-> {}, speculative |-> {"PrimaryTypeExpr"}]

Each(S) == {<<w>> : w \in S}

(* Declarations of variables against expressions. *)
Statements ==
  Program("Statement", Logic \cup {"Shift", "Additive"},
          Each({"a", "*", "&", "<", ";", ")"})
            \cup {<<">", "a">>, <<"(", "1">>, <<"=", "a">>, <<"[", "1", "]">>}, 6)

ControlStatements ==
  Program("Statement", Operators,
          Each({"a", "else", ";", ")", "}", ":"})
            \cup {<<"{", "}">>, <<"if", "(", "a", ")">>, <<"for", "(", "a", "a">>, <<";", ";", ")">>,
                  <<"switch", "(", "a", ")", "{">>, <<"case", "1", ":">>}, 9)

ClassMembers ==
  Program("ClassMember", Operators,
          Each({"C", "a", ";", "~", "operator", "=", "&", "const", "class", "delegate"})
            \cup {<<"(", ")">>, <<"{", "}">>, <<":", "base">>}, 5)

Definitions_ ==
  Program("Definition", Operators,
          Each({"a", ";", "concept", "class", "delegate", "is", ":"})
            \cup {<<"(", ")">>, <<"{", "}">>, <<"<", "T", ">">>, <<"where", "a">>}, 9)

Constraints ==
  Program("ConceptBodyConstraint", Operators,
          Each({"T", "a", ";", "~", ".", "<", ">"})
            \cup {<<"(", ")">>, <<"operator", "=">>, <<"where", "T">>, <<"is", "a">>}, 6)

ProgramCases ==
  [statements |-> Statements, control |-> ControlStatements, members |-> ClassMembers,
   definitions |-> Definitions_, constraints |-> Constraints]
=============================================================================
