----------------------------- MODULE OtherTexts -----------------------------
(***************************************************************************)
(* Small alphabets for the other grammars (see Syntax): comments and       *)
(* literals, the files of projects and solutions, JSON texts, reports of   *)
(* tools, what gdb answers, what the user of the debugger types, the       *)
(* grammar files of the parser generator and the C++ in them.              *)
(***************************************************************************)
EXTENDS Sequences, Naturals, TLC

Files     == INSTANCE TextGrammars
Debugger  == INSTANCE DebuggerGrammars
Generator == INSTANCE ParserFileGrammar

Each(S) == {<<w>> : w \in S}

Texts(grammar, start, words, spaces, fragments, bound) ==
  [grammar |-> grammar, absent |-> {}, start |-> start, fragments |-> fragments, bound |-> bound,
   words |-> words, spaces |-> spaces, glue |-> words \cup Files!Digits \cup {"_", "."}, operands |-> {},
   general |-> {}, speculative |-> {}]

\* In a block comment "string" and "char" are tried where they need not end.
Comments ==
  [Texts("comments", "comment", {"a"}, {},
         Each({"a", "/", "*", "'", "dq", "bs", "nl"}), 6) EXCEPT !.speculative = {"string", "char"}]

Literals ==
  Texts("literals", "Literal", {"a", "e", "f", "u", "w", "x", "true"}, {},
        Each({"0", "1", "x", "f", "e", "u", ".", "dq", "'", "true"}) \cup {<<"bs", "x">>}, 5)

ProjectDeclarations ==
  Texts("project", "Declaration",
        {"a", "source", "target", "library", "stack"}, {" "},
        Each({"a", "source", "=", "1", ".", "]", ",", ";", "target", "library", "stack", "!"})
          \cup {<<"<", "a", ">">>, <<"[", "a">>}, 9)

Solutions ==
  Texts("solution", "Solution", {"solution", "project", "dependency", "a"}, {" "},
        Each({"a", ";", "project", "(", ",", ")", "."})
          \cup {<<"solution", " ">>, <<"<", "a", ">">>, <<"dependency", " ">>}, 8)

JsonTexts ==
  Texts("json", "JsonValue", {"a", "e", "true"}, {" "},
        Each({"{", "}", "[", "]", ",", "1"}) \cup {<<"dq", "a", "dq">>, <<":", "true">>}, 7)

ToolReports ==
  Texts("reports", "ToolError", {"a", "C"}, {" "}, Each({"a", "C", ":", "1", "/", " "}), 5)

ReplyWords ==
  {"a", "Inferior", "process", "exited", "normally", "with", "code", "Breakpoint", "Program",
   "received", "signal"}

\* Without ConsoleLine, which takes every line that is none of the others.
LineRules ==
  [Debugger!ContinueReplyRules EXCEPT !.ReplyLine.ps = SubSeq(@, 1, Len(@) - 1)]

ReplyLines ==
  Texts("replies", "ReplyLine", ReplyWords, {" "},
        {<<"[", "Inferior", " ", "1", "(", "process", " ", "1", ")">>, <<"exited", " ", "normally">>,
         <<"exited", " ", "with", " ", "code", " ", "0">>, <<" ", "]">>, <<"Breakpoint", " ", "1">>,
         <<"Program", " ", "received">>, <<" ", "signal", " ", "a">>}, 18)

Values ==
  Texts("values", "GdbValue", {"a", "x", "f", "true", "repeats", "times"}, {" "},
        Each({"1", "{", "}", ",", ".", "-"})
          \cup {<<"0", "x", "1">>, <<"<", "a", ">">>, <<"dq", "a", "dq">>, <<"'", "a", "'">>, <<"a", "=">>,
                <<"(", "a", ")">>}, 6)

Frames ==
  Texts("frames", "BackTraceReply", {"a", "t", "C"}, {},
        {<<"#", "1", " ", "a">>, <<" ", "a", "t", " ">>, <<"C", ":">>, <<":", "1">>, <<"a">>, <<"nl">>}, 11)

Inspected ==
  Texts("inspected", "InspectExpr", {"a", "this", "base"}, {" "},
        Each({"a", "this", "base", ".", "*", "@", "(", ")"}) \cup {<<"-", ">">>, <<"$", "1">>}, 4)

Commands ==
  Texts("commands", "Command",
        {"a", "b", "break", "i", "l", "set", "on", "off", "throw", "C"}, {" "},
        Each({":", "+", "*", "1"})
          \cup {<<"b", " ", "a">>, <<"l", " ">>, <<"set", " ", "break">>, <<" ", "on">>, <<" ", "off">>,
                <<" ", "throw">>}, 7)

TypeNames ==
  Texts("typenames", "GdbTypeExpr", {"a", "const", "int"}, {" "},
        Each({"a", "int", "<", ">", ",", "&", "*", "."}) \cup {<<"const", " ">>, <<"[", "1", "]">>}, 6)

(* Grammar files and the C++ of their actions: the levels of operators     *)
(* whose operators are not in the alphabet are passed over.                *)
CppOperators ==
  {"LogicalOrExpression", "LogicalAndExpression", "InclusiveOrExpression", "ExclusiveOrExpression",
   "AndExpression", "EqualityExpression", "RelationalExpression", "ShiftExpression",
   "AdditiveExpression", "MultiplicativeExpression", "PmExpression"}

Generated(start, absent, words, fragments, bound) ==
  [Texts("generator", start, words, {" "}, fragments, bound) EXCEPT !.absent = absent]

CppStatements ==
  [Generated("Statement", CppOperators, {"a"},
             Each({"a", ";", "*", "(", ")"}), 4)
   EXCEPT !.general = {7}]

GrammarExpressions ==
  Generated("Alternative", CppOperators, {"a", "token"},
            Each({"a", "|", "-", "*", "!", ")", ":"}) \cup {<<"token", "(">>, <<"'", "a", "'">>, <<" ", "a">>}, 5)

TextCases ==
  [comments |-> Comments, literals |-> Literals, project |-> ProjectDeclarations, solution |-> Solutions,
   json |-> JsonTexts, reports |-> ToolReports, replies |-> ReplyLines, values |-> Values,
   frames |-> Frames, inspected |-> Inspected, commands |-> Commands, typenames |-> TypeNames, cpp |-> CppStatements,
   grammar |-> GrammarExpressions]
(* The rules of each case; those of the library are added in MCSyntax.       *)
OtherGrammars ==
  [comments |-> <<>>, literals |-> Files!LiteralRules, project |-> Files!ProjectRules @@ Files!VersionRules,
   solution |-> Files!SolutionRules, json |-> Files!JsonRules, reports |-> Files!ToolErrorRules,
   replies |-> LineRules, values |-> Debugger!ResultRules, frames |-> Debugger!BackTraceReplyRules,
   inspected |-> Debugger!InspectExprRules, commands |-> Debugger!InterpreterRules,
   typenames |-> Debugger!TypeNameRules, generator |-> Generator!GeneratorRules]

Library == Files!StdLibRules
=============================================================================
