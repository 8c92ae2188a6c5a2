-------------------------- MODULE ParserFileGrammar --------------------------
(*****************************************************************************)
(* Grammar files, library files and project files of the parser generator    *)
(* (Cm.Parsing.Syntax).  Rules named like a combinator have Rule appended.   *)
(*****************************************************************************)
EXTENDS CppGrammar


(* PrimitiveGrammar *)
Primitive ==
  Alt(<<R("Char"), R("String"), R("CharSet"), R("KeywordRule"), R("KeywordListRule"), R("EmptyRule"),
        R("SpaceRule"), R("AnyCharRule"), R("LetterRule"), R("DigitRule"), R("HexDigitRule"),
        R("Punctuation")>>)
Char == Node("CharParser", R("char"))
String == Node("StringParser", R("string"))
CharSet ==
  Node("CharSetParser", Token(Cat(<<Ch("["), Opt(Ch("^")), Star(R("CharSetRange")), Must(Ch("]"))>>)))
CharSetRange == Cat(<<R("CharSetChar"), Alt(<<Cat(<<Ch("-"), R("CharSetChar")>>), Empty>>)>>)
CharSetChar == Alt(<<NoneOf({"bs", "]"}), R("escape")>>)
KeywordRule == Cat(<<Key("keyword"), Must(Ch("(")), Must(R("KeywordBody")), Must(Ch(")"))>>)
KeywordBody ==
  Cat(<<R("string"),
        Alt(<<Cat(<<Ch(","), Node("KeywordParser", Must(R("ElementQualifiedId")))>>),
              Node("KeywordParser", Empty)>>)>>)
KeywordListRule ==
  Cat(<<Key("keyword_list"), Must(Ch("(")), Must(R("KeywordListBody")), Must(Ch(")"))>>)
KeywordListBody ==
  Cat(<<Must(R("ElementQualifiedId")), Must(Ch(",")),
        Node("KeywordListParser", Must(R("StringArray")))>>)
EmptyRule == Node("EmptyParser", Key("empty"))
SpaceRule == Node("SpaceParser", Key("space"))
AnyCharRule == Node("AnyCharParser", Key("anychar"))
LetterRule == Node("LetterParser", Key("letter"))
DigitRule == Node("DigitParser", Key("digit"))
HexDigitRule == Node("HexDigitParser", Key("hexdigit"))
Punctuation == Node("PunctuationParser", Key("punctuation"))

PrimitiveRules ==
  [Primitive |-> Primitive, Char |-> Char, String |-> String, CharSet |-> CharSet,
   CharSetRange |-> CharSetRange, CharSetChar |-> CharSetChar, KeywordRule |-> KeywordRule,
   KeywordBody |-> KeywordBody, KeywordListRule |-> KeywordListRule,
   KeywordListBody |-> KeywordListBody, EmptyRule |-> EmptyRule, SpaceRule |-> SpaceRule,
   AnyCharRule |-> AnyCharRule, LetterRule |-> LetterRule, DigitRule |-> DigitRule,
   HexDigitRule |-> HexDigitRule, Punctuation |-> Punctuation]

(* PrimaryGrammar *)
Primary ==
  Cat(<<Alt(<<R("RuleCall"), R("Primitive"), R("Grouping"), R("TokenRule")>>), Opt(R("Expectation")),
        Opt(R("ActionRule")), Opt(R("CCOpt"))>>)
RuleCall ==
  Node("NonterminalParser",
       Cat(<<Alt(<<Cat(<<Token(Cat(<<R("Nonterminal"), Ch("(")>>)), R("ExpressionList"), Ch(")")>>),
                   R("Nonterminal")>>), Opt(R("Alias"))>>))
Nonterminal == R("ElementIdentifier")
Alias == Cat(<<Ch(":"), Must(R("ElementIdentifier"))>>)
Grouping == Cat(<<Ch("("), Must(R("Alternative")), Must(Ch(")"))>>)
TokenRule ==
  Cat(<<Key("token"), Must(Ch("(")), Must(R("Alternative")), Node("TokenParser", Must(Ch(")")))>>)
Expectation == Node("ExpectationParser", Ch("!"))
ActionRule ==
  Node("ActionParser", Cat(<<R("CompoundStatement"), Opt(Cat(<<Ch("/"), R("CompoundStatement")>>))>>))
CCOpt == Node("CCOptParser", Ch("$"))

PrimaryRules ==
  [Primary |-> Primary, RuleCall |-> RuleCall, Nonterminal |-> Nonterminal, Alias |-> Alias,
   Grouping |-> Grouping, TokenRule |-> TokenRule, Expectation |-> Expectation,
   ActionRule |-> ActionRule, CCOpt |-> CCOpt]

(* CompositeGrammar *)
Alternative ==
  Cat(<<R("Sequence"), Star(Cat(<<Ch("|"), Node("AlternativeParser", Must(R("Sequence")))>>))>>)
Sequence == Cat(<<R("Difference"), Star(Node("SequenceParser", R("Difference")))>>)
Difference ==
  Cat(<<R("ExclusiveOr"), Star(Cat(<<Ch("-"), Node("DifferenceParser", Must(R("ExclusiveOr")))>>))>>)
ExclusiveOr ==
  Cat(<<R("Intersection"), Star(Cat(<<Ch("^"), Node("ExclusiveOrParser", Must(R("Intersection")))>>))>>)
Intersection ==
  Cat(<<R("ListRule"), Star(Cat(<<Ch("&"), Node("IntersectionParser", R("ListRule"))>>))>>)
ListRule == Cat(<<R("Postfix"), Opt(Cat(<<Ch("%"), Node("ListParser", R("Postfix"))>>))>>)
Postfix ==
  Cat(<<R("Primary"),
        Opt(Alt(<<Node("KleeneStarParser", Ch("*")), Node("PositiveParser", Ch("+")),
                  Node("OptionalParser", Ch("?"))>>))>>)

CompositeRules ==
  [Alternative |-> Alternative, Sequence |-> Sequence, Difference |-> Difference,
   ExclusiveOr |-> ExclusiveOr, Intersection |-> Intersection, ListRule |-> ListRule,
   Postfix |-> Postfix]

(* ElementGrammar *)
RuleLink ==
  Alt(<<Node("RuleLink", Cat(<<Key("using"), R("identifier"), Ch("="), R("qualified_id"), Ch(";")>>)),
        Node("RuleLink", Cat(<<Key("using"), R("qualified_id"), Ch(";")>>))>>)
Signature == Cat(<<Opt(R("ParameterList")), Opt(R("ReturnType"))>>)
ParameterList == Cat(<<Ch("("), List(Alt(<<R("Variable"), R("Parameter")>>), Ch(",")), Must(Ch(")"))>>)
Variable == Cat(<<Key("var"), R("TypeId"), R("Declarator")>>)
Parameter == Cat(<<R("TypeId"), R("Declarator")>>)
ReturnType == Cat(<<Diff(Ch(":"), Str(<<":", ":">>)), R("TypeId")>>)
ElementKeyword ==
  KeywordList({"anychar", "cc", "digit", "empty", "end", "grammar", "hexdigit", "keyword",
               "keyword_list", "letter", "punctuation", "skip", "space", "start", "token", "using",
               "var"})
ElementIdentifier == Diff(R("identifier"), R("ElementKeyword"))
ElementQualifiedId ==
  Token(Cat(<<R("ElementIdentifier"), Star(Cat(<<Ch("."), R("ElementIdentifier")>>))>>))
StringArray == Cat(<<Ch("["), List(R("string"), Ch(",")), Must(Ch("]"))>>)

ElementRules ==
  [RuleLink |-> RuleLink, Signature |-> Signature, ParameterList |-> ParameterList,
   Variable |-> Variable, Parameter |-> Parameter, ReturnType |-> ReturnType,
   ElementKeyword |-> ElementKeyword, ElementIdentifier |-> ElementIdentifier,
   ElementQualifiedId |-> ElementQualifiedId, StringArray |-> StringArray]

(* RuleGrammar *)
Rule == Cat(<<R("RuleHeader"), Str(<<":", ":", "=">>), R("RuleBody")>>)
RuleHeader == Cat(<<Node("Rule", R("ElementIdentifier")), R("Signature")>>)
RuleBody == Cat(<<Must(R("Alternative")), Must(Ch(";"))>>)

RuleRules ==
  [Rule |-> Rule, RuleHeader |-> RuleHeader, RuleBody |-> RuleBody]

(* GrammarGrammar *)
Grammar ==
  Cat(<<Key("grammar"), Node("Grammar", Must(R("ElementIdentifier"))), Must(Ch("{")),
        R("GrammarContent"), Must(Ch("}"))>>)
GrammarContent ==
  Star(Alt(<<R("StartClause"), R("SkipClause"), R("CCClause"), R("RuleLink"), R("Rule")>>))
StartClause == Cat(<<Key("start"), Must(R("ElementIdentifier")), Ch(";")>>)
SkipClause == Cat(<<Key("skip"), Must(R("ElementQualifiedId")), Ch(";")>>)
CCClause ==
  Cat(<<Key("cc"), Must(R("ElementIdentifier")), Must(Ch("(")), Must(Key("start")), Must(Ch("=")),
        Must(R("char")), Must(Ch(",")), Must(Key("end")), Must(Ch("=")), Must(R("char")),
        Alt(<<Cat(<<Ch(","), Key("skip")>>), Empty>>), Must(Ch(")")), Must(Ch(";"))>>)

GrammarRules ==
  [Grammar |-> Grammar, GrammarContent |-> GrammarContent, StartClause |-> StartClause,
   SkipClause |-> SkipClause, CCClause |-> CCClause]

(* ParserFileGrammar *)
ParserFile ==
  Cat(<<Node("ParserFileContent", Empty), Opt(R("IncludeDirectives")), R("NamespaceContent")>>)
IncludeDirectives == Plus(R("IncludeDirective"))
IncludeDirective ==
  Cat(<<Opt(R("FileAttribute")), Ch("#"), Key("include"),
        Token(Cat(<<R("IncludeFileName"), Star(NoneOf({"cr", "nl"})), R("newline")>>))>>)
FileAttribute == Cat(<<Ch("["), Alt(<<Ch("cpp"), Ch("hpp")>>), Ch("]")>>)
IncludeFileName == Token(Cat(<<Ch("<"), Plus(NoneOf({">", "cr", "nl"})), Ch(">")>>))
NamespaceContent ==
  Star(Alt(<<Cat(<<Opt(R("FileAttribute")),
                   Alt(<<R("UsingDeclaration"), R("UsingDirective"),
                         R("NamespaceAliasDefinition")>>)>>), R("Grammar"), R("Namespace")>>))
Namespace ==
  Cat(<<Key("namespace"), Must(R("qualified_id")), Must(Ch("{")), R("NamespaceContent"),
        Must(Ch("}"))>>)

ParserFileRules ==
  [ParserFile |-> ParserFile, IncludeDirectives |-> IncludeDirectives,
   IncludeDirective |-> IncludeDirective, FileAttribute |-> FileAttribute,
   IncludeFileName |-> IncludeFileName, NamespaceContent |-> NamespaceContent, Namespace |-> Namespace]

(* LibraryFileGrammar *)
LibraryFile == R("LibraryNamespaceContent")
LibraryNamespaceContent == Star(Alt(<<R("LibraryGrammar"), R("LibraryNamespace")>>))
LibraryNamespace ==
  Cat(<<Key("namespace"), Must(R("qualified_id")), Must(Ch("{")), R("LibraryNamespaceContent"),
        Must(Ch("}"))>>)
LibraryGrammar ==
  Cat(<<Key("grammar"), Node("Grammar", Must(R("ElementIdentifier"))), Must(Ch("{")),
        R("LibraryGrammarContent"), Must(Ch("}"))>>)
LibraryGrammarContent == Star(R("LibraryRule"))
LibraryRule == Cat(<<Node("Rule", R("ElementIdentifier")), R("Signature"), Ch(";")>>)

LibraryFileRules ==
  [LibraryFile |-> LibraryFile, LibraryNamespaceContent |-> LibraryNamespaceContent,
   LibraryNamespace |-> LibraryNamespace, LibraryGrammar |-> LibraryGrammar,
   LibraryGrammarContent |-> LibraryGrammarContent, LibraryRule |-> LibraryRule]

(* ProjectFileGrammar *)
ProjectFile ==
  Cat(<<Key("project"), Node("Project", R("qualified_id")), Ch(";"), R("ProjectFileContent")>>)
ProjectFileContent == Star(Alt(<<R("Source"), R("Reference")>>))
Source == Cat(<<Key("source"), R("FilePath"), Ch(";")>>)
Reference == Cat(<<Key("reference"), R("FilePath"), Ch(";")>>)
FilePath == Token(Cat(<<Ch("<"), Plus(NoneOf({">", "cr", "nl"})), Ch(">")>>))

ProjectFileRules ==
  [ProjectFile |-> ProjectFile, ProjectFileContent |-> ProjectFileContent, Source |-> Source,
   Reference |-> Reference, FilePath |-> FilePath]

GeneratorRules ==
  ProjectFileRules @@ LibraryFileRules @@ ParserFileRules @@ GrammarRules @@ RuleRules @@
  ElementRules @@ CompositeRules @@ PrimaryRules @@ PrimitiveRules @@ CppRules
=============================================================================
