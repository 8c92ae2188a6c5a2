---------------------------- MODULE TextGrammars ----------------------------
(*****************************************************************************)
(* The grammars of Cm.Parser for literals, JSON texts, reports of tools,     *)
(* version numbers, project files and solution files.                        *)
(*****************************************************************************)
EXTENDS StdLib

(* LiteralGrammar *)
Literal ==
  Alt(<<R("BooleanLiteral"), R("FloatingLiteral"), R("IntegerLiteral"), R("CharLiteral"),
        R("StringLiteral"), R("NullLiteral")>>)
BooleanLiteral == Node("BooleanLiteral", R("bool"))
IntegerLiteral ==
  Alt(<<Token(Cat(<<R("hex_literal"), Alt(<<Ch("u"), Ch("U"), Empty>>)>>)),
        Token(Cat(<<R("ulong"), Alt(<<Ch("u"), Ch("U"), Empty>>)>>))>>)
FloatingLiteral == Token(Cat(<<R("ureal"), Alt(<<Ch("f"), Ch("F"), Empty>>)>>))
CharLiteral == Node("CharLiteral", R("char"))
StringLiteral ==
  Alt(<<Node("StringLiteral", R("string")),
        Node("StringLiteral",
             Cat(<<Ch("@"), Token(Cat(<<Ch("dq"), Star(NoneOf({"dq"})), Ch("dq")>>))>>)),
        Cat(<<Ch("w"), Node("WStringLiteral", R("string"))>>),
        Cat(<<Ch("u"), Node("UStringLiteral", R("string"))>>)>>)
NullLiteral == Node("NullLiteral", Key("null"))

LiteralRules ==
  [Literal |-> Literal, BooleanLiteral |-> BooleanLiteral, IntegerLiteral |-> IntegerLiteral,
   FloatingLiteral |-> FloatingLiteral, CharLiteral |-> CharLiteral, StringLiteral |-> StringLiteral,
   NullLiteral |-> NullLiteral]

(* JsonGrammar *)
JsonValue ==
  Alt(<<R("JsonString"), R("JsonNumber"), R("JsonObject"), R("JsonArray"),
        Node("JsonBool", Key("true")), Node("JsonBool", Key("false")), Node("JsonNull", Key("null"))>>)
JsonObject ==
  Cat(<<Node("JsonObject", Ch("{")),
        Opt(List(Cat(<<R("JsonString"), Ch(":"), R("JsonValue")>>), Ch(","))), Ch("}")>>)
JsonArray == Cat(<<Node("JsonArray", Ch("[")), Opt(List(R("JsonValue"), Ch(","))), Ch("]")>>)
JsonString ==
  Token(Cat(<<Node("JsonString", Ch("dq")), Star(Alt(<<NoneOf({"dq", "bs"}), R("escape")>>)),
              Ch("dq")>>))
JsonNumber == Node("JsonNumber", R("number"))

JsonRules ==
  [JsonValue |-> JsonValue, JsonObject |-> JsonObject, JsonArray |-> JsonArray,
   JsonString |-> JsonString, JsonNumber |-> JsonNumber]

(* ToolErrorGrammar *)
ToolError ==
  Cat(<<R("ToolName"), Ch(":"), R("FilePath"), Ch(":"), R("Line"), Ch(":"), R("Column"), Ch(":"),
        R("Message")>>)
ToolName == Token(Plus(Diff(AnyChar, Ch(":"))))
FilePath == Token(Cat(<<Opt(R("Drive")), Plus(Diff(AnyChar, Ch(":")))>>))
Drive == Token(Cat(<<Letter, Ch(":")>>))
Line == R("int")
Column == R("int")
Message == Token(Star(AnyChar))

ToolErrorRules ==
  [ToolError |-> ToolError, ToolName |-> ToolName, FilePath |-> FilePath, Drive |-> Drive,
   Line |-> Line, Column |-> Column, Message |-> Message]

(* VersionNumberParser *)
LlvmVersion ==
  Cat(<<Ch("LLVM"), Star(Diff(AnyChar, R("newline"))), R("newline"),
        Str(<<" ", " ", "L", "L", "V", "M", " ", "v", "e", "r", "s", "i", "o", "n", " ">>), R("Major"),
        Ch("."), R("Minor"), Opt(Cat(<<Ch("."), R("Revision"), Opt(Cat(<<Ch("."), R("Build")>>))>>)),
        Star(Diff(AnyChar, R("newline"))), R("newline"), Star(AnyChar)>>)
VersionNumber ==
  Cat(<<R("Major"), Ch("."), R("Minor"),
        Opt(Cat(<<Ch("."), R("Revision"), Opt(Cat(<<Ch("."), R("Build")>>))>>))>>)
Major == R("int")
Minor == R("int")
Revision == R("int")
Build == R("int")

VersionRules ==
  [LlvmVersion |-> LlvmVersion, VersionNumber |-> VersionNumber, Major |-> Major, Minor |-> Minor,
   Revision |-> Revision, Build |-> Build]

(* ProjectGrammar *)
Project ==
  Cat(<<Node("Project", Cat(<<Key("project"), R("qualified_id"), Must(Ch(";"))>>)), R("Declarations")>>)
Declarations == Star(R("Declaration"))
Declaration ==
  Alt(<<R("SourceFileDeclaration"), R("AsmSourceFileDeclaration"), R("CSourceFileDeclaration"),
        R("CppSourceFileDeclaration"), R("TextFileDeclaration"), R("ReferenceFileDeclaration"),
        R("CLibraryDeclaration"), R("TargetDeclaration"), R("StackSizeDeclaration"),
        R("AssemblyFileDeclaration"), R("ExecutableFileDeclaration"), R("AddLibraryPathDeclaration")>>)
SourceFileDeclaration ==
  Node("SourceFileDeclaration",
       Cat(<<Key("source"), Must(R("ProjectFilePath")), Opt(R("Properties")), Must(Ch(";"))>>))
AsmSourceFileDeclaration ==
  Node("SourceFileDeclaration",
       Cat(<<Key("asmsource"), Must(R("ProjectFilePath")), Opt(R("Properties")), Must(Ch(";"))>>))
CSourceFileDeclaration ==
  Node("SourceFileDeclaration",
       Cat(<<Key("csource"), Must(R("ProjectFilePath")), Opt(R("Properties")), Must(Ch(";"))>>))
CppSourceFileDeclaration ==
  Node("SourceFileDeclaration",
       Cat(<<Key("cppsource"), Must(R("ProjectFilePath")), Opt(R("Properties")), Must(Ch(";"))>>))
TextFileDeclaration ==
  Node("SourceFileDeclaration",
       Cat(<<Key("text"), Must(R("ProjectFilePath")), Opt(R("Properties")), Must(Ch(";"))>>))
ReferenceFileDeclaration ==
  Node("ReferenceFileDeclaration",
       Cat(<<Key("reference"), Must(R("ProjectFilePath")), Opt(R("Properties")), Must(Ch(";"))>>))
AssemblyFileDeclaration ==
  Node("AssemblyFileDeclaration",
       Cat(<<Key("assembly"), Must(R("ProjectFilePath")), Opt(R("Properties")), Must(Ch(";"))>>))
ExecutableFileDeclaration ==
  Node("ExecutableFileDeclaration",
       Cat(<<Key("executable"), Must(R("ProjectFilePath")), Must(Ch(";"))>>))
AddLibraryPathDeclaration ==
  Node("AddLibraryPathDeclaration",
       Cat(<<Key("addlibrarypath"), Must(R("ProjectFilePath")), Opt(R("Properties")), Must(Ch(";"))>>))
CLibraryDeclaration ==
  Node("CLibraryDeclaration",
       Cat(<<Key("clib"), Must(R("ProjectFilePath")), Opt(R("Properties")), Must(Ch(";"))>>))
TargetDeclaration ==
  Cat(<<Key("target"), Must(Ch("=")),
        Must(Alt(<<Node("TargetDeclaration", Key("program")),
                   Node("TargetDeclaration", Key("library"))>>)), Must(Ch(";"))>>)
StackSizeDeclaration ==
  Node("StackSizeDeclaration",
       Cat(<<Key("stack"), Must(Ch("=")), Must(R("ulong")), Opt(Cat(<<Ch(","), R("ulong")>>)),
             Must(Ch(";"))>>))
Properties ==
  Cat(<<Ch("["), List(Cat(<<R("identifier"), R("RelOp"), R("PropertyValue")>>), Ch(",")),
        Must(Ch("]"))>>)
RelOp == Alt(<<Ch("="), Str(<<"!", "=">>), Str(<<"<", "=">>), Str(<<">", "=">>), Ch("<"), Ch(">")>>)
PropertyValue == Alt(<<R("VersionNumber"), R("identifier"), R("long")>>)
ProjectFilePath == Token(Cat(<<Ch("<"), Plus(NoneOf({">"})), Must(Ch(">"))>>))

ProjectRules ==
  [Project |-> Project, Declarations |-> Declarations, Declaration |-> Declaration,
   SourceFileDeclaration |-> SourceFileDeclaration,
   AsmSourceFileDeclaration |-> AsmSourceFileDeclaration,
   CSourceFileDeclaration |-> CSourceFileDeclaration,
   CppSourceFileDeclaration |-> CppSourceFileDeclaration, TextFileDeclaration |-> TextFileDeclaration,
   ReferenceFileDeclaration |-> ReferenceFileDeclaration,
   AssemblyFileDeclaration |-> AssemblyFileDeclaration,
   ExecutableFileDeclaration |-> ExecutableFileDeclaration,
   AddLibraryPathDeclaration |-> AddLibraryPathDeclaration, CLibraryDeclaration |-> CLibraryDeclaration,
   TargetDeclaration |-> TargetDeclaration, StackSizeDeclaration |-> StackSizeDeclaration,
   Properties |-> Properties, RelOp |-> RelOp, PropertyValue |-> PropertyValue,
   ProjectFilePath |-> ProjectFilePath]

(* SolutionGrammar *)
Solution ==
  Cat(<<Node("Solution", Cat(<<Key("solution"), Must(R("qualified_id")), Must(Ch(";"))>>)),
        R("SolutionDeclarations")>>)
SolutionDeclarations == Star(R("SolutionDeclaration"))
SolutionDeclaration ==
  Alt(<<R("ProjectFileDeclaration"), R("ActiveProjectDeclaration"), R("ProjectDependencyDeclaration")>>)
ProjectFileDeclaration ==
  Node("ProjectFileDeclaration", Cat(<<Key("project"), Must(R("SolutionFilePath")), Must(Ch(";"))>>))
ActiveProjectDeclaration ==
  Node("ActiveProjectDeclaration",
       Cat(<<Key("activeProject"), Must(R("qualified_id")), Must(Ch(";"))>>))
ProjectDependencyDeclaration ==
  Cat(<<Key("dependency"), Node("ProjectDependencyDeclaration", Must(R("qualified_id"))), Must(Ch("(")),
        Opt(List(R("qualified_id"), Ch(","))), Must(Ch(")")), Must(Ch(";"))>>)
SolutionFilePath == Token(Cat(<<Ch("<"), Plus(NoneOf({">"})), Must(Ch(">"))>>))

SolutionRules ==
  [Solution |-> Solution, SolutionDeclarations |-> SolutionDeclarations,
   SolutionDeclaration |-> SolutionDeclaration, ProjectFileDeclaration |-> ProjectFileDeclaration,
   ActiveProjectDeclaration |-> ActiveProjectDeclaration,
   ProjectDependencyDeclaration |-> ProjectDependencyDeclaration, SolutionFilePath |-> SolutionFilePath]
=============================================================================
