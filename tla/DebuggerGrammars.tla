-------------------------- MODULE DebuggerGrammars --------------------------
(*****************************************************************************)
(* The grammars of Cm.Debugger: what gdb answers, the values it prints, the  *)
(* types it names, the commands of the user and the expressions inspected.   *)
(*****************************************************************************)
EXTENDS StdLib

(* BackTraceReplyGrammar *)
BackTraceReply == Star(List(R("CallFrame"), R("newline")))
CallFrame ==
  Cat(<<Ch("#"), R("int"), Star(Diff(AnyChar, Str(<<" ", "a", "t", " ">>))),
        Str(<<" ", "a", "t", " ">>), Star(Ch(" ")), R("FrameFileLine"),
        Star(Diff(AnyChar, R("newline")))>>)
FrameFileLine == Cat(<<R("FrameFilePath"), Ch(":"), R("FrameLine")>>)
FrameFilePath == Cat(<<Opt(R("FrameDrive")), Plus(Diff(AnyChar, Ch(":")))>>)
FrameDrive == Cat(<<Letter, Ch(":")>>)
FrameLine == R("int")

BackTraceReplyRules ==
  [BackTraceReply |-> BackTraceReply, CallFrame |-> CallFrame, FrameFileLine |-> FrameFileLine,
   FrameFilePath |-> FrameFilePath, FrameDrive |-> FrameDrive, FrameLine |-> FrameLine]

(* FrameReplyGrammar *)
CurrentFrame ==
  Alt(<<Cat(<<Star(Token(Diff(AnyChar, Str(<<"?", "?">>)))), Str(<<"?", "?">>), Token(Star(AnyChar))>>),
        Cat(<<Ch("#"), R("int"), Token(Star(AnyChar))>>)>>)

FrameReplyRules ==
  [CurrentFrame |-> CurrentFrame]

(* ContinueReplyGrammar *)
ReplyLine ==
  Alt(<<R("ContinuingLine"), R("InferiorExit"), R("Breakpoint"), R("Signal"), R("Prompt"),
        R("ConsoleLine")>>)
ContinuingLine == Str(<<"C", "o", "n", "t", "i", "n", "u", "i", "n", "g", ".">>)
InferiorExit ==
  Cat(<<Ch("["), Key("Inferior"), R("int"), Ch("("), Key("process"), R("int"), Ch(")"), Key("exited"),
        Alt(<<Key("normally"), Cat(<<Key("with"), Key("code"), R("octal")>>)>>), Ch("]")>>)
octal == Plus(R("octaldigit"))
octaldigit == OneOf(OctalDigits)
Breakpoint == Cat(<<Key("Breakpoint"), R("int"), Token(Star(AnyChar))>>)
Signal == Cat(<<Key("Program"), Key("received"), Key("signal"), R("identifier"), Token(Star(AnyChar))>>)
Prompt == Str(<<"(", "g", "d", "b", ")", " ">>)
ConsoleLine == Token(Star(AnyChar))

ContinueReplyRules ==
  [ReplyLine |-> ReplyLine, ContinuingLine |-> ContinuingLine, InferiorExit |-> InferiorExit,
   octal |-> octal, octaldigit |-> octaldigit, Breakpoint |-> Breakpoint, Signal |-> Signal,
   Prompt |-> Prompt, ConsoleLine |-> ConsoleLine]

(* InspectExprGrammar *)
InspectExpr == R("ContentExpr")
ContentExpr ==
  Alt(<<Cat(<<Ch("@"), Node("Content", R("PrefixExpr"))>>), Node("Single", R("PrefixExpr"))>>)
PrefixExpr == Alt(<<Cat(<<Ch("*"), Node("Deref", R("PrefixExpr"))>>), R("PostfixExpr")>>)
PostfixExpr ==
  Cat(<<R("PrimaryExpr"),
        Star(Alt(<<Cat(<<Ch("."), Node("Dot", R("MemberId"))>>),
                   Cat(<<Str(<<"-", ">">>), Node("Arrow", R("MemberId"))>>)>>))>>)
MemberId == Alt(<<R("identifier"), Key("base")>>)
PrimaryExpr ==
  Alt(<<Node("Local", Key("this")), Node("Local", R("identifier")),
        Node("Handle", Token(Cat(<<Ch("$"), R("int")>>))),
        Node("Parentheses", Cat(<<Ch("("), R("PrefixExpr"), Ch(")")>>))>>)

InspectExprRules ==
  [InspectExpr |-> InspectExpr, ContentExpr |-> ContentExpr, PrefixExpr |-> PrefixExpr,
   PostfixExpr |-> PostfixExpr, MemberId |-> MemberId, PrimaryExpr |-> PrimaryExpr]

(* InterpreterGrammar *)
Command ==
  Alt(<<Node("StartCommand", Key("start")), Node("QuitCommand", Alt(<<Key("quit"), Key("q")>>)),
        Node("HelpCommand", Alt(<<Key("help"), Key("h")>>)),
        Node("ContinueCommand", Alt(<<Key("continue"), Key("c")>>)),
        Node("NextCommand", Alt(<<Key("next"), Key("n")>>)),
        Node("StepCommand", Alt(<<Key("step"), Key("s")>>)),
        Node("OutCommand", Alt(<<Key("out"), Key("o")>>)),
        Node("BreakCommand", Cat(<<Alt(<<Key("break"), Key("b")>>), R("SourceFileLine")>>)),
        Node("ClearCommand", Cat(<<Alt(<<Key("clear"), Key("cl")>>), R("int")>>)),
        Node("InspectCommand", Cat(<<Alt(<<Key("inspect"), Key("i")>>), R("InspectText")>>)),
        Cat(<<Alt(<<Key("list"), Key("l")>>),
              Alt(<<Node("ListCommand", R("SourceFileLine")), Node("ListCommand", Ch("*")),
                    Node("ListCommand", Alt(<<Ch("+"), Empty>>))>>)>>),
        Node("CallStackCommand", Alt(<<Key("callstack"), Key("ca")>>)),
        Node("FrameCommand", Cat(<<Alt(<<Key("frame"), Key("f")>>), R("int")>>)),
        Node("ShowBreakpointsCommand", Cat(<<Key("show"), Key("breakpoints")>>)),
        Cat(<<Key("set"), Key("break"), Key("on"), Key("throw"),
              Alt(<<Node("SetBreakOnThrowCommand", Key("on")),
                    Node("SetBreakOnThrowCommand", Key("off"))>>)>>), Empty>>)
SourceFileLine == Token(Cat(<<Opt(Cat(<<R("CommandFilePath"), Ch(":")>>)), R("int")>>))
CommandFilePath == Token(Cat(<<Opt(R("CommandDrive")), Plus(Diff(AnyChar, Ch(":")))>>))
CommandDrive == Cat(<<Letter, Ch(":")>>)
InspectText == Token(Plus(AnyChar))

InterpreterRules ==
  [Command |-> Command, SourceFileLine |-> SourceFileLine, CommandFilePath |-> CommandFilePath,
   CommandDrive |-> CommandDrive, InspectText |-> InspectText]

(* ResultGrammar *)
Result == Cat(<<Node("Result", Token(Cat(<<Ch("$"), R("int")>>))), Ch("="), R("GdbValue")>>)
GdbValue ==
  Alt(<<R("RepeatedValue"), R("StringValue"), R("AddressValue"), R("CharValue"), R("BoolValue"),
        R("FloatingValue"), R("IntegerValue"), R("ArrayValue"), R("StructureValue")>>)
PrimitiveValue ==
  Alt(<<R("StringValue"), R("AddressValue"), R("CharValue"), R("BoolValue"), R("FloatingValue"),
        R("IntegerValue")>>)
OctalChar == Cat(<<Ch("bs"), R("OctalDigit"), R("OctalDigit"), R("OctalDigit")>>)
GdbString ==
  Cat(<<Token(Cat(<<Ch("dq"), Star(Alt(<<R("OctalChar"), R("escape"), Diff(AnyChar, Ch("dq"))>>)),
                    Ch("dq")>>)), Opt(Cat(<<Ch(","), R("RepeatedValue")>>))>>)
StringValue ==
  Alt(<<Cat(<<R("hex_literal"), Opt(Token(Cat(<<Ch("<"), Plus(NoneOf({">"})), Ch(">")>>))),
              Node("StringValue", R("GdbString")), Opt(Str(<<".", ".", ".">>))>>),
        Cat(<<Node("StringValue", R("GdbString")), Opt(Str(<<".", ".", ".">>))>>)>>)
ParenthesizedExpr ==
  Cat(<<Ch("("), Star(Diff(AnyChar, OneOf({"(", ")"}))), Opt(R("ParenthesizedExpr")), Ch(")")>>)
AddressValue ==
  Cat(<<Opt(R("ParenthesizedExpr")), Node("AddressValue", R("hex_literal")),
        Opt(Token(Cat(<<Ch("<"), Plus(NoneOf({">"})), Ch(">")>>)))>>)
OctalDigit == OneOf(OctalDigits)
OctalEscape ==
  Token(Cat(<<Str(<<"'", "bs">>), R("OctalDigit"), R("OctalDigit"), R("OctalDigit"), Str(<<"'">>)>>))
CharValue ==
  Alt(<<Node("CharValue", R("OctalEscape")),
        Cat(<<R("int"), Alt(<<Node("CharValue", R("OctalEscape")), Node("CharValue", R("char"))>>)>>)>>)
BoolValue == Node("BoolValue", R("bool"))
FloatingValue == Node("FloatingValue", R("real"))
IntegerValue == Alt(<<Node("IntegerValue", R("ulong")), R("long")>>)
ArrayValue == Cat(<<Node("ArrayValue", Ch("{")), Opt(List(R("ArrayItem"), Ch(","))), Ch("}")>>)
ArrayItem == R("GdbValue")
RepeatedValue == Node("ArrayValue", Cat(<<R("PrimitiveValue"), R("Repeat")>>))
Repeat == Cat(<<Ch("<"), Ch("repeats"), R("int"), Ch("times"), Ch(">")>>)
Field == Node("Field", Cat(<<R("identifier"), Ch("="), R("GdbValue")>>))
StructureValue == Cat(<<Node("StructureValue", Ch("{")), List(R("Field"), Ch(",")), Ch("}")>>)

ResultRules ==
  [Result |-> Result, GdbValue |-> GdbValue, PrimitiveValue |-> PrimitiveValue, OctalChar |-> OctalChar,
   GdbString |-> GdbString, StringValue |-> StringValue, ParenthesizedExpr |-> ParenthesizedExpr,
   AddressValue |-> AddressValue, OctalDigit |-> OctalDigit, OctalEscape |-> OctalEscape,
   CharValue |-> CharValue, BoolValue |-> BoolValue, FloatingValue |-> FloatingValue,
   IntegerValue |-> IntegerValue, ArrayValue |-> ArrayValue, ArrayItem |-> ArrayItem,
   RepeatedValue |-> RepeatedValue, Repeat |-> Repeat, Field |-> Field,
   StructureValue |-> StructureValue]

(* TypeExprGrammar *)
GdbTypeExpr ==
  Cat(<<Opt(Key("const")),
        Alt(<<R("GdbBasicType"), Cat(<<Node("TypeExpr", R("TypeName")), Opt(R("TypeArguments"))>>)>>),
        Star(Alt(<<Str(<<"&", "&">>), Str(<<"&">>), Str(<<"*">>),
                   Cat(<<Ch("["), R("int"), Ch("]")>>)>>))>>)
TypeArguments == Cat(<<Ch("<"), List(R("GdbTypeExpr"), Ch(",")), Ch(">")>>)
GdbBasicType ==
  Node("TypeExpr",
       KeywordList({"bool", "byte", "char", "int", "long", "sbyte", "short", "uint", "ulong", "ushort",
                    "void"}))
TypeName == R("qualified_id")

TypeNameRules ==
  [GdbTypeExpr |-> GdbTypeExpr, TypeArguments |-> TypeArguments, GdbBasicType |-> GdbBasicType,
   TypeName |-> TypeName]
=============================================================================
