------------------------------- MODULE StdLib -------------------------------
(*****************************************************************************)
(* The standard library of the parsers (Cm.Parsing/StdLib.cpp).  The symbols *)
(* of these texts are characters; a fixed word is one symbol, and counts as  *)
(* letters where the rules ask for a letter.                                 *)
(*****************************************************************************)
EXTENDS Grammar, TLC

Spaces      == {" ", "nl", "cr"}
OctalDigits == {"0", "1", "2", "3", "4", "5", "6", "7"}
Digits      == OctalDigits \cup {"8", "9"}
HexLetters  == {"a", "b", "c", "d", "e", "f", "A", "B", "C", "D", "E", "F"}

Space    == OneOf(Spaces)
Letter   == Word
Digit    == OneOf(Digits)
HexDigit == OneOf(Digits \cup HexLetters)
AnyChar  == NoneOf({})

(* A word of the list that the selecting rule, identifier, derives as a whole. *)
KeywordList(S) == Diff(OneOf(S), Cat(<<OneOf(S), Alt(<<Letter, Digit, Ch("_")>>)>>))

(* stdlib *)
spaces == Plus(Space)
newline == Alt(<<Str(<<"cr", "nl">>), Str(<<"nl">>), Str(<<"cr">>)>>)
comment == Alt(<<R("line_comment"), R("block_comment")>>)
line_comment == Cat(<<Str(<<"/", "/">>), Star(NoneOf({"cr", "nl"})), R("newline")>>)
block_comment ==
  Cat(<<Str(<<"/", "*">>), Star(Alt(<<R("string"), R("char"), Diff(AnyChar, Str(<<"*", "/">>))>>)),
        Str(<<"*", "/">>)>>)
spaces_and_comments == Plus(Alt(<<Space, R("comment")>>))
digit_sequence == Token(Plus(Digit))
sign == Alt(<<Ch("+"), Ch("-")>>)
int == Token(Cat(<<Opt(R("sign")), R("digit_sequence")>>))
uint == R("digit_sequence")
long == Token(Cat(<<Opt(R("sign")), R("digit_sequence")>>))
ulong == R("digit_sequence")
hex == Token(Plus(HexDigit))
hex_literal == Token(Cat(<<Alt(<<Str(<<"0", "x">>), Str(<<"0", "X">>)>>), Must(R("hex"))>>))
real == Token(Cat(<<Opt(R("sign")), Alt(<<R("fractional_real"), R("exponent_real")>>)>>))
ureal == Alt(<<R("fractional_real"), R("exponent_real")>>)
fractional_real ==
  Alt(<<Token(Cat(<<Opt(R("digit_sequence")), Ch("."), R("digit_sequence"), Opt(R("exponent_part"))>>)),
        Token(Cat(<<R("digit_sequence"), Ch(".")>>))>>)
exponent_real == Token(Cat(<<R("digit_sequence"), R("exponent_part")>>))
exponent_part == Token(Cat(<<OneOf({"e", "E"}), Opt(R("sign")), R("digit_sequence")>>))
number == Alt(<<R("real"), R("int")>>)
bool == Alt(<<Key("true"), Key("false")>>)
identifier == Token(Cat(<<Alt(<<Letter, Ch("_")>>), Star(Alt(<<Letter, Digit, Ch("_")>>))>>))
qualified_id == Token(Cat(<<R("identifier"), Star(Cat(<<Ch("."), R("identifier")>>))>>))
escape ==
  Token(Cat(<<Ch("bs"),
              Alt(<<Cat(<<OneOf({"x", "X"}), R("hex")>>), Cat(<<OneOf({"d", "D"}), R("uint")>>),
                    NoneOf({"d", "D", "x", "X"})>>)>>))
char == Token(Cat(<<Ch("'"), Alt(<<NoneOf({"bs", "cr", "nl"}), R("escape")>>), Must(Ch("'"))>>))
string ==
  Token(Cat(<<Ch("dq"), Star(Alt(<<Plus(NoneOf({"dq", "bs", "cr", "nl"})), R("escape")>>)),
              Must(Ch("dq"))>>))

StdLibRules ==
  [spaces |-> spaces, newline |-> newline, comment |-> comment, line_comment |-> line_comment,
   block_comment |-> block_comment, spaces_and_comments |-> spaces_and_comments,
   digit_sequence |-> digit_sequence, sign |-> sign, int |-> int, uint |-> uint, long |-> long,
   ulong |-> ulong, hex |-> hex, hex_literal |-> hex_literal, real |-> real, ureal |-> ureal,
   fractional_real |-> fractional_real, exponent_real |-> exponent_real,
   exponent_part |-> exponent_part, number |-> number, bool |-> bool, identifier |-> identifier,
   qualified_id |-> qualified_id, escape |-> escape, char |-> char, string |-> string]
=============================================================================
