------------------------------- MODULE Values -------------------------------
(***************************************************************************)
(* Cm.Sym/Value: the values the compiler computes with at compile time,    *)
(* and the operator tables of Cm.Bind/Evaluator.                           *)
(*                                                                         *)
(* A value has the type of its class and a number.  The integer types have *)
(* the four sizes given by Width and wrap as two's complement numbers;     *)
(* the floating point types hold multiples of 1/Scale, without rounding,   *)
(* overflow or infinities; a char* is a position in the one string         *)
(* literal Text, the null pointer is Null.                                 *)
(***************************************************************************)
EXTENDS Integers, Sequences

LOCAL INSTANCE FiniteSetsExt

CONSTANTS
  Width,        \* bits of the 8, 16, 32 and 64 bit types
  Scale,        \* units of a floating point value
  Text          \* the characters of the string literal, the ending 0 included

ASSUME ValuesAssumption ==
  /\ Width \in Seq(Nat \ {0}) /\ Len(Width) = 4
  /\ \A i \in 1..3 : Width[i] < Width[i + 1]
  /\ Scale \in Nat \ {0}
  /\ Text \in Seq(Int)

(***************************************************************************)
(* Value types, in the order of the enumeration.                           *)
(***************************************************************************)
ValueTypes == <<"bool", "char", "wchar", "uchar", "sbyte", "byte", "short", "ushort", "int",
                "uint", "long", "ulong", "float", "double", "null", "string", "charPtr">>

None == "none"

Rank(t) == IF t = None THEN 0 ELSE CHOOSE i \in DOMAIN ValueTypes : ValueTypes[i] = t

Signed == {"sbyte", "short", "int", "long"}
Unsigned == {"byte", "ushort", "uint", "ulong"}
Ints == Signed \cup Unsigned
Chars == {"char", "wchar", "uchar"}
Floats == {"float", "double"}
Numbers == Ints \cup Floats

(* A type symbol that is not of a basic type, void among them, has none.   *)
GetValueTypeFor(type) == IF type \in {"bool", "null"} \cup Chars \cup Numbers THEN type ELSE None

Bits(t) == CASE t \in {"char", "sbyte", "byte"} -> Width[1]
             [] t \in {"wchar", "short", "ushort"} -> Width[2]
             [] t \in {"uchar", "int", "uint"} -> Width[3]
             [] t \in {"long", "ulong"} -> Width[4]

Lowest(t) == IF t \in Signed \cup {"char"} THEN -(2 ^ (Bits(t) - 1)) ELSE 0

(* The number n kept in the bits of an integer type.                       *)
Wrap(t, n) == Lowest(t) + ((n - Lowest(t)) % (2 ^ Bits(t)))

Null == 0

(***************************************************************************)
(* The common type of two operands.                                        *)
(***************************************************************************)
CommonInt(s, t) ==
  LET wider == IF Rank(s) < Rank(t) THEN t ELSE s
      bits == IF Bits(s) < Bits(t) THEN Bits(t) ELSE Bits(s)
      holds(u) == /\ u \in Signed
                  /\ \A v \in {s, t} : Bits(v) < Bits(u) \/ (v \in Signed /\ Bits(v) = Bits(u))
  IN  IF {s, t} \subseteq Signed \/ {s, t} \subseteq Unsigned THEN wider
      ELSE IF \E u \in Signed : holds(u)
           THEN CHOOSE u \in Signed : holds(u) /\ \A v \in Signed : holds(v) => Bits(u) <= Bits(v)
           ELSE None

CommonType(s, t) ==
  LET both == {s, t}
      wider == IF Rank(s) < Rank(t) THEN t ELSE s
  IN  CASE both \subseteq Chars -> wider
        [] both \subseteq Ints -> CommonInt(s, t)
        [] both \subseteq Numbers /\ ~(both \subseteq Ints) -> wider
        [] s = t /\ s \in {"bool", "null", "string"} -> s
        [] both \subseteq {"null", "charPtr"} /\ "charPtr" \in both -> "charPtr"
        [] OTHER -> None

(***************************************************************************)
(* The value classes: the types a value converts to by itself, those it    *)
(* needs a cast for, and whether ++ and -- work on it.                     *)
(***************************************************************************)
Class(free, cast, steps) == [free |-> free, cast |-> cast, steps |-> steps]

Plain == {"bool"} \cup Chars \cup Numbers

BoolValue == Class({"bool"}, Numbers, FALSE)
CharValue == Class(Chars, Plain \ Chars, FALSE)
WCharValue == Class({"wchar", "uchar"}, Plain \ {"wchar", "uchar"}, FALSE)
UCharValue == Class({"uchar"}, Plain \ {"uchar"}, FALSE)
SByteValue == Class(Signed \cup Floats, Plain \ (Signed \cup Floats), TRUE)
ByteValue == Class((Ints \ {"sbyte"}) \cup Floats, {"bool", "sbyte"} \cup Chars, TRUE)
ShortValue == LET free == {"short", "int", "long"} \cup Floats IN Class(free, Plain \ free, TRUE)
UShortValue ==
  LET free == (Ints \ {"sbyte", "byte", "short"}) \cup Floats IN Class(free, Plain \ free, TRUE)
IntValue == LET free == {"int", "long"} \cup Floats IN Class(free, Plain \ free, TRUE)
UIntValue == LET free == {"uint", "long", "ulong"} \cup Floats IN Class(free, Plain \ free, TRUE)
LongValue == LET free == {"long"} \cup Floats IN Class(free, Plain \ free, TRUE)
ULongValue == LET free == {"ulong"} \cup Floats IN Class(free, Plain \ free, TRUE)
FloatValue == Class(Floats, Plain \ Floats, FALSE)
DoubleValue == Class({"double"}, Plain \ {"double"}, FALSE)
NullValue == Class({"charPtr"}, {}, FALSE)
StringValue == Class({}, {}, FALSE)
CharPtrValue == Class({"charPtr"}, {}, TRUE)

ClassOf ==
  [bool |-> BoolValue, char |-> CharValue, wchar |-> WCharValue, uchar |-> UCharValue,
   sbyte |-> SByteValue, byte |-> ByteValue, short |-> ShortValue, ushort |-> UShortValue,
   int |-> IntValue, uint |-> UIntValue, long |-> LongValue, ulong |-> ULongValue,
   float |-> FloatValue, double |-> DoubleValue, null |-> NullValue, string |-> StringValue,
   charPtr |-> CharPtrValue]

Default(t) == [t |-> t, n |-> 0]

(* The number a value of type s has as one of type t.                      *)
Number(s, t, n) ==
  CASE t = "bool" -> IF n = 0 THEN 0 ELSE 1
    [] t \in Floats -> IF s \in Floats THEN n ELSE n * Scale
    [] t \in Ints \cup Chars ->
         IF s \in Floats THEN Wrap(t, IF n < 0 THEN -((-n) \div Scale) ELSE n \div Scale)
                         ELSE Wrap(t, n)
    [] OTHER -> n

(***************************************************************************)
(* As.  An int that is cast to ulong becomes a value of the class for      *)
(* uint.                                                                   *)
(***************************************************************************)
Converts(v, t, cast) == t \in ClassOf[v.t].free \/ (cast /\ t \in ClassOf[v.t].cast)

As(v, t) == LET made == IF v.t = "int" /\ t = "ulong" THEN "uint" ELSE t
            IN  [t |-> made, n |-> Number(v.t, made, v.n)]

Steps(v) == ClassOf[v.t].steps

(* ++ and --; a pointer that leaves the literal is undefined.              *)
Step(v, by) == [v EXCEPT !.n = IF v.t = "charPtr" THEN @ + by ELSE Wrap(v.t, @ + by)]

(* Deref: only a char* that is not null, and only inside the literal.      *)
Dereferences(v) == v.t = "charPtr" /\ v.n # Null
Deref(v) == [t |-> "char", n |-> Text[v.n]]

(***************************************************************************)
(* The operator tables.                                                    *)
(***************************************************************************)
Arithmetic == {"add", "sub", "mul", "div"}
Bitwise == {"rem", "shiftLeft", "shiftRight", "bitAnd", "bitOr", "bitXor"}
Logical == {"disjunction", "conjunction"}
Comparisons == {"equal", "notEqual", "less", "greater", "lessOrEqual", "greaterOrEqual"}
Binary == Arithmetic \cup Bitwise \cup Logical \cup Comparisons
Unary == {"not", "unaryPlus", "negate", "complement"}

Supports(op, t) ==
  CASE op \in Arithmetic \cup {"unaryPlus", "negate"} -> t \in Numbers
    [] op \in Bitwise \cup {"complement"} -> t \in Ints
    [] op \in Logical \cup {"not"} -> t = "bool"
    [] op \in Comparisons -> t \in Plain \cup {"charPtr"}

(* The table of the operator ! ends before char*.                          *)
Reaches(op, t) == ~(op = "not" /\ t = "charPtr")

Quotient(a, b) ==
  LET size(x) == IF x < 0 THEN -x ELSE x
      q == size(a) \div size(b)
  IN  IF (a < 0) = (b < 0) THEN q ELSE -q

(* What the build computes without fail.  The smaller types divide and     *)
(* shift as int.                                                           *)
Defined(op, t, a, b) ==
  LET atInt == IF Bits(t) < Bits("int") THEN Bits("int") ELSE Bits(t)
  IN  CASE op \in {"div", "rem"} /\ t \in Ints ->
             b # 0 /\ ~(a = Lowest(t) /\ b = -1 /\ t \in {"int", "long"})
        [] op = "div" /\ t \in Floats -> b # 0
        [] op \in {"shiftLeft", "shiftRight"} -> b \in 0..(atInt - 1)
        [] OTHER -> TRUE

(* The bits of the pattern of n that are set, and the number with these.   *)
Pattern(t, n) == {i \in 0..(Bits(t) - 1) : (n \div 2 ^ i) % 2 = 1}
WithBits(is) == MapThenSumSet(LAMBDA i : 2 ^ i, is)

Compare(op, a, b) ==
  LET holds == CASE op = "equal" -> a = b
                 [] op = "notEqual" -> a # b
                 [] op = "less" -> a < b
                 [] op = "greater" -> a > b
                 [] op = "lessOrEqual" -> a <= b
                 [] op = "greaterOrEqual" -> a >= b
  IN  IF holds THEN 1 ELSE 0

Compute(op, t, a, b) ==
  CASE op = "add" -> a + b
    [] op = "sub" -> a - b
    [] op = "mul" -> IF t \in Floats THEN Quotient(a * b, Scale) ELSE a * b
    [] op = "div" -> IF t \in Floats THEN Quotient(a * Scale, b) ELSE Quotient(a, b)
    [] op = "rem" -> a - b * Quotient(a, b)
    [] op = "shiftLeft" -> a * 2 ^ b
    [] op = "shiftRight" -> a \div 2 ^ b
    [] op = "bitAnd" -> WithBits(Pattern(t, a) \cap Pattern(t, b))
    [] op = "bitOr" -> WithBits(Pattern(t, a) \cup Pattern(t, b))
    [] op = "bitXor" -> WithBits((Pattern(t, a) \cup Pattern(t, b)) \ (Pattern(t, a) \cap Pattern(t, b)))
    [] op = "disjunction" -> IF a = 1 \/ b = 1 THEN 1 ELSE 0
    [] op = "conjunction" -> a * b
    [] op = "not" -> 1 - a
    [] op = "unaryPlus" -> a
    [] op = "negate" -> -a
    [] op = "complement" -> -a - 1

Apply(op, t, a, b) ==
  IF op \in Comparisons THEN [t |-> "bool", n |-> Compare(op, a, b)]
  ELSE [t |-> t, n |-> IF t \in Ints THEN Wrap(t, Compute(op, t, a, b)) ELSE Compute(op, t, a, b)]

(***************************************************************************)
(* EvaluateUnaryOp and EvaluateBinOp: the type of the operation is that of *)
(* the operands or, when that comes later in the enumeration, the type     *)
(* asked for.  The outcome is a value, "error" or "undefined".             *)
(***************************************************************************)
Later(s, t) == IF Rank(s) < Rank(t) THEN t ELSE s

Failed == [kind |-> "error", v |-> Default("null")]
Garbage == [kind |-> "undefined", v |-> Default("null")]
Gives(v) == [kind |-> "value", v |-> v]

(* An operation takes its operands for members of the class of its type.   *)
Operate(op, t, operands) ==
  LET a == operands[1].n
      b == operands[Len(operands)].n
  IN  CASE ~Reaches(op, t) -> Garbage
        [] Reaches(op, t) /\ ~Supports(op, t) -> Failed
        [] OTHER -> IF /\ \A i \in DOMAIN operands : operands[i].t = t
                       /\ Defined(op, t, a, b)
                    THEN Gives(Apply(op, t, a, b)) ELSE Garbage

EvaluateOp(op, operands, target, cast) ==
  LET own == IF Len(operands) = 1 THEN operands[1].t ELSE CommonType(operands[1].t, operands[2].t)
      type == Later(own, target)
  IN  IF \E i \in DOMAIN operands : ~Converts(operands[i], type, cast) THEN Failed
      ELSE Operate(op, type, [i \in DOMAIN operands |-> As(operands[i], type)])
===========================================================================
