------------------------------- MODULE Grammar -------------------------------
(***************************************************************************)
(* The parser combinators of Cm.Parsing as data: a rule is a term of the   *)
(* operators below, a grammar a record of rules.  The grammar modules give *)
(* the trees that the CreateRules functions of the generated parsers build.*)
(*                                                                         *)
(* A text is a sequence of symbols.  In the grammars of programs a symbol  *)
(* is a word (an identifier, a keyword, a literal) or one punctuation      *)
(* character, and two words that follow each other are separated by a      *)
(* space that is not written; in the grammars of literals, replies and     *)
(* reports it is one character (a fixed word of letters is still one).     *)
(***************************************************************************)
EXTENDS Sequences

Ch(c)      == [k |-> "char", c |-> c]
Str(s)     == [k |-> "string", s |-> s]
Key(w)     == [k |-> "keyword", c |-> w]
AnyKey(S)  == [k |-> "keywords", s |-> S]
OneOf(S)   == [k |-> "set", s |-> S]
NoneOf(S)  == [k |-> "otherThan", s |-> S]
Word       == [k |-> "word"]
Empty      == [k |-> "empty"]
Cat(ps)    == [k |-> "sequence", ps |-> ps]
Alt(ps)    == [k |-> "alternative", ps |-> ps]
Opt(p)     == [k |-> "optional", p |-> p]
Star(p)    == [k |-> "kleene", p |-> p]
Plus(p)    == [k |-> "positive", p |-> p]
Must(p)    == [k |-> "expectation", p |-> p]
Diff(p, q) == [k |-> "difference", p |-> p, q |-> q]
Token(p)   == [k |-> "token", p |-> p]
R(name)    == [k |-> "nonterminal", r |-> name]
List(p, q) == Cat(<<p, Star(Cat(<<q, p>>))>>)

(***************************************************************************)
(* An action parser: ok is what its action does to the parsing context     *)
(* when the parser hits, no what its failure action does when it misses;   *)
(* make is what becomes of the value: a node is added after it, it becomes *)
(* one operator, or nobody uses it.                                        *)
(***************************************************************************)
Action(p, ok, no, make) == [k |-> "action", p |-> p, ok |-> ok, no |-> no, make |-> make]
Do(ok, p)         == Action(p, ok, <<>>, <<"keep">>)
DoElse(ok, p, no) == Action(p, ok, no, <<"keep">>)
Node(name, p)     == Action(p, <<>>, <<>>, <<"node", name>>)
Op(name, ok, p)   == Action(p, ok, <<>>, <<"op", name>>)
Unused(p)         == Action(p, <<>>, <<>>, <<"unused">>)

Push(flag, value) == [do |-> "push", flag |-> flag, value |-> value]
Pop(flag)         == [do |-> "pop", flag |-> flag]
Pass(condition)   == [do |-> "pass", flag |-> condition]
=============================================================================
