------------------------------- MODULE Syntax -------------------------------
(***************************************************************************)
(* Texts and what the parsers make of them.  A case is a grammar, a start  *)
(* rule and an alphabet; a text grows fragment by fragment, and after each *)
(* one the generated parser reads the whole of it.  A text is extended     *)
(* only while the parser has looked at its end: whatever follows would     *)
(* give the same result.                                                   *)
(***************************************************************************)
EXTENDS Parsing

(* Grammars[c] are the rules of the case c, Cases[c] is                      *)
(*   [start, words, spaces, glue] (see Parsing) with                         *)
(*   fragments    what a text is made of, bound its greatest length,         *)
(*   general      the alternatives of the start rule that are meant to take  *)
(*                what another one takes as well,                            *)
(*   speculative  the rules whose expectations are known to be entered where *)
(*                the parser should still be able to go back,                *)
(*   operands     the words that stand for names and literals.               *)
CONSTANTS Grammars, Cases

VARIABLES
  case,     \* the name of the case whose texts are read in this behaviour
  text,
  parse,    \* what the parser answers for the text
  pure,     \* what the same grammar says as a parsing expression grammar
  alone     \* what each alternative of the start rule would answer

vars == <<case, text, parse, pure, alone>>

Reader(k, rules, t, asPure) ==
  [text |-> t, pure |-> asPure, rules |-> rules, words |-> k.words, spaces |-> k.spaces, glue |-> k.glue]

Read(k, rules, t, asPure) == ParseFrom(Reader(k, rules, t, asPure), R(k.start))

Alternatives(rule) == IF rule.k = "alternative" THEN rule.ps ELSE <<>>

ReadAlone(k, rules, t) ==
  LET ps == Alternatives(rules[k.start])
  IN [i \in DOMAIN ps |-> ParseFrom(Reader(k, rules, t, FALSE), ps[i])]

Answers(k, rules, t) ==
  [parse |-> Read(k, rules, t, FALSE), pure |-> Read(k, rules, t, TRUE), alone |-> ReadAlone(k, rules, t)]

Init ==
  /\ case \in DOMAIN Cases
  /\ text = <<>>
  /\ \E answers \in {Answers(Cases[case], Grammars[case], text)} :
       /\ parse = answers.parse
       /\ pure = answers.pure
       /\ alone = answers.alone

Type(fragment) ==
  /\ Len(text) + Len(fragment) <= Cases[case].bound
  /\ text' = text \o fragment
  /\ \E answers \in {Answers(Cases[case], Grammars[case], text')} :
       /\ parse' = answers.parse
       /\ pure' = answers.pure
       /\ alone' = answers.alone
  /\ UNCHANGED case

EndSeen == TRUE \in {parse.s.end, pure.s.end} \cup {alone[i].s.end : i \in DOMAIN alone}

Next == \E fragment \in IF EndSeen THEN Cases[case].fragments ELSE {} : Type(fragment)

Spec == Init /\ [][Next]_vars

Accepted == Whole(text, parse)
Derived  == Whole(text, pure)

-----------------------------------------------------------------------------
(* What can be seen of a grammar without a text. *)

RECURSIVE Nullable(_, _), First(_, _), Loops(_, _)

(* p can match the empty text, if the rules nulls can. *)
Nullable(nulls, p) ==
  CASE p.k \in {"empty", "optional", "kleene"} -> TRUE
    [] p.k = "sequence"    -> \A i \in DOMAIN p.ps : Nullable(nulls, p.ps[i])
    [] p.k = "alternative" -> \E i \in DOMAIN p.ps : Nullable(nulls, p.ps[i])
    [] p.k = "nonterminal" -> p.r \in nulls
    [] p.k \in {"positive", "expectation", "token", "action", "difference"} -> Nullable(nulls, p.p)
    [] OTHER -> FALSE

(* The rules that p can enter before it has passed over a symbol. *)
First(nulls, p) ==
  CASE p.k = "nonterminal" -> {p.r}
    [] p.k = "alternative" -> UNION {First(nulls, p.ps[i]) : i \in DOMAIN p.ps}
    [] p.k = "sequence" ->
         UNION {First(nulls, p.ps[i]) :
                  i \in {j \in DOMAIN p.ps : \A h \in 1 .. j - 1 : Nullable(nulls, p.ps[h])}}
    [] p.k = "difference"  -> First(nulls, p.p) \cup First(nulls, p.q)
    [] p.k \in {"optional", "kleene", "positive", "expectation", "token", "action"} -> First(nulls, p.p)
    [] OTHER -> {}

(* p repeats something that can match the empty text. *)
Loops(nulls, p) ==
  CASE p.k \in {"kleene", "positive"} -> Nullable(nulls, p.p) \/ Loops(nulls, p.p)
    [] p.k \in {"sequence", "alternative"} -> \E i \in DOMAIN p.ps : Loops(nulls, p.ps[i])
    [] p.k = "difference" -> Loops(nulls, p.p) \/ Loops(nulls, p.q)
    [] p.k \in {"optional", "expectation", "token", "action"} -> Loops(nulls, p.p)
    [] OTHER -> FALSE

RECURSIVE NullRules(_, _), Recursive(_, _, _)
NullRules(rules, nulls) ==
  LET more == {r \in DOMAIN rules : Nullable(nulls, rules[r])}
  IN IF more = nulls THEN nulls ELSE NullRules(rules, more)

(* The rules of rest from which a rule can be entered again and again. *)
Recursive(rules, nulls, rest) ==
  LET left == {r \in rest : First(nulls, rules[r]) \cap rest # {}}
  IN IF left = rest THEN rest ELSE Recursive(rules, nulls, left)

Endless(rules) ==
  LET nulls == NullRules(rules, {})
  IN Recursive(rules, nulls, DOMAIN rules) \cup {r \in DOMAIN rules : Loops(nulls, rules[r])}

-----------------------------------------------------------------------------
TypeOK ==
  /\ case \in DOMAIN Cases
  /\ Len(text) <= Cases[case].bound
  /\ parse.out \in {"hit", "miss", "throw"} /\ pure.out \in {"hit", "miss"}
  /\ \A answer \in {parse, pure} :
       /\ answer.s.pos \in 1 .. Len(text) + 1
       /\ answer.out # "throw" => answer.s.token = 0

(* No rule is entered again at the place where it was entered, and nothing *)
(* that matches the empty text is repeated: Grammar::Parse returns for     *)
(* every text, and does not overflow the stack on a short one.             *)
ParsingEnds == text = <<>> => Endless(Grammars[case]) = {}

(* An expectation ("!") only reports an error early.  It never rejects a   *)
(* text that the grammar derives when the parser may go back, and what the *)
(* actions leave in the ParsingContext changes no result.                  *)
ExpectationsOnlyReport ==
  /\ Accepted <=> Derived
  /\ Accepted => parse.val = pure.val

(* The same for every expectation but those known not to be so.            *)
OtherExpectationsOnlyReport ==
  (parse.out = "throw" => parse.by \notin Cases[case].speculative) => ExpectationsOnlyReport

(* The alternatives of the start rule exclude each other: a text that the  *)
(* rule accepts is accepted by one of them, so that their order does not   *)
(* decide what it means, and none is hidden by an earlier one that matches *)
(* the beginning of its texts.                                             *)
OneReading ==
  LET readings == {i \in DOMAIN alone : Whole(text, alone[i])}
  IN alone # <<>> => /\ Accepted <=> readings # {}
                     /\ Cardinality(readings \ Cases[case].general) <= 1

(* Whatever was tried and given up, the flags of the ParsingContext are    *)
(* after the start rule what they were before it.                          *)
ContextRestored == parse.out # "throw" => parse.s.ctx = Context
=============================================================================
