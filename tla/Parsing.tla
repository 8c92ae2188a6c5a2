------------------------------- MODULE Parsing -------------------------------
(***************************************************************************)
(* What the parsers of Cm.Parsing do with a grammar and a text.            *)
(*                                                                         *)
(* g is [rules, text, pure, words, spaces, glue]: words are the symbols    *)
(* that the rule identifier of the standard library derives, spaces those  *)
(* that the skip rule of the grammar derives, glue those that continue a   *)
(* keyword.  s is the scanner and the ParsingContext of the grammar        *)
(* actions: the position, the token counter, the stacks of flags, and      *)
(* whether the end of the text was looked at (so that a longer text could  *)
(* give something else).                                                   *)
(*                                                                         *)
(* With pure the same grammar is read as a parsing expression grammar: an  *)
(* expectation only misses, and a parser that goes back restores the flags *)
(* as well as the position.                                                *)
(***************************************************************************)
EXTENDS Grammar, Naturals, FiniteSets

Flags == {"typeExpr", "concept", "templateId", "simpleStatement", "lvalue", "arguments", "isOrAs",
          "completion"}

Context == [f \in Flags |-> <<FALSE>>]

Is(ctx, flag) == ctx[flag][1]

(* The conditions under which the actions of the grammars let a parser pass. *)
Holds(condition, ctx) ==
  LET inSimple == Is(ctx, "simpleStatement") /\ ~Is(ctx, "arguments")
  IN CASE condition = "operator" -> ~(Is(ctx, "lvalue") \/ inSimple)
       [] condition = "prefix" -> ~inSimple
       [] condition = "shift" -> ~Is(ctx, "lvalue")
       [] condition = "axiom" -> Is(ctx, "concept") /\ ~Is(ctx, "templateId")
       [] condition \in {"isOrAs", "completion"} -> Is(ctx, condition)

RECURSIVE Perform(_, _)
Perform(acts, done) ==
  IF acts = <<>> \/ ~done.pass THEN done
  ELSE LET act == Head(acts)
           after ==
             CASE act.do = "push" -> [done EXCEPT !.ctx[act.flag] = <<act.value>> \o @]
               [] act.do = "pop"  -> [done EXCEPT !.ctx[act.flag] = Tail(@)]
               [] act.do = "pass" -> [done EXCEPT !.pass = Holds(act.flag, done.ctx)]
       IN Perform(Tail(acts), after)

Made(make, val) ==
  CASE make[1] = "keep"   -> val
    [] make[1] = "node"   -> Append(val, make[2])
    [] make[1] = "op"     -> <<make[2]>>
    [] make[1] = "unused" -> <<>>

Hit(s, val)  == [out |-> "hit", s |-> s, val |-> val]
Miss(s)      == [out |-> "miss", s |-> s]
Throw(s, by) == [out |-> "throw", s |-> s, by |-> by]

AtEnd(g, s) == s.pos > Len(g.text)

RECURSIVE Skip(_, _)
Skip(g, s) ==
  IF s.token = 0 /\ ~AtEnd(g, s) /\ g.text[s.pos] \in g.spaces
    THEN Skip(g, [s EXCEPT !.pos = @ + 1])
    ELSE s

One(g, s, fits, keep) ==
  IF AtEnd(g, s) THEN Miss([s EXCEPT !.end = TRUE])
  ELSE IF fits THEN Hit([s EXCEPT !.pos = @ + 1], IF keep THEN <<g.text[s.pos]>> ELSE <<>>)
  ELSE Miss(s)
Ahead(g, s) == IF AtEnd(g, s) THEN "" ELSE g.text[s.pos]

RECURSIVE ParseString(_, _, _)
ParseString(g, str, s) ==
  LET m == One(g, s, Ahead(g, s) = Head(str), FALSE)
  IN IF m.out = "hit" /\ Len(str) > 1 THEN ParseString(g, Tail(str), m.s) ELSE m

ParseKeyword(g, S, keep, s) ==
  LET m == One(g, s, Ahead(g, s) \in S, keep)
  IN IF m.out # "hit" THEN m
     ELSE IF AtEnd(g, m.s) THEN [m EXCEPT !.s.end = TRUE]
     ELSE IF Ahead(g, m.s) \in g.glue THEN Miss(m.s) ELSE m

Back(g, from, to) ==
  [from EXCEPT !.pos = to.pos, !.ctx = IF g.pure THEN to.ctx ELSE @]

RECURSIVE Parse(_, _, _), ParseSequence(_, _, _, _), ParseAlternative(_, _, _, _),
          ParseKleene(_, _, _, _)

ParseSequence(g, ps, s, val) ==
  LET m == Parse(g, Head(ps), s)
  IN IF m.out # "hit" THEN m
     ELSE IF Len(ps) = 1 THEN Hit(m.s, val \o m.val)
     ELSE ParseSequence(g, Tail(ps), Skip(g, m.s), val \o m.val)

ParseAlternative(g, ps, start, s) ==
  LET m == Parse(g, Head(ps), Back(g, s, start))
  IN IF m.out # "miss" \/ Len(ps) = 1 THEN m ELSE ParseAlternative(g, Tail(ps), start, m.s)

ParseKleene(g, p, m, first) ==
  LET next == Parse(g, p, IF first THEN m.s ELSE Skip(g, m.s))
  IN CASE next.out = "hit"   -> ParseKleene(g, p, Hit(next.s, m.val \o next.val), FALSE)
       [] next.out = "miss"  -> Hit(Back(g, next.s, m.s), m.val)
       [] next.out = "throw" -> next

ParsePositive(g, p, s) ==
  LET m == Parse(g, p, s) IN IF m.out = "hit" THEN ParseKleene(g, p, m, FALSE) ELSE m

ParseOptional(g, p, s) ==
  LET m == Parse(g, p, s) IN IF m.out = "miss" THEN Hit(Back(g, m.s, s), <<>>) ELSE m

(* The rule that contains the expectation is filled in by ParseNonterminal. *)
ParseExpectation(g, p, s) ==
  LET m == Parse(g, p, s) IN IF m.out = "miss" /\ ~g.pure THEN Throw(m.s, "") ELSE m

ParseDifference(g, p, q, s) ==
  LET m == Parse(g, p, s)
      n == Parse(g, q, Back(g, m.s, s))
  IN IF m.out # "hit" THEN m
     ELSE IF n.out = "throw" THEN n
     ELSE IF n.out = "hit" /\ n.s.pos >= m.s.pos THEN Miss(n.s)
     ELSE Hit(Back(g, n.s, m.s), m.val)

ParseToken(g, p, s) ==
  LET m == Parse(g, p, [s EXCEPT !.token = @ + 1]) IN [m EXCEPT !.s.token = s.token]

ParseAction(g, a, s) ==
  LET m     == Parse(g, a.p, s)
      acts  == IF m.out = "hit" THEN a.ok ELSE a.no
      done  == Perform(acts, [pass |-> TRUE, ctx |-> m.s.ctx])
      after == [m.s EXCEPT !.ctx = done.ctx]
  IN IF m.out = "throw" THEN m
     ELSE IF m.out = "hit" /\ done.pass THEN Hit(after, Made(a.make, m.val))
     ELSE Miss(after)

ParseNonterminal(g, r, s) ==
  LET m == Parse(g, g.rules[r], s)
  IN IF m.out = "throw" /\ m.by = "" THEN Throw(m.s, r) ELSE m

Parse(g, p, s) ==
  CASE p.k = "nonterminal" -> ParseNonterminal(g, p.r, s)
    [] p.k = "sequence"    -> ParseSequence(g, p.ps, s, <<>>)
    [] p.k = "alternative" -> ParseAlternative(g, p.ps, s, s)
    [] p.k = "action"      -> ParseAction(g, p, s)
    [] p.k = "kleene"      -> ParseKleene(g, p.p, Hit(s, <<>>), TRUE)
    [] p.k = "positive"    -> ParsePositive(g, p.p, s)
    [] p.k = "optional"    -> ParseOptional(g, p.p, s)
    [] p.k = "expectation" -> ParseExpectation(g, p.p, s)
    [] p.k = "difference"  -> ParseDifference(g, p.p, p.q, s)
    [] p.k = "token"       -> ParseToken(g, p.p, s)
    [] p.k = "string"      -> ParseString(g, p.s, s)
    [] p.k = "keyword"     -> ParseKeyword(g, {p.c}, FALSE, s)
    [] p.k = "keywords"    -> ParseKeyword(g, p.s, TRUE, s)
    [] p.k = "char"        -> One(g, s, Ahead(g, s) = p.c, FALSE)
    [] p.k = "set"         -> One(g, s, Ahead(g, s) \in p.s, TRUE)
    [] p.k = "otherThan"   -> One(g, s, Ahead(g, s) \notin p.s, TRUE)
    [] p.k = "word"        -> One(g, s, Ahead(g, s) \in g.words, TRUE)
    [] p.k = "empty"       -> Hit(s, <<>>)

(* Grammar::Parse: the start rule between optional skips. *)
ParseFrom(g, p) ==
  LET start == [pos |-> 1, token |-> 0, ctx |-> Context, end |-> FALSE]
      m     == Parse(g, p, Skip(g, start))
  IN IF m.out = "hit" THEN [m EXCEPT !.s = Skip(g, m.s)] ELSE m

(* The generated Parse of a grammar throws unless the whole text was matched. *)
Whole(text, m) == m.out = "hit" /\ m.s.pos > Len(text)
=============================================================================
