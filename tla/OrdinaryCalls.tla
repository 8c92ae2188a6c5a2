--------------------------- MODULE OrdinaryCalls ---------------------------
(***************************************************************************)
(* What the calls of constexpr functions mean: an ordinary call at run     *)
(* time has lexical scopes, parameters in the order of their declaration,  *)
(* operations of the common type of their operands and operators && and || *)
(* that stop early.  The properties compare the evaluator with it.         *)
(*                                                                         *)
(* An environment is the sequence of the blocks of a function, innermost   *)
(* first, each a function from names to variables; at is the scope the     *)
(* text stands in and the namespaces it uses.                              *)
(***************************************************************************)
EXTENDS Evaluator

CONSTANTS
  CallMeanings,       \* AllCallMeanings and
  ConstantMeanings    \* AllConstantMeanings, worked out once

Ok(v, env) == [kind |-> "value", v |-> v, env |-> env, exit |-> None]
Bad(kind) == [kind |-> kind, v |-> Unset, env |-> <<>>, exit |-> None]
Then(r, F(_)) == IF r.kind = "value" THEN F(r) ELSE r
Sole(results) == IF Cardinality(results) = 1 THEN CHOOSE r \in results : TRUE ELSE Bad("error")

Convert(v, type, env) == IF Converts(v, type, FALSE) THEN Ok(As(v, type), env) ELSE Bad("error")

Frames(env, x) == {i \in DOMAIN env : x \in DOMAIN env[i]}
Frame(env, x) == CHOOSE i \in Frames(env, x) : \A j \in Frames(env, x) : i <= j
Variable(env, x) == env[Frame(env, x)][x]
Set(env, x, v) == [env EXCEPT ![Frame(env, x)][x].v = v]

(* Where a text stands: in a scope of a unit, with some namespaces used,   *)
(* on behalf of the definitions of some constants.                         *)
At(unit, scope, usings, defining) ==
  [unit |-> unit, scope |-> scope, usings |-> usings, defining |-> defining]

Declares(at, s, x, kinds) ==
  LET symbols == at.unit.scopes[s].symbols IN x \in DOMAIN symbols /\ symbols[x].kind \in kinds

(* The innermost scope, or one used, that declares the name.               *)
Finds(at, x, kinds) ==
  LET found[s \in 0..Len(at.unit.scopes)] ==
        IF s = 0 THEN {t \in at.usings : Declares(at, t, x, kinds)}
        ELSE IF Declares(at, s, x, kinds) THEN {s} ELSE found[at.unit.scopes[s].parent]
  IN  found[at.scope]

(* The scopes with the constant or local variable a node stands for.       *)
Meant(node, at) ==
  LET container == node.kids[1].name
  IN  IF node.op = "id" THEN Finds(at, node.name, {"constant", "enumConstant", "local"})
      ELSE {at.unit.scopes[s].symbols[container].scope : s \in Finds(at, container, {"container"})}

(* What a list of nodes, and the rounds of a loop, come to.                *)
All(nodes) == [NoNode EXCEPT !.op = "all", !.kids = nodes]
Rounds(condition, increment, statement) ==
  [NoNode EXCEPT !.op = "rounds", !.kids = <<condition, increment, statement>>]

RECURSIVE Eval(_, _, _)

(* The call of a function, with its parameters in the first block.         *)
Return(fun, r, env) ==
  IF ~fun.constexpr THEN Bad("error")
  ELSE IF r.kind # "value" THEN r
  ELSE IF r.exit = "return" THEN Convert(r.v, fun.returnType, env) ELSE Bad("error")

Perform(fun, values, env, at) ==
  LET arguments == Converted(fun, values, <<>>)
      place(x) == CHOOSE i \in DOMAIN values : fun.params[i].name = x
      frame == [x \in {fun.params[i].name : i \in DOMAIN values} |->
                  [type |-> fun.params[place(x)].type, v |-> arguments[place(x)]]]
  IN  Return(fun, Eval(fun.body, <<frame>>, At(at.unit, 1, fun.usings, at.defining)), env)

Chosen(x, values, at) ==
  LET groups == {at.unit.scopes[s].symbols[x] : s \in Finds(at, x, {"function"})}
      chosen == UNION {ResolveOverload(at.unit.functions, group, values) : group \in groups}
  IN  {at.unit.functions[f] : f \in chosen}

Operation(node, r) ==
  LET o == EvaluateOp(node.op, r.v, None, FALSE) IN [Ok(o.v, r.env) EXCEPT !.kind = o.kind]

Constant(s, x, at) ==
  LET sym == at.unit.scopes[s].symbols[x]
      convert(r) == Convert(r.v, sym.type, <<>>)
  IN  IF sym.kind = "local" \/ <<s, x>> \in at.defining THEN Bad("error")
      ELSE Then(Eval(sym.node, <<>>, At(at.unit, s, {}, at.defining \cup {<<s, x>>})), convert)

(* Loops stop at break, and go on with the next round unless they return.  *)
AfterRound(r) == IF r.exit = "break" THEN [r EXCEPT !.exit = None] ELSE r
GoesOn(r) == r.kind = "value" /\ r.exit \in {None, "continue"}

Eval(node, env, at) ==
  LET kid(i, e) == Eval(node.kids[i], e, at)
      x == node.kids[1].name
      then(r, i) == IF r.kind = "value" THEN kid(i, r.env) ELSE r
      truth(r) == r.kind = "value" /\ r.v.t = "bool"
      inside == <<[y \in {} |-> Unset]>> \o env
      leave(r) == [r EXCEPT !.env = Tail(@)]
      rounds == CASE node.op = "while" -> Rounds(node.kids[1], NoNode, node.kids[2])
                  [] node.op = "do" -> Rounds(node.kids[2], NoNode, node.kids[1])
                  [] node.op = "for" -> Rounds(node.kids[2], node.kids[3], node.kids[4])
      loop(r) == IF GoesOn(r) THEN Eval(rounds, r.env, at) ELSE AfterRound(r)
      again(r) == IF GoesOn(r) THEN Eval(node, r.env, at) ELSE AfterRound(r)
      next(r) == IF GoesOn(r) /\ node.kids[2] # NoNode THEN kid(2, r.env) ELSE r
      rest(r) == LET more(q) == IF q.exit = None THEN [q EXCEPT !.v = <<r.v>> \o @] ELSE q
                 IN  IF r.exit # None THEN r ELSE Then(Eval(All(Tail(node.kids)), r.env, at), more)
      second(l) == IF l.v.n = (IF node.op = "disjunction" THEN 1 ELSE 0) THEN l ELSE kid(2, l.env)
      apply(r) == Operation(node, r)
      stepped == Step(Variable(env, x).v, By(node.op))
      converted(r) == IF Converts(r.v, node.type, TRUE) THEN Ok(As(r.v, node.type), r.env) ELSE Bad("error")
      target(r) == IF Dereferences(r.v) /\ r.v.n \in DOMAIN Text THEN Ok(Deref(r.v), r.env) ELSE Bad("undefined")
      call(r) == Sole({Perform(fun, r.v, r.env, at) : fun \in Chosen(x, r.v, at)})
      add(r) == [r EXCEPT !.env[1] = (node.name :> [type |-> node.type, v |-> r.v]) @@ @]
      declare(r) == IF r.v = <<>> THEN add(Ok(Default(node.type), r.env))
                    ELSE Then(Convert(r.v[1], node.type, r.env), add)
      put(r) == Ok(Unset, Set(r.env, x, r.v))
      store(r) == Then(Convert(r.v, Variable(r.env, x).type, r.env), put)
      exit(r) == [r EXCEPT !.exit = node.op]
  IN  CASE node.op = "literal" -> Ok([t |-> node.type, n |-> node.num], env)
        [] node.op = "id" /\ Frames(env, node.name) # {} -> Ok(Variable(env, node.name).v, env)
        [] node.op \in {"id", "dot"} /\ (node.op = "id" => Frames(env, node.name) = {}) ->
             LET keep(r) == Ok(r.v, env) IN Then(Sole({Constant(s, node.name, at) : s \in Meant(node, at)}), keep)
        [] node.op \in Logical -> Then(kid(1, env), second)
        [] node.op \in (Binary \cup Unary) \ Logical -> Then(Eval(All(node.kids), env, at), apply)
        [] node.op \in {"prefixInc", "prefixDec"} /\ Frames(env, x) # {} -> Ok(stepped, Set(env, x, stepped))
        [] node.op \in {"postfixInc", "postfixDec"} /\ Frames(env, x) # {} ->
             Ok(Variable(env, x).v, Set(env, x, stepped))
        [] node.op = "cast" -> Then(kid(1, env), converted)
        [] node.op = "deref" -> Then(kid(1, env), target)
        [] node.op = "invoke" -> Then(Eval(All(Tail(node.kids)), env, at), call)
        [] node.op = "all" -> IF node.kids = <<>> THEN Ok(<<>>, env) ELSE Then(kid(1, env), rest)
        [] node.op = "compound" -> Then(Eval(All(node.kids), inside, at), leave)
        [] node.op = "construction" -> Then(Eval(All(node.kids), env, at), declare)
        [] node.op = "assignment" /\ Frames(env, x) # {} -> Then(kid(2, env), store)
        [] node.op = "if" ->
             LET branch(r) == IF ~truth(r) THEN Bad("error")
                              ELSE IF r.v.n = 1 THEN kid(2, r.env)
                              ELSE IF Len(node.kids) = 3 THEN kid(3, r.env) ELSE r
             IN  Then(kid(1, env), branch)
        [] node.op = "while" -> Eval(rounds, env, at)
        [] node.op = "do" -> loop(kid(1, env))
        [] node.op = "for" -> Then(loop(kid(1, inside)), leave)
        [] node.op = "rounds" ->
             LET body(r) == IF ~truth(r) THEN Bad("error")
                            ELSE IF r.v.n = 1 THEN again(next(kid(3, r.env))) ELSE r
             IN  IF node.kids[1] = NoNode THEN again(next(kid(3, env))) ELSE Then(kid(1, env), body)
        [] node.op \in {"break", "continue"} -> exit(Ok(Unset, env))
        [] node.op = "return" /\ node.kids # <<>> -> Then(kid(1, env), exit)
        [] node.op = "simple" /\ node.kids # <<>> -> kid(1, env)
        [] OTHER -> Bad("error")

(* The value an ordinary call has.                                         *)
Meaning(u, r) ==
  LET convert(q) == Convert(q.v, u.functions[r.fun].returnType, <<>>)
  IN  Then(Eval(r.node, <<>>, At(u, r.scope, {}, {})), convert)

(***************************************************************************)
(* The calls for which the evaluator keeps to that meaning.  A program is  *)
(* plain when its functions have at most one parameter and none of them is *)
(* a template; when everything is of the one type asked for; when no       *)
(* variable has the name of something declared outside, and every name in  *)
(* a function is its own or declared outside; when no declaration contains *)
(* a call or comes after a block or a call in its own block; when no       *)
(* assignment contains a call that is not the operand of a cast; and when  *)
(* the right operand of && and || computes nothing that can fail or have   *)
(* an effect.                                                              *)
(***************************************************************************)
RECURSIVE Nodes(_)
Nodes(node) == {node} \cup UNION {Nodes(node.kids[i]) : i \in DOMAIN node.kids}

(* The nodes the evaluator of a node visits itself.                        *)
RECURSIVE OwnNodes(_)
OwnNodes(node) ==
  IF node.op = "cast" THEN {node}
  ELSE {node} \cup UNION {OwnNodes(node.kids[i]) : i \in DOMAIN node.kids}

Ops(node) == {n.op : n \in Nodes(node)}
FunctionsOf(u) == {u.functions[f] : f \in DOMAIN u.functions}
ParametersOf(fun) == {fun.params[i] : i \in DOMAIN fun.params}
SymbolsOf(u, s) == DOMAIN u.scopes[s].symbols
AllNodes(u, r) == Nodes(r.node) \cup UNION {Nodes(fun.body) : fun \in FunctionsOf(u)}

OneType(u, r) ==
  LET type == u.functions[r.fun].returnType
  IN  /\ \A fun \in FunctionsOf(u) : /\ Len(fun.params) < 2 /\ fun.typeParams = <<>>
                                    /\ fun.returnType = type
                                    /\ \A p \in ParametersOf(fun) : p.type = type
      /\ \A n \in AllNodes(u, r) : n.type \in {None, type}

OwnNames(u) ==
  LET outside == UNION {SymbolsOf(u, s) : s \in DOMAIN u.scopes}
      inside(fun) == {p.name : p \in ParametersOf(fun)}
                     \cup {n.name : n \in {m \in Nodes(fun.body) : m.op = "construction"}}
  IN  /\ \A s, t \in DOMAIN u.scopes : u.scopes[s].parent = t => SymbolsOf(u, s) \cap SymbolsOf(u, t) = {}
      /\ \A fun \in FunctionsOf(u) :
           /\ inside(fun) \cap outside = {}
           /\ \A n \in Nodes(fun.body) : n.op = "id" => n.name \in inside(fun) \cup outside

DeclarationsFirst(u, r) ==
  \A n \in AllNodes(u, r) :
    /\ n.op = "construction" => "invoke" \notin Ops(n)
    /\ n.op = "compound" =>
         \A i, j \in DOMAIN n.kids : i < j /\ n.kids[j].op = "construction"
                                     => Ops(n.kids[i]) \cap {"compound", "for", "invoke"} = {}

NoCallsAssigned(u, r) ==
  \A n \in AllNodes(u, r) :
    n.op = "assignment" => \A m \in OwnNodes(n) : m.op # "invoke"

Harmless(u, r) ==
  \A n \in AllNodes(u, r) :
    n.op \in Logical => Ops(n.kids[2]) \cap {"div", "rem", "shiftLeft", "shiftRight", "invoke", "prefixInc",
                                             "prefixDec", "postfixInc", "postfixDec", "cast"} = {}

(* The constants it names have been bound before.                          *)
ConstantsAreBound(u, i) ==
  \A n \in AllNodes(u, u.requests[i]), s \in DOMAIN u.scopes :
    n.op \in {"id", "dot"} /\ n.name \in SymbolsOf(u, s)
      /\ u.scopes[s].symbols[n.name].kind \in {"constant", "enumConstant"}
    => \E j \in 1..(i - 1) : /\ u.requests[j].kind = u.scopes[s].symbols[n.name].kind
                             /\ u.requests[j].scope = s /\ u.requests[j].name = n.name

PlainCall(u, i) ==
  LET r == u.requests[i]
  IN  /\ OneType(u, r) /\ OwnNames(u) /\ DeclarationsFirst(u, r) /\ NoCallsAssigned(u, r)
      /\ Harmless(u, r) /\ ConstantsAreBound(u, i)

NoMeaning == [result |-> Bad("error"), plain |-> FALSE]

AllCallMeanings ==
  [p \in DOMAIN Programs |->
     LET u == Programs[p]
     IN  [i \in DOMAIN u.requests |->
            IF u.requests[i].kind # "call" THEN NoMeaning
            ELSE [result |-> Meaning(u, u.requests[i]), plain |-> PlainCall(u, i)]]]

(* Of the constants whose definitions are of their own type.               *)
AllConstantMeanings ==
  [p \in DOMAIN Programs |->
     LET u == Programs[p]
         typed(sym) == \A n \in Nodes(sym.node) : n.type \in {None, sym.type} /\ n.op # "invoke"
         constants(s) == {x \in SymbolsOf(u, s) : /\ u.scopes[s].symbols[x].kind \in {"constant", "enumConstant"}
                                                  /\ typed(u.scopes[s].symbols[x])}
     IN  [s \in DOMAIN u.scopes |-> [x \in constants(s) |-> Constant(s, x, At(u, s, {}, {})).v]]]

(***************************************************************************)
(* Properties.                                                             *)
(***************************************************************************)

Means(i) ==
  LET meaning == CallMeanings[program][i].result
  IN  IF meaning.kind = "value" THEN answers[i] = Answer("value", meaning.v)
      ELSE answers[i].kind # "value"

(* The value put in place of a plain call of a constexpr function is the   *)
(* one the call has at run time, and a plain call that has a value gets    *)
(* one.                                                                    *)
PlainCallsKeepTheirMeaning ==
  LET means(i) == CallMeanings[program][i].plain => Means(i) IN Latest(means)

(* The reference manual: a constexpr function is evaluated at compile time *)
(* when its arguments are constant, with the value the call has otherwise. *)
CallsKeepTheirMeaning ==
  LET means(i) == Unit.requests[i].kind = "call" => Means(i) IN Latest(means)

(* A constant that is bound has the value its definition has where it is   *)
(* declared, also when it was bound on behalf of another constant or of an *)
(* expression, as far as its definition is of its own type.                *)
ConstantsAreTheirDefinition ==
  \A s \in DOMAIN Unit.scopes : \A x \in DOMAIN ConstantMeanings[program][s] :
    scopes[s].symbols[x].state = "bound" => scopes[s].symbols[x].v = ConstantMeanings[program][s][x]

(* Every evaluation ends, with a value or without, in programs whose loops *)
(* and recursions do.                                                      *)
EvaluationEnds == <>Done
===========================================================================
