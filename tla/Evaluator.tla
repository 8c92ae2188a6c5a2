----------------------------- MODULE Evaluator -----------------------------
(***************************************************************************)
(* Cm.Bind: evaluation at compile time, of constants, enumeration          *)
(* constants, case labels and array bounds, of the predicates of           *)
(* constraints and of calls of constexpr functions.                        *)
(*                                                                         *)
(* The evaluator is a visitor of the syntax tree.  Its call stack is the   *)
(* "todo" of an evaluator, what is still to be visited or done, first      *)
(* first; an item keeps the fields its visit has saved.  A cast and a      *)
(* constant without a value start an evaluator of their own.               *)
(*                                                                         *)
(* "Interrupted" and an exception come to the same in an evaluator that    *)
(* does not throw, and only such an evaluator is interrupted: both are     *)
(* Fail.  Undefined behaviour ends the compiler here, with the answer      *)
(* "undefined".                                                            *)
(*                                                                         *)
(* Overload resolution is taken for: the function of the group that has    *)
(* as many parameters and type parameters as there are arguments, of their *)
(* types, or else one they convert to.                                     *)
(***************************************************************************)
EXTENDS Values, FiniteSets, TLC

CONSTANT Programs   \* a sequence of compile units: scopes, functions and requests

(* A scope is opened inside an earlier one, and whatever is asked for is   *)
(* asked for in a scope.                                                   *)
ASSUME ProgramsAssumption ==
  \A p \in DOMAIN Programs :
    LET u == Programs[p]
    IN  /\ u.scopes \in Seq({u.scopes[s] : s \in DOMAIN u.scopes})
        /\ \A s \in DOMAIN u.scopes :
             u.scopes[s] \in [parent : 0..(s - 1), alive : BOOLEAN, symbols : {u.scopes[s].symbols}]
        /\ u.requests \in Seq({u.requests[i] : i \in DOMAIN u.requests})
        /\ \A i \in DOMAIN u.requests : u.requests[i].scope \in DOMAIN u.scopes

VARIABLES
  program,    \* the compile unit, a position in Programs
  scopes,     \* those of the unit, then those of the evaluators
  returns,    \* the return type of each function, None if not yet known
  evs,        \* the evaluators, the innermost last
  answers     \* to the requests so far

vars == <<program, scopes, returns, evs, answers>>

Unit == Programs[program]
Function(f) == Unit.functions[f]

Unset == [t |-> None, n |-> 0]
NoNode == [op |-> None, name |-> None, type |-> None, num |-> 0, kids |-> <<>>]

(* A symbol: scope is that of a container, functions those of a group and  *)
(* arguments the template arguments last bound to the group.               *)
Symbol(kind, type, v) ==
  [kind |-> kind, type |-> type, v |-> v, node |-> NoNode, scope |-> 0, functions |-> {},
   arguments |-> <<>>, state |-> "free"]

(* What lies on the evaluation stack.                                      *)
Entry(k, v, scope, name) == [k |-> k, v |-> v, scope |-> scope, name |-> name]
Pushed(v) == Entry("value", v, 0, None)
Nothing == Entry("nothing", Unset, 0, None)

Evaluator(target, cast, silent, node, scope, files, owner) ==
  [target |-> target, cast |-> cast, silent |-> silent, scope |-> scope, files |-> files,
   block |-> 0, fun |-> 0, stack |-> <<>>, lvalue |-> FALSE, visits |-> TRUE, lookup |-> "values",
   returned |-> FALSE, breaked |-> FALSE, continued |-> FALSE, owner |-> owner,
   base |-> Len(scopes), todo |-> <<[at |-> "visit", node |-> node, values |-> <<>>, old |-> <<>>]>>]

(***************************************************************************)
(* The innermost evaluator.                                                *)
(***************************************************************************)
Top == evs[Len(evs)]
Here(at) == evs # <<>> /\ Top.todo # <<>> /\ Head(Top.todo).at = at
Node == Head(Top.todo).node
Collected == Head(Top.todo).values
Old == Head(Top.todo).old
Visiting(ops) == Here("visit") /\ Node.op \in ops

Rest == [Top EXCEPT !.todo = Tail(@)]
Popped == [Rest EXCEPT !.stack = SubSeq(@, 1, Len(@) - 1)]
HasTop == Top.stack # <<>>
TopEntry == Top.stack[Len(Top.stack)]

(* What a visit saves for its end.                                         *)
Saved == [target |-> Top.target, scope |-> Top.scope, lvalue |-> Top.lvalue, fun |-> Top.fun,
          lookup |-> Top.lookup, returned |-> Top.returned, visits |-> Top.visits]
Item(at, node) == [at |-> at, node |-> node, values |-> <<>>, old |-> Saved]
Visit(node) == Item("visit", node)
Push(ev, entry) == [ev EXCEPT !.stack = Append(@, entry)]
Do(ev, items) == [ev EXCEPT !.todo = items \o @]

Becomes(ev) == evs' = [evs EXCEPT ![Len(evs)] = ev]
Continue(ev) == Becomes(ev) /\ UNCHANGED <<program, scopes, returns, answers>>

Answer(kind, v) == [kind |-> kind, v |-> v]

(* Variant: an evaluator that heeds only its own silence.                 *)
FailByInnermost ==
  /\ answers' = Append(answers, Answer(IF evs # <<>> /\ Top.silent THEN "null" ELSE "error", Unset))
  /\ evs' = <<>>
  /\ scopes' = IF evs = <<>> THEN scopes ELSE SubSeq(scopes, 1, evs[1].base)
  /\ UNCHANGED <<program, returns>>

(***************************************************************************)
(* An exception, or an interruption, ends the evaluators up to the next    *)
(* that does not throw; that one returns no value.                         *)
(***************************************************************************)
Fail ==
  LET silent == {i \in DOMAIN evs : evs[i].silent}
      catcher == CHOOSE i \in silent : \A j \in silent : j <= i
  IN  /\ IF silent = {} \/ catcher = 1
         THEN /\ evs' = <<>>
              /\ answers' = Append(answers, Answer(IF silent = {} THEN "error" ELSE "null", Unset))
         ELSE /\ evs' = [SubSeq(evs, 1, catcher - 1)
                           EXCEPT ![catcher - 1].stack = Append(@, Nothing)]
              /\ UNCHANGED answers
      /\ scopes' = IF evs = <<>> THEN scopes
                   ELSE SubSeq(scopes, 1, evs[IF silent = {} THEN 1 ELSE catcher].base)
      /\ UNCHANGED <<program, returns>>

Undefined ==
  /\ answers' = Append(answers, Answer("undefined", Unset))
  /\ evs' = <<>>
  /\ UNCHANGED <<program, scopes, returns>>

Outcome(r, ev) ==
  CASE r.kind = "value" -> Continue(Push(ev, Pushed(r.v)))
    [] r.kind = "undefined" -> Undefined
    [] OTHER -> Fail

(* The value popped has to be there and of the kind k; a null pointer is   *)
(* used all the same.                                                      *)
Taking(k, Then) ==
  IF ~HasTop THEN Fail
  ELSE IF TopEntry.k = "nothing" THEN Undefined
  ELSE IF TopEntry.k # k THEN Fail
  ELSE Then

(***************************************************************************)
(* Names.                                                                  *)
(***************************************************************************)
Kinds(lookup) ==
  CASE lookup = "values" -> {"constant", "enumConstant", "variable"}
    [] lookup = "containers" -> {"container", "type"}
    [] lookup = "invoke" -> {"function", "type", "local"}
    [] lookup = "groups" -> {"function"}

Has(s, name, kinds) ==
  s \in DOMAIN scopes /\ name \in DOMAIN scopes[s].symbols /\ scopes[s].symbols[name].kind \in kinds

(* The scope, or a parent of it, that has such a symbol, or 0.             *)
InScopes(scope, name, kinds) ==
  LET found[s \in 0..Len(scopes)] ==
        IF s = 0 \/ Has(s, name, kinds) THEN s ELSE found[scopes[s].parent]
  IN  found[scope]

(* The scopes with such a symbol in the first file scope that has one.     *)
InFiles(files, name, kinds) ==
  LET found == [i \in DOMAIN files |-> {s \in files[i] : Has(s, name, kinds)}]
      with == {i \in DOMAIN files : found[i] # {}}
  IN  IF with = {} THEN {} ELSE found[CHOOSE i \in with : \A j \in with : i <= j]

Lookup(name, kinds) ==
  LET s == InScopes(Top.scope, name, kinds)
  IN  IF s # 0 THEN {s} ELSE InFiles(Top.files, name, kinds)

(* A basic type, or what a type parameter is bound to.                     *)
ResolveType(name, scope) ==
  LET s == InScopes(scope, name, {"type"})
  IN  IF s = 0 THEN name ELSE scopes[s].symbols[name].type

SymbolAt(s, name) == scopes[s].symbols[name]

(***************************************************************************)
(* Constants.  BindConstant looks for the name of the declaration in the   *)
(* scope the evaluator is in, and only there, and binds what it finds to   *)
(* the value of the declaration; asked is the scope of the symbol that was *)
(* found.                                                                  *)
(***************************************************************************)
Owner(kind, scope, name, asked) ==
  [kind |-> kind, scope |-> scope, name |-> name, asked |-> asked]

Bind(kind, scope, name, asked, files) ==
  LET state == SymbolAt(scope, name).state
      declared == SymbolAt(asked, name)
  IN  IF ~Has(scope, name, {kind}) \/ state = "evaluating" THEN Fail
      ELSE IF state = "bound" THEN Undefined
      ELSE IF GetValueTypeFor(declared.type) = None THEN Fail
      ELSE /\ scopes' = [scopes EXCEPT ![scope].symbols[name].state = "evaluating"]
           /\ evs' = Append(IF evs = <<>> THEN evs ELSE [evs EXCEPT ![Len(evs)] = Rest],
                            Evaluator(declared.type, FALSE, FALSE, declared.node, scope, files,
                                      Owner(kind, scope, name, asked)))
           /\ UNCHANGED <<program, returns, answers>>

(***************************************************************************)
(* EvaluateSymbol.                                                         *)
(***************************************************************************)
FoundConstant(s, name) ==
  LET sym == SymbolAt(s, name)
      binding == IF sym.kind = "constant" THEN Top.scope ELSE s
  IN  IF sym.v # Unset THEN Continue(Push(Rest, Pushed(sym.v)))
      ELSE Bind(sym.kind, binding, name, s, Top.files)

FoundVariable(s, name) ==
  Continue(Push(Rest, IF Top.lvalue THEN Entry("variable", Unset, s, name)
                      ELSE Pushed(SymbolAt(s, name).v)))

FoundContainer(s, name) ==
  Continue(Push(Rest, Entry("scoped", Unset, SymbolAt(s, name).scope, name)))

(* A function group loses the template arguments bound to it.              *)
FoundGroup(s, name) ==
  /\ scopes' = [scopes EXCEPT ![s].symbols[name].arguments = <<>>]
  /\ Becomes(Push(Rest, Entry("group", Unset, s, name)))
  /\ UNCHANGED <<program, returns, answers>>

EvaluateSymbol(s, name) ==
  LET kind == SymbolAt(s, name).kind
  IN  CASE kind \in {"constant", "enumConstant"} -> FoundConstant(s, name)
        [] kind = "variable" -> FoundVariable(s, name)
        [] kind = "container" -> FoundContainer(s, name)
        [] kind = "function" -> FoundGroup(s, name)
        [] OTHER -> Fail

VisitIdentifier ==
  /\ Visiting({"id"})
  /\ LET found == Lookup(Node.name, Kinds(Top.lookup))
     IN  IF Cardinality(found) = 1 THEN \E s \in found : EvaluateSymbol(s, Node.name) ELSE Fail

VisitDot ==
  /\ Visiting({"dot"})
  /\ Continue(Do([Rest EXCEPT !.lookup = "containers"],
                 <<Visit(Node.kids[1]), Item("dot", Node)>>))

(* The member is looked up in the container alone.                         *)
EvaluateDot ==
  /\ Here("dot")
  /\ LET ev == [Popped EXCEPT !.lookup = Old.lookup]
         s == TopEntry.scope
     IN  Taking("scoped",
                IF ~Has(s, Node.name, Kinds(Old.lookup)) THEN Fail
                ELSE Continue(Do(ev, <<[Item("member", Node) EXCEPT !.values = <<s>>]>>)))

EvaluateMember == Here("member") /\ EvaluateSymbol(Collected[1], Node.name)

(***************************************************************************)
(* Literals, operators and casts.                                          *)
(***************************************************************************)
VisitLiteral ==
  /\ Visiting({"literal"})
  /\ Continue(Push(Rest, Pushed([t |-> Node.type, n |-> Node.num])))

UnsupportedOperators == {"equivalence", "implication"}
UnsupportedExpressions == {"arrow", "index", "sizeOf", "construct", "new", "addrOf", "wideString"}
UnsupportedNames == {"this", "base", "typeName"}
UnsupportedStatements == {"switch", "case", "default", "gotoCase", "gotoDefault"}

VisitUnsupported ==
  /\ Visiting(UnsupportedOperators \cup UnsupportedExpressions \cup UnsupportedNames
              \cup UnsupportedStatements)
  /\ Fail

VisitOperands ==
  /\ Visiting(Binary \cup Unary)
  /\ Continue(Do(Rest, IF Node.op \in Binary
                       THEN <<Visit(Node.kids[1]), Visit(Node.kids[2]), Item("operator", Node)>>
                       ELSE <<Visit(Node.kids[1]), Item("operator", Node)>>))

(* Variant: takes the right operand for the left.                          *)
EvaluateOperatorSwapped ==
  /\ Here("operator")
  /\ LET n == Len(Node.kids)
         rest == [Rest EXCEPT !.stack = SubSeq(@, 1, Len(@) - n)]
         operands == SubSeq(Top.stack, Len(Top.stack) - n + 1, Len(Top.stack))
     IN  IF Len(Top.stack) < n THEN Fail
         ELSE IF \E i \in 1..n : operands[i].k = "nothing" THEN Undefined
         ELSE IF \E i \in 1..n : operands[i].k # "value" THEN Fail
         ELSE Outcome(EvaluateOp(Node.op, [i \in 1..n |-> operands[n + 1 - i].v], Top.target, Top.cast), rest)

(* Both operands of && and || have been evaluated.                         *)
EvaluateOperator ==
  /\ Here("operator")
  /\ LET n == Len(Node.kids)
         rest == [Rest EXCEPT !.stack = SubSeq(@, 1, Len(@) - n)]
         operands == SubSeq(Top.stack, Len(Top.stack) - n + 1, Len(Top.stack))
     IN  IF Len(Top.stack) < n THEN Fail
         ELSE IF \E i \in 1..n : operands[i].k = "nothing" THEN Undefined
         ELSE IF \E i \in 1..n : operands[i].k # "value" THEN Fail
         ELSE Outcome(EvaluateOp(Node.op, [i \in 1..n |-> operands[i].v], Top.target, Top.cast), rest)

VisitPrefix ==
  /\ Visiting({"prefixInc", "prefixDec"})
  /\ Continue(Do([Rest EXCEPT !.lvalue = TRUE], <<Visit(Node.kids[1]), Item("prefix", Node)>>))

By(op) == IF op \in {"prefixInc", "postfixInc"} THEN 1 ELSE -1

(* ++ and -- of the variable on the stack.                                 *)
Change(ev, s, x) ==
  LET v == SymbolAt(s, x).v
  IN  IF Steps(v)
      THEN /\ scopes' = [scopes EXCEPT ![s].symbols[x].v = Step(v, By(Node.op))]
           /\ Becomes(ev)
           /\ UNCHANGED <<program, returns, answers>>
      ELSE Fail

EvaluatePrefix ==
  /\ Here("prefix")
  /\ LET ev == [Popped EXCEPT !.lvalue = Old.lvalue]
         v == Step(SymbolAt(TopEntry.scope, TopEntry.name).v, By(Node.op))
     IN  Taking("variable", Change(Push(ev, Pushed(v)), TopEntry.scope, TopEntry.name))

(* The operand is evaluated twice: for its value and for the variable.     *)
VisitPostfix ==
  /\ Visiting({"postfixInc", "postfixDec"})
  /\ Continue(Do(Rest, <<Visit(Node.kids[1]), Item("postfixLvalue", Node)>>))

VisitPostfixAgain ==
  /\ Here("postfixLvalue")
  /\ Continue(Do([Rest EXCEPT !.lvalue = TRUE], <<Visit(Node.kids[1]), Item("postfix", Node)>>))

EvaluatePostfix ==
  /\ Here("postfix")
  /\ Taking("variable",
            Change([Popped EXCEPT !.lvalue = Old.lvalue], TopEntry.scope, TopEntry.name))

VisitDeref ==
  /\ Visiting({"deref"})
  /\ Continue(Do(Rest, <<Visit(Node.kids[1]), Item("deref", Node)>>))

EvaluateDeref ==
  /\ Here("deref")
  /\ Taking("value",
            IF ~Dereferences(TopEntry.v) THEN Fail
            ELSE IF TopEntry.v.n \notin DOMAIN Text THEN Undefined
            ELSE Continue(Push(Popped, Pushed(Deref(TopEntry.v)))))

(* A cast is the evaluation of its source for the type of the cast.        *)
VisitCast ==
  /\ Visiting({"cast"})
  /\ LET type == ResolveType(Node.type, Top.scope)
     IN  IF GetValueTypeFor(type) = None THEN Fail
         ELSE /\ evs' = Append([evs EXCEPT ![Len(evs)] = Rest],
                               Evaluator(type, TRUE, Top.silent, Node.kids[1], Top.scope, Top.files,
                                         Owner("cast", 0, None, 0)))
              /\ UNCHANGED <<program, scopes, returns, answers>>

(* The node below another at the end of a path of child numbers.           *)
Descendant(node, path) ==
  LET at[i \in 0..Len(path)] == IF i = 0 THEN node ELSE at[i - 1].kids[path[i]] IN at[Len(path)]

(***************************************************************************)
(* IsAlwaysTrue: the value of a loop condition, without functions and      *)
(* variables.  The conditions of the programs hold no cast, whose type is  *)
(* deleted, and only such constants as have a value by then.               *)
(***************************************************************************)
NoTruth == [kind |-> "error", v |-> Unset]

Constants(node) ==
  LET kinds == {"constant", "enumConstant"}
      containers == {SymbolAt(s, node.kids[1].name).scope : s \in Lookup(node.kids[1].name, {"container"})}
  IN  CASE node.op = "id" -> Lookup(node.name, kinds)
        [] node.op = "dot" -> {s \in containers : Has(s, node.name, kinds)}
        [] OTHER -> {}

LiteralTruth(node) == IF node.type \in Plain THEN Gives([t |-> node.type, n |-> node.num]) ELSE NoTruth
ConstantTruth(s, name) == Gives(SymbolAt(s, name).v)

OperationTruth(node, operands) ==
  LET values == [i \in DOMAIN operands |-> operands[i].v]
      found == {ConstantTruth(s, node.name) : s \in Constants(node)}
  IN  CASE node.op = "literal" -> LiteralTruth(node)
        [] Cardinality(found) = 1 -> CHOOSE r \in found : TRUE
        [] node.op \in Binary \cup Unary /\ \A i \in DOMAIN operands : operands[i].kind = "value" ->
             EvaluateOp(node.op, values, "bool", FALSE)
        [] OTHER -> NoTruth

Truth(node) ==
  LET truth[path \in Seq(Nat)] ==
        LET n == Descendant(node, path)
        IN  OperationTruth(n, [i \in DOMAIN n.kids |-> truth[Append(path, i)]])
  IN  truth[<<>>]

IsAlwaysTrue(node) == Truth(node) = Gives([t |-> "bool", n |-> 1])

(***************************************************************************)
(* The return paths of a function; terminates is asked of a statement      *)
(* under the function's body, in a loop that goes on for ever or not.      *)
(***************************************************************************)
TerminatesFunction(body) ==
  LET terminates[path \in Seq(Nat), inForEverLoop \in BOOLEAN] ==
        LET node == Descendant(body, path)
            kid(i, inLoop) == terminates[Append(path, i), inLoop]
        IN  CASE node.op = "compound" -> \E i \in DOMAIN node.kids : kid(i, inForEverLoop)
              [] node.op = "if" -> /\ kid(2, inForEverLoop)
                                   /\ inForEverLoop \/ (Len(node.kids) = 3 /\ kid(3, inForEverLoop))
              [] node.op = "while" -> IsAlwaysTrue(node.kids[1]) /\ kid(2, TRUE)
              [] node.op = "do" -> IsAlwaysTrue(node.kids[2]) /\ kid(1, TRUE)
              [] node.op = "for" -> (node.kids[2] = NoNode \/ IsAlwaysTrue(node.kids[2])) /\ kid(4, TRUE)
              [] OTHER -> node.op = "return"
  IN  terminates[<<>>, FALSE]

Returns(f) == returns[f] \notin {None, "void"}

CheckFunctionReturnPaths(f) == Returns(f) => TerminatesFunction(Function(f).body)

(***************************************************************************)
(* Calls.  First the arguments, for the target type of the call, then the  *)
(* function group.                                                         *)
(***************************************************************************)
(* The subject is looked up among what can be invoked.                     *)
Subject(ev, values) ==
  Do([ev EXCEPT !.lookup = "invoke"],
     <<Visit(Node.kids[1]), [Item("call", Node) EXCEPT !.values = values]>>)

VisitInvoke ==
  /\ Visiting({"invoke"})
  /\ Continue(IF Len(Node.kids) = 1 THEN Subject(Rest, <<>>)
              ELSE Do(Rest, <<Visit(Node.kids[2]), Item("argument", Node)>>))

EvaluateArgument ==
  /\ Here("argument")
  /\ Taking("value",
       LET values == Append(Collected, TopEntry.v)
       IN  Continue(IF Len(values) = Len(Node.kids) - 1 THEN Subject(Popped, values)
                    ELSE Do(Popped, <<Visit(Node.kids[Len(values) + 2]),
                                      [Item("argument", Node) EXCEPT !.values = values]>>)))

VisitTemplateId ==
  /\ Visiting({"templateId"})
  /\ Continue(Do([Rest EXCEPT !.lookup = "groups"], <<Visit(Node.kids[1]), Item("templateId", Node)>>))

EvaluateTemplateId ==
  /\ Here("templateId")
  /\ Taking("group",
       /\ scopes' = [scopes EXCEPT ![TopEntry.scope].symbols[TopEntry.name].arguments =
                       [i \in 1..(Len(Node.kids) - 1) |-> ResolveType(Node.kids[i + 1].type, Top.scope)]]
       /\ Becomes([Rest EXCEPT !.lookup = Old.lookup])
       /\ UNCHANGED <<program, returns, answers>>)

(* A type of a function under the template arguments.                      *)
Bound(fun, type, arguments) ==
  LET places == {i \in DOMAIN arguments : fun.typeParams[i] = type}
  IN  IF places = {} THEN type ELSE arguments[CHOOSE i \in places : TRUE]

ParamType(fun, i, arguments) == Bound(fun, fun.params[i].type, arguments)

ResolveOverload(functions, group, values) ==
  LET type(f, i) == ParamType(functions[f], i, group.arguments)
      exact(f) == \A i \in DOMAIN values : values[i].t = type(f, i)
      fits(f) == \A i \in DOMAIN values : values[i].t = type(f, i) \/ Converts(values[i], type(f, i), FALSE)
      candidates == {f \in group.functions : /\ Len(functions[f].params) = Len(values)
                                             /\ Len(functions[f].typeParams) = Len(group.arguments)}
  IN  IF \E f \in candidates : exact(f) THEN {f \in candidates : exact(f)}
      ELSE {f \in candidates : fits(f)}

Converted(fun, values, arguments) ==
  [i \in DOMAIN values |-> LET type == ParamType(fun, i, arguments)
                           IN  IF values[i].t = type THEN values[i] ELSE As(values[i], type)]

(* The symbols of a call.  The arguments have been pushed first to last    *)
(* and are popped for the parameters first to last.                        *)
FunctionSymbols(fun, values, arguments) ==
  LET n == Len(values)
      places(x) == {i \in 1..n : fun.params[i].name = x}
      place(x) == CHOOSE i \in places(x) : TRUE
      names == {fun.params[i].name : i \in 1..n} \cup {fun.typeParams[i] : i \in DOMAIN arguments}
  IN  [x \in names |->
         IF places(x) = {} THEN Symbol("type", Bound(fun, x, arguments), Unset)
         ELSE Symbol("variable", ParamType(fun, place(x), arguments), values[n + 1 - place(x)])]

Block(symbols) == [parent |-> Top.scope, alive |-> TRUE, symbols |-> symbols]

(* The call of a constexpr function: its scope is put on that of the       *)
(* caller, its usings are added to the file scopes for good, and the       *)
(* return type of a template becomes that of the function.                 *)
Call(f, values, arguments) ==
  LET ev == [Popped EXCEPT !.scope = Len(scopes) + 1, !.files = Append(@, Function(f).usings),
                           !.fun = f, !.returned = FALSE, !.lookup = Old.lookup]
  IN  /\ scopes' = Append(scopes, Block(FunctionSymbols(Function(f), values, arguments)))
      /\ returns' = IF arguments = <<>> THEN returns
                    ELSE [returns EXCEPT ![f] = Bound(Function(f), Function(f).returnType, arguments)]
      /\ Becomes(Do(ev, <<Visit(Function(f).body), Item("endFunction", Node)>>))
      /\ UNCHANGED <<program, answers>>

(* The template arguments given to an intrinsic function are those of a    *)
(* group pointer that is null at this point.                               *)
InvokeFunction(f, arguments) ==
  IF Function(f).intrinsic THEN Undefined
  ELSE IF ~Function(f).constexpr \/ ~CheckFunctionReturnPaths(f) THEN Fail
  ELSE \E values \in {Converted(Function(f), Collected, arguments)} : Call(f, values, arguments)

EvaluateCall ==
  /\ Here("call")
  /\ Taking("group",
       \E group \in {SymbolAt(TopEntry.scope, TopEntry.name)} :
         LET chosen == ResolveOverload(Unit.functions, group, Collected)
         IN  IF Cardinality(chosen) # 1 THEN Fail
             ELSE \E f \in chosen : InvokeFunction(f, group.arguments))

(* The end of a block or a function: its symbols are destroyed.            *)
Leave(ev) ==
  /\ scopes' = [scopes EXCEPT ![Top.scope].alive = FALSE]
  /\ Becomes([ev EXCEPT !.scope = scopes[Top.scope].parent])
  /\ UNCHANGED <<program, returns, answers>>

(* Variant: the caller has returned as well.                               *)
EndFunctionReturned ==
  /\ Here("endFunction")
  /\ IF Top.breaked \/ Top.continued THEN Fail ELSE Leave([Rest EXCEPT !.fun = Old.fun])

EndFunction ==
  /\ Here("endFunction")
  /\ IF Top.breaked \/ Top.continued THEN Fail
     ELSE Leave([Rest EXCEPT !.returned = Old.returned, !.fun = Old.fun])

(***************************************************************************)
(* Statements.  The block declarations go to is set when a block is        *)
(* entered and not set back when it is left.                               *)
(***************************************************************************)
Enter(items) ==
  /\ scopes' = Append(scopes, Block(<<>>))
  /\ Becomes(Do([Rest EXCEPT !.scope = Len(scopes) + 1, !.block = Len(scopes) + 1], items))
  /\ UNCHANGED <<program, returns, answers>>

VisitCompound == Visiting({"compound"}) /\ Enter(<<Item("statements", Node)>>)

NextStatement ==
  /\ Here("statements")
  /\ IF Node.kids = <<>> \/ Top.returned \/ Top.breaked \/ Top.continued THEN Leave(Rest)
     ELSE Continue(Do(Rest, <<Visit(Head(Node.kids)),
                              [Head(Top.todo) EXCEPT !.node.kids = Tail(@)]>>))

(* A variable gets its type's zero or a copy of its one argument.          *)
Declare(ev, type, values) ==
  LET v == IF values = <<>> THEN Default(type) ELSE values[1]
  IN  IF Len(values) > 1 THEN Fail
      ELSE IF ~scopes[Top.block].alive THEN Undefined
      ELSE IF Node.name \in DOMAIN scopes[Top.block].symbols THEN Fail
      ELSE /\ scopes' = [scopes EXCEPT ![Top.block].symbols =
                           (Node.name :> Symbol("variable", type, v)) @@ @]
           /\ Becomes(ev)
           /\ UNCHANGED <<program, returns, answers>>

VisitConstruction ==
  /\ Visiting({"construction"})
  /\ LET type == ResolveType(Node.type, Top.scope)
     IN  IF GetValueTypeFor(type) = None THEN Fail
         ELSE IF Node.kids = <<>> THEN Declare(Rest, type, <<>>)
         ELSE Continue(Do(Rest, <<Visit(Node.kids[1]), Item("construction", Node)>>))

EvaluateConstruction ==
  /\ Here("construction")
  /\ LET type == ResolveType(Node.type, Top.scope)
         values == Append(Collected, As(TopEntry.v, type))
     IN  Taking("value",
           IF ~Converts(TopEntry.v, type, FALSE) THEN Fail
           ELSE IF Len(values) = Len(Node.kids) THEN Declare(Popped, type, values)
           ELSE Continue(Do(Popped, <<Visit(Node.kids[Len(values) + 1]),
                                      [Head(Top.todo) EXCEPT !.values = values]>>)))

(* In an assignment, visitExpressions is off: the statements of functions  *)
(* called there return, ask and drop without visiting their expressions.   *)
VisitAssignment ==
  /\ Visiting({"assignment"})
  /\ Continue(Do([Rest EXCEPT !.lvalue = TRUE, !.visits = FALSE],
                 <<Visit(Node.kids[1]), Item("assignment", Node)>>))

EvaluateTarget ==
  /\ Here("assignment")
  /\ LET type == SymbolAt(TopEntry.scope, TopEntry.name).type
         store == [Item("store", Node) EXCEPT !.values = <<TopEntry>>, !.old.visits = Old.visits]
     IN  Taking("variable",
           IF GetValueTypeFor(type) = None THEN Fail
           ELSE Continue(Do([Popped EXCEPT !.lvalue = Old.lvalue, !.target = type],
                            <<Visit(Node.kids[2]), store>>)))

(* The value is converted to the target type of the statement, not to that *)
(* of the variable.                                                        *)
EvaluateAssignment ==
  /\ Here("store")
  /\ LET variable == Collected[1]
     IN  Taking("value",
           IF ~Converts(TopEntry.v, Old.target, FALSE) THEN Fail
           ELSE /\ scopes' = [scopes EXCEPT ![variable.scope].symbols[variable.name].v =
                                As(TopEntry.v, Old.target)]
                /\ Becomes([Popped EXCEPT !.target = Old.target, !.visits = Old.visits])
                /\ UNCHANGED <<program, returns, answers>>)

(* A condition is evaluated for bool; if it is not visited, what is there  *)
(* is taken for its value.                                                 *)
Ask(ev, condition, then) ==
  Continue(Do([ev EXCEPT !.target = "bool"], <<Visit(condition), Item(then, Node)>>))

AskFirst(condition, then) ==
  IF Top.visits THEN Ask(Rest, condition, then)
  ELSE Continue(Do([Rest EXCEPT !.target = "bool"], <<Item(then, Node)>>))

Answered(Then(_, _)) ==
  Taking("value", IF Converts(TopEntry.v, "bool", FALSE)
                  THEN Then([Popped EXCEPT !.target = Old.target], TopEntry.v.n = 1)
                  ELSE Fail)

VisitConditional == Visiting({"if"}) /\ AskFirst(Node.kids[1], "if")

EvaluateConditional ==
  /\ Here("if")
  /\ LET branch(ev, holds) == Continue(IF holds THEN Do(ev, <<Visit(Node.kids[2])>>)
                                       ELSE IF Len(Node.kids) = 3 THEN Do(ev, <<Visit(Node.kids[3])>>)
                                       ELSE ev)
     IN  Answered(branch)

(***************************************************************************)
(* Loops: while and do of a condition and a statement, for of a statement, *)
(* a condition, an increment and a statement.  A for is a block.           *)
(***************************************************************************)
Condition(node) == node.kids[IF node.op = "while" THEN 1 ELSE 2]
Statement(node) == node.kids[CASE node.op = "while" -> 2 [] node.op = "do" -> 1 [] node.op = "for" -> 4]

Repeat(ev) == Continue(Do(ev, <<Visit(Statement(Node)), Item("loop", Node)>>))
Test(ev) == IF Condition(Node) = NoNode THEN Repeat(ev) ELSE Ask(ev, Condition(Node), "condition")
(* Variant: the block of a for stays.                                      *)
EndLoopStaying(ev) == Continue(ev)

EndLoop(ev) == IF Node.op = "for" THEN Leave(ev) ELSE Continue(ev)

VisitLoop ==
  \/ Visiting({"while"}) /\ AskFirst(Condition(Node), "condition")
  \/ Visiting({"do"}) /\ Repeat(Rest)
  \/ Visiting({"for"}) /\ Enter(<<Visit(Node.kids[1]), Item("test", Node)>>)

TestLoop == Here("test") /\ Test(Rest)

EvaluateCondition ==
  /\ Here("condition")
  /\ LET next(ev, holds) == IF holds THEN Repeat(ev) ELSE EndLoop(ev)
     IN  Answered(next)

(* Variant: continue goes past the increment.                              *)
NextRoundPast ==
  /\ Here("loop")
  /\ IF Top.returned \/ Top.breaked THEN EndLoop([Rest EXCEPT !.breaked = Top.returned /\ @])
     ELSE LET ev == [Rest EXCEPT !.continued = FALSE]
          IN  IF Node.op = "for" /\ Node.kids[3] # NoNode /\ ~Top.continued
              THEN Continue(Do(ev, <<Visit(Node.kids[3]), Item("drop", Node), Item("test", Node)>>))
              ELSE Test(ev)

(* After the statement of a loop; the value of an increment is dropped.    *)
NextRound ==
  /\ Here("loop")
  /\ IF Top.returned \/ Top.breaked THEN EndLoop([Rest EXCEPT !.breaked = Top.returned /\ @])
     ELSE LET ev == [Rest EXCEPT !.continued = FALSE]
          IN  IF Node.op = "for" /\ Node.kids[3] # NoNode
              THEN Continue(Do(ev, <<Visit(Node.kids[3]), Item("drop", Node), Item("test", Node)>>))
              ELSE Test(ev)

VisitBreak == Visiting({"break"}) /\ Continue([Rest EXCEPT !.breaked = TRUE])
VisitContinue == Visiting({"continue"}) /\ Continue([Rest EXCEPT !.continued = TRUE])

(* A return and a simple statement whose expression is missing or is not   *)
(* visited take what is there.                                             *)
VisitReturn ==
  /\ Visiting({"return"})
  /\ Continue(Do(Rest, IF Node.kids = <<>> \/ ~Top.visits THEN <<Item("return", Node)>>
                       ELSE <<Visit(Node.kids[1]), Item("return", Node)>>))

EvaluateReturn ==
  /\ Here("return")
  /\ LET type == GetValueTypeFor(returns[Top.fun])
     IN  Taking("value",
           IF type = None \/ ~Converts(TopEntry.v, type, FALSE) THEN Fail
           ELSE Continue(Push([Popped EXCEPT !.returned = TRUE], Pushed(As(TopEntry.v, type)))))

VisitSimple ==
  /\ Visiting({"simple"})
  /\ Continue(Do(Rest, IF Node.kids = <<>> \/ ~Top.visits THEN <<Item("drop", Node)>>
                       ELSE <<Visit(Node.kids[1]), Item("drop", Node)>>))

Drop == Here("drop") /\ IF HasTop THEN Continue(Popped) ELSE Fail

(***************************************************************************)
(* The end of an evaluation.                                               *)
(***************************************************************************)
Below == SubSeq(evs, 1, Len(evs) - 1)

Deliver(v, symbols) ==
  /\ IF Below = <<>>
     THEN /\ evs' = <<>>
          /\ answers' = Append(answers, IF Top.silent /\ v.t = "charPtr" THEN Answer("null", Unset)
                                        ELSE Answer("value", v))
     ELSE /\ evs' = [Below EXCEPT ![Len(Below)] = Push(@, Pushed(v))]
          /\ UNCHANGED answers
  /\ scopes' = SubSeq(symbols, 1, Top.base)
  /\ UNCHANGED <<program, returns>>

(* The value becomes that of the constant that was bound; asked for is     *)
(* that of the constant that was found.                                    *)
EndConstant(v) ==
  LET o == Top.owner
      set == [scopes EXCEPT ![o.scope].symbols[o.name].v = v,
                            ![o.scope].symbols[o.name].state = "bound"]
      asked == set[o.asked].symbols[o.name].v
  IN  IF asked = Unset THEN Undefined ELSE Deliver(asked, set)

Finish ==
  /\ evs # <<>> /\ Top.todo = <<>>
  /\ Taking("value",
       LET v == As(TopEntry.v, Top.target)
       IN  IF ~Converts(TopEntry.v, Top.target, Top.cast) THEN Fail
           ELSE IF Top.owner.kind \in {"constant", "enumConstant"} THEN EndConstant(v)
           ELSE Deliver(v, scopes))

(***************************************************************************)
(* What the binders ask for: the value of an expression for a type, that   *)
(* of a call of a constexpr function if it has one, and that of a constant *)
(* that is declared.  An error ends the compilation.                       *)
(***************************************************************************)
Stopped == answers # <<>> /\ answers[Len(answers)].kind \in {"error", "undefined"}
Done == Stopped \/ Len(answers) = Len(Unit.requests)
Request == Unit.requests[Len(answers) + 1]
Idle == evs = <<>> /\ ~Done

Start(target, silent) ==
  /\ evs' = <<Evaluator(target, FALSE, silent, Request.node, Request.scope, Request.files,
                        Owner("request", 0, None, 0))>>
  /\ UNCHANGED <<program, scopes, returns, answers>>

EvaluateExpression == Idle /\ Request.kind = "value" /\ Start(Request.type, FALSE)

EvaluateConstExprFun ==
  /\ Idle /\ Request.kind = "call"
  /\ LET type == GetValueTypeFor(returns[Request.fun])
     IN  IF type = None
         THEN /\ answers' = Append(answers, Answer("null", Unset))
              /\ UNCHANGED <<program, scopes, returns, evs>>
         ELSE Start(type, TRUE)

BindDeclaration ==
  /\ Idle /\ Request.kind \in {"constant", "enumConstant"}
  /\ LET sym == SymbolAt(Request.scope, Request.name)
     IN  IF sym.state = "bound"
         THEN /\ answers' = Append(answers, Answer("value", sym.v))
              /\ UNCHANGED <<program, scopes, returns, evs>>
         ELSE Bind(Request.kind, Request.scope, Request.name, Request.scope, Request.files)

Init ==
  /\ program \in DOMAIN Programs
  /\ scopes = Unit.scopes
  /\ returns = [f \in DOMAIN Unit.functions |->
                  IF Function(f).typeParams = <<>> THEN Function(f).returnType ELSE None]
  /\ evs = <<>>
  /\ answers = <<>>

Expressions ==
  \/ VisitIdentifier \/ VisitDot \/ EvaluateDot \/ EvaluateMember
  \/ VisitLiteral \/ VisitUnsupported
  \/ VisitOperands \/ EvaluateOperator
  \/ VisitPrefix \/ EvaluatePrefix \/ VisitPostfix \/ VisitPostfixAgain \/ EvaluatePostfix
  \/ VisitDeref \/ EvaluateDeref \/ VisitCast
  \/ VisitInvoke \/ EvaluateArgument \/ VisitTemplateId \/ EvaluateTemplateId
  \/ EvaluateCall \/ EndFunction

Statements ==
  \/ VisitCompound \/ NextStatement
  \/ VisitConstruction \/ EvaluateConstruction
  \/ VisitAssignment \/ EvaluateTarget \/ EvaluateAssignment
  \/ VisitConditional \/ EvaluateConditional
  \/ VisitLoop \/ TestLoop \/ EvaluateCondition \/ NextRound
  \/ VisitBreak \/ VisitContinue \/ VisitReturn \/ EvaluateReturn \/ VisitSimple \/ Drop

Requests == EvaluateExpression \/ EvaluateConstExprFun \/ BindDeclaration
Compiled == Done /\ UNCHANGED vars

Next == Expressions \/ Statements \/ Finish \/ Requests \/ Compiled

(* The compiler goes on until it is done: weak fairness of Next, which can *)
(* change something in just the states that are not done.                  *)
Spec == Init /\ [][Next]_vars /\ ([]<>Done \/ []<><<TRUE>>_vars)

(***************************************************************************)
(* Properties.                                                             *)
(***************************************************************************)

(* Evaluators nest, look things up in scopes there are, and answer no more *)
(* than they are asked.                                                    *)
TypeOK ==
  /\ program \in DOMAIN Programs
  /\ Len(answers) <= Len(Unit.requests)
  /\ \A i \in DOMAIN answers : answers[i].kind \in {"value", "null", "error", "undefined"}
  /\ \A i \in DOMAIN evs : /\ evs[i].scope \in DOMAIN scopes
                           /\ evs[i].block \in {0} \cup DOMAIN scopes
                           /\ evs[i].base <= Len(scopes)
                           /\ i > 1 => evs[i - 1].base <= evs[i].base

Latest(P(_)) == answers # <<>> /\ evs = <<>> => P(Len(answers))

(* Whoever asks for a value silently never sees an exception, wherever it  *)
(* is thrown, and whoever does not never gets a null pointer for one.      *)
CallersHearWhatTheyExpect ==
  LET fits(i) == answers[i].kind # IF Unit.requests[i].kind = "call" THEN "error" ELSE "null"
  IN  Latest(fits)

(* Every block and function that was entered is left again, by whatever    *)
(* way: the living scopes of the innermost evaluator are those its scope   *)
(* stands on, and at its end none.                                         *)
BlocksAreLeft ==
  evs # <<>> =>
    LET base == Top.base
        above[s \in 0..Len(scopes)] == IF s <= base THEN {} ELSE {s} \cup above[scopes[s].parent]
        living == {s \in (base + 1)..Len(scopes) : scopes[s].alive}
    IN  living = above[Top.scope] /\ (Top.todo = <<>> => living = {})
===========================================================================
