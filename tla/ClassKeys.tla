----------------------------- MODULE ClassKeys -----------------------------
(***************************************************************************)
(* Cm.Opt: the class identifiers of a program that is built in the full    *)
(* configuration.  Each virtual class gets a prime as its key, its         *)
(* identifier is the product of its key and those of its ancestors, and an *)
(* "is" or "as" operator divides the identifier of the object by that of   *)
(* the class it asks for.                                                  *)
(*                                                                         *)
(* The classes come from hash sets and are sorted by std::sort, so leaves  *)
(* and classes that compare equal are taken in any order.                  *)
(***************************************************************************)
EXTENDS Integers, Sequences, FiniteSets

CONSTANTS
  Classes,      \* the class names
  None,         \* the base of a class without a base
  Programs,     \* the class hierarchies to be numbered, records of
                \*   base: the base class of a class, or None
                \*   virtual: the classes with a virtual function of their own
                \*   cid: the identifiers the classes were declared with
  Modulus       \* 2 to the number of bits of an identifier

(* NumberOfAncestors ends: some class of each set has its base elsewhere.  *)
NoClassIsItsOwnAncestor(base) ==
  \A cs \in SUBSET Classes : cs # {} => \E c \in cs : base[c] \notin cs

ASSUME ClassKeysAssumption ==
  /\ None \notin Classes
  /\ Modulus \in Nat \ {0}
  /\ \A p \in Programs : /\ p.base \in [Classes -> Classes \cup {None}]
                         /\ p.virtual \subseteq Classes
                         /\ p.cid \in [Classes -> Nat]
                         /\ NoClassIsItsOwnAncestor(p.base)

VARIABLES
  program,      \* the program being linked
  phase,        \* "priorities", "keys" or "done"
  waiting,      \* leaves, then classes, that have not had their turn
  priority, keys, cids,   \* of each class
  numbered,     \* the classes in the order they got their keys
  key, minLevelKey, maxLevelKey, predLevel, bases   \* locals of AssignKeys

locals == <<key, minLevelKey, maxLevelKey, predLevel, bases>>
vars == <<program, phase, waiting, priority, keys, cids, numbered, locals>>

(***************************************************************************)
(* Primes.                                                                 *)
(***************************************************************************)
Odd(i) == i % 2 = 1

(* The loop divides by 3, 5, ... until a divisor or the square root.       *)
IsPrime(x) ==
  LET Stops(i) == (x \div i) < i \/ x = (x \div i) * i
      last == CHOOSE i \in 3..x : /\ Odd(i) /\ Stops(i)
                                  /\ \A j \in 3..(i - 1) : Odd(j) => ~Stops(j)
  IN  (x \div last) < last

NextPrime(x) ==
  IF x <= 2 THEN 2
  ELSE CHOOSE y \in x..(2 * x) : /\ Odd(y) /\ IsPrime(y)
                                 /\ \A z \in x..(y - 1) : ~(Odd(z) /\ IsPrime(z))

(***************************************************************************)
(* The hierarchy.                                                          *)
(***************************************************************************)
BaseClass(c) == program.base[c]

path[c \in Classes] ==
  {c} \cup (IF BaseClass(c) = None THEN {} ELSE path[BaseClass(c)])
Path(c) == path[c]

NumberOfAncestors(c) == Cardinality(Path(c)) - 1

IsVirtual(c) == Path(c) \cap program.virtual # {}
VirtualClasses == {c \in Classes : IsVirtual(c)}
Leaves == {c \in VirtualClasses :
             \A d \in VirtualClasses : BaseClass(d) # c}
Level(c) == NumberOfAncestors(c)

(***************************************************************************)
(* AssignPriorities: each leaf raises the priorities on its path.  What is *)
(* carried upwards is the largest priority met so far.                     *)
(***************************************************************************)
RaiseTo(c, leaf) ==
  LET below == {x \in Path(leaf) : c \in Path(x)}
      met == {Level(leaf)} \cup {priority[x] : x \in below \ {leaf}}
  IN  CHOOSE p \in met : \A q \in met : q <= p

AssignPriority(leaf) ==
  /\ phase = "priorities" /\ leaf \in waiting
  /\ waiting' = waiting \ {leaf}
  /\ priority' = [c \in Classes |-> IF c \in Path(leaf) THEN RaiseTo(c, leaf)
                                    ELSE priority[c]]
  /\ UNCHANGED <<program, phase, keys, cids, numbered, locals>>

Sort ==
  /\ phase = "priorities" /\ waiting = {}
  /\ phase' = "keys" /\ waiting' = VirtualClasses
  /\ UNCHANGED <<program, priority, keys, cids, numbered, locals>>

(* The base's identifier is still the one it was declared with.            *)
BaseCid(c) == IF BaseClass(c) = None THEN 0 ELSE program.cid[BaseClass(c)]

PriorityGreater(left, right) ==
  \/ Level(left) < Level(right)
  \/ /\ Level(left) = Level(right)
     /\ \/ priority[left] > priority[right]
        \/ /\ priority[left] = priority[right]
           /\ BaseCid(left) < BaseCid(right)

First(c) == c \in waiting /\ \A d \in waiting : ~PriorityGreater(d, c)

(***************************************************************************)
(* AssignKeys: the loop body.  Siblings get different keys, the children   *)
(* of another class begin again with the smallest key of the level.        *)
(***************************************************************************)
KeyRoot(c) ==
  /\ Level(c) = 0
  /\ LET next == NextPrime(key + 1) IN
     keys' = [keys EXCEPT ![c] = key] /\ key' = next /\ maxLevelKey' = next
  /\ UNCHANGED <<minLevelKey, predLevel, bases>>

(* Mutant: the keys of a level begin after the last, not the largest, key. *)
KeyFirstAfterLast(c) ==
  /\ Level(c) # 0 /\ predLevel # Level(c)
  /\ LET k == NextPrime(key + 1)
         next == NextPrime(k + 1)
     IN  /\ keys' = [keys EXCEPT ![c] = k]
         /\ minLevelKey' = k /\ key' = next /\ maxLevelKey' = next
  /\ bases' = {BaseClass(c)} /\ predLevel' = Level(c)

KeyFirstOfLevel(c) ==
  /\ Level(c) # 0 /\ predLevel # Level(c)
  /\ LET k == NextPrime(maxLevelKey + 1)
         next == NextPrime(k + 1)
     IN  /\ keys' = [keys EXCEPT ![c] = k]
         /\ minLevelKey' = k /\ key' = next /\ maxLevelKey' = next
  /\ bases' = {BaseClass(c)} /\ predLevel' = Level(c)

KeyNextOfLevel(c) ==
  /\ Level(c) # 0 /\ predLevel = Level(c)
  /\ LET k == IF BaseClass(c) \in bases THEN key ELSE minLevelKey
         next == NextPrime(k + 1)
     IN  /\ keys' = [keys EXCEPT ![c] = k]
         /\ key' = next
         /\ maxLevelKey' = IF next > maxLevelKey THEN next ELSE maxLevelKey
  /\ bases' = bases \cup {BaseClass(c)}
  /\ UNCHANGED <<minLevelKey, predLevel>>

AssignKey(c) ==
  /\ phase = "keys" /\ First(c)
  /\ waiting' = waiting \ {c} /\ numbered' = Append(numbered, c)
  /\ KeyRoot(c) \/ KeyFirstOfLevel(c) \/ KeyNextOfLevel(c)
  /\ UNCHANGED <<program, phase, priority, cids>>

(***************************************************************************)
(* Identifiers and the test that is compiled for "is".                     *)
(***************************************************************************)
(* Mutant: the loop over the ancestors stops before the last one.          *)
CidWithoutRoot(c) ==
  LET partial[x \in Classes] ==
        IF BaseClass(x) = None THEN 1 ELSE (keys[x] * partial[BaseClass(x)]) % Modulus
  IN  IF BaseClass(c) = None THEN keys[c] ELSE partial[c]

(* A class that is not virtual, among the ancestors too, has key 0.        *)
cid[c \in Classes] ==
  IF BaseClass(c) = None THEN keys[c] ELSE (keys[c] * cid[BaseClass(c)]) % Modulus
ComputeCid(c) == cid[c]

AssignCids ==
  /\ phase = "keys" /\ waiting = {}
  /\ phase' = "done"
  /\ cids' = [c \in Classes |-> IF c \in VirtualClasses THEN ComputeCid(c)
                                ELSE program.cid[c]]
  /\ UNCHANGED <<program, waiting, priority, keys, numbered, locals>>

(* The remainder of a division by zero is whatever the processor does.     *)
TestMayGive(object, class) ==
  IF cids[class] = 0 THEN BOOLEAN ELSE {cids[object] % cids[class] = 0}

Init ==
  /\ program \in Programs
  /\ phase = "priorities" /\ waiting = Leaves
  /\ priority = [c \in Classes |-> 0] /\ keys = [c \in Classes |-> 0]
  /\ cids = program.cid /\ numbered = <<>>
  /\ key = 2 /\ minLevelKey = 2 /\ maxLevelKey = 2
  /\ predLevel = -1 /\ bases = {}

Next ==
  \/ \E c \in Classes : AssignPriority(c) \/ AssignKey(c)
  \/ Sort \/ AssignCids

Spec == Init /\ [][Next]_vars /\ WF_vars(Next)

-----------------------------------------------------------------------------
(* TypeOK: the types of the variables; only virtual classes get keys.      *)
TypeOK ==
  /\ program \in Programs /\ phase \in {"priorities", "keys", "done"}
  /\ waiting \subseteq VirtualClasses
  /\ priority \in [Classes -> Nat] /\ keys \in [Classes -> Nat]
  /\ cids \in [Classes -> Nat]
  /\ numbered \in Seq(VirtualClasses) /\ bases \subseteq Classes
  /\ key \in Nat /\ minLevelKey \in Nat /\ maxLevelKey \in Nat
  /\ predLevel \in Int
  /\ \A c \in Classes : keys[c] # 0 => IsVirtual(c)

(* An object of class d is one of class b.                                 *)
Derives(d, b) == b \in Path(d)

(* The keys multiply to a number an identifier has room for, and no        *)
(* ancestor is without a key.                                              *)
product[c \in Classes] ==
  IF BaseClass(c) = None THEN keys[c] ELSE keys[c] * product[BaseClass(c)]
Exact(c) == product[c] < Modulus /\ Path(c) \subseteq VirtualClasses

(* DerivedTestsHold: after AssignCids, "is" (CFunctionEmitter, URem) says
   yes of every object that derives from the class asked for.              *)
DerivedTestsHold ==
  phase = "done" =>
    \A d, b \in VirtualClasses :
      Exact(d) /\ Derives(d, b) => TestMayGive(d, b) = {TRUE}

(* Two children of one class with the same key: the keys of the second     *)
(* began again because a child of another class came between them.         *)
Place(c) == CHOOSE i \in DOMAIN numbered : numbered[i] = c
Twins(c, d) ==
  /\ c # d /\ BaseClass(c) = BaseClass(d) /\ keys[c] = keys[d]
  /\ BaseClass(c) # None
  /\ \E i \in DOMAIN numbered : /\ Level(numbered[i]) = Level(c)
                                /\ BaseClass(numbered[i]) # BaseClass(c)
                                /\ Place(c) < i /\ i < Place(d)

(* WrongHitsNeedTwins: "is" says yes of an object of another class only if
   AssignKeys gave two siblings on their paths one key.                    *)
WrongHitsNeedTwins ==
  phase = "done" =>
    \A d, b \in VirtualClasses :
      Exact(d) /\ Exact(b) /\ ~Derives(d, b) /\ TRUE \in TestMayGive(d, b)
        => \E x \in Path(d), y \in Path(b) : Twins(x, y) \/ Twins(y, x)

(* IdentifiersAreUnique: "The keys are used to compute a unique class
   identifier for each class."                                             *)
IdentifiersAreUnique ==
  phase = "done" =>
    \A c, d \in VirtualClasses : Exact(c) /\ Exact(d) /\ c # d => cids[c] # cids[d]
===========================================================================
