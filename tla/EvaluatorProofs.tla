-------------------------- MODULE EvaluatorProofs --------------------------
(***************************************************************************)
(* Proofs about Evaluator, for all programs: who hears of a failure, and   *)
(* that blocks and functions are left on every way out of them.            *)
(*                                                                         *)
(* The scopes an evaluator has opened and not yet left are in step with    *)
(* the items on its todo that will leave one: that they are as many is the *)
(* heart of the invariant, which therefore counts items of sequences.      *)
(***************************************************************************)
EXTENDS Evaluator, FiniteSetTheorems, SequenceTheorems, FunctionTheorems, WellFoundedInduction, TLAPS

-----------------------------------------------------------------------------
(* Sequences of anything.                                                  *)

IsSeq(s) == \E T : s \in Seq(T)

LEMMA SeqIs ==
  ASSUME NEW s, IsSeq(s)
  PROVE  Len(s) \in Nat /\ DOMAIN s = 1..Len(s) /\ (s # <<>> <=> Len(s) > 0)
BY DEF IsSeq

LEMMA AppendIs ==
  ASSUME NEW s, IsSeq(s), NEW x
  PROVE  /\ IsSeq(Append(s, x)) /\ Len(Append(s, x)) = Len(s) + 1
         /\ \A i \in 1..Len(s) : Append(s, x)[i] = s[i]
         /\ Append(s, x)[Len(s) + 1] = x
<1>1. PICK T : s \in Seq(T)
  BY DEF IsSeq
<1>2. s \in Seq(T \cup {x})
  BY <1>1, SeqMonotonic
<1>3. x \in T \cup {x}
  OBVIOUS
<1>4. /\ Append(s, x) \in Seq(T \cup {x}) /\ Len(Append(s, x)) = Len(s) + 1
      /\ \A i \in 1..Len(s) : Append(s, x)[i] = s[i]
      /\ Append(s, x)[Len(s) + 1] = x
  BY <1>2, <1>3, AppendProperties
<1> QED
  BY <1>4 DEF IsSeq

LEMMA ExceptIs ==
  ASSUME NEW s, IsSeq(s), NEW i \in 1..Len(s), NEW x
  PROVE  /\ IsSeq([s EXCEPT ![i] = x]) /\ Len([s EXCEPT ![i] = x]) = Len(s)
         /\ \A j \in 1..Len(s) : [s EXCEPT ![i] = x][j] = IF j = i THEN x ELSE s[j]
<1>1. PICK T : s \in Seq(T)
  BY DEF IsSeq
<1>2. s \in Seq(T \cup {x}) /\ x \in T \cup {x}
  BY <1>1, SeqMonotonic
<1>3. /\ [s EXCEPT ![i] = x] \in Seq(T \cup {x}) /\ Len([s EXCEPT ![i] = x]) = Len(s)
      /\ \A j \in 1..Len(s) : [s EXCEPT ![i] = x][j] = IF j = i THEN x ELSE s[j]
  BY <1>2, ExceptSeq
<1> QED
  BY <1>3 DEF IsSeq

LEMMA CutIs ==
  ASSUME NEW s, IsSeq(s), NEW n \in 0..Len(s)
  PROVE  /\ IsSeq(SubSeq(s, 1, n)) /\ Len(SubSeq(s, 1, n)) = n
         /\ \A i \in 1..n : SubSeq(s, 1, n)[i] = s[i]
<1>1. PICK T : s \in Seq(T)
  BY DEF IsSeq
<1>2. n \in Nat /\ n <= Len(s) /\ \A i \in 1..n : s[i] \in T
  BY <1>1, SeqIs
<1>3. /\ SubSeq(s, 1, n) \in Seq(T) /\ Len(SubSeq(s, 1, n)) = IF 1 <= n THEN n - 1 + 1 ELSE 0
      /\ \A i \in 1..(n - 1 + 1) : SubSeq(s, 1, n)[i] = s[1 + i - 1]
  BY <1>2, SubSeqProperties
<1>4. n - 1 + 1 = n /\ \A i \in 1..n : 1 + i - 1 = i
  BY <1>2
<1>5. Len(SubSeq(s, 1, n)) = n
  BY <1>2, <1>3, <1>4
<1>6. \A i \in 1..n : SubSeq(s, 1, n)[i] = s[i]
  BY <1>3, <1>4
<1> QED
  BY <1>3, <1>5, <1>6 DEF IsSeq

LEMMA ConcatIs ==
  ASSUME NEW s, IsSeq(s), NEW t, IsSeq(t)
  PROVE  /\ IsSeq(s \o t) /\ Len(s \o t) = Len(s) + Len(t)
         /\ \A i \in 1..(Len(s) + Len(t)) : (s \o t)[i] = IF i <= Len(s) THEN s[i] ELSE t[i - Len(s)]
<1>1. PICK S, T : s \in Seq(S) /\ t \in Seq(T)
  BY DEF IsSeq
<1>2. s \in Seq(S \cup T) /\ t \in Seq(S \cup T)
  BY <1>1, SeqMonotonic
<1>3. /\ s \o t \in Seq(S \cup T) /\ Len(s \o t) = Len(s) + Len(t)
      /\ \A i \in 1..(Len(s) + Len(t)) : (s \o t)[i] = IF i <= Len(s) THEN s[i] ELSE t[i - Len(s)]
  BY <1>2, ConcatProperties
<1> QED
  BY <1>3 DEF IsSeq

LEMMA TailIs ==
  ASSUME NEW s, IsSeq(s), s # <<>>
  PROVE  /\ IsSeq(Tail(s)) /\ Len(Tail(s)) = Len(s) - 1 /\ Head(s) = s[1]
         /\ \A i \in 1..Len(Tail(s)) : Tail(s)[i] = s[i + 1]
<1>1. PICK T : s \in Seq(T)
  BY DEF IsSeq
<1>2. /\ Tail(s) \in Seq(T) /\ Len(Tail(s)) = Len(s) - 1
      /\ \A i \in 1..Len(Tail(s)) : Tail(s)[i] = s[i + 1]
  BY <1>1, HeadTailProperties
<1>3. Head(s) = s[1]
  BY <1>1
<1> QED
  BY <1>2, <1>3 DEF IsSeq

LEMMA SameSequence ==
  ASSUME NEW s, IsSeq(s), NEW t, IsSeq(t), Len(s) = Len(t), \A i \in 1..Len(s) : s[i] = t[i]
  PROVE  s = t
<1>1. PICK S, T : s \in Seq(S) /\ t \in Seq(T)
  BY DEF IsSeq
<1>2. s \in Seq(S \cup T) /\ t \in Seq(S \cup T)
  BY <1>1, SeqMonotonic
<1> QED
  BY <1>2, SeqEqual

LEMMA TuplesAre ==
  /\ IsSeq(<<>>) /\ Len(<<>>) = 0
  /\ \A x : IsSeq(<<x>>) /\ Len(<<x>>) = 1 /\ <<x>>[1] = x
  /\ \A x, y : IsSeq(<<x, y>>) /\ Len(<<x, y>>) = 2 /\ <<x, y>>[1] = x /\ <<x, y>>[2] = y
  /\ \A x, y, z : /\ IsSeq(<<x, y, z>>) /\ Len(<<x, y, z>>) = 3
                  /\ <<x, y, z>>[1] = x /\ <<x, y, z>>[2] = y /\ <<x, y, z>>[3] = z
<1>1. <<>> \in Seq({}) /\ Len(<<>>) = 0
  OBVIOUS
<1>2. \A x : <<x>> \in Seq({x}) /\ Len(<<x>>) = 1 /\ <<x>>[1] = x
  OBVIOUS
<1>3. \A x, y : <<x, y>> \in Seq({x, y}) /\ Len(<<x, y>>) = 2 /\ <<x, y>>[1] = x /\ <<x, y>>[2] = y
  OBVIOUS
<1>4. \A x, y, z : /\ <<x, y, z>> \in Seq({x, y, z}) /\ Len(<<x, y, z>>) = 3
                   /\ <<x, y, z>>[1] = x /\ <<x, y, z>>[2] = y /\ <<x, y, z>>[3] = z
  OBVIOUS
<1> QED
  BY <1>1, <1>2, <1>3, <1>4 DEF IsSeq

-----------------------------------------------------------------------------
(* Numbers.                                                                *)

LEMMA LeastNumber ==
  ASSUME NEW ns \in SUBSET Nat, ns # {}
  PROVE  \E n \in ns : \A m \in ns : n <= m
<1> DEFINE less == {p \in Nat \X Nat : p[1] < p[2]}
<1>1. IsWellFoundedOn(less, Nat)
  BY NatLessThanWellFounded DEF OpToRel
<1> HIDE DEF less
<1>2. PICK n \in ns : \A m \in ns : ~(<<m, n>> \in less)
  BY <1>1, WFMin
<1>3. \A m, k \in Nat : m < k => <<m, k>> \in less
  BY DEF less
<1>4. \A m \in ns : m \in Nat /\ n \in Nat /\ ~(m < n)
  BY <1>2, <1>3
<1> QED
  BY <1>4

LEMMA LargestUpTo ==
  ASSUME NEW n \in Nat, NEW ns \in SUBSET (1..n), ns # {}
  PROVE  \E i \in ns : \A j \in ns : j <= i
<1> DEFINE short == {n - i : i \in ns}
<1>1. short \in SUBSET Nat /\ short # {}
  <2>1. \A i \in ns : i \in 1..n /\ n - i \in Nat
    OBVIOUS
  <2> QED
    BY <2>1
<1>2. PICK s \in short : \A t \in short : s <= t
  <2> HIDE DEF short
  <2> QED
    BY <1>1, LeastNumber
<1>3. PICK i \in ns : s = n - i
  BY <1>2
<1>4. \A j \in ns : n - i <= n - j
  BY <1>2, <1>3
<1> QED
  BY <1>4

-----------------------------------------------------------------------------
(* Items, and how many of a todo will leave a block or a function.         *)

Leaving(item) ==
  \/ item.at \in {"endFunction", "statements", "test"}
  \/ item.at \in {"condition", "loop"} /\ item.node.op = "for"

Owed(todo) == {j \in DOMAIN todo : Leaving(todo[j])}
Owing(todo) == Cardinality(Owed(todo))

(* "test" is only ever done for the block of a for statement.              *)
GoodItem(item) ==
  /\ DOMAIN item = {"at", "node", "values", "old"}
  /\ item.at = "test" => item.node.op = "for"
GoodTodo(todo) == IsSeq(todo) /\ \A j \in DOMAIN todo : GoodItem(todo[j])

LEMMA Shifted ==
  ASSUME NEW ns \in SUBSET Nat, IsFiniteSet(ns), NEW k \in Nat
  PROVE  /\ IsFiniteSet({n + k : n \in ns})
         /\ Cardinality({n + k : n \in ns}) = Cardinality(ns)
<1> DEFINE f == [n \in ns |-> n + k]
           image == {n + k : n \in ns}
<1>1. f \in Bijection(ns, image)
  <2>1. f \in [ns -> image]
    OBVIOUS
  <2>2. \A n, m \in ns : f[n] = f[m] => n = m
    OBVIOUS
  <2>3. \A x \in image : \E n \in ns : f[n] = x
    OBVIOUS
  <2> QED
    <3>1. f \in Injection(ns, image)
      BY <2>1, <2>2, Fun_IsInj
    <3>2. f \in Surjection(ns, image)
      BY <2>1, <2>3, Fun_IsSurj
    <3> QED
      BY <3>1, <3>2 DEF Bijection
<1>2. ExistsBijection(ns, image)
  BY <1>1 DEF ExistsBijection
<1> QED
  BY <1>2, FS_Bijection

LEMMA OwedIs ==
  ASSUME NEW s, IsSeq(s)
  PROVE  /\ Owed(s) \subseteq 1..Len(s) /\ IsFiniteSet(Owed(s))
         /\ Owing(s) \in Nat /\ (Owing(s) = 0 <=> Owed(s) = {})
<1>1. Len(s) \in Nat /\ DOMAIN s = 1..Len(s)
  BY SeqIs
<1>2. Owed(s) \in SUBSET (1..Len(s))
  BY <1>1 DEF Owed
<1>3. IsFiniteSet(1..Len(s))
  BY <1>1, FS_Interval
<1>4. IsFiniteSet(Owed(s))
  BY <1>2, <1>3, FS_Subset
<1> QED
  BY <1>2, <1>4, FS_CardinalityType, FS_EmptySet DEF Owing

LEMMA ConcatOwing ==
  ASSUME NEW s, IsSeq(s), NEW t, IsSeq(t)
  PROVE  Owing(s \o t) = Owing(s) + Owing(t)
<1> DEFINE later == {j + Len(s) : j \in Owed(t)}
<1>1. /\ Len(s) \in Nat /\ Len(t) \in Nat
      /\ DOMAIN s = 1..Len(s) /\ DOMAIN t = 1..Len(t)
  BY SeqIs
<1>2. /\ IsSeq(s \o t) /\ Len(s \o t) = Len(s) + Len(t)
      /\ \A i \in 1..(Len(s) + Len(t)) : (s \o t)[i] = IF i <= Len(s) THEN s[i] ELSE t[i - Len(s)]
  BY ConcatIs
<1>3. DOMAIN (s \o t) = 1..(Len(s) + Len(t))
  BY <1>2, SeqIs
<1>4. /\ Owed(s) \subseteq 1..Len(s) /\ IsFiniteSet(Owed(s)) /\ Owing(s) \in Nat
      /\ Owed(t) \subseteq 1..Len(t) /\ IsFiniteSet(Owed(t)) /\ Owing(t) \in Nat
  BY OwedIs
<1>5. IsFiniteSet(later) /\ Cardinality(later) = Owing(t)
  <2>1. Owed(t) \in SUBSET Nat
    BY <1>1, <1>4
  <2> QED
    BY <1>1, <1>4, <2>1, Shifted DEF Owing
<1>6. Owed(s \o t) = Owed(s) \cup later
  <2>1. ASSUME NEW j \in 1..(Len(s) + Len(t))
        PROVE  j \in Owed(s \o t) <=> j \in Owed(s) \cup later
    <3>1. CASE j <= Len(s)
      <4>1. j \in 1..Len(s) /\ (s \o t)[j] = s[j]
        BY <1>1, <1>2, <2>1, <3>1
      <4>2. j \notin later
        <5>1. \A k \in Owed(t) : k >= 1 /\ k \in Nat
          BY <1>1, <1>4
        <5> QED
          BY <1>1, <3>1, <5>1
      <4> QED
        BY <1>1, <1>3, <4>1, <4>2 DEF Owed
    <3>2. CASE j > Len(s)
      <4>1. j - Len(s) \in 1..Len(t) /\ (s \o t)[j] = t[j - Len(s)]
        BY <1>1, <1>2, <2>1, <3>2
      <4>2. j \notin Owed(s)
        BY <1>1, <1>4, <3>2
      <4>3. j \in later <=> j - Len(s) \in Owed(t)
        <5>1. \A k \in Owed(t) : k \in Nat /\ (j = k + Len(s) <=> k = j - Len(s))
          BY <1>1, <1>4, <2>1
        <5> QED
          BY <5>1
      <4>4. j \in Owed(s \o t) <=> j - Len(s) \in Owed(t)
        BY <1>1, <1>3, <2>1, <4>1 DEF Owed
      <4> QED
        BY <4>2, <4>3, <4>4
    <3> QED
      BY <1>1, <2>1, <3>1, <3>2
  <2>2. later \subseteq 1..(Len(s) + Len(t))
    <3>1. \A k \in Owed(t) : k \in 1..Len(t)
      BY <1>4
    <3> QED
      BY <1>1, <3>1
  <2>3. Owed(s) \subseteq 1..(Len(s) + Len(t))
    BY <1>1, <1>4
  <2>4. Owed(s \o t) \subseteq 1..(Len(s) + Len(t))
    BY <1>3 DEF Owed
  <2> HIDE DEF later
  <2> QED
    BY <2>1, <2>2, <2>3, <2>4
<1>7. Owed(s) \cap later = {}
  <2>1. \A k \in Owed(t) : k >= 1 /\ k \in Nat
    BY <1>1, <1>4
  <2>2. \A j \in Owed(s) : j <= Len(s) /\ j \in Nat
    BY <1>1, <1>4
  <2> QED
    BY <1>1, <2>1, <2>2
<1> HIDE DEF later
<1>8. Cardinality(Owed(s) \cup later) = Cardinality(Owed(s)) + Cardinality(later) - Cardinality({})
  BY <1>4, <1>5, <1>7, FS_Union
<1> QED
  BY <1>4, <1>5, <1>6, <1>8, FS_EmptySet DEF Owing

LEMMA NothingOwed ==
  ASSUME NEW s, IsSeq(s), \A j \in DOMAIN s : ~Leaving(s[j])
  PROVE  Owing(s) = 0
BY FS_EmptySet DEF Owing, Owed

LEMMA OneOwing ==
  ASSUME NEW x
  PROVE  Owing(<<x>>) = IF Leaving(x) THEN 1 ELSE 0
<1>1. DOMAIN <<x>> = {1} /\ <<x>>[1] = x
  BY SeqIs, TuplesAre
<1>2. Owed(<<x>>) = IF Leaving(x) THEN {1} ELSE {}
  BY <1>1 DEF Owed
<1> QED
  BY <1>2, FS_EmptySet, FS_Singleton DEF Owing

LEMMA TwoOwing ==
  ASSUME NEW x, NEW y
  PROVE  Owing(<<x, y>>) = (IF Leaving(x) THEN 1 ELSE 0) + (IF Leaving(y) THEN 1 ELSE 0)
<1>1. IsSeq(<<x>>) /\ IsSeq(<<y>>)
  BY TuplesAre
<1>2. <<x, y>> = <<x>> \o <<y>>
  <2>1. /\ IsSeq(<<x>> \o <<y>>) /\ Len(<<x>> \o <<y>>) = 1 + 1
        /\ \A i \in 1..(1 + 1) : (<<x>> \o <<y>>)[i] = IF i <= 1 THEN <<x>>[i] ELSE <<y>>[i - 1]
    BY <1>1, ConcatIs, TuplesAre
  <2>2. (<<x>> \o <<y>>)[1] = x /\ (<<x>> \o <<y>>)[2] = y
    BY <2>1, TuplesAre
  <2> DEFINE a == <<x>> \o <<y>>
             b == <<x, y>>
  <2>3. IsSeq(a) /\ Len(a) = 2 /\ a[1] = x /\ a[2] = y
    BY <2>1, <2>2
  <2>4. IsSeq(b) /\ Len(b) = 2 /\ b[1] = x /\ b[2] = y
    BY TuplesAre
  <2> HIDE DEF a, b
  <2>5. a = b
    <3>1. \A i \in 1..2 : a[i] = b[i]
      BY <2>3, <2>4
    <3> QED
      BY <2>3, <2>4, <3>1, SameSequence
  <2> QED
    BY <2>5 DEF a, b
<1>3. Owing(<<x>> \o <<y>>) = Owing(<<x>>) + Owing(<<y>>)
  BY <1>1, ConcatOwing
<1> QED
  BY <1>2, <1>3, OneOwing

LEMMA TailOwing ==
  ASSUME NEW s, IsSeq(s), s # <<>>
  PROVE  Owing(s) = Owing(Tail(s)) + (IF Leaving(Head(s)) THEN 1 ELSE 0)
<1>1. PICK T : s \in Seq(T)
  BY DEF IsSeq
<1>2. s = <<Head(s)>> \o Tail(s)
  BY <1>1
<1>3. IsSeq(Tail(s))
  BY TailIs
<1>4. IsSeq(<<Head(s)>>)
  BY TuplesAre
<1>5. Owing(<<Head(s)>> \o Tail(s)) = Owing(<<Head(s)>>) + Owing(Tail(s))
  BY <1>3, <1>4, ConcatOwing
<1>6. Owing(<<Head(s)>>) = IF Leaving(Head(s)) THEN 1 ELSE 0
  BY OneOwing
<1>7. Owing(Tail(s)) \in Nat
  BY <1>3, OwedIs
<1> HIDE DEF Owing
<1>8. Owing(s) = Owing(<<Head(s)>>) + Owing(Tail(s))
  BY <1>2, <1>5
<1> QED
  BY <1>6, <1>7, <1>8

-----------------------------------------------------------------------------
(* The invariant.  The blocks of an evaluator are the living scopes above  *)
(* its base and below the base of the next.                                *)

Fields == {"target", "cast", "silent", "scope", "files", "block", "fun", "stack", "lvalue", "visits",
           "lookup", "returned", "breaked", "continued", "owner", "base", "todo"}

GoodScopes(scs) ==
  /\ IsSeq(scs)
  /\ \A s \in 1..Len(scs) : /\ DOMAIN scs[s] = {"parent", "alive", "symbols"}
                            /\ scs[s].parent \in 0..(s - 1)
                            /\ scs[s].alive \in BOOLEAN

Living(base, high, scs) == {s \in (base + 1)..high : scs[s].alive = TRUE}

(* s is the innermost of some blocks, or below them when there are none.   *)
Innermost(s, blocks, base) ==
  IF blocks = {} THEN s \in 1..base ELSE s \in blocks /\ \A t \in blocks : t <= s

Linked(base, high, scs) ==
  \A s \in Living(base, high, scs) :
    Innermost(scs[s].parent, {t \in Living(base, high, scs) : t < s}, base)

Sound(ev, high, scs) ==
  /\ DOMAIN ev = Fields
  /\ ev.base \in 0..high /\ ev.block \in 0..high
  /\ ev.silent \in BOOLEAN
  /\ GoodTodo(ev.todo)
  /\ Innermost(ev.scope, Living(ev.base, high, scs), ev.base)
  /\ Linked(ev.base, high, scs)
  /\ Cardinality(Living(ev.base, high, scs)) = Owing(ev.todo)

Limit(es, scs, i) == IF i = Len(es) THEN Len(scs) ELSE es[i + 1].base

Stacked(es, scs) ==
  /\ IsSeq(es) /\ GoodScopes(scs)
  /\ \A i \in 1..Len(es) : es[i].base \in 0..Len(scs)
  /\ \A i, j \in 1..Len(es) : i < j => es[i].base <= es[j].base
  /\ \A i \in 1..Len(es) : Sound(es[i], Limit(es, scs, i), scs)

(* The scopes up to a number are the same but for their symbols.           *)
Agree(scs, new, n) ==
  \A s \in 1..n : new[s].parent = scs[s].parent /\ new[s].alive = scs[s].alive

LEMMA SoundElsewhere ==
  ASSUME NEW ev, NEW high \in Nat, NEW scs, NEW new, Agree(scs, new, high), Sound(ev, high, scs)
  PROVE  Sound(ev, high, new)
<1>1. ev.base \in 0..high
  BY DEF Sound
<1>2. Living(ev.base, high, new) = Living(ev.base, high, scs)
  BY <1>1 DEF Living, Agree
<1>3. \A s \in Living(ev.base, high, scs) : new[s].parent = scs[s].parent
  BY <1>1 DEF Living, Agree
<1> QED
  BY <1>2, <1>3 DEF Sound, Linked

LEMMA LimitsAre ==
  ASSUME NEW es, NEW scs, Stacked(es, scs)
  PROVE  /\ Len(es) \in Nat /\ Len(scs) \in Nat /\ DOMAIN es = 1..Len(es) /\ DOMAIN scs = 1..Len(scs)
         /\ \A i \in 1..Len(es) : /\ Limit(es, scs, i) \in 0..Len(scs)
                                  /\ es[i].base \in 0..Limit(es, scs, i)
                                  /\ DOMAIN es[i] = Fields
         /\ \A i, j \in 1..Len(es) : i < j => Limit(es, scs, i) <= es[j].base
<1>1. /\ Len(es) \in Nat /\ Len(scs) \in Nat /\ DOMAIN es = 1..Len(es) /\ DOMAIN scs = 1..Len(scs)
  BY SeqIs DEF Stacked, GoodScopes
<1>0. Len(es) \in Nat
  BY <1>1
<1>2. \A i \in 1..Len(es) : DOMAIN es[i] = Fields /\ es[i].base \in 0..Limit(es, scs, i)
  BY DEF Stacked, Sound
<1>3. \A i \in 1..Len(es) : i < Len(es) => Limit(es, scs, i) = es[i + 1].base /\ i + 1 \in 1..Len(es)
  <2>1. ASSUME NEW i \in 1..Len(es), i < Len(es)
        PROVE  i # Len(es) /\ i + 1 \in 1..Len(es)
    BY <1>0, <2>1
  <2> QED
    BY <2>1 DEF Limit
<1>4. Limit(es, scs, Len(es)) = Len(scs)
  BY DEF Limit
<1>5. \A i \in 1..Len(es) : Limit(es, scs, i) \in 0..Len(scs)
  <2>1. ASSUME NEW i \in 1..Len(es)
        PROVE  Limit(es, scs, i) \in 0..Len(scs)
    <3>1. CASE i = Len(es)
      BY <1>1, <1>4, <3>1
    <3>2. CASE i < Len(es)
      BY <1>3, <3>2 DEF Stacked
    <3>3. i = Len(es) \/ i < Len(es)
      BY <1>0
    <3> QED
      BY <3>1, <3>2, <3>3
  <2> QED
    BY <2>1
<1>6. \A i, j \in 1..Len(es) : i < j => Limit(es, scs, i) <= es[j].base
  <2>1. ASSUME NEW i \in 1..Len(es), NEW j \in 1..Len(es), i < j
        PROVE  Limit(es, scs, i) <= es[j].base
    <3>1. Limit(es, scs, i) = es[i + 1].base /\ i + 1 \in 1..Len(es) /\ i + 1 <= j
      BY <1>1, <1>3, <2>1
    <3>2. es[j].base \in Nat
      BY <1>1 DEF Stacked
    <3>3. CASE i + 1 = j
      BY <3>1, <3>2, <3>3
    <3>4. CASE i + 1 < j
      BY <3>1, <3>4 DEF Stacked
    <3> QED
      BY <1>1, <3>1, <3>3, <3>4
  <2> QED
    BY <2>1
<1> QED
  BY <1>1, <1>2, <1>5, <1>6

LEMMA LengthsAre ==
  ASSUME NEW es, NEW scs, Stacked(es, scs)
  PROVE  Len(es) \in Nat /\ Len(scs) \in Nat
BY LimitsAre

(* The innermost evaluator and the scopes above its base change.           *)
LEMMA TopMoves ==
  ASSUME NEW es, NEW scs, Stacked(es, scs), Len(es) > 0,
         NEW ev, ev.base = es[Len(es)].base,
         NEW new, GoodScopes(new), ev.base <= Len(new), Agree(scs, new, ev.base),
         Sound(ev, Len(new), new)
  PROVE  Stacked([es EXCEPT ![Len(es)] = ev], new)
<1> DEFINE n == Len(es)
           moved == [es EXCEPT ![n] = ev]
<1>1. n \in Nat /\ n > 0 /\ IsSeq(es)
  BY LengthsAre DEF Stacked
<1>2. /\ IsSeq(moved) /\ Len(moved) = n
      /\ \A i \in 1..n : moved[i] = IF i = n THEN ev ELSE es[i]
  <2>1. n \in 1..Len(es)
    BY <1>1
  <2> QED
    BY <1>1, <2>1, ExceptIs
<1> HIDE DEF moved
<1>3. Len(new) \in Nat
  BY SeqIs DEF GoodScopes
<1>4. \A i \in 1..n : moved[i].base = es[i].base
  BY <1>2
<1>5. \A i \in 1..n : es[i].base \in Nat /\ es[i].base <= es[n].base
  BY <1>1 DEF Stacked
<1>6. \A i \in 1..n : moved[i].base \in 0..Len(new)
  BY <1>3, <1>4, <1>5
<1>7. \A i, j \in 1..n : i < j => moved[i].base <= moved[j].base
  BY <1>4 DEF Stacked
<1>8. ASSUME NEW i \in 1..n
      PROVE  Sound(moved[i], Limit(moved, new, i), new)
  <2>1. CASE i = n
    BY <1>2, <2>1 DEF Limit
  <2>2. CASE i # n
    <3>1. i + 1 \in 1..n /\ i < n /\ n \in 1..n
      BY <1>1, <2>2
    <3>2. moved[i] = es[i] /\ Limit(moved, new, i) = Limit(es, scs, i) /\ Limit(es, scs, i) = es[i + 1].base
      BY <1>2, <1>4, <2>2, <3>1 DEF Limit
    <3>3. Limit(es, scs, i) \in Nat /\ Limit(es, scs, i) <= es[n].base
      BY <1>5, <3>1, <3>2
    <3>4. Agree(scs, new, Limit(es, scs, i))
      <4>1. es[n].base \in Nat
        BY <1>5, <3>1
      <4> QED
        BY <3>3, <4>1 DEF Agree
    <3>5. Sound(es[i], Limit(es, scs, i), scs)
      BY DEF Stacked
    <3> QED
      BY <3>2, <3>3, <3>4, <3>5, SoundElsewhere
  <2> QED
    BY <2>1, <2>2
<1> QED
  BY <1>2, <1>6, <1>7, <1>8 DEF Stacked, moved

(* A new evaluator.                                                        *)
LEMMA Nests ==
  ASSUME NEW es, NEW scs, Stacked(es, scs),
         NEW ev, ev.base = Len(scs), Sound(ev, Len(scs), scs)
  PROVE  Stacked(Append(es, ev), scs)
<1> DEFINE n == Len(es)
           longer == Append(es, ev)
<1>1. n \in Nat /\ Len(scs) \in Nat /\ IsSeq(es)
  BY LengthsAre DEF Stacked
<1>2. /\ IsSeq(longer) /\ Len(longer) = n + 1 /\ longer[n + 1] = ev
      /\ \A i \in 1..n : longer[i] = es[i]
  BY <1>1, AppendIs
<1>a. \A i \in 1..n : es[i].base \in 0..Len(scs)
  BY DEF Stacked
<1> HIDE DEF longer
<1>3. \A i \in 1..(n + 1) : longer[i].base \in 0..Len(scs)
  <2>1. ASSUME NEW i \in 1..(n + 1)
        PROVE  longer[i].base \in 0..Len(scs)
    <3>1. CASE i = n + 1
      BY <1>1, <1>2, <3>1
    <3>2. CASE i \in 1..n
      BY <1>2, <1>a, <3>2
    <3> QED
      BY <1>1, <3>1, <3>2
  <2> QED
    BY <2>1
<1>4. \A i, j \in 1..(n + 1) : i < j => longer[i].base <= longer[j].base
  <2>1. ASSUME NEW i \in 1..(n + 1), NEW j \in 1..(n + 1), i < j
        PROVE  longer[i].base <= longer[j].base
    <3>1. i \in 1..n
      BY <1>1, <2>1
    <3>2. CASE j = n + 1
      BY <1>1, <1>2, <1>a, <3>1, <3>2
    <3>3. CASE j \in 1..n
      BY <1>2, <2>1, <3>1, <3>3 DEF Stacked
    <3> QED
      BY <1>1, <3>2, <3>3
  <2> QED
    BY <2>1
<1>5. ASSUME NEW i \in 1..(n + 1)
      PROVE  Sound(longer[i], Limit(longer, scs, i), scs)
  <2>1. CASE i = n + 1
    BY <1>2, <2>1 DEF Limit
  <2>2. CASE i \in 1..n
    <3>1. Sound(es[i], Limit(es, scs, i), scs) /\ longer[i] = es[i]
      BY <1>2, <2>2 DEF Stacked
    <3>2. Limit(longer, scs, i) = Limit(es, scs, i)
      <4>1. CASE i = n
        BY <1>1, <1>2, <4>1 DEF Limit
      <4>2. CASE i # n
        <5>1. i + 1 \in 1..n /\ i # n + 1
          BY <1>1, <2>2, <4>2
        <5> QED
          BY <1>2, <4>2, <5>1 DEF Limit
      <4> QED
        BY <4>1, <4>2
    <3> QED
      BY <3>1, <3>2
  <2> QED
    BY <1>1, <2>1, <2>2
<1> QED
  BY <1>1, <1>2, <1>3, <1>4, <1>5 DEF Stacked, longer

LEMMA CutExceptIs ==
  ASSUME NEW s, IsSeq(s), NEW k \in 1..Len(s), NEW x
  PROVE  /\ IsSeq([SubSeq(s, 1, k) EXCEPT ![k] = x]) /\ Len([SubSeq(s, 1, k) EXCEPT ![k] = x]) = k
         /\ \A i \in 1..k : [SubSeq(s, 1, k) EXCEPT ![k] = x][i] = IF i = k THEN x ELSE s[i]
<1>1. Len(s) \in Nat
  BY SeqIs
<1>2. k \in 0..Len(s) /\ k \in 1..k
  BY <1>1
<1>3. PICK cut : cut = SubSeq(s, 1, k)
  OBVIOUS
<1>4. IsSeq(cut) /\ Len(cut) = k /\ \A i \in 1..k : cut[i] = s[i]
  BY <1>2, <1>3, CutIs
<1>5. IsSeq([cut EXCEPT ![k] = x]) /\ Len([cut EXCEPT ![k] = x]) = k
  BY <1>2, <1>4, ExceptIs
<1>6. ASSUME NEW i \in 1..k
      PROVE  [cut EXCEPT ![k] = x][i] = IF i = k THEN x ELSE cut[i]
  BY <1>2, <1>4, ExceptIs
<1> QED
  BY <1>3, <1>4, <1>5, <1>6

(* Evaluators end: of the k that stay the last gets something on its stack. *)
LEMMA Unwinds ==
  ASSUME NEW es, NEW scs, Stacked(es, scs), NEW k \in 0..Len(es), k < Len(es), k > 0,
         NEW new, GoodScopes(new), Len(new) >= es[k + 1].base, Agree(scs, new, es[k + 1].base),
         NEW ev, DOMAIN ev = Fields, \A x \in Fields \ {"stack"} : ev[x] = es[k][x]
  PROVE  Stacked([SubSeq(es, 1, k) EXCEPT ![k] = ev], SubSeq(new, 1, es[k + 1].base))
<1> DEFINE cut == SubSeq(es, 1, k)
           less == [cut EXCEPT ![k] = ev]
           b == es[k + 1].base
           down == SubSeq(new, 1, b)
<1>1. Len(es) \in Nat /\ Len(scs) \in Nat /\ IsSeq(es)
  BY LengthsAre DEF Stacked
<1>2. k \in 1..Len(es) /\ k + 1 \in 1..Len(es) /\ k \in Nat
  BY <1>1
<1>3. b \in Nat /\ b <= Len(scs)
  BY <1>1, <1>2 DEF Stacked
<1>4. IsSeq(cut) /\ Len(cut) = k /\ \A i \in 1..k : cut[i] = es[i]
  BY <1>1, CutIs
<1>5. /\ IsSeq(less) /\ Len(less) = k
      /\ \A i \in 1..k : less[i] = IF i = k THEN ev ELSE es[i]
  BY <1>1, <1>2, CutExceptIs
<1>6. Len(new) \in Nat /\ IsSeq(new)
  BY SeqIs DEF GoodScopes
<1>7. IsSeq(down) /\ Len(down) = b /\ \A s \in 1..b : down[s] = new[s]
  <2>1. b \in 0..Len(new)
    BY <1>3, <1>6
  <2> QED
    BY <1>6, <2>1, CutIs
<1> HIDE DEF cut, less, down, b
<1>8. GoodScopes(down)
  <2>1. ASSUME NEW s \in 1..b
        PROVE  s \in 1..Len(new) /\ down[s] = new[s]
    BY <1>3, <1>6, <1>7 DEF b
  <2> QED
    BY <1>7, <2>1 DEF GoodScopes
<1>9. \A i \in 1..k : less[i].base = es[i].base /\ i \in 1..Len(es)
  <2>1. ev.base = es[k].base
    BY DEF Fields
  <2> QED
    BY <1>1, <1>2, <1>5, <2>1
<1>10. \A i \in 1..k : less[i].base \in 0..Len(down)
  <2>1. ASSUME NEW i \in 1..k
        PROVE  es[i].base \in 0..b
    <3>1. i < k + 1 /\ i \in 1..Len(es)
      BY <1>2, <1>9
    <3>2. es[i].base \in Nat /\ es[i].base <= es[k + 1].base
      BY <1>1, <1>2, <3>1 DEF Stacked
    <3> QED
      BY <1>3, <3>2 DEF b
  <2> QED
    BY <1>7, <1>9, <2>1
<1>11. \A i, j \in 1..k : i < j => less[i].base <= less[j].base
  BY <1>9 DEF Stacked
<1>12. ASSUME NEW i \in 1..k
       PROVE  Sound(less[i], Limit(less, down, i), down)
  <2>1. Sound(es[i], Limit(es, scs, i), scs)
    BY <1>9 DEF Stacked
  <2>2. Limit(less, down, i) = Limit(es, scs, i) /\ Limit(es, scs, i) = es[i + 1].base
    <3>1. i # Len(es) /\ i + 1 \in 1..(k + 1)
      BY <1>1, <1>2
    <3>2. CASE i = k
      BY <1>5, <1>7, <3>1, <3>2 DEF Limit, b
    <3>3. CASE i # k
      <4>1. i + 1 \in 1..k
        BY <1>2, <3>3
      <4> QED
        BY <1>5, <1>9, <3>1, <3>3, <4>1 DEF Limit
    <3> QED
      BY <3>2, <3>3
  <2>3. Limit(es, scs, i) \in Nat /\ Limit(es, scs, i) <= b
    <3>1. i + 1 \in 1..Len(es) /\ (i + 1 = k + 1 \/ i + 1 < k + 1)
      BY <1>1, <1>2
    <3>2. CASE i + 1 = k + 1
      BY <1>3, <2>2, <3>2 DEF b
    <3>3. CASE i + 1 < k + 1
      <4>1. es[i + 1].base <= es[k + 1].base /\ es[i + 1].base \in Nat
        BY <1>1, <1>2, <3>1, <3>3 DEF Stacked
      <4> QED
        BY <2>2, <4>1 DEF b
    <3> QED
      BY <3>1, <3>2, <3>3
  <2>4. Agree(scs, down, Limit(es, scs, i))
    <3>1. ASSUME NEW s \in 1..Limit(es, scs, i)
          PROVE  s \in 1..b /\ down[s] = new[s]
      BY <1>3, <1>7, <2>3
    <3>2. Agree(scs, new, b)
      BY DEF b
    <3> QED
      BY <3>1, <3>2 DEF Agree
  <2>5. Sound(es[i], Limit(es, scs, i), down)
    BY <2>1, <2>3, <2>4, SoundElsewhere
  <2>6. CASE i = k
    <3>1. less[i] = ev
      BY <1>5, <2>6
    <3>2. /\ ev.base = es[i].base /\ ev.block = es[i].block /\ ev.silent = es[i].silent
          /\ ev.todo = es[i].todo /\ ev.scope = es[i].scope
      BY <2>6 DEF Fields
    <3> QED
      BY <2>2, <2>5, <3>1, <3>2 DEF Sound
  <2>7. CASE i # k
    BY <1>5, <2>2, <2>5, <2>7
  <2> QED
    BY <2>6, <2>7
<1> QED
  BY <1>5, <1>8, <1>7, <1>10, <1>11, <1>12 DEF Stacked, less, down, cut, b

-----------------------------------------------------------------------------
(* Scopes change.                                                          *)

ScopeFields == {"parent", "alive", "symbols"}

LEMMA ScopeReplaced ==
  ASSUME NEW scs, GoodScopes(scs), NEW s \in 1..Len(scs), NEW r,
         DOMAIN r = ScopeFields, r.parent = scs[s].parent, r.alive \in BOOLEAN
  PROVE  /\ GoodScopes([scs EXCEPT ![s] = r]) /\ Len([scs EXCEPT ![s] = r]) = Len(scs)
         /\ \A t \in 1..Len(scs) : [scs EXCEPT ![s] = r][t] = IF t = s THEN r ELSE scs[t]
<1>1. IsSeq(scs) /\ Len(scs) \in Nat
  BY SeqIs DEF GoodScopes
<1>2. PICK new : new = [scs EXCEPT ![s] = r]
  OBVIOUS
<1>3. IsSeq(new) /\ Len(new) = Len(scs)
  BY <1>1, <1>2, ExceptIs
<1>4. ASSUME NEW t \in 1..Len(scs)
      PROVE  new[t] = IF t = s THEN r ELSE scs[t]
  BY <1>1, <1>2, ExceptIs
<1>5. GoodScopes(new)
  BY <1>3, <1>4 DEF GoodScopes, ScopeFields
<1> QED
  BY <1>2, <1>3, <1>4, <1>5

LEMMA ReplacedOutside ==
  ASSUME NEW s, IsSeq(s), NEW i, i \notin 1..Len(s), NEW x
  PROVE  [s EXCEPT ![i] = x] = s
<1>1. PICK T : s \in Seq(T)
  BY DEF IsSeq
<1>2. DOMAIN s = 1..Len(s)
  BY SeqIs
<1> QED
  BY <1>1, <1>2

LEMMA SymbolsChange ==
  ASSUME NEW scs, GoodScopes(scs), NEW s, NEW f
  PROVE  /\ GoodScopes([scs EXCEPT ![s].symbols = f]) /\ Len([scs EXCEPT ![s].symbols = f]) = Len(scs)
         /\ Agree(scs, [scs EXCEPT ![s].symbols = f], Len(scs))
<1>1. PICK r : r = [scs[s] EXCEPT !.symbols = f]
  OBVIOUS
<1>2. [scs EXCEPT ![s].symbols = f] = [scs EXCEPT ![s] = r]
  BY <1>1
<1>3. PICK new : new = [scs EXCEPT ![s] = r]
  OBVIOUS
<1>4. CASE s \in 1..Len(scs)
  <2>1. /\ DOMAIN r = ScopeFields /\ r.parent = scs[s].parent
        /\ r.alive = scs[s].alive /\ r.alive \in BOOLEAN
    BY <1>1, <1>4 DEF GoodScopes, ScopeFields
  <2>2. GoodScopes(new) /\ Len(new) = Len(scs)
    BY <1>3, <1>4, <2>1, ScopeReplaced
  <2>3. ASSUME NEW t \in 1..Len(scs)
        PROVE  new[t] = IF t = s THEN r ELSE scs[t]
    BY <1>3, <1>4, <2>1, ScopeReplaced
  <2>4. Agree(scs, new, Len(scs))
    BY <2>1, <2>3 DEF Agree
  <2> QED
    BY <1>2, <1>3, <2>2, <2>4
<1>5. CASE s \notin 1..Len(scs)
  <2>1. new = scs
    BY <1>3, <1>5, ReplacedOutside DEF GoodScopes
  <2> QED
    BY <1>2, <1>3, <2>1 DEF Agree
<1> QED
  BY <1>4, <1>5

LEMMA NestedChanges ==
  ASSUME NEW scs, NEW s, NEW x, NEW y
  PROVE  /\ [scs EXCEPT ![s].symbols[x].v = y]
              = [scs EXCEPT ![s].symbols = [scs[s].symbols EXCEPT ![x].v = y]]
         /\ [scs EXCEPT ![s].symbols[x].state = y]
              = [scs EXCEPT ![s].symbols = [scs[s].symbols EXCEPT ![x].state = y]]
         /\ [scs EXCEPT ![s].symbols[x].arguments = y]
              = [scs EXCEPT ![s].symbols = [scs[s].symbols EXCEPT ![x].arguments = y]]
OBVIOUS

LEMMA LivingIs ==
  ASSUME NEW base, NEW high \in Nat, base \in 0..high, NEW scs
  PROVE  /\ IsFiniteSet(Living(base, high, scs)) /\ Living(base, high, scs) \in SUBSET Nat
         /\ \A s \in Living(base, high, scs) : s \in 1..high /\ s > base
<1>1. IsFiniteSet((base + 1)..high)
  BY FS_Interval
<1>2. IsFiniteSet(Living(base, high, scs))
  BY <1>1, FS_Subset DEF Living
<1> QED
  BY <1>2 DEF Living

LEMMA ScopeIs ==
  ASSUME NEW ev, NEW high \in Nat, NEW scs, Sound(ev, high, scs)
  PROVE  ev.scope \in 1..high
BY LivingIs DEF Sound, Innermost

LEMMA BlockEntered ==
  ASSUME NEW scs, GoodScopes(scs), NEW ev, Sound(ev, Len(scs), scs),
         NEW block, DOMAIN block = ScopeFields, block.parent = ev.scope, block.alive = TRUE,
         NEW entered, DOMAIN entered = Fields, entered.base = ev.base, entered.silent = ev.silent,
         entered.scope = Len(scs) + 1, entered.block \in 0..(Len(scs) + 1),
         GoodTodo(entered.todo), Owing(entered.todo) = Owing(ev.todo) + 1
  PROVE  /\ GoodScopes(Append(scs, block)) /\ Len(Append(scs, block)) = Len(scs) + 1
         /\ Agree(scs, Append(scs, block), Len(scs))
         /\ Sound(entered, Len(scs) + 1, Append(scs, block))
<1>1. PICK n \in Nat : n = Len(scs)
  BY SeqIs DEF GoodScopes
<1>2. PICK new : new = Append(scs, block)
  OBVIOUS
<1>3. /\ IsSeq(new) /\ Len(new) = n + 1 /\ new[n + 1] = block
      /\ \A s \in 1..n : new[s] = scs[s]
  BY <1>1, <1>2, AppendIs DEF GoodScopes
<1>4. ev.scope \in 1..n
  BY <1>1, ScopeIs
<1>5. GoodScopes(new)
  <2>1. ASSUME NEW s \in 1..(n + 1)
        PROVE  /\ DOMAIN new[s] = {"parent", "alive", "symbols"}
               /\ new[s].parent \in 0..(s - 1)
               /\ new[s].alive \in BOOLEAN
    <3>1. CASE s \in 1..n
      BY <1>1, <1>3, <3>1 DEF GoodScopes
    <3>2. CASE s = n + 1
      <4>1. ev.scope \in 0..(s - 1)
        BY <1>4, <3>2
      <4>2. new[s] = block
        BY <1>3, <3>2
      <4> QED
        BY <4>1, <4>2 DEF ScopeFields
    <3> QED
      BY <3>1, <3>2
  <2> QED
    BY <1>3, <2>1 DEF GoodScopes
<1>6. Agree(scs, new, n)
  BY <1>3 DEF Agree
<1> DEFINE base == ev.base
           old == Living(base, n, scs)
           living == Living(base, n + 1, new)
<1>7. base \in 0..n
  BY <1>1 DEF Sound
<1>8. old \in SUBSET Nat /\ IsFiniteSet(old) /\ \A s \in old : s \in 1..n /\ s > base
  BY <1>7, LivingIs
<1>9. living = old \cup {n + 1}
  BY <1>3, <1>7 DEF Living
<1> HIDE DEF base, old, living
<1>10. Innermost(ev.scope, old, base) /\ Cardinality(old) = Owing(ev.todo) /\ Linked(base, n, scs)
  BY <1>1 DEF Sound, base, old
<1>11. Cardinality(living) = Owing(entered.todo)
  <2>1. n + 1 \notin old
    BY <1>8
  <2> QED
    <3>1. Cardinality(old \cup {n + 1}) = Cardinality(old) + 1
      BY <1>8, <2>1, FS_AddElement
    <3> QED
      BY <1>9, <1>10, <3>1
<1>12. Innermost(n + 1, living, base)
  <2>1. \A s \in old : s <= n + 1
    BY <1>8
  <2> QED
    BY <1>9, <2>1 DEF Innermost
<1>13. ASSUME NEW s \in living
       PROVE  Innermost(new[s].parent, {t \in living : t < s}, base)
  <2>1. CASE s = n + 1
    <3>1. {t \in living : t < s} = old
      <4>1. \A t \in old : t < n + 1
        BY <1>8
      <4>2. ~(n + 1 < n + 1)
        OBVIOUS
      <4> QED
        BY <1>9, <2>1, <4>1, <4>2
    <3> QED
      BY <1>3, <1>10, <2>1, <3>1
  <2>2. CASE s \in old
    <3>1. {t \in living : t < s} = {t \in old : t < s}
      BY <1>8, <1>9, <2>2
    <3>2. new[s] = scs[s]
      BY <1>3, <1>8, <2>2
    <3>3. Innermost(scs[s].parent, {t \in old : t < s}, base)
      BY <1>10, <2>2 DEF Linked, old
    <3> QED
      BY <3>1, <3>2, <3>3
  <2> QED
    BY <1>9, <2>1, <2>2
<1>14. Sound(entered, n + 1, new)
  <2>1. Linked(base, n + 1, new)
    BY <1>13 DEF Linked, living
  <2>2. base \in 0..(n + 1) /\ ev.silent \in BOOLEAN
    BY <1>7 DEF Sound
  <2> QED
    BY <1>1, <1>11, <1>12, <2>1, <2>2 DEF Sound, living, base
<1> QED
  BY <1>1, <1>2, <1>3, <1>5, <1>6, <1>14

LEMMA BlockLeft ==
  ASSUME NEW scs, GoodScopes(scs), NEW ev, Sound(ev, Len(scs), scs), Owing(ev.todo) > 0,
         NEW left, DOMAIN left = Fields, left.base = ev.base, left.silent = ev.silent,
         left.scope = scs[ev.scope].parent, left.block \in 0..Len(scs),
         GoodTodo(left.todo), Owing(ev.todo) = Owing(left.todo) + 1
  PROVE  /\ GoodScopes([scs EXCEPT ![ev.scope].alive = FALSE])
         /\ Len([scs EXCEPT ![ev.scope].alive = FALSE]) = Len(scs)
         /\ Agree(scs, [scs EXCEPT ![ev.scope].alive = FALSE], ev.base)
         /\ Sound(left, Len(scs), [scs EXCEPT ![ev.scope].alive = FALSE])
<1>1. PICK n \in Nat : n = Len(scs)
  BY SeqIs DEF GoodScopes
<1>2. PICK c : c = ev.scope
  OBVIOUS
<1>3. c \in 1..n
  BY <1>1, <1>2, ScopeIs
<1>4. PICK r : r = [scs[c] EXCEPT !.alive = FALSE]
  OBVIOUS
<1>5. DOMAIN r = ScopeFields /\ r.parent = scs[c].parent /\ r.alive = FALSE
  BY <1>1, <1>3, <1>4 DEF GoodScopes, ScopeFields
<1>6. PICK new : new = [scs EXCEPT ![c] = r]
  OBVIOUS
<1>7. new = [scs EXCEPT ![ev.scope].alive = FALSE]
  BY <1>2, <1>4, <1>6
<1>8. GoodScopes(new) /\ Len(new) = n
  BY <1>1, <1>3, <1>5, <1>6, ScopeReplaced
<1>9. ASSUME NEW t \in 1..n
      PROVE  new[t] = IF t = c THEN r ELSE scs[t]
  BY <1>1, <1>3, <1>5, <1>6, ScopeReplaced
<1> DEFINE base == ev.base
           old == Living(base, n, scs)
           living == Living(base, n, new)
<1>10. base \in 0..n
  BY <1>1 DEF Sound
<1>11. old \in SUBSET Nat /\ IsFiniteSet(old) /\ \A s \in old : s \in 1..n /\ s > base
  BY <1>10, LivingIs
<1>12. living = old \ {c}
  BY <1>5, <1>9, <1>10 DEF Living
<1> HIDE DEF base, old, living
<1>13. Innermost(c, old, base) /\ Cardinality(old) = Owing(ev.todo) /\ Linked(base, n, scs)
  BY <1>1, <1>2 DEF Sound, base, old
<1>14. old # {}
  <2>1. SUFFICES ASSUME old = {} PROVE FALSE
    OBVIOUS
  <2>2. Cardinality(old) = 0
    BY <2>1, FS_EmptySet
  <2>3. Owing(ev.todo) = 0
    BY <1>13, <2>2
  <2> QED
    BY <2>3
<1>15. c \in old /\ \A t \in old : t <= c
  BY <1>13, <1>14 DEF Innermost
<1>16. Cardinality(living) = Owing(left.todo)
  <2>1. Cardinality(living) = Cardinality(old) - 1
    BY <1>11, <1>12, <1>15, FS_RemoveElement
  <2>2. Owing(left.todo) \in Nat
    BY OwedIs DEF GoodTodo
  <2> QED
    BY <1>13, <2>1, <2>2
<1>17. Innermost(left.scope, living, base)
  <2>1. {t \in old : t < c} = living
    <3>1. ASSUME NEW t \in old
          PROVE  t < c <=> t # c
      <4>1. t \in Nat /\ c \in Nat /\ t <= c
        BY <1>11, <1>15
      <4> QED
        BY <4>1
    <3> QED
      BY <1>12, <3>1
  <2> QED
    BY <1>2, <1>13, <1>15, <2>1 DEF Linked, old
<1>18. ASSUME NEW s \in living
       PROVE  Innermost(new[s].parent, {t \in living : t < s}, base)
  <2>1. s \in old /\ s < c
    BY <1>11, <1>12, <1>15
  <2>2. {t \in living : t < s} = {t \in old : t < s}
    BY <1>11, <1>12, <1>15, <2>1
  <2>3. new[s] = scs[s]
    BY <1>9, <1>11, <1>12, <2>1
  <2> QED
    BY <1>13, <2>1, <2>2, <2>3 DEF Linked, old
<1>19. Sound(left, n, new)
  <2>1. Linked(base, n, new)
    BY <1>18 DEF Linked, living
  <2>2. ev.silent \in BOOLEAN
    BY DEF Sound
  <2> QED
    BY <1>1, <1>10, <1>16, <1>17, <2>1, <2>2 DEF Sound, living, base
<1>20. Agree(scs, new, base)
  <2>1. \A t \in 1..base : t \in 1..n /\ t # c
    BY <1>10, <1>11, <1>15
  <2> QED
    BY <1>9, <2>1 DEF Agree
<1> QED
  BY <1>1, <1>7, <1>8, <1>19, <1>20 DEF base

-----------------------------------------------------------------------------
(* The invariant, and how steps keep it.                                   *)

KindFits(kind, request) ==
  /\ kind \in {"value", "null", "error", "undefined"}
  /\ kind # IF request.kind = "call" THEN "error" ELSE "null"

AnswersFit ==
  /\ IsSeq(answers) /\ Len(answers) <= Len(Unit.requests)
  /\ \A i \in 1..Len(answers) : KindFits(answers[i].kind, Unit.requests[i])
  /\ evs # <<>> => /\ Len(answers) < Len(Unit.requests)
                   /\ evs[1].silent = TRUE <=> Request.kind = "call"

UnitStays == Len(Unit.scopes) <= IF evs = <<>> THEN Len(scopes) ELSE evs[1].base

IInv ==
  /\ program \in DOMAIN Programs
  /\ Stacked(evs, scopes)
  /\ UnitStays
  /\ AnswersFit

LEMMA UnitIs ==
  ASSUME program \in DOMAIN Programs
  PROVE  /\ IsSeq(Unit.scopes) /\ IsSeq(Unit.requests)
         /\ Len(Unit.scopes) \in Nat /\ Len(Unit.requests) \in Nat
         /\ GoodScopes(Unit.scopes)
         /\ \A i \in 1..Len(Unit.requests) : Unit.requests[i].scope \in 1..Len(Unit.scopes)
<1>1. /\ Unit.scopes \in Seq({Unit.scopes[s] : s \in DOMAIN Unit.scopes})
      /\ \A s \in DOMAIN Unit.scopes :
           Unit.scopes[s] \in [parent : 0..(s - 1), alive : BOOLEAN, symbols : {Unit.scopes[s].symbols}]
      /\ Unit.requests \in Seq({Unit.requests[i] : i \in DOMAIN Unit.requests})
      /\ \A i \in DOMAIN Unit.requests : Unit.requests[i].scope \in DOMAIN Unit.scopes
  BY ProgramsAssumption DEF Unit
<1>2. IsSeq(Unit.scopes) /\ IsSeq(Unit.requests)
  BY <1>1 DEF IsSeq
<1>3. /\ Len(Unit.scopes) \in Nat /\ Len(Unit.requests) \in Nat
      /\ DOMAIN Unit.scopes = 1..Len(Unit.scopes) /\ DOMAIN Unit.requests = 1..Len(Unit.requests)
  BY <1>2, SeqIs
<1>4. GoodScopes(Unit.scopes)
  <2>1. ASSUME NEW s \in 1..Len(Unit.scopes)
        PROVE  /\ DOMAIN Unit.scopes[s] = {"parent", "alive", "symbols"}
               /\ Unit.scopes[s].parent \in 0..(s - 1)
               /\ Unit.scopes[s].alive \in BOOLEAN
    <3>1. Unit.scopes[s] \in [parent : 0..(s - 1), alive : BOOLEAN, symbols : {Unit.scopes[s].symbols}]
      BY <1>1, <1>3
    <3> QED
      BY <3>1
  <2> QED
    BY <1>2, <2>1 DEF GoodScopes
<1> QED
  BY <1>1, <1>2, <1>3, <1>4

LEMMA Stays ==
  ASSUME IInv, evs # <<>>, UNCHANGED <<program, answers>>,
         evs' # <<>>, Stacked(evs', scopes'),
         evs'[1].base = evs[1].base, evs'[1].silent = evs[1].silent
  PROVE  IInv'
<1>1. Unit' = Unit /\ Request' = Request
  BY DEF Unit, Request
<1>2. UnitStays'
  BY <1>1 DEF IInv, UnitStays
<1>3. AnswersFit'
  BY <1>1 DEF IInv, AnswersFit
<1> QED
  BY <1>2, <1>3 DEF IInv

LEMMA Answers ==
  ASSUME IInv, Len(answers) < Len(Unit.requests), program' = program, evs' = <<>>,
         NEW a, KindFits(a.kind, Request), answers' = Append(answers, a),
         GoodScopes(scopes'), Len(Unit.scopes) <= Len(scopes')
  PROVE  IInv'
<1>1. Unit' = Unit
  BY DEF Unit
<1>2. IsSeq(answers) /\ Len(answers) \in Nat /\ Len(Unit.requests) \in Nat
  BY SeqIs, UnitIs DEF IInv, AnswersFit
<1>3. /\ IsSeq(answers') /\ Len(answers') = Len(answers) + 1 /\ answers'[Len(answers) + 1] = a
      /\ \A i \in 1..Len(answers) : answers'[i] = answers[i]
  BY <1>2, AppendIs
<1>4. AnswersFit'
  <2>1. ASSUME NEW i \in 1..(Len(answers) + 1)
        PROVE  KindFits(answers'[i].kind, Unit.requests[i])
    <3>1. CASE i = Len(answers) + 1
      BY <1>3, <3>1 DEF Request
    <3>2. CASE i \in 1..Len(answers)
      BY <1>3, <3>2 DEF IInv, AnswersFit
    <3>3. i = Len(answers) + 1 \/ i \in 1..Len(answers)
      BY <1>2
    <3> QED
      BY <3>1, <3>2, <3>3
  <2>2. Len(answers') <= Len(Unit'.requests)
    BY <1>1, <1>2, <1>3
  <2>3. \A i \in 1..Len(answers') : KindFits(answers'[i].kind, Unit'.requests[i])
    BY <1>1, <1>3, <2>1
  <2>4. evs' = <<>>
    OBVIOUS
  <2> QED
    BY <1>3, <2>2, <2>3, <2>4 DEF AnswersFit
<1>5. Stacked(evs', scopes')
  <2>1. IsSeq(<<>>) /\ Len(<<>>) = 0
    BY TuplesAre
  <2>2. evs' = <<>>
    OBVIOUS
  <2> QED
    BY <2>1, <2>2 DEF Stacked
<1>6. UnitStays'
  BY <1>1 DEF UnitStays
<1> QED
  BY <1>4, <1>5, <1>6 DEF IInv

LEMMA TopIs ==
  ASSUME IInv, evs # <<>>
  PROVE  /\ Len(evs) \in Nat /\ Len(evs) > 0 /\ Len(scopes) \in Nat
         /\ GoodScopes(scopes) /\ Sound(Top, Len(scopes), scopes)
         /\ Top.base \in 0..Len(scopes) /\ DOMAIN Top = Fields
<1>1. Stacked(evs, scopes) /\ IsSeq(evs)
  BY DEF IInv, Stacked
<1>2. Len(evs) \in Nat /\ Len(scopes) \in Nat
  BY <1>1, LengthsAre
<1>3. Len(evs) > 0
  BY <1>1, SeqIs
<1>4. Len(evs) \in 1..Len(evs)
  BY <1>2, <1>3
<1>5. Sound(evs[Len(evs)], Limit(evs, scopes, Len(evs)), scopes)
  BY <1>1, <1>4 DEF Stacked
<1>6. Sound(Top, Len(scopes), scopes)
  BY <1>5 DEF Limit, Top
<1> QED
  BY <1>1, <1>2, <1>3, <1>6 DEF Stacked, Sound

LEMMA Moves ==
  ASSUME IInv, evs # <<>>, UNCHANGED <<program, answers>>,
         NEW ev, evs' = [evs EXCEPT ![Len(evs)] = ev],
         ev.base = Top.base, ev.silent = Top.silent,
         GoodScopes(scopes'), ev.base <= Len(scopes'), Agree(scopes, scopes', ev.base),
         Sound(ev, Len(scopes'), scopes')
  PROVE  IInv'
<1>1. Stacked(evs, scopes) /\ IsSeq(evs)
  BY DEF IInv, Stacked
<1>2. Len(evs) \in Nat /\ Len(evs) > 0 /\ Len(evs) \in 1..Len(evs)
  BY TopIs
<1>3. ev.base = evs[Len(evs)].base
  BY DEF Top
<1>4. PICK new : new = scopes'
  OBVIOUS
<1>a. PICK es : es = [evs EXCEPT ![Len(evs)] = ev]
  OBVIOUS
<1>5. Stacked(es, new)
  BY <1>1, <1>2, <1>3, <1>4, <1>a, TopMoves
<1>6. Len(es) = Len(evs) /\ IsSeq(es)
  BY <1>1, <1>2, <1>a, ExceptIs
<1>7. es[1] = IF 1 = Len(evs) THEN ev ELSE evs[1]
  <2>1. 1 \in 1..Len(evs)
    BY <1>2
  <2> QED
    BY <1>1, <1>2, <1>a, <2>1, ExceptIs
<1>8. es # <<>>
  BY <1>2, <1>6, SeqIs
<1>9. es[1].base = evs[1].base /\ es[1].silent = evs[1].silent
  BY <1>7 DEF Top
<1> QED
  BY <1>4, <1>5, <1>8, <1>9, <1>a, Stays

Ready == Len(answers) < Len(Unit.requests) /\ (evs = <<>> => Request.kind # "call")

LEMMA AmongEvaluators ==
  ASSUME IInv, evs # <<>>
  PROVE  Ready
BY DEF IInv, AnswersFit, Ready

LEMMA Ends ==
  ASSUME IInv, Ready, Undefined
  PROVE  IInv'
<1>1. KindFits(Answer("undefined", Unset).kind, Request)
  BY DEF KindFits, Answer
<1>2. GoodScopes(scopes') /\ Len(Unit.scopes) <= Len(scopes')
  <2>1. scopes' = scopes /\ GoodScopes(scopes)
    BY DEF Undefined, IInv, Stacked
  <2>2. CASE evs = <<>>
    BY <2>1, <2>2 DEF IInv, UnitStays
  <2>3. CASE evs # <<>>
    <3>1. evs[1].base \in Nat /\ evs[1].base <= Len(scopes) /\ Len(scopes) \in Nat
      <4>1. 1 \in 1..Len(evs) /\ Len(scopes) \in Nat
        BY <2>3, TopIs
      <4> QED
        BY <4>1 DEF IInv, Stacked
    <3>2. Len(Unit.scopes) <= evs[1].base /\ Len(Unit.scopes) \in Nat
      BY <2>3, UnitIs DEF IInv, UnitStays
    <3> QED
      BY <2>1, <3>1, <3>2
  <2> QED
    BY <2>2, <2>3
<1>3. program' = program /\ evs' = <<>> /\ answers' = Append(answers, Answer("undefined", Unset))
  BY DEF Undefined
<1> QED
  BY <1>1, <1>2, <1>3, Answers DEF Ready

(* The scopes of the first k evaluators.                                   *)
LEMMA CutScopes ==
  ASSUME IInv, NEW i \in 1..Len(evs), NEW new, GoodScopes(new), Len(new) = Len(scopes)
  PROVE  /\ GoodScopes(SubSeq(new, 1, evs[i].base)) /\ Len(SubSeq(new, 1, evs[i].base)) = evs[i].base
         /\ Len(Unit.scopes) <= evs[i].base
<1>1. IsSeq(evs) /\ Len(evs) \in Nat /\ Len(scopes) \in Nat
  BY LengthsAre DEF IInv, Stacked
<1>2. evs[i].base \in 0..Len(scopes) /\ evs # <<>> /\ 1 \in 1..Len(evs)
  <2>1. Len(evs) > 0
    BY <1>1
  <2>2. evs # <<>>
    BY <1>1, <2>1, SeqIs
  <2> QED
    BY <1>1, <2>1, <2>2 DEF IInv, Stacked
<1>3. evs[1].base <= evs[i].base /\ evs[1].base \in Nat
  <2>1. evs[1].base \in Nat
    BY <1>1, <1>2 DEF IInv, Stacked
  <2>2. i = 1 \/ 1 < i
    BY <1>1
  <2> QED
    BY <1>2, <2>1, <2>2 DEF IInv, Stacked
<1>4. Len(Unit.scopes) <= evs[i].base
  <2>1. Len(Unit.scopes) <= evs[1].base /\ Len(Unit.scopes) \in Nat
    BY <1>2, UnitIs DEF IInv, UnitStays
  <2> QED
    BY <1>2, <1>3, <2>1
<1>5. PICK b \in 0..Len(scopes) : b = evs[i].base
  BY <1>2
<1>6. IsSeq(new) /\ b \in 0..Len(new)
  BY <1>5 DEF GoodScopes
<1>7. PICK down : down = SubSeq(new, 1, b)
  OBVIOUS
<1>8. IsSeq(down) /\ Len(down) = b /\ \A s \in 1..b : down[s] = new[s]
  BY <1>6, <1>7, CutIs
<1>9. GoodScopes(down)
  <2>1. \A s \in 1..b : s \in 1..Len(new)
    BY <1>1, <1>5
  <2> QED
    BY <1>8, <2>1 DEF GoodScopes
<1> QED
  BY <1>4, <1>5, <1>7, <1>8, <1>9

LEMMA Returning ==
  ASSUME IInv, NEW k \in 1..Len(evs), k < Len(evs), NEW entry, UNCHANGED <<program, answers>>,
         evs' = [SubSeq(evs, 1, k) EXCEPT ![k] = Push(evs[k], entry)],
         NEW new, GoodScopes(new), Len(new) = Len(scopes), Agree(scopes, new, Len(scopes)),
         scopes' = SubSeq(new, 1, evs[k + 1].base)
  PROVE  IInv'
<1>1. Stacked(evs, scopes) /\ IsSeq(evs) /\ Len(evs) \in Nat /\ Len(scopes) \in Nat
  BY LengthsAre DEF IInv, Stacked
<1>2. k \in 0..Len(evs) /\ k > 0 /\ k + 1 \in 1..Len(evs) /\ 1 \in 1..k /\ evs # <<>>
  <2>1. k \in 0..Len(evs) /\ k > 0 /\ k + 1 \in 1..Len(evs) /\ 1 \in 1..k /\ Len(evs) > 0
    BY <1>1
  <2> QED
    BY <1>1, <2>1, SeqIs
<1>3. PICK ev : ev = Push(evs[k], entry)
  OBVIOUS
<1>4. DOMAIN ev = Fields /\ \A x \in Fields \ {"stack"} : ev[x] = evs[k][x]
  <2>1. DOMAIN evs[k] = Fields
    BY <1>1, LimitsAre
  <2> QED
    BY <1>3, <2>1 DEF Push, Fields
<1>5. evs[k + 1].base \in Nat /\ evs[k + 1].base <= Len(scopes)
  BY <1>1, <1>2 DEF Stacked
<1>6. Agree(scopes, new, evs[k + 1].base)
  BY <1>1, <1>5 DEF Agree
<1>7. PICK es : es = [SubSeq(evs, 1, k) EXCEPT ![k] = ev]
  OBVIOUS
<1>8. PICK down : down = SubSeq(new, 1, evs[k + 1].base)
  OBVIOUS
<1>9. Stacked(es, down)
  BY <1>1, <1>2, <1>4, <1>5, <1>6, <1>7, <1>8, Unwinds
<1>10. IsSeq(es) /\ Len(es) = k
  BY <1>1, <1>7, CutExceptIs
<1>11. es[1] = IF 1 = k THEN ev ELSE evs[1]
  <2>1. \A i \in 1..k : es[i] = IF i = k THEN ev ELSE evs[i]
    BY <1>1, <1>7, CutExceptIs, SMTT(40)
  <2> QED
    BY <1>2, <2>1
<1>12. es[1].base = evs[1].base /\ es[1].silent = evs[1].silent
  BY <1>4, <1>11 DEF Fields
<1>13. es # <<>>
  BY <1>2, <1>10, SeqIs
<1>14. evs' = es /\ scopes' = down
  BY <1>3, <1>7, <1>8
<1> QED
  BY <1>2, <1>9, <1>12, <1>13, <1>14, Stays

LEMMA Fails ==
  ASSUME IInv, Ready, Fail
  PROVE  IInv'
<1> DEFINE silent == {i \in DOMAIN evs : evs[i].silent}
           catcher == CHOOSE i \in silent : \A j \in silent : j <= i
<1>1. /\ IF silent = {} \/ catcher = 1
         THEN /\ evs' = <<>>
              /\ answers' = Append(answers, Answer(IF silent = {} THEN "error" ELSE "null", Unset))
         ELSE /\ evs' = [SubSeq(evs, 1, catcher - 1)
                           EXCEPT ![catcher - 1].stack = Append(@, Nothing)]
              /\ UNCHANGED answers
      /\ scopes' = IF evs = <<>> THEN scopes
                   ELSE SubSeq(scopes, 1, evs[IF silent = {} THEN 1 ELSE catcher].base)
      /\ program' = program
  BY DEF Fail
<1>2. /\ Stacked(evs, scopes) /\ IsSeq(evs) /\ GoodScopes(scopes) /\ DOMAIN evs = 1..Len(evs)
  BY LimitsAre DEF IInv, Stacked
<1>3. Len(evs) \in Nat /\ Len(scopes) \in Nat
  BY <1>2, LengthsAre
<1>4. \A i \in 1..Len(evs) : evs[i].silent \in BOOLEAN
  BY <1>2 DEF Stacked, Sound
<1>5. \A i : i \in silent <=> i \in 1..Len(evs) /\ evs[i].silent = TRUE
  BY <1>2, <1>4
<1> HIDE DEF silent
<1>6. CASE evs = <<>>
  <2>1. silent = {}
    <3>1. Len(evs) = 0
      BY <1>6, TuplesAre
    <3> QED
      BY <1>5, <3>1
  <2>2. /\ evs' = <<>> /\ answers' = Append(answers, Answer("error", Unset)) /\ scopes' = scopes
    BY <1>1, <1>6, <2>1
  <2>3. KindFits(Answer("error", Unset).kind, Request)
    BY <1>6 DEF KindFits, Answer, Ready
  <2>4. Len(Unit.scopes) <= Len(scopes)
    BY <1>6 DEF IInv, UnitStays
  <2> QED
    BY <1>1, <1>2, <2>2, <2>3, <2>4, Answers DEF Ready
<1>7. CASE evs # <<>>
  <2>0. 1 \in 1..Len(evs)
    BY <1>7, TopIs
  <2>1. CASE silent = {}
    <3>1. /\ evs' = <<>> /\ answers' = Append(answers, Answer("error", Unset))
          /\ scopes' = SubSeq(scopes, 1, evs[1].base)
      BY <1>1, <1>7, <2>1
    <3>2. KindFits(Answer("error", Unset).kind, Request)
      <4>1. evs[1].silent # TRUE
        BY <1>5, <2>0, <2>1
      <4> QED
        BY <1>7, <4>1 DEF KindFits, Answer, IInv, AnswersFit
    <3>3. GoodScopes(scopes') /\ Len(Unit.scopes) <= Len(scopes')
      BY <1>2, <2>0, <3>1, CutScopes
    <3> QED
      BY <1>1, <3>1, <3>2, <3>3, Answers DEF Ready
  <2>2. CASE silent # {}
    <3>1. catcher \in silent
      <4>1. silent \in SUBSET (1..Len(evs))
        BY <1>5
      <4>2. \E i \in silent : \A j \in silent : j <= i
        BY <1>3, <2>2, <4>1, LargestUpTo
      <4> QED
        BY <4>2
    <3> HIDE DEF catcher
    <3>2. catcher \in 1..Len(evs) /\ evs[catcher].silent = TRUE
      BY <1>5, <3>1
    <3>3. CASE catcher = 1
      <4>1. /\ evs' = <<>> /\ answers' = Append(answers, Answer("null", Unset))
            /\ scopes' = SubSeq(scopes, 1, evs[1].base)
        BY <1>1, <1>7, <2>2, <3>3
      <4>2. KindFits(Answer("null", Unset).kind, Request)
        BY <1>7, <3>2, <3>3 DEF KindFits, Answer, IInv, AnswersFit
      <4>3. GoodScopes(scopes') /\ Len(Unit.scopes) <= Len(scopes')
        BY <1>2, <2>0, <4>1, CutScopes
      <4> QED
        BY <1>1, <4>1, <4>2, <4>3, Answers DEF Ready
    <3>4. CASE catcher # 1
      <4>1. PICK k \in 1..Len(evs) : k = catcher - 1 /\ k < Len(evs) /\ k + 1 = catcher
        BY <1>3, <3>2, <3>4
      <4>2. /\ evs' = [SubSeq(evs, 1, k) EXCEPT ![k].stack = Append(@, Nothing)]
            /\ UNCHANGED <<program, answers>>
            /\ scopes' = SubSeq(scopes, 1, evs[k + 1].base)
        BY <1>1, <1>7, <2>2, <3>4, <4>1
      <4>3. SubSeq(evs, 1, k)[k] = evs[k]
        <5>1. k \in 0..Len(evs) /\ k \in 1..k
          BY <1>3
        <5> QED
          BY <1>2, <5>1, CutIs
      <4>4. evs' = [SubSeq(evs, 1, k) EXCEPT ![k] = Push(evs[k], Nothing)]
        BY <4>2, <4>3 DEF Push
      <4>5. Agree(scopes, scopes, Len(scopes))
        BY DEF Agree
      <4> QED
        BY <1>2, <4>1, <4>2, <4>4, <4>5, Returning
    <3> QED
      BY <3>3, <3>4
  <2> QED
    BY <2>1, <2>2
<1> QED
  BY <1>6, <1>7

-----------------------------------------------------------------------------
(* What a step leaves of the innermost evaluator: the rest of its todo,    *)
(* and some items more that owe n blocks.                                  *)

Carries(ev, n) ==
  /\ DOMAIN ev = Fields
  /\ ev.base = Top.base /\ ev.silent = Top.silent /\ ev.scope = Top.scope /\ ev.block = Top.block
  /\ GoodTodo(ev.todo)
  /\ Owing(ev.todo) = Owing(Tail(Top.todo)) + n

Busy == evs # <<>> /\ Top.todo # <<>>
Debt(item) == IF Leaving(item) THEN 1 ELSE 0

LEMMA TodoIs ==
  ASSUME IInv, Busy
  PROVE  /\ IsSeq(Top.todo) /\ IsSeq(Tail(Top.todo)) /\ GoodTodo(Tail(Top.todo))
         /\ GoodItem(Head(Top.todo))
         /\ Owing(Tail(Top.todo)) \in Nat
         /\ Owing(Top.todo) = Owing(Tail(Top.todo)) + Debt(Head(Top.todo))
<1>1. PICK todo : todo = Top.todo
  OBVIOUS
<1>2. GoodTodo(todo) /\ IsSeq(todo) /\ todo # <<>>
  BY <1>1, TopIs DEF Busy, Sound, GoodTodo
<1>3. /\ IsSeq(Tail(todo)) /\ Len(Tail(todo)) = Len(todo) - 1 /\ Head(todo) = todo[1]
      /\ \A i \in 1..Len(Tail(todo)) : Tail(todo)[i] = todo[i + 1]
  BY <1>2, TailIs
<1>4. Len(todo) \in Nat /\ Len(todo) > 0 /\ DOMAIN todo = 1..Len(todo)
  BY <1>2, SeqIs
<1>5. \A i \in 1..Len(todo) : GoodItem(todo[i])
  BY <1>2, <1>4 DEF GoodTodo
<1>6. GoodTodo(Tail(todo))
  <2>1. ASSUME NEW i \in 1..Len(Tail(todo))
        PROVE  GoodItem(Tail(todo)[i])
    <3>1. i + 1 \in 1..Len(todo)
      <4>1. Len(todo) \in Nat
        BY <1>4
      <4> QED
        BY <1>3, <4>1
    <3> QED
      BY <1>3, <1>5, <3>1
  <2>2. DOMAIN Tail(todo) = 1..Len(Tail(todo))
    BY <1>3, SeqIs
  <2> QED
    BY <1>3, <2>1, <2>2 DEF GoodTodo
<1>7. GoodItem(Head(todo))
  <2>1. Len(todo) \in Nat /\ Len(todo) > 0
    BY <1>4
  <2>2. 1 \in 1..Len(todo)
    BY <2>1
  <2> QED
    BY <1>3, <1>5, <2>2
<1>8. Owing(Tail(todo)) \in Nat /\ Owing(todo) = Owing(Tail(todo)) + Debt(Head(todo))
  BY <1>2, <1>3, OwedIs, TailOwing DEF Debt
<1> QED
  BY <1>1, <1>2, <1>3, <1>6, <1>7, <1>8

LEMMA RestCarries ==
  ASSUME IInv, Busy
  PROVE  Carries(Rest, 0) /\ Carries(Popped, 0)
<1>1. DOMAIN Top = Fields
  BY TopIs DEF Busy
<1>2. /\ DOMAIN Rest = Fields /\ Rest.todo = Tail(Top.todo)
      /\ Rest.base = Top.base /\ Rest.silent = Top.silent /\ Rest.scope = Top.scope /\ Rest.block = Top.block
  BY <1>1 DEF Rest, Fields
<1>3. /\ DOMAIN Popped = Fields /\ Popped.todo = Rest.todo
      /\ Popped.base = Rest.base /\ Popped.silent = Rest.silent
      /\ Popped.scope = Rest.scope /\ Popped.block = Rest.block
  BY <1>2 DEF Popped, Fields
<1> QED
  BY <1>2, <1>3, TodoIs DEF Carries

(* Fields that do not matter here.                                         *)
LEMMA FieldSet ==
  ASSUME NEW ev, NEW n, Carries(ev, n), NEW x
  PROVE  /\ Carries([ev EXCEPT !.stack = x], n) /\ Carries([ev EXCEPT !.lookup = x], n)
         /\ Carries([ev EXCEPT !.lvalue = x], n) /\ Carries([ev EXCEPT !.target = x], n)
         /\ Carries([ev EXCEPT !.visits = x], n)
         /\ Carries([ev EXCEPT !.returned = x], n) /\ Carries([ev EXCEPT !.breaked = x], n)
         /\ Carries([ev EXCEPT !.continued = x], n) /\ Carries([ev EXCEPT !.fun = x], n)
BY DEF Carries, Fields

LEMMA PushCarries ==
  ASSUME NEW ev, NEW n, Carries(ev, n), NEW entry
  PROVE  Carries(Push(ev, entry), n)
BY DEF Carries, Fields, Push

(* Items to do.                                                            *)
LEMMA ItemIs ==
  ASSUME NEW at, NEW node, at = "test" => node.op = "for"
  PROVE  /\ GoodItem(Item(at, node))
         /\ Item(at, node).at = at /\ Item(at, node).node = node
         /\ Debt(Item(at, node)) = IF \/ at \in {"endFunction", "statements", "test"}
                                      \/ at \in {"condition", "loop"} /\ node.op = "for"
                                   THEN 1 ELSE 0
BY DEF GoodItem, Item, Debt, Leaving

LEMMA ItemWith ==
  ASSUME NEW item, GoodItem(item), NEW x
  PROVE  GoodItem([item EXCEPT !.values = x]) /\ Debt([item EXCEPT !.values = x]) = Debt(item)
BY DEF GoodItem, Debt, Leaving

LEMMA ItemSaving ==
  ASSUME NEW item, GoodItem(item), NEW x
  PROVE  GoodItem([item EXCEPT !.old = x]) /\ Debt([item EXCEPT !.old = x]) = Debt(item)
BY DEF GoodItem, Debt, Leaving

LEMMA DoCarries ==
  ASSUME IInv, Busy, NEW ev, Carries(ev, 0), NEW items, GoodTodo(items)
  PROVE  Carries(Do(ev, items), Owing(items))
<1>1. IsSeq(items) /\ \A j \in DOMAIN items : GoodItem(items[j])
  BY DEF GoodTodo
<1>2. IsSeq(ev.todo) /\ \A j \in DOMAIN ev.todo : GoodItem(ev.todo[j])
  BY DEF Carries, GoodTodo
<1>3. PICK todo : todo = items \o ev.todo
  OBVIOUS
<1>4. Do(ev, items) = [ev EXCEPT !.todo = todo]
  BY <1>3 DEF Do
<1>5. /\ IsSeq(todo) /\ Len(todo) = Len(items) + Len(ev.todo)
      /\ \A i \in 1..(Len(items) + Len(ev.todo)) :
           todo[i] = IF i <= Len(items) THEN items[i] ELSE ev.todo[i - Len(items)]
  BY <1>1, <1>2, <1>3, ConcatIs
<1>6. GoodTodo(todo)
  <2>1. Len(items) \in Nat /\ Len(ev.todo) \in Nat
    BY <1>1, <1>2, SeqIs
  <2>2. DOMAIN items = 1..Len(items) /\ DOMAIN ev.todo = 1..Len(ev.todo) /\ DOMAIN todo = 1..Len(todo)
    BY <1>1, <1>2, <1>5, SeqIs
  <2>3. ASSUME NEW i \in 1..(Len(items) + Len(ev.todo))
        PROVE  GoodItem(todo[i])
    <3>1. CASE i <= Len(items)
      <4>1. i \in 1..Len(items)
        BY <2>1, <3>1
      <4> QED
        BY <1>1, <1>5, <2>2, <3>1, <4>1
    <3>2. CASE ~(i <= Len(items))
      <4>1. i - Len(items) \in 1..Len(ev.todo)
        BY <2>1, <3>2
      <4> QED
        BY <1>2, <1>5, <2>2, <3>2, <4>1
    <3> QED
      BY <3>1, <3>2
  <2> QED
    BY <1>5, <2>2, <2>3 DEF GoodTodo
<1>7. Owing(todo) = Owing(items) + Owing(ev.todo)
  BY <1>1, <1>2, <1>3, ConcatOwing
<1>8. Owing(items) \in Nat /\ Owing(ev.todo) = Owing(Tail(Top.todo)) /\ Owing(Tail(Top.todo)) \in Nat
  BY <1>1, OwedIs, TodoIs DEF Carries
<1> QED
  BY <1>4, <1>6, <1>7, <1>8 DEF Carries, Fields

LEMMA DoOne ==
  ASSUME IInv, Busy, NEW ev, Carries(ev, 0), NEW x, GoodItem(x)
  PROVE  Carries(Do(ev, <<x>>), Debt(x))
<1>1. GoodTodo(<<x>>)
  <2>1. IsSeq(<<x>>) /\ DOMAIN <<x>> = {1} /\ <<x>>[1] = x
    BY TuplesAre
  <2> QED
    BY <2>1 DEF GoodTodo
<1>2. Owing(<<x>>) = Debt(x)
  BY OneOwing DEF Debt
<1>3. Carries(Do(ev, <<x>>), Owing(<<x>>))
  BY <1>1, DoCarries
<1> QED
  BY <1>2, <1>3

LEMMA DoTwo ==
  ASSUME IInv, Busy, NEW ev, Carries(ev, 0), NEW x, GoodItem(x), NEW y, GoodItem(y)
  PROVE  Carries(Do(ev, <<x, y>>), Debt(x) + Debt(y))
<1>1. GoodTodo(<<x, y>>)
  <2>1. IsSeq(<<x, y>>) /\ DOMAIN <<x, y>> = {1, 2} /\ <<x, y>>[1] = x /\ <<x, y>>[2] = y
    BY TuplesAre
  <2> QED
    BY <2>1 DEF GoodTodo
<1>2. Owing(<<x, y>>) = Debt(x) + Debt(y)
  BY TwoOwing DEF Debt
<1>3. Carries(Do(ev, <<x, y>>), Owing(<<x, y>>))
  BY <1>1, DoCarries
<1> QED
  BY <1>2, <1>3

LEMMA VisitIs ==
  ASSUME NEW node
  PROVE  GoodItem(Visit(node)) /\ Debt(Visit(node)) = 0
BY ItemIs DEF Visit

LEMMA DoThree ==
  ASSUME IInv, Busy, NEW ev, Carries(ev, 0), NEW x, GoodItem(x), NEW y, GoodItem(y), NEW z, GoodItem(z)
  PROVE  Carries(Do(ev, <<x, y, z>>), Debt(x) + Debt(y) + Debt(z))
<1>1. GoodTodo(<<x, y, z>>)
  <2>1. IsSeq(<<x, y, z>>) /\ DOMAIN <<x, y, z>> = {1, 2, 3}
    BY TuplesAre
  <2>2. <<x, y, z>>[1] = x /\ <<x, y, z>>[2] = y /\ <<x, y, z>>[3] = z
    BY TuplesAre
  <2> QED
    BY <2>1, <2>2 DEF GoodTodo
<1>2. Owing(<<x, y, z>>) = Debt(x) + Debt(y) + Debt(z)
  <2>1. PICK s, a : s = <<x, y, z>> /\ a = <<x>>
    OBVIOUS
  <2>2. IsSeq(s) /\ s # <<>> /\ Head(s) = x
    BY <2>1, TuplesAre
  <2>3. Tail(s) = <<y, z>>
    BY <2>1
  <2>4. Owing(s) = Owing(Tail(s)) + Debt(x)
    BY <2>2, TailOwing DEF Debt
  <2>5. Owing(<<y, z>>) = Debt(y) + Debt(z)
    BY TwoOwing DEF Debt
  <2>6. Debt(x) \in Nat /\ Debt(y) \in Nat /\ Debt(z) \in Nat
    BY DEF Debt
  <2> QED
    BY <2>1, <2>3, <2>4, <2>5, <2>6
<1>3. Carries(Do(ev, <<x, y, z>>), Owing(<<x, y, z>>))
  BY <1>1, DoCarries
<1> QED
  BY <1>2, <1>3

-----------------------------------------------------------------------------
(* What steps do.                                                          *)

LEMMA Settles ==
  ASSUME IInv, Busy, NEW ev, Carries(ev, Debt(Head(Top.todo))), Becomes(ev), UNCHANGED <<program, answers>>,
         GoodScopes(scopes'), Len(scopes') = Len(scopes), Agree(scopes, scopes', Len(scopes))
  PROVE  IInv'
<1>1. /\ Len(scopes) \in Nat /\ Sound(Top, Len(scopes), scopes) /\ Top.base \in 0..Len(scopes)
  BY TopIs DEF Busy
<1>2. Owing(ev.todo) = Owing(Top.todo)
  BY TodoIs DEF Carries
<1>3. Sound(ev, Len(scopes), scopes)
  BY <1>1, <1>2 DEF Sound, Carries
<1>4. PICK new : new = scopes'
  OBVIOUS
<1>5. Sound(ev, Len(scopes), new)
  BY <1>1, <1>3, <1>4, SoundElsewhere
<1>6. Agree(scopes, new, ev.base)
  BY <1>1, <1>4 DEF Agree, Carries
<1>7. ev.base = Top.base /\ ev.silent = Top.silent /\ ev.base <= Len(scopes')
  BY <1>1 DEF Carries
<1> QED
  BY <1>4, <1>5, <1>6, <1>7, Moves DEF Busy, Becomes

LEMMA Continues ==
  ASSUME IInv, Busy, NEW ev, Carries(ev, Debt(Head(Top.todo))), Continue(ev)
  PROVE  IInv'
<1>1. GoodScopes(scopes)
  BY TopIs DEF Busy
<1>2. scopes' = scopes /\ Becomes(ev) /\ UNCHANGED <<program, answers>>
  BY DEF Continue
<1>3. Agree(scopes, scopes', Len(scopes))
  BY <1>2 DEF Agree
<1> QED
  BY <1>1, <1>2, <1>3, Settles

LEMMA Leaves ==
  ASSUME IInv, Busy, Debt(Head(Top.todo)) = 1, NEW ev, Carries(ev, 0), Leave(ev)
  PROVE  IInv'
<1>1. /\ Len(scopes) \in Nat /\ Sound(Top, Len(scopes), scopes) /\ Top.base \in 0..Len(scopes)
      /\ GoodScopes(scopes)
  BY TopIs DEF Busy
<1>2. PICK left : left = [ev EXCEPT !.scope = scopes[Top.scope].parent]
  OBVIOUS
<1>3. PICK new : new = [scopes EXCEPT ![Top.scope].alive = FALSE]
  OBVIOUS
<1>4. scopes' = new /\ Becomes(left) /\ UNCHANGED <<program, answers>>
  BY <1>2, <1>3 DEF Leave
<1>5. /\ DOMAIN left = Fields /\ left.base = Top.base /\ left.silent = Top.silent
      /\ left.scope = scopes[Top.scope].parent /\ left.block = Top.block /\ left.todo = ev.todo
  BY <1>2 DEF Carries, Fields
<1>6. Top.block \in 0..Len(scopes)
  BY <1>1 DEF Sound
<1>7. GoodTodo(left.todo) /\ Owing(Top.todo) = Owing(left.todo) + 1 /\ Owing(Top.todo) > 0
  BY <1>5, TodoIs DEF Carries
<1>8. /\ GoodScopes(new) /\ Len(new) = Len(scopes) /\ Agree(scopes, new, Top.base)
      /\ Sound(left, Len(scopes), new)
  BY <1>1, <1>3, <1>5, <1>6, <1>7, BlockLeft
<1>9. /\ left.base <= Len(new) /\ Agree(scopes, new, left.base)
      /\ Sound(left, Len(new), new)
  BY <1>1, <1>5, <1>8
<1> QED
  BY <1>4, <1>5, <1>8, <1>9, Moves DEF Busy, Becomes

LEMMA Opens ==
  ASSUME IInv, Busy, NEW block, DOMAIN block = ScopeFields, block.parent = Top.scope, block.alive = TRUE,
         scopes' = Append(scopes, block), UNCHANGED <<program, answers>>,
         NEW ev, DOMAIN ev = Fields, ev.base = Top.base, ev.silent = Top.silent,
         ev.scope = Len(scopes) + 1, ev.block \in 0..(Len(scopes) + 1),
         GoodTodo(ev.todo), Owing(ev.todo) = Owing(Top.todo) + 1, Becomes(ev)
  PROVE  IInv'
<1>1. /\ Len(scopes) \in Nat /\ Sound(Top, Len(scopes), scopes) /\ Top.base \in 0..Len(scopes)
      /\ GoodScopes(scopes)
  BY TopIs DEF Busy
<1>2. PICK new : new = Append(scopes, block)
  OBVIOUS
<1>3. /\ GoodScopes(new) /\ Len(new) = Len(scopes) + 1 /\ Agree(scopes, new, Len(scopes))
      /\ Sound(ev, Len(scopes) + 1, new)
  BY <1>1, <1>2, BlockEntered
<1>4. Agree(scopes, new, ev.base) /\ ev.base <= Len(new)
  BY <1>1, <1>3 DEF Agree
<1> QED
  BY <1>2, <1>3, <1>4, Moves DEF Busy, Becomes

LEMMA Enters ==
  ASSUME IInv, Busy, Debt(Head(Top.todo)) = 0,
         NEW items, GoodTodo(items), Owing(items) = 1, Enter(items)
  PROVE  IInv'
<1>1. Carries(Do(Rest, items), 1)
  BY RestCarries, DoCarries
<1>2. PICK ev : ev = Do([Rest EXCEPT !.scope = Len(scopes) + 1, !.block = Len(scopes) + 1], items)
  OBVIOUS
<1>3. DOMAIN Rest = Fields
  BY RestCarries DEF Carries
<1>4. Do(Rest, items).todo = items \o Rest.todo
  BY <1>3 DEF Do, Fields
<1>5. /\ DOMAIN ev = Fields /\ ev.base = Rest.base /\ ev.silent = Rest.silent
      /\ ev.scope = Len(scopes) + 1 /\ ev.block = Len(scopes) + 1 /\ ev.todo = items \o Rest.todo
  BY <1>2, <1>3 DEF Do, Fields
<1>6. GoodTodo(ev.todo) /\ Owing(ev.todo) = Owing(Top.todo) + 1
  BY <1>1, <1>4, <1>5, TodoIs DEF Carries
<1>7. ev.base = Top.base /\ ev.silent = Top.silent /\ ev.block \in 0..(Len(scopes) + 1)
  <2>1. Len(scopes) \in Nat
    BY TopIs DEF Busy
  <2> QED
    BY <1>5, <2>1, RestCarries DEF Carries
<1>8. PICK block : block = Block(<<>>)
  OBVIOUS
<1>9. DOMAIN block = ScopeFields /\ block.parent = Top.scope /\ block.alive = TRUE
  BY <1>8 DEF Block, ScopeFields
<1>10. scopes' = Append(scopes, block) /\ UNCHANGED <<program, answers>> /\ Becomes(ev)
  BY <1>2, <1>8 DEF Enter
<1> QED
  BY <1>5, <1>6, <1>7, <1>9, <1>10, Opens

-----------------------------------------------------------------------------
(* Evaluators start.                                                       *)

LEMMA NewEvaluator ==
  ASSUME NEW scs, GoodScopes(scs), Len(scs) = Len(scopes),
         NEW target, NEW cast, NEW silent \in BOOLEAN, NEW node, NEW scope \in 1..Len(scopes),
         NEW files, NEW owner,
         NEW ev, ev = Evaluator(target, cast, silent, node, scope, files, owner)
  PROVE  Sound(ev, Len(scs), scs) /\ ev.base = Len(scs) /\ ev.silent = silent
<1>1. PICK item : item = [at |-> "visit", node |-> node, values |-> <<>>, old |-> <<>>]
  OBVIOUS
<1>3. /\ DOMAIN ev = Fields /\ ev.base = Len(scs) /\ ev.silent = silent /\ ev.scope = scope
      /\ ev.block = 0 /\ ev.todo = <<item>>
  BY <1>1 DEF Evaluator, Fields
<1>4. GoodItem(item) /\ ~Leaving(item)
  BY <1>1 DEF GoodItem, Leaving
<1>5. GoodTodo(<<item>>) /\ Owing(<<item>>) = 0
  <2>1. IsSeq(<<item>>) /\ DOMAIN <<item>> = {1} /\ <<item>>[1] = item
    BY TuplesAre
  <2> QED
    BY <1>4, <2>1, OneOwing DEF GoodTodo
<1>6. Len(scs) \in Nat
  BY SeqIs DEF GoodScopes
<1>7. Living(Len(scs), Len(scs), scs) = {}
  BY <1>6 DEF Living
<1>8. /\ Innermost(scope, {}, Len(scs)) /\ Linked(Len(scs), Len(scs), scs)
      /\ Cardinality({}) = 0
  BY <1>7, FS_EmptySet DEF Innermost, Linked
<1>9. Sound(ev, Len(scs), scs)
  BY <1>3, <1>5, <1>6, <1>7, <1>8 DEF Sound
<1> QED
  BY <1>3, <1>9

(* Inside another, which goes on with the rest of its todo.                *)
LEMMA StartsInside ==
  ASSUME IInv, Busy, Debt(Head(Top.todo)) = 0, UNCHANGED <<program, answers>>,
         GoodScopes(scopes'), Len(scopes') = Len(scopes), Agree(scopes, scopes', Len(scopes)),
         NEW ev, Sound(ev, Len(scopes'), scopes'), ev.base = Len(scopes'),
         evs' = Append([evs EXCEPT ![Len(evs)] = Rest], ev)
  PROVE  IInv'
<1>1. /\ Len(scopes) \in Nat /\ Sound(Top, Len(scopes), scopes) /\ Top.base \in 0..Len(scopes)
      /\ Len(evs) \in Nat /\ Len(evs) > 0
  BY TopIs DEF Busy
<1>2. Stacked(evs, scopes) /\ IsSeq(evs)
  BY DEF IInv, Stacked
<1>3. Carries(Rest, 0) /\ Owing(Rest.todo) = Owing(Top.todo)
  BY RestCarries, TodoIs DEF Carries
<1>4. Sound(Rest, Len(scopes), scopes)
  BY <1>1, <1>3 DEF Sound, Carries
<1>5. PICK new : new = scopes'
  OBVIOUS
<1>6. PICK es : es = [evs EXCEPT ![Len(evs)] = Rest]
  OBVIOUS
<1>7. Sound(Rest, Len(new), new)
  BY <1>1, <1>4, <1>5, SoundElsewhere
<1>8. Rest.base = evs[Len(evs)].base /\ Rest.base <= Len(new) /\ Agree(scopes, new, Rest.base)
  BY <1>1, <1>3, <1>5 DEF Carries, Top, Agree
<1>9. Stacked(es, new)
  BY <1>1, <1>2, <1>5, <1>6, <1>7, <1>8, TopMoves
<1>10. Stacked(Append(es, ev), new)
  BY <1>5, <1>9, Nests
<1>11. IsSeq(es) /\ Len(es) = Len(evs)
  <2>1. Len(evs) \in 1..Len(evs)
    BY <1>1
  <2> QED
    BY <1>2, <1>6, <2>1, ExceptIs, ZenonT(40)
<1>12. es[1] = IF 1 = Len(evs) THEN Rest ELSE evs[1]
  <2>1. 1 \in 1..Len(evs) /\ Len(evs) \in 1..Len(evs)
    BY <1>1
  <2> QED
    BY <1>2, <1>6, <2>1, ExceptIs
<1>13. PICK longer : longer = Append(es, ev)
  OBVIOUS
<1>14. IsSeq(longer) /\ Len(longer) = Len(evs) + 1 /\ \A i \in 1..Len(evs) : longer[i] = es[i]
  BY <1>11, <1>13, AppendIs
<1>15. longer # <<>>
  BY <1>1, <1>14, SeqIs
<1>16. longer[1].base = evs[1].base /\ longer[1].silent = evs[1].silent
  <2>1. longer[1] = es[1]
    BY <1>1, <1>14
  <2> QED
    BY <1>3, <1>12, <2>1 DEF Carries, Top
<1> QED
  BY <1>5, <1>6, <1>10, <1>13, <1>15, <1>16, Stays DEF Busy

(* On its own, for a request.                                              *)
LEMMA StartsAlone ==
  ASSUME IInv, evs = <<>>, Len(answers) < Len(Unit.requests), UNCHANGED <<program, answers>>,
         GoodScopes(scopes'), Len(scopes') = Len(scopes),
         NEW ev, Sound(ev, Len(scopes'), scopes'), ev.base = Len(scopes'),
         ev.silent = TRUE <=> Request.kind = "call",
         evs' = Append(<<>>, ev)
  PROVE  IInv'
<1>1. PICK new : new = scopes'
  OBVIOUS
<1>2. Stacked(<<>>, new)
  <2>1. IsSeq(<<>>) /\ Len(<<>>) = 0
    BY TuplesAre
  <2> QED
    BY <1>1, <2>1 DEF Stacked
<1>3. Stacked(Append(<<>>, ev), new)
  BY <1>1, <1>2, Nests
<1>4. PICK es : es = Append(<<>>, ev)
  OBVIOUS
<1>5. IsSeq(es) /\ Len(es) = 1 /\ es[1] = ev
  <2>1. IsSeq(<<>>) /\ Len(<<>>) = 0
    BY TuplesAre
  <2> QED
    <3>1. /\ IsSeq(es) /\ Len(es) = Len(<<>>) + 1
          /\ es[Len(<<>>) + 1] = ev
      BY <1>4, <2>1, AppendIs, ZenonT(40)
    <3> QED
      BY <2>1, <3>1
<1>6. es # <<>>
  BY <1>5, SeqIs, SMTT(40)
<1>7. Unit' = Unit /\ Request' = Request /\ evs' = es
  BY <1>4 DEF Unit, Request
<1>8. UnitStays'
  BY <1>1, <1>5, <1>6, <1>7 DEF IInv, UnitStays
<1>9. AnswersFit'
  BY <1>5, <1>6, <1>7 DEF IInv, AnswersFit
<1> QED
  BY <1>1, <1>3, <1>4, <1>7, <1>8, <1>9 DEF IInv

(* Where a request is answered next, there is one, in a scope of the unit. *)
LEMMA Requested ==
  ASSUME IInv, Idle
  PROVE  Len(answers) < Len(Unit.requests) /\ evs = <<>> /\ Request.scope \in 1..Len(scopes)
<1>1. Len(answers) \in Nat /\ Len(Unit.requests) \in Nat /\ Len(answers) <= Len(Unit.requests)
  BY SeqIs, UnitIs DEF IInv, AnswersFit
<1>2. evs = <<>> /\ Len(answers) # Len(Unit.requests)
  BY DEF Idle, Done
<1>3. Len(answers) < Len(Unit.requests) /\ Len(answers) + 1 \in 1..Len(Unit.requests)
  BY <1>1, <1>2
<1>4. Request.scope \in 1..Len(Unit.scopes) /\ Len(Unit.scopes) \in Nat
  BY <1>3, UnitIs DEF IInv, Request
<1>5. Len(Unit.scopes) <= Len(scopes) /\ Len(scopes) \in Nat
  BY <1>2, LengthsAre DEF IInv, UnitStays
<1>6. Request.scope \in 1..Len(scopes)
  BY <1>4, <1>5
<1> QED
  BY <1>2, <1>3, <1>6

LEMMA Binds ==
  ASSUME IInv, NEW kind, NEW scope, NEW name, NEW asked, NEW files, Bind(kind, scope, name, asked, files),
         \/ Busy /\ Debt(Head(Top.todo)) = 0
         \/ Idle /\ Request.kind # "call"
  PROVE  IInv'
<1>1. Ready
  BY AmongEvaluators, Requested DEF Busy, Ready
<1>2. CASE Fail
  BY <1>1, <1>2, Fails
<1>3. CASE Undefined
  BY <1>1, <1>3, Ends
<1>4. CASE ~Fail /\ ~Undefined
  <2> DEFINE declared == SymbolAt(asked, name)
             ev == Evaluator(declared.type, FALSE, FALSE, declared.node, scope, files,
                             Owner(kind, scope, name, asked))
             new == [scopes EXCEPT ![scope].symbols[name].state = "evaluating"]
  <2>1. /\ Has(scope, name, {kind})
        /\ scopes' = new
        /\ evs' = Append(IF evs = <<>> THEN evs ELSE [evs EXCEPT ![Len(evs)] = Rest], ev)
        /\ UNCHANGED <<program, answers>>
    BY <1>4 DEF Bind
  <2>2. GoodScopes(scopes) /\ DOMAIN scopes = 1..Len(scopes)
    BY SeqIs DEF IInv, Stacked, GoodScopes
  <2>3. scope \in 1..Len(scopes)
    BY <2>1, <2>2 DEF Has
  <2>4. GoodScopes(scopes') /\ Len(scopes') = Len(scopes) /\ Agree(scopes, scopes', Len(scopes))
    BY <2>1, <2>2, NestedChanges, SymbolsChange
  <2>5. PICK e : e = ev
    OBVIOUS
  <2>6. Sound(e, Len(scopes'), scopes') /\ e.base = Len(scopes') /\ e.silent = FALSE
    <3>0. PICK silent \in BOOLEAN : silent = FALSE
      OBVIOUS
    <3>1. PICK type, cast, node, owner : e = Evaluator(type, cast, silent, node, scope, files, owner)
      BY <2>5, <3>0
    <3>2. PICK scs : scs = scopes'
      OBVIOUS
    <3>3. Sound(e, Len(scs), scs) /\ e.base = Len(scs) /\ e.silent = silent
      BY <2>3, <2>4, <3>1, <3>2, NewEvaluator
    <3> QED
      BY <3>0, <3>2, <3>3
  <2> HIDE DEF ev, new, declared
  <2>7. CASE Busy /\ Debt(Head(Top.todo)) = 0
    BY <2>1, <2>4, <2>5, <2>6, <2>7, StartsInside DEF Busy
  <2>8. CASE Idle /\ Request.kind # "call"
    <3>1. evs = <<>> /\ Len(answers) < Len(Unit.requests)
      BY <2>8, Requested
    <3>2. evs' = Append(<<>>, e)
      BY <2>1, <2>5, <3>1
    <3>3. e.silent = TRUE <=> Request.kind = "call"
      BY <2>6, <2>8
    <3> QED
      BY <2>1, <2>4, <2>6, <3>1, <3>2, <3>3, StartsAlone
  <2> QED
    BY <2>7, <2>8
<1> QED
  BY <1>2, <1>3, <1>4

-----------------------------------------------------------------------------
(* The actions.                                                            *)

Indebted == {"endFunction", "statements", "test", "condition", "loop"}

LEMMA HereIs ==
  ASSUME IInv, NEW at, Here(at)
  PROVE  /\ Busy /\ Ready /\ Head(Top.todo).at = at
         /\ Carries(Rest, 0) /\ Carries(Popped, 0)
         /\ at \notin Indebted => Debt(Head(Top.todo)) = 0
         /\ at \in {"endFunction", "statements", "test"} => Debt(Head(Top.todo)) = 1
         /\ at = "test" => Node.op = "for"
         /\ at \in {"condition", "loop"} => Debt(Head(Top.todo)) = IF Node.op = "for" THEN 1 ELSE 0
<1>1. Busy /\ Ready /\ Head(Top.todo).at = at
  BY AmongEvaluators DEF Here, Busy
<1>2. GoodItem(Head(Top.todo))
  BY <1>1, TodoIs
<1> QED
  BY <1>1, <1>2, RestCarries DEF Debt, Leaving, Indebted, GoodItem, Node

LEMMA Wrong ==
  ASSUME IInv, Ready, Fail \/ Undefined
  PROVE  IInv'
BY Fails, Ends

LEMMA AsksOne ==
  ASSUME IInv, Busy, NEW ev, Carries(ev, 0), NEW x, GoodItem(x), Debt(x) = Debt(Head(Top.todo)),
         Continue(Do(ev, <<x>>))
  PROVE  IInv'
BY DoOne, Continues

LEMMA AsksTwo ==
  ASSUME IInv, Busy, NEW ev, Carries(ev, 0), NEW node, NEW x, GoodItem(x), Debt(x) = Debt(Head(Top.todo)),
         Continue(Do(ev, <<Visit(node), x>>))
  PROVE  IInv'
<1>1. Carries(Do(ev, <<Visit(node), x>>), Debt(Visit(node)) + Debt(x))
  BY VisitIs, DoTwo
<1>2. Debt(Visit(node)) + Debt(x) = Debt(Head(Top.todo))
  BY VisitIs DEF Debt
<1> QED
  BY <1>1, <1>2, Continues

LEMMA AsksThree ==
  ASSUME IInv, Busy, NEW ev, Carries(ev, 0), NEW node, NEW x, GoodItem(x), NEW y, GoodItem(y),
         Debt(x) = 0, Debt(y) = Debt(Head(Top.todo)),
         Continue(Do(ev, <<Visit(node), x, y>>))
  PROVE  IInv'
<1>1. Carries(Do(ev, <<Visit(node), x, y>>), Debt(Visit(node)) + Debt(x) + Debt(y))
  BY VisitIs, DoThree
<1>2. Debt(Visit(node)) + Debt(x) + Debt(y) = Debt(Head(Top.todo))
  BY VisitIs DEF Debt
<1> QED
  BY <1>1, <1>2, Continues

(* Only symbols change.                                                    *)
LEMMA SetsSymbols ==
  ASSUME IInv, Busy, Debt(Head(Top.todo)) = 0, NEW ev, Carries(ev, 0), Becomes(ev),
         UNCHANGED <<program, answers>>, NEW s, NEW f, scopes' = [scopes EXCEPT ![s].symbols = f]
  PROVE  IInv'
<1>1. GoodScopes(scopes)
  BY DEF IInv, Stacked
<1>2. GoodScopes(scopes') /\ Len(scopes') = Len(scopes) /\ Agree(scopes, scopes', Len(scopes))
  BY <1>1, SymbolsChange
<1> QED
  BY <1>2, Settles

LEMMA SymbolEvaluated ==
  ASSUME IInv, Busy, Debt(Head(Top.todo)) = 0, NEW s, NEW name, EvaluateSymbol(s, name)
  PROVE  IInv'
<1>1. Carries(Rest, 0) /\ Ready
  BY RestCarries, AmongEvaluators DEF Busy
<1> DEFINE kind == SymbolAt(s, name).kind
<1>2. CASE kind \in {"constant", "enumConstant"}
  <2>1. FoundConstant(s, name)
    BY <1>2 DEF EvaluateSymbol
  <2>2. CASE SymbolAt(s, name).v # Unset
    <3>1. Continue(Push(Rest, Pushed(SymbolAt(s, name).v)))
      BY <2>1, <2>2 DEF FoundConstant
    <3> QED
      BY <1>1, <3>1, PushCarries, Continues
  <2>3. CASE SymbolAt(s, name).v = Unset
    <3>1. Bind(SymbolAt(s, name).kind, IF SymbolAt(s, name).kind = "constant" THEN Top.scope ELSE s,
               name, s, Top.files)
      BY <2>1, <2>3 DEF FoundConstant
    <3> QED
      BY <3>1, Binds
  <2> QED
    BY <2>2, <2>3
<1>3. CASE kind = "variable"
  <2>1. FoundVariable(s, name)
    BY <1>3 DEF EvaluateSymbol
  <2> QED
    BY <1>1, <2>1, PushCarries, Continues DEF FoundVariable
<1>4. CASE kind = "container"
  <2>1. FoundContainer(s, name)
    BY <1>4 DEF EvaluateSymbol
  <2> QED
    BY <1>1, <2>1, PushCarries, Continues DEF FoundContainer
<1>5. CASE kind = "function"
  <2>1. FoundGroup(s, name)
    BY <1>5 DEF EvaluateSymbol
  <2>2. /\ scopes' = [scopes EXCEPT ![s].symbols = [scopes[s].symbols EXCEPT ![name].arguments = <<>>]]
        /\ Becomes(Push(Rest, Entry("group", Unset, s, name)))
        /\ UNCHANGED <<program, answers>>
    BY <2>1, NestedChanges DEF FoundGroup
  <2> QED
    BY <1>1, <2>2, PushCarries, SetsSymbols
<1>6. CASE kind \notin {"constant", "enumConstant", "variable", "container", "function"}
  <2>1. Fail
    BY <1>6 DEF EvaluateSymbol
  <2> QED
    BY <1>1, <2>1, Wrong
<1> QED
  BY <1>2, <1>3, <1>4, <1>5, <1>6

LEMMA OutcomeTaken ==
  ASSUME IInv, Busy, Debt(Head(Top.todo)) = 0, NEW ev, Carries(ev, 0), NEW r, Outcome(r, ev)
  PROVE  IInv'
<1>1. Ready
  BY AmongEvaluators DEF Busy
<1>2. CASE r.kind = "value"
  <2>1. Continue(Push(ev, Pushed(r.v)))
    BY <1>2 DEF Outcome
  <2> QED
    BY <2>1, PushCarries, Continues
<1>3. CASE r.kind # "value"
  <2>1. Fail \/ Undefined
    BY <1>3 DEF Outcome
  <2> QED
    BY <1>1, <2>1, Wrong
<1> QED
  BY <1>2, <1>3

LEMMA VisitsOfNames ==
  ASSUME IInv, VisitIdentifier \/ VisitDot \/ EvaluateDot \/ EvaluateMember \/ VisitLiteral \/ VisitUnsupported
  PROVE  IInv'
<1>1. CASE VisitIdentifier
  <2>1. Busy /\ Ready /\ Debt(Head(Top.todo)) = 0
    BY <1>1, HereIs DEF VisitIdentifier, Visiting, Indebted
  <2>2. Fail \/ \E s : EvaluateSymbol(s, Node.name)
    BY <1>1 DEF VisitIdentifier
  <2> QED
    BY <2>1, <2>2, Wrong, SymbolEvaluated
<1>2. CASE VisitDot
  <2>1. Busy /\ Carries(Rest, 0) /\ Debt(Head(Top.todo)) = 0
    BY <1>2, HereIs DEF VisitDot, Visiting, Indebted
  <2>2. Carries([Rest EXCEPT !.lookup = "containers"], 0)
    BY <2>1, FieldSet
  <2>3. GoodItem(Item("dot", Node)) /\ Debt(Item("dot", Node)) = 0
    BY ItemIs
  <2> QED
    BY <1>2, <2>1, <2>2, <2>3, AsksTwo DEF VisitDot
<1>3. CASE EvaluateDot
  <2>1. Busy /\ Ready /\ Carries(Popped, 0) /\ Debt(Head(Top.todo)) = 0
    BY <1>3, HereIs DEF EvaluateDot, Indebted
  <2>2. PICK ev, x : /\ ev = [Popped EXCEPT !.lookup = Old.lookup]
                     /\ x = [Item("member", Node) EXCEPT !.values = <<TopEntry.scope>>]
    OBVIOUS
  <2>3. Carries(ev, 0)
    BY <2>1, <2>2, FieldSet
  <2>4. GoodItem(x) /\ Debt(x) = 0
    BY <2>2, ItemIs, ItemWith
  <2>5. Fail \/ Undefined \/ Continue(Do(ev, <<x>>))
    BY <1>3, <2>2 DEF EvaluateDot, Taking
  <2> QED
    BY <2>1, <2>3, <2>4, <2>5, Wrong, AsksOne
<1>4. CASE EvaluateMember
  <2>1. Busy /\ Debt(Head(Top.todo)) = 0
    BY <1>4, HereIs DEF EvaluateMember, Indebted
  <2> QED
    BY <1>4, <2>1, SymbolEvaluated DEF EvaluateMember
<1>5. CASE VisitLiteral
  <2>1. Busy /\ Carries(Rest, 0) /\ Debt(Head(Top.todo)) = 0
    BY <1>5, HereIs DEF VisitLiteral, Visiting, Indebted
  <2>2. Continue(Push(Rest, Pushed([t |-> Node.type, n |-> Node.num])))
    BY <1>5 DEF VisitLiteral
  <2> QED
    BY <2>1, <2>2, PushCarries, Continues
<1>6. CASE VisitUnsupported
  <2>1. Ready /\ Fail
    BY <1>6, HereIs DEF VisitUnsupported, Visiting
  <2> QED
    BY <2>1, Wrong
<1> QED
  BY <1>1, <1>2, <1>3, <1>4, <1>5, <1>6

LEMMA Operators ==
  ASSUME IInv, VisitOperands \/ EvaluateOperator
  PROVE  IInv'
<1>1. CASE VisitOperands
  <2>1. Busy /\ Carries(Rest, 0) /\ Debt(Head(Top.todo)) = 0
    BY <1>1, HereIs DEF VisitOperands, Visiting, Indebted
  <2>2. PICK x, left, right : x = Item("operator", Node) /\ left = Node.kids[1] /\ right = Node.kids[2]
    OBVIOUS
  <2>3. GoodItem(x) /\ Debt(x) = 0
    BY <2>2, ItemIs
  <2>4. \/ Continue(Do(Rest, <<Visit(left), Visit(right), x>>))
        \/ Continue(Do(Rest, <<Visit(left), x>>))
    BY <1>1, <2>2 DEF VisitOperands
  <2>5. GoodItem(Visit(right)) /\ Debt(Visit(right)) = 0
    BY VisitIs
  <2> QED
    BY <2>1, <2>3, <2>4, <2>5, AsksTwo, AsksThree
<1>2. CASE EvaluateOperator
  <2>1. Busy /\ Ready /\ Carries(Rest, 0) /\ Debt(Head(Top.todo)) = 0
    BY <1>2, HereIs DEF EvaluateOperator, Indebted
  <2>2. Fail \/ Undefined \/ \E r, stack : Outcome(r, [Rest EXCEPT !.stack = stack])
    BY <1>2 DEF EvaluateOperator
  <2>3. \A stack : Carries([Rest EXCEPT !.stack = stack], 0)
    BY <2>1, FieldSet
  <2> QED
    BY <2>1, <2>2, <2>3, Wrong, OutcomeTaken
<1> QED
  BY <1>1, <1>2

LEMMA VariablesChange ==
  ASSUME IInv, Busy, Debt(Head(Top.todo)) = 0, NEW ev, Carries(ev, 0), NEW s, NEW x, Change(ev, s, x)
  PROVE  IInv'
<1>1. CASE Steps(SymbolAt(s, x).v)
  <2>1. /\ scopes' = [scopes EXCEPT ![s].symbols[x].v = Step(SymbolAt(s, x).v, By(Node.op))]
        /\ Becomes(ev) /\ UNCHANGED <<program, answers>>
    BY <1>1 DEF Change
  <2>2. \E f : scopes' = [scopes EXCEPT ![s].symbols = f]
    BY <2>1, NestedChanges
  <2> QED
    BY <2>1, <2>2, SetsSymbols
<1>2. CASE ~Steps(SymbolAt(s, x).v)
  <2>1. Fail /\ Ready
    BY <1>2, AmongEvaluators DEF Change, Busy
  <2> QED
    BY <2>1, Wrong
<1> QED
  BY <1>1, <1>2

LEMMA Increments ==
  ASSUME IInv, VisitPrefix \/ EvaluatePrefix \/ VisitPostfix \/ VisitPostfixAgain \/ EvaluatePostfix
  PROVE  IInv'
<1>1. CASE VisitPrefix
  <2>1. Busy /\ Carries(Rest, 0) /\ Debt(Head(Top.todo)) = 0
    BY <1>1, HereIs DEF VisitPrefix, Visiting, Indebted
  <2>2. Carries([Rest EXCEPT !.lvalue = TRUE], 0)
    BY <2>1, FieldSet
  <2>3. GoodItem(Item("prefix", Node)) /\ Debt(Item("prefix", Node)) = 0
    BY ItemIs
  <2> QED
    BY <1>1, <2>1, <2>2, <2>3, AsksTwo DEF VisitPrefix
<1>2. CASE EvaluatePrefix
  <2>1. Busy /\ Ready /\ Carries(Popped, 0) /\ Debt(Head(Top.todo)) = 0
    BY <1>2, HereIs DEF EvaluatePrefix, Indebted
  <2>2. PICK v, ev : /\ v = Step(SymbolAt(TopEntry.scope, TopEntry.name).v, By(Node.op))
                     /\ ev = [Popped EXCEPT !.lvalue = Old.lvalue]
    OBVIOUS
  <2>3. Carries(Push(ev, Pushed(v)), 0)
    BY <2>1, <2>2, FieldSet, PushCarries
  <2>4. Fail \/ Undefined \/ Change(Push(ev, Pushed(v)), TopEntry.scope, TopEntry.name)
    BY <1>2, <2>2 DEF EvaluatePrefix, Taking
  <2> QED
    BY <2>1, <2>3, <2>4, Wrong, VariablesChange
<1>3. CASE VisitPostfix
  <2>1. Busy /\ Carries(Rest, 0) /\ Debt(Head(Top.todo)) = 0
    BY <1>3, HereIs DEF VisitPostfix, Visiting, Indebted
  <2>2. GoodItem(Item("postfixLvalue", Node)) /\ Debt(Item("postfixLvalue", Node)) = 0
    BY ItemIs
  <2> QED
    BY <1>3, <2>1, <2>2, AsksTwo DEF VisitPostfix
<1>4. CASE VisitPostfixAgain
  <2>1. Busy /\ Carries(Rest, 0) /\ Debt(Head(Top.todo)) = 0
    BY <1>4, HereIs DEF VisitPostfixAgain, Indebted
  <2>2. Carries([Rest EXCEPT !.lvalue = TRUE], 0)
    BY <2>1, FieldSet
  <2>3. GoodItem(Item("postfix", Node)) /\ Debt(Item("postfix", Node)) = 0
    BY ItemIs
  <2> QED
    BY <1>4, <2>1, <2>2, <2>3, AsksTwo DEF VisitPostfixAgain
<1>5. CASE EvaluatePostfix
  <2>1. Busy /\ Ready /\ Carries(Popped, 0) /\ Debt(Head(Top.todo)) = 0
    BY <1>5, HereIs DEF EvaluatePostfix, Indebted
  <2>2. PICK ev : ev = [Popped EXCEPT !.lvalue = Old.lvalue]
    OBVIOUS
  <2>3. Carries(ev, 0)
    BY <2>1, <2>2, FieldSet
  <2>4. Fail \/ Undefined \/ Change(ev, TopEntry.scope, TopEntry.name)
    BY <1>5, <2>2 DEF EvaluatePostfix, Taking
  <2> QED
    BY <2>1, <2>3, <2>4, Wrong, VariablesChange
<1> QED
  BY <1>1, <1>2, <1>3, <1>4, <1>5

LEMMA DereferencesAndCasts ==
  ASSUME IInv, VisitDeref \/ EvaluateDeref \/ VisitCast
  PROVE  IInv'
<1>1. CASE VisitDeref
  <2>1. Busy /\ Carries(Rest, 0) /\ Debt(Head(Top.todo)) = 0
    BY <1>1, HereIs DEF VisitDeref, Visiting, Indebted
  <2>2. GoodItem(Item("deref", Node)) /\ Debt(Item("deref", Node)) = 0
    BY ItemIs
  <2> QED
    BY <1>1, <2>1, <2>2, AsksTwo DEF VisitDeref
<1>2. CASE EvaluateDeref
  <2>1. Busy /\ Ready /\ Carries(Popped, 0) /\ Debt(Head(Top.todo)) = 0
    BY <1>2, HereIs DEF EvaluateDeref, Indebted
  <2>2. Fail \/ Undefined \/ \E entry : Continue(Push(Popped, entry))
    BY <1>2 DEF EvaluateDeref, Taking
  <2> QED
    BY <2>1, <2>2, Wrong, PushCarries, Continues
<1>3. CASE VisitCast
  <2>1. Busy /\ Ready /\ Debt(Head(Top.todo)) = 0
    BY <1>3, HereIs DEF VisitCast, Visiting, Indebted
  <2>2. CASE GetValueTypeFor(ResolveType(Node.type, Top.scope)) = None
    BY <1>3, <2>1, <2>2, Wrong DEF VisitCast
  <2>3. CASE GetValueTypeFor(ResolveType(Node.type, Top.scope)) # None
    <3>1. PICK type, cast, node, owner, files, ev :
            /\ ev = Evaluator(type, cast, Top.silent, node, Top.scope, files, owner)
            /\ evs' = Append([evs EXCEPT ![Len(evs)] = Rest], ev)
            /\ UNCHANGED <<program, scopes, returns, answers>>
      BY <1>3, <2>3 DEF VisitCast
    <3>2. /\ Top.silent \in BOOLEAN /\ Top.scope \in 1..Len(scopes) /\ GoodScopes(scopes)
          /\ Len(scopes) \in Nat
      BY <2>1, TopIs, ScopeIs DEF Busy, Sound
    <3>3. Sound(ev, Len(scopes), scopes) /\ ev.base = Len(scopes)
      BY <3>1, <3>2, NewEvaluator
    <3>4. Agree(scopes, scopes', Len(scopes)) /\ scopes' = scopes
      BY <3>1 DEF Agree
    <3> QED
      BY <2>1, <3>1, <3>2, <3>3, <3>4, StartsInside
  <2> QED
    BY <2>2, <2>3
<1> QED
  BY <1>1, <1>2, <1>3

LEMMA Invocations ==
  ASSUME IInv, VisitInvoke \/ EvaluateArgument \/ VisitTemplateId \/ EvaluateTemplateId
  PROVE  IInv'
<1>0. ASSUME Busy, Debt(Head(Top.todo)) = 0, NEW ev, Carries(ev, 0), NEW values,
             Continue(Subject(ev, values))
      PROVE  IInv'
  <2>1. PICK x : x = [Item("call", Node) EXCEPT !.values = values]
    OBVIOUS
  <2>2. GoodItem(x) /\ Debt(x) = 0
    BY <2>1, ItemIs, ItemWith, SMTT(40)
  <2>3. Carries([ev EXCEPT !.lookup = "invoke"], 0)
    BY <1>0, FieldSet
  <2>4. Continue(Do([ev EXCEPT !.lookup = "invoke"], <<Visit(Node.kids[1]), x>>))
    BY <1>0, <2>1 DEF Subject
  <2> QED
    BY <1>0, <2>2, <2>3, <2>4, AsksTwo
<1>1. CASE VisitInvoke
  <2>1. Busy /\ Carries(Rest, 0) /\ Debt(Head(Top.todo)) = 0
    BY <1>1, HereIs DEF VisitInvoke, Visiting, Indebted
  <2>2. GoodItem(Item("argument", Node)) /\ Debt(Item("argument", Node)) = 0
    BY ItemIs
  <2>3. \/ Continue(Subject(Rest, <<>>))
        \/ Continue(Do(Rest, <<Visit(Node.kids[2]), Item("argument", Node)>>))
    BY <1>1 DEF VisitInvoke
  <2> QED
    BY <1>0, <2>1, <2>2, <2>3, AsksTwo
<1>2. CASE EvaluateArgument
  <2>1. Busy /\ Ready /\ Carries(Popped, 0) /\ Debt(Head(Top.todo)) = 0
    BY <1>2, HereIs DEF EvaluateArgument, Indebted
  <2>2. \A values : /\ GoodItem([Item("argument", Node) EXCEPT !.values = values])
                    /\ Debt([Item("argument", Node) EXCEPT !.values = values]) = 0
    BY ItemIs, ItemWith
  <2>3. \/ Fail \/ Undefined
        \/ \E values : Continue(Subject(Popped, values))
        \/ \E node, values :
             Continue(Do(Popped, <<Visit(node), [Item("argument", Node) EXCEPT !.values = values]>>))
    BY <1>2 DEF EvaluateArgument, Taking
  <2>4. CASE \E values : Continue(Subject(Popped, values))
    BY <1>0, <2>1, <2>4
  <2>5. ASSUME NEW node, NEW values,
               Continue(Do(Popped, <<Visit(node), [Item("argument", Node) EXCEPT !.values = values]>>))
        PROVE  IInv'
    BY <2>1, <2>2, <2>5, AsksTwo
  <2> QED
    BY <2>1, <2>3, <2>4, <2>5, Wrong
<1>3. CASE VisitTemplateId
  <2>1. Busy /\ Carries(Rest, 0) /\ Debt(Head(Top.todo)) = 0
    BY <1>3, HereIs DEF VisitTemplateId, Visiting, Indebted
  <2>2. GoodItem(Item("templateId", Node)) /\ Debt(Item("templateId", Node)) = 0
    BY ItemIs
  <2>3. Carries([Rest EXCEPT !.lookup = "groups"], 0)
    BY <2>1, FieldSet
  <2> QED
    BY <1>3, <2>1, <2>2, <2>3, AsksTwo DEF VisitTemplateId
<1>4. CASE EvaluateTemplateId
  <2>1. Busy /\ Ready /\ Carries(Rest, 0) /\ Debt(Head(Top.todo)) = 0
    BY <1>4, HereIs DEF EvaluateTemplateId, Indebted
  <2>2. PICK arguments : arguments = [i \in 1..(Len(Node.kids) - 1) |->
                                        ResolveType(Node.kids[i + 1].type, Top.scope)]
    OBVIOUS
  <2>3. \/ Fail \/ Undefined
        \/ /\ scopes' = [scopes EXCEPT ![TopEntry.scope].symbols[TopEntry.name].arguments = arguments]
           /\ Becomes([Rest EXCEPT !.lookup = Old.lookup])
           /\ UNCHANGED <<program, answers>>
    BY <1>4, <2>2 DEF EvaluateTemplateId, Taking
  <2>4. CASE /\ scopes' = [scopes EXCEPT ![TopEntry.scope].symbols[TopEntry.name].arguments = arguments]
             /\ Becomes([Rest EXCEPT !.lookup = Old.lookup])
             /\ UNCHANGED <<program, answers>>
    <3>1. Carries([Rest EXCEPT !.lookup = Old.lookup], 0)
      BY <2>1, FieldSet
    <3>2. \E f : scopes' = [scopes EXCEPT ![TopEntry.scope].symbols = f]
      BY <2>4, NestedChanges
    <3> QED
      BY <2>1, <2>4, <3>1, <3>2, SetsSymbols
  <2> QED
    BY <2>1, <2>3, <2>4, Wrong
<1> QED
  BY <1>1, <1>2, <1>3, <1>4

LEMMA Calls ==
  ASSUME IInv, Busy, Debt(Head(Top.todo)) = 0, NEW f, NEW values, NEW arguments, Call(f, values, arguments)
  PROVE  IInv'
<1> DEFINE items == <<Visit(Function(f).body), Item("endFunction", Node)>>
<1>1. Carries(Popped, 0) /\ DOMAIN Popped = Fields /\ Len(scopes) \in Nat /\ Top.block \in 0..Len(scopes)
  BY RestCarries, TopIs DEF Carries, Busy, Sound
<1>2. /\ GoodItem(Item("endFunction", Node)) /\ Debt(Item("endFunction", Node)) = 1
      /\ GoodItem(Visit(Function(f).body)) /\ Debt(Visit(Function(f).body)) = 0
  BY ItemIs, VisitIs
<1>3. Carries(Do(Popped, items), 1)
  BY <1>1, <1>2, DoTwo
<1> HIDE DEF items
<1>4. PICK ev : ev = Do([Popped EXCEPT !.scope = Len(scopes) + 1, !.files = Append(@, Function(f).usings),
                           !.fun = f, !.returned = FALSE, !.lookup = Old.lookup], items)
  OBVIOUS
<1>5. Do(Popped, items).todo = items \o Popped.todo
  BY <1>1 DEF Do, Fields
<1>6. /\ DOMAIN ev = Fields /\ ev.base = Popped.base /\ ev.silent = Popped.silent
      /\ ev.scope = Len(scopes) + 1 /\ ev.block = Popped.block /\ ev.todo = items \o Popped.todo
  BY <1>1, <1>4 DEF Do, Fields
<1>7. GoodTodo(ev.todo) /\ Owing(ev.todo) = Owing(Top.todo) + 1
  BY <1>3, <1>5, <1>6, TodoIs DEF Carries
<1>8. ev.base = Top.base /\ ev.silent = Top.silent /\ ev.block \in 0..(Len(scopes) + 1)
  BY <1>1, <1>6 DEF Carries
<1>9. PICK block : block = Block(FunctionSymbols(Function(f), values, arguments))
  OBVIOUS
<1>10. DOMAIN block = ScopeFields /\ block.parent = Top.scope /\ block.alive = TRUE
  BY <1>9 DEF Block, ScopeFields
<1>11. scopes' = Append(scopes, block) /\ UNCHANGED <<program, answers>> /\ Becomes(ev)
  BY <1>4, <1>9 DEF Call, items
<1> QED
  BY <1>6, <1>7, <1>8, <1>10, <1>11, Opens

LEMMA CallsEnd ==
  ASSUME IInv, EvaluateCall \/ EndFunction
  PROVE  IInv'
<1>1. CASE EvaluateCall
  <2>1. Busy /\ Ready /\ Debt(Head(Top.todo)) = 0
    BY <1>1, HereIs DEF EvaluateCall, Indebted
  <2>2. Fail \/ Undefined \/ \E f, arguments : InvokeFunction(f, arguments)
    BY <1>1 DEF EvaluateCall, Taking
  <2>3. ASSUME NEW f, NEW arguments, InvokeFunction(f, arguments)
        PROVE  IInv'
    <3>1. Fail \/ Undefined \/ \E values : Call(f, values, arguments)
      BY <2>3 DEF InvokeFunction
    <3> QED
      BY <2>1, <3>1, Wrong, Calls
  <2> QED
    BY <2>1, <2>2, <2>3, Wrong
<1>2. CASE EndFunction
  <2>1. Busy /\ Ready /\ Carries(Rest, 0) /\ Debt(Head(Top.todo)) = 1
    BY <1>2, HereIs DEF EndFunction
  <2>2. PICK ev : ev = [Rest EXCEPT !.returned = Old.returned, !.fun = Old.fun]
    OBVIOUS
  <2>3. Carries(ev, 0)
    BY <2>1, <2>2 DEF Carries, Fields
  <2>4. Fail \/ Leave(ev)
    BY <1>2, <2>2 DEF EndFunction
  <2> QED
    BY <2>1, <2>3, <2>4, Wrong, Leaves
<1> QED
  BY <1>1, <1>2

LEMMA Blocks ==
  ASSUME IInv, VisitCompound \/ NextStatement
  PROVE  IInv'
<1>1. CASE VisitCompound
  <2>1. Busy /\ Debt(Head(Top.todo)) = 0
    BY <1>1, HereIs DEF VisitCompound, Visiting, Indebted
  <2>2. PICK x : x = Item("statements", Node)
    OBVIOUS
  <2>3. GoodItem(x) /\ Leaving(x)
    BY <2>2, ItemIs DEF Debt
  <2>4. GoodTodo(<<x>>) /\ Owing(<<x>>) = 1
    <3>1. IsSeq(<<x>>) /\ DOMAIN <<x>> = {1} /\ <<x>>[1] = x
      BY TuplesAre
    <3> QED
      BY <2>3, <3>1, OneOwing DEF GoodTodo
  <2>5. Enter(<<x>>)
    BY <1>1, <2>2 DEF VisitCompound
  <2> QED
    BY <2>1, <2>4, <2>5, Enters
<1>2. CASE NextStatement
  <2>1. Busy /\ Carries(Rest, 0) /\ Debt(Head(Top.todo)) = 1 /\ Head(Top.todo).at = "statements"
    BY <1>2, HereIs DEF NextStatement
  <2>2. PICK x : x = [Head(Top.todo) EXCEPT !.node.kids = Tail(@)]
    OBVIOUS
  <2>3. GoodItem(Head(Top.todo))
    BY <2>1, TodoIs
  <2>4. DOMAIN x = DOMAIN Head(Top.todo) /\ x.at = "statements"
    BY <2>1, <2>2, <2>3 DEF GoodItem
  <2>5. GoodItem(x) /\ Debt(x) = 1
    BY <2>3, <2>4 DEF GoodItem, Debt, Leaving
  <2>6. Leave(Rest) \/ Continue(Do(Rest, <<Visit(Head(Node.kids)), x>>))
    BY <1>2, <2>2 DEF NextStatement
  <2> QED
    BY <2>1, <2>5, <2>6, Leaves, AsksTwo
<1> QED
  BY <1>1, <1>2

LEMMA Declares ==
  ASSUME IInv, Busy, Debt(Head(Top.todo)) = 0, NEW ev, Carries(ev, 0),
         NEW type, NEW values, Declare(ev, type, values)
  PROVE  IInv'
<1>1. Ready
  BY AmongEvaluators DEF Busy
<1>2. PICK symbol, x : symbol = Symbol("variable", type, IF values = <<>> THEN Default(type) ELSE values[1])
                       /\ x = Top.block
  OBVIOUS
<1>3. \/ Fail \/ Undefined
      \/ /\ scopes' = [scopes EXCEPT ![x].symbols = (Node.name :> symbol) @@ @]
         /\ Becomes(ev) /\ UNCHANGED <<program, answers>>
  BY <1>2 DEF Declare
<1>4. CASE /\ scopes' = [scopes EXCEPT ![x].symbols = (Node.name :> symbol) @@ @]
           /\ Becomes(ev) /\ UNCHANGED <<program, answers>>
  <2>1. \E f : scopes' = [scopes EXCEPT ![x].symbols = f]
    <3>1. scopes' = [scopes EXCEPT ![x].symbols = (Node.name :> symbol) @@ scopes[x].symbols]
      BY <1>4
    <3> QED
      BY <3>1
  <2> QED
    BY <1>4, <2>1, SetsSymbols
<1> QED
  BY <1>1, <1>3, <1>4, Wrong

LEMMA Declarations ==
  ASSUME IInv, VisitConstruction \/ EvaluateConstruction
  PROVE  IInv'
<1>1. CASE VisitConstruction
  <2>1. Busy /\ Ready /\ Carries(Rest, 0) /\ Debt(Head(Top.todo)) = 0
    BY <1>1, HereIs DEF VisitConstruction, Visiting, Indebted
  <2>2. GoodItem(Item("construction", Node)) /\ Debt(Item("construction", Node)) = 0
    BY ItemIs
  <2>3. \/ Fail
        \/ Declare(Rest, ResolveType(Node.type, Top.scope), <<>>)
        \/ Continue(Do(Rest, <<Visit(Node.kids[1]), Item("construction", Node)>>))
    BY <1>1 DEF VisitConstruction
  <2> QED
    BY <2>1, <2>2, <2>3, Wrong, Declares, AsksTwo
<1>2. CASE EvaluateConstruction
  <2>1. Busy /\ Ready /\ Carries(Popped, 0) /\ Debt(Head(Top.todo)) = 0
    BY <1>2, HereIs DEF EvaluateConstruction, Indebted
  <2>2. \A values : LET x == [Head(Top.todo) EXCEPT !.values = values] IN GoodItem(x) /\ Debt(x) = 0
    BY <2>1, TodoIs, ItemWith
  <2>3. \/ Fail \/ Undefined
        \/ \E type, values : Declare(Popped, type, values)
        \/ \E node, values : Continue(Do(Popped, <<Visit(node), [Head(Top.todo) EXCEPT !.values = values]>>))
    BY <1>2 DEF EvaluateConstruction, Taking
  <2>4. ASSUME NEW node, NEW values,
               Continue(Do(Popped, <<Visit(node), [Head(Top.todo) EXCEPT !.values = values]>>))
        PROVE  IInv'
    BY <2>1, <2>2, <2>4, AsksTwo
  <2> QED
    BY <2>1, <2>3, <2>4, Wrong, Declares
<1> QED
  BY <1>1, <1>2

LEMMA Assignments ==
  ASSUME IInv, VisitAssignment \/ EvaluateTarget \/ EvaluateAssignment
  PROVE  IInv'
<1>1. CASE VisitAssignment
  <2>1. Busy /\ Carries(Rest, 0) /\ Debt(Head(Top.todo)) = 0
    BY <1>1, HereIs DEF VisitAssignment, Visiting, Indebted
  <2>2. GoodItem(Item("assignment", Node)) /\ Debt(Item("assignment", Node)) = 0
    BY ItemIs
  <2>3. Carries([Rest EXCEPT !.lvalue = TRUE, !.visits = FALSE], 0)
    BY <2>1, FieldSet DEF Carries, Fields
  <2> QED
    BY <1>1, <2>1, <2>2, <2>3, AsksTwo DEF VisitAssignment
<1>2. CASE EvaluateTarget
  <2>1. Busy /\ Ready /\ Carries(Popped, 0) /\ Debt(Head(Top.todo)) = 0
    BY <1>2, HereIs DEF EvaluateTarget, Indebted
  <2>2. PICK type, store, ev :
          /\ type = SymbolAt(TopEntry.scope, TopEntry.name).type
          /\ store = [Item("store", Node) EXCEPT !.values = <<TopEntry>>, !.old.visits = Old.visits]
          /\ ev = [Popped EXCEPT !.lvalue = Old.lvalue, !.target = type]
    OBVIOUS
  <2>3. GoodItem(store) /\ Debt(store) = 0
    <3>1. PICK item : item = [Item("store", Node) EXCEPT !.values = <<TopEntry>>]
      OBVIOUS
    <3>2. GoodItem(item) /\ Debt(item) = 0
      BY <3>1, ItemIs, ItemWith
    <3>3. store = [item EXCEPT !.old = [@ EXCEPT !.visits = Old.visits]]
      BY <2>2, <3>1 DEF Item
    <3> QED
      BY <3>2, <3>3, ItemSaving
  <2>4. Carries(ev, 0)
    BY <2>1, <2>2 DEF Carries, Fields
  <2>5. Fail \/ Undefined \/ Continue(Do(ev, <<Visit(Node.kids[2]), store>>))
    BY <1>2, <2>2 DEF EvaluateTarget, Taking
  <2> QED
    BY <2>1, <2>3, <2>4, <2>5, Wrong, AsksTwo
<1>3. CASE EvaluateAssignment
  <2>1. Busy /\ Ready /\ Carries(Popped, 0) /\ Debt(Head(Top.todo)) = 0
    BY <1>3, HereIs DEF EvaluateAssignment, Indebted
  <2>2. PICK ev, s, x, v : /\ ev = [Popped EXCEPT !.target = Old.target, !.visits = Old.visits]
                           /\ s = Collected[1].scope /\ x = Collected[1].name
                           /\ v = As(TopEntry.v, Old.target)
    OBVIOUS
  <2>3. Carries(ev, 0)
    BY <2>1, <2>2 DEF Carries, Fields
  <2>4. \/ Fail \/ Undefined
        \/ scopes' = [scopes EXCEPT ![s].symbols[x].v = v] /\ Becomes(ev) /\ UNCHANGED <<program, answers>>
    BY <1>3, <2>2 DEF EvaluateAssignment, Taking
  <2>5. CASE scopes' = [scopes EXCEPT ![s].symbols[x].v = v] /\ Becomes(ev) /\ UNCHANGED <<program, answers>>
    <3>1. \E f : scopes' = [scopes EXCEPT ![s].symbols = f]
      BY <2>5, NestedChanges
    <3> QED
      BY <2>1, <2>3, <2>5, <3>1, SetsSymbols
  <2> QED
    BY <2>1, <2>4, <2>5, Wrong
<1> QED
  BY <1>1, <1>2, <1>3

LEMMA Asks ==
  ASSUME IInv, Busy, NEW ev, Carries(ev, 0), NEW condition, NEW then,
         then # "test", Debt(Item(then, Node)) = Debt(Head(Top.todo)), Ask(ev, condition, then)
  PROVE  IInv'
<1>1. Carries([ev EXCEPT !.target = "bool"], 0)
  BY FieldSet
<1>2. GoodItem(Item(then, Node))
  BY ItemIs
<1>3. Continue(Do([ev EXCEPT !.target = "bool"], <<Visit(condition), Item(then, Node)>>))
  BY DEF Ask
<1> QED
  BY <1>1, <1>2, <1>3, AsksTwo

LEMMA AsksFirst ==
  ASSUME IInv, Busy, Carries(Rest, 0), Debt(Head(Top.todo)) = 0, NEW condition, NEW then,
         then # "test", Debt(Item(then, Node)) = 0, AskFirst(condition, then)
  PROVE  IInv'
<1>1. CASE Ask(Rest, condition, then)
  BY <1>1, Asks
<1>2. CASE Continue(Do([Rest EXCEPT !.target = "bool"], <<Item(then, Node)>>))
  <2>1. Carries([Rest EXCEPT !.target = "bool"], 0)
    BY FieldSet
  <2>2. GoodItem(Item(then, Node))
    BY ItemIs
  <2> QED
    BY <1>2, <2>1, <2>2, AsksOne
<1> QED
  BY <1>1, <1>2 DEF AskFirst

LoopDebt == IF Node.op = "for" THEN 1 ELSE 0

LEMMA Tests ==
  ASSUME IInv, Busy, NEW ev, Carries(ev, 0), Debt(Head(Top.todo)) = LoopDebt, Repeat(ev) \/ Test(ev)
  PROVE  IInv'
<1>1. /\ GoodItem(Item("loop", Node)) /\ Debt(Item("loop", Node)) = LoopDebt
      /\ Debt(Item("condition", Node)) = LoopDebt
  BY ItemIs DEF LoopDebt
<1>2. CASE Repeat(ev)
  <2>1. Continue(Do(ev, <<Visit(Statement(Node)), Item("loop", Node)>>))
    BY <1>2 DEF Repeat
  <2> QED
    BY <1>1, <2>1, AsksTwo
<1>3. CASE Test(ev)
  <2>1. Repeat(ev) \/ Ask(ev, Condition(Node), "condition")
    BY <1>3 DEF Test
  <2> QED
    BY <1>1, <1>2, <2>1, Asks
<1> QED
  BY <1>2, <1>3

LEMMA LoopsEnd ==
  ASSUME IInv, Busy, NEW ev, Carries(ev, 0), Debt(Head(Top.todo)) = LoopDebt, EndLoop(ev)
  PROVE  IInv'
<1>1. CASE Node.op = "for"
  <2>1. Debt(Head(Top.todo)) = 1 /\ Leave(ev)
    BY <1>1 DEF EndLoop, LoopDebt
  <2> QED
    BY <2>1, Leaves
<1>2. CASE Node.op # "for"
  <2>1. Debt(Head(Top.todo)) = 0 /\ Continue(ev)
    BY <1>2 DEF EndLoop, LoopDebt
  <2> QED
    BY <2>1, Continues
<1> QED
  BY <1>1, <1>2

LEMMA Conditionals ==
  ASSUME IInv, VisitConditional \/ EvaluateConditional
  PROVE  IInv'
<1>1. CASE VisitConditional
  <2>1. Busy /\ Carries(Rest, 0) /\ Debt(Head(Top.todo)) = 0
    BY <1>1, HereIs DEF VisitConditional, Visiting, Indebted
  <2>2. Debt(Item("if", Node)) = 0
    BY ItemIs
  <2> QED
    BY <1>1, <2>1, <2>2, AsksFirst DEF VisitConditional
<1>2. CASE EvaluateConditional
  <2>0. Here("if")
    BY <1>2 DEF EvaluateConditional
  <2>1. Busy /\ Ready /\ Carries(Popped, 0) /\ Debt(Head(Top.todo)) = 0
    BY <2>0, HereIs DEF Indebted
  <2>2. PICK ev : ev = [Popped EXCEPT !.target = Old.target]
    OBVIOUS
  <2>3. Carries(ev, 0)
    BY <2>1, <2>2, FieldSet
  <2>4. Fail \/ Undefined \/ Continue(ev) \/ \E node : Continue(Do(ev, <<Visit(node)>>))
    BY <1>2, <2>2 DEF EvaluateConditional, Answered, Taking
  <2> QED
    BY <2>1, <2>3, <2>4, VisitIs, Wrong, Continues, AsksOne
<1> QED
  BY <1>1, <1>2

LEMMA Loops ==
  ASSUME IInv, VisitLoop \/ TestLoop \/ EvaluateCondition \/ NextRound
  PROVE  IInv'
<1>1. CASE VisitLoop
  <2>1. Busy /\ Carries(Rest, 0) /\ Debt(Head(Top.todo)) = 0
    BY <1>1, HereIs DEF VisitLoop, Visiting, Indebted
  <2>2. CASE Visiting({"while"}) /\ AskFirst(Condition(Node), "condition")
    <3>1. Debt(Item("condition", Node)) = 0
      BY <2>2, ItemIs DEF Visiting
    <3> QED
      BY <2>1, <2>2, <3>1, AsksFirst
  <2>3. CASE Visiting({"do"}) /\ Repeat(Rest)
    <3>1. LoopDebt = 0
      BY <2>3 DEF Visiting, LoopDebt
    <3> QED
      BY <2>1, <2>3, <3>1, Tests
  <2>4. CASE Visiting({"for"}) /\ Enter(<<Visit(Node.kids[1]), Item("test", Node)>>)
    <3>1. PICK x, y : x = Visit(Node.kids[1]) /\ y = Item("test", Node)
      OBVIOUS
    <3>2. GoodItem(x) /\ ~Leaving(x) /\ GoodItem(y) /\ Leaving(y)
      BY <2>4, <3>1, ItemIs, VisitIs DEF Visiting, Debt
    <3>3. GoodTodo(<<x, y>>) /\ Owing(<<x, y>>) = 1
      <4>1. IsSeq(<<x, y>>) /\ DOMAIN <<x, y>> = {1, 2} /\ <<x, y>>[1] = x /\ <<x, y>>[2] = y
        BY TuplesAre
      <4> QED
        BY <3>2, <4>1, TwoOwing DEF GoodTodo
    <3>4. Enter(<<x, y>>)
      BY <2>4, <3>1
    <3> QED
      BY <2>1, <3>3, <3>4, Enters
  <2> QED
    BY <1>1, <2>2, <2>3, <2>4 DEF VisitLoop
<1>2. CASE TestLoop
  <2>1. Busy /\ Carries(Rest, 0) /\ Debt(Head(Top.todo)) = LoopDebt
    BY <1>2, HereIs DEF TestLoop, LoopDebt
  <2> QED
    BY <1>2, <2>1, Tests DEF TestLoop
<1>3. CASE EvaluateCondition
  <2>1. Busy /\ Ready /\ Carries(Popped, 0) /\ Debt(Head(Top.todo)) = LoopDebt
    BY <1>3, HereIs DEF EvaluateCondition, LoopDebt
  <2>2. PICK ev : ev = [Popped EXCEPT !.target = Old.target]
    OBVIOUS
  <2>3. Carries(ev, 0)
    BY <2>1, <2>2, FieldSet
  <2>4. Fail \/ Undefined \/ Repeat(ev) \/ EndLoop(ev)
    BY <1>3, <2>2 DEF EvaluateCondition, Answered, Taking
  <2> QED
    BY <2>1, <2>3, <2>4, Wrong, Tests, LoopsEnd
<1>4. CASE NextRound
  <2>1. Busy /\ Carries(Rest, 0) /\ Debt(Head(Top.todo)) = LoopDebt
    BY <1>4, HereIs DEF NextRound, LoopDebt
  <2>2. PICK ending, ev : /\ ending = [Rest EXCEPT !.breaked = Top.returned /\ @]
                          /\ ev = [Rest EXCEPT !.continued = FALSE]
    OBVIOUS
  <2>3. Carries(ending, 0) /\ Carries(ev, 0)
    BY <2>1, <2>2, FieldSet
  <2>4. \/ EndLoop(ending) \/ Test(ev)
        \/ /\ Node.op = "for"
           /\ Continue(Do(ev, <<Visit(Node.kids[3]), Item("drop", Node), Item("test", Node)>>))
    BY <1>4, <2>2 DEF NextRound
  <2>5. CASE /\ Node.op = "for"
             /\ Continue(Do(ev, <<Visit(Node.kids[3]), Item("drop", Node), Item("test", Node)>>))
    <3>1. /\ GoodItem(Item("drop", Node)) /\ Debt(Item("drop", Node)) = 0
          /\ GoodItem(Item("test", Node)) /\ Debt(Item("test", Node)) = LoopDebt
      BY <2>5, ItemIs DEF LoopDebt
    <3> QED
      BY <2>1, <2>3, <2>5, <3>1, AsksThree
  <2> QED
    BY <2>1, <2>3, <2>4, <2>5, LoopsEnd, Tests
<1> QED
  BY <1>1, <1>2, <1>3, <1>4

LEMMA Jumps ==
  ASSUME IInv, VisitBreak \/ VisitContinue \/ VisitReturn \/ EvaluateReturn \/ VisitSimple \/ Drop
  PROVE  IInv'
<1>1. CASE VisitBreak \/ VisitContinue
  <2>1. Busy /\ Carries(Rest, 0) /\ Debt(Head(Top.todo)) = 0
    BY <1>1, HereIs DEF VisitBreak, VisitContinue, Visiting, Indebted
  <2>2. Carries([Rest EXCEPT !.breaked = TRUE], 0) /\ Carries([Rest EXCEPT !.continued = TRUE], 0)
    BY <2>1, FieldSet
  <2> QED
    BY <1>1, <2>1, <2>2, Continues DEF VisitBreak, VisitContinue
<1>2. CASE VisitReturn \/ VisitSimple
  <2>1. Busy /\ Carries(Rest, 0) /\ Debt(Head(Top.todo)) = 0
    BY <1>2, HereIs DEF VisitReturn, VisitSimple, Visiting, Indebted
  <2>2. PICK node, x : /\ GoodItem(x) /\ Debt(x) = 0
                       /\ Continue(Do(Rest, <<x>>)) \/ Continue(Do(Rest, <<Visit(node), x>>))
    <3>1. /\ GoodItem(Item("return", Node)) /\ Debt(Item("return", Node)) = 0
          /\ GoodItem(Item("drop", Node)) /\ Debt(Item("drop", Node)) = 0
      BY ItemIs
    <3>2. CASE VisitReturn
      BY <3>1, <3>2 DEF VisitReturn
    <3>3. CASE VisitSimple
      BY <3>1, <3>3 DEF VisitSimple
    <3> QED
      BY <1>2, <3>2, <3>3
  <2> QED
    BY <2>1, <2>2, AsksOne, AsksTwo
<1>3. CASE EvaluateReturn
  <2>1. Busy /\ Ready /\ Carries(Popped, 0) /\ Debt(Head(Top.todo)) = 0
    BY <1>3, HereIs DEF EvaluateReturn, Indebted
  <2>2. Carries([Popped EXCEPT !.returned = TRUE], 0)
    BY <2>1, FieldSet
  <2>3. Fail \/ Undefined \/ \E entry : Continue(Push([Popped EXCEPT !.returned = TRUE], entry))
    BY <1>3 DEF EvaluateReturn, Taking
  <2> QED
    BY <2>1, <2>2, <2>3, Wrong, PushCarries, Continues
<1>4. CASE Drop
  <2>1. Busy /\ Ready /\ Carries(Popped, 0) /\ Debt(Head(Top.todo)) = 0
    BY <1>4, HereIs DEF Drop, Indebted
  <2>2. Fail \/ Continue(Popped)
    BY <1>4 DEF Drop
  <2> QED
    BY <2>1, <2>2, Wrong, Continues
<1> QED
  BY <1>1, <1>2, <1>3, <1>4

(* An evaluator that ends hands its value on, to the one it was started    *)
(* inside or as the answer.                                                *)
LEMMA Delivers ==
  ASSUME IInv, evs # <<>>, NEW v, NEW symbols, Deliver(v, symbols),
         GoodScopes(symbols), Len(symbols) = Len(scopes), Agree(scopes, symbols, Len(scopes))
  PROVE  IInv'
<1> DEFINE k == Len(evs) - 1
<1>1. IsSeq(evs) /\ Len(evs) \in Nat /\ Len(evs) > 0
  BY TopIs DEF IInv, Stacked
<1>2. k \in 0..Len(evs) /\ Len(evs) = k + 1 /\ Len(evs) \in 1..Len(evs)
  BY <1>1
<1>3. IsSeq(Below) /\ Len(Below) = k /\ \A i \in 1..k : Below[i] = evs[i]
  BY <1>1, <1>2, CutIs DEF Below
<1>4. Below = <<>> <=> k = 0
  BY <1>2, <1>3, SeqIs
<1>5. scopes' = SubSeq(symbols, 1, evs[Len(evs)].base) /\ program' = program
  BY DEF Deliver, Top
<1>6. CASE k = 0
  <2>1. PICK a : a = IF Top.silent /\ v.t = "charPtr" THEN Answer("null", Unset) ELSE Answer("value", v)
    OBVIOUS
  <2>2. evs' = <<>> /\ answers' = Append(answers, a)
    BY <1>4, <1>6, <2>1 DEF Deliver
  <2>3. Top = evs[1]
    <3>1. Len(evs) = 1
      BY <1>1, <1>6
    <3> QED
      BY <3>1 DEF Top
  <2>4. Top.silent => Request.kind = "call"
    <3>1. Top.silent \in BOOLEAN
      BY TopIs DEF Sound
    <3> QED
      BY <2>3, <3>1 DEF IInv, AnswersFit
  <2>5. KindFits(a.kind, Request)
    BY <2>1, <2>4 DEF KindFits, Answer
  <2>6. GoodScopes(scopes') /\ Len(Unit.scopes) <= Len(scopes')
    BY <1>2, <1>5, CutScopes
  <2>7. Len(answers) < Len(Unit.requests)
    BY AmongEvaluators DEF Ready
  <2> QED
    BY <1>5, <2>2, <2>5, <2>6, <2>7, Answers
<1>7. CASE k # 0
  <2>1. k \in 1..Len(evs) /\ k < Len(evs) /\ k \in 1..k
    BY <1>1, <1>2, <1>7
  <2>2. Below = SubSeq(evs, 1, k) /\ Below[k] = evs[k] /\ Below # <<>>
    BY <1>3, <1>4, <1>7, <2>1 DEF Below
  <2>3. evs' = [Below EXCEPT ![k] = Push(Below[k], Pushed(v))] /\ UNCHANGED answers
    BY <1>3, <2>2 DEF Deliver
  <2>4. PICK entry : entry = Pushed(v)
    OBVIOUS
  <2>5. evs' = [SubSeq(evs, 1, k) EXCEPT ![k] = Push(evs[k], entry)]
    BY <2>2, <2>3, <2>4
  <2>6. scopes' = SubSeq(symbols, 1, evs[k + 1].base)
    BY <1>2, <1>5
  <2> HIDE DEF k
  <2> QED
    BY <1>5, <2>1, <2>3, <2>5, <2>6, Returning
<1> QED
  BY <1>6, <1>7

LEMMA ConstantsEnd ==
  ASSUME IInv, evs # <<>>, NEW v, EndConstant(v)
  PROVE  IInv'
<1>1. PICK s, x : s = Top.owner.scope /\ x = Top.owner.name
  OBVIOUS
<1>2. PICK one : one = [scopes EXCEPT ![s].symbols[x].v = v]
  OBVIOUS
<1>3. PICK two : two = [one EXCEPT ![s].symbols[x].state = "bound"]
  OBVIOUS
<1>4. [scopes EXCEPT ![Top.owner.scope].symbols[Top.owner.name].v = v,
                     ![Top.owner.scope].symbols[Top.owner.name].state = "bound"] = two
  BY <1>1, <1>2, <1>3
<1>5. GoodScopes(scopes) /\ Len(scopes) \in Nat
  BY TopIs
<1>6. GoodScopes(one) /\ Len(one) = Len(scopes) /\ Agree(scopes, one, Len(scopes))
  BY <1>2, <1>5, NestedChanges, SymbolsChange
<1>7. GoodScopes(two) /\ Len(two) = Len(one) /\ Agree(one, two, Len(one))
  <2>1. PICK f : f = [one[s].symbols EXCEPT ![x].state = "bound"]
    OBVIOUS
  <2>2. two = [one EXCEPT ![s].symbols = f]
    BY <1>3, <2>1, NestedChanges
  <2> QED
    BY <1>6, <2>2, SymbolsChange, ZenonT(40)
<1>8. Len(two) = Len(scopes) /\ Agree(scopes, two, Len(scopes))
  BY <1>6, <1>7 DEF Agree
<1>9. Undefined \/ \E asked : Deliver(asked, two)
  <2>1. PICK asked : asked = two[Top.owner.asked].symbols[Top.owner.name].v
    OBVIOUS
  <2> QED
    BY <1>4, <2>1 DEF EndConstant
<1> QED
  BY <1>7, <1>8, <1>9, AmongEvaluators, Ends, Delivers

LEMMA Finishes ==
  ASSUME IInv, Finish
  PROVE  IInv'
<1>1. evs # <<>> /\ Ready
  BY AmongEvaluators DEF Finish
<1>2. \/ Fail \/ Undefined
      \/ \E v : EndConstant(v) \/ Deliver(v, scopes)
  BY DEF Finish, Taking
<1>3. GoodScopes(scopes) /\ Agree(scopes, scopes, Len(scopes))
  BY <1>1, TopIs DEF Agree
<1> QED
  BY <1>1, <1>2, <1>3, Wrong, ConstantsEnd, Delivers

-----------------------------------------------------------------------------
(* Requests.                                                               *)

LEMMA Starts ==
  ASSUME IInv, Idle, NEW target, NEW silent \in BOOLEAN, silent <=> Request.kind = "call",
         Start(target, silent)
  PROVE  IInv'
<1>1. PICK ev, owner : ev = Evaluator(target, FALSE, silent, Request.node, Request.scope, Request.files, owner)
                       /\ owner = Owner("request", 0, None, 0)
  OBVIOUS
<1>2. evs' = <<ev>> /\ UNCHANGED <<program, scopes, returns, answers>>
  BY <1>1 DEF Start
<1>3. Len(answers) < Len(Unit.requests) /\ evs = <<>> /\ Request.scope \in 1..Len(scopes)
  BY Requested
<1>4. GoodScopes(scopes)
  BY DEF IInv, Stacked
<1>5. PICK cast, node, scope, files : /\ cast = FALSE /\ node = Request.node
                                      /\ scope = Request.scope /\ files = Request.files
  OBVIOUS
<1>6. Sound(ev, Len(scopes), scopes) /\ ev.base = Len(scopes) /\ ev.silent = silent
  <2>1. ev = Evaluator(target, cast, silent, node, scope, files, owner) /\ scope \in 1..Len(scopes)
    BY <1>1, <1>3, <1>5
  <2> QED
    BY <1>4, <2>1, NewEvaluator
<1>7. evs' = Append(<<>>, ev)
  BY <1>2
<1>8. ev.silent = TRUE <=> Request.kind = "call"
  BY <1>6
<1>9. /\ GoodScopes(scopes') /\ Len(scopes') = Len(scopes)
      /\ Sound(ev, Len(scopes'), scopes') /\ ev.base = Len(scopes')
  BY <1>2, <1>4, <1>6
<1> QED
  BY <1>2, <1>3, <1>7, <1>8, <1>9, StartsAlone

(* A request that is answered at once.                                     *)
LEMMA AnsweredAtOnce ==
  ASSUME IInv, Idle, NEW a, KindFits(a.kind, Request), answers' = Append(answers, a),
         UNCHANGED <<program, scopes, returns, evs>>
  PROVE  IInv'
<1>1. Len(answers) < Len(Unit.requests) /\ evs = <<>>
  BY Requested
<1>2. GoodScopes(scopes) /\ Len(Unit.scopes) <= Len(scopes)
  BY <1>1 DEF IInv, Stacked, UnitStays
<1> QED
  BY <1>1, <1>2, Answers

LEMMA RequestsTaken ==
  ASSUME IInv, Requests
  PROVE  IInv'
<1>1. CASE EvaluateExpression
  <2>1. PICK silent \in BOOLEAN : silent = FALSE
    OBVIOUS
  <2>2. Idle /\ Request.kind = "value" /\ Start(Request.type, silent)
    BY <1>1, <2>1 DEF EvaluateExpression
  <2> QED
    BY <2>1, <2>2, Starts
<1>2. CASE EvaluateConstExprFun
  <2>1. PICK silent \in BOOLEAN : silent = TRUE
    OBVIOUS
  <2>2. PICK a : a = Answer("null", Unset)
    OBVIOUS
  <2>3. /\ Idle /\ Request.kind = "call"
        /\ \/ answers' = Append(answers, a) /\ UNCHANGED <<program, scopes, returns, evs>>
           \/ Start(GetValueTypeFor(returns[Request.fun]), silent)
    BY <1>2, <2>1, <2>2 DEF EvaluateConstExprFun
  <2>4. KindFits(a.kind, Request)
    BY <2>2, <2>3 DEF KindFits, Answer
  <2> QED
    BY <2>1, <2>3, <2>4, Starts, AnsweredAtOnce
<1>3. CASE BindDeclaration
  <2>1. PICK a : a = Answer("value", SymbolAt(Request.scope, Request.name).v)
    OBVIOUS
  <2>2. /\ Idle /\ Request.kind \in {"constant", "enumConstant"}
        /\ \/ answers' = Append(answers, a) /\ UNCHANGED <<program, scopes, returns, evs>>
           \/ Bind(Request.kind, Request.scope, Request.name, Request.scope, Request.files)
    BY <1>3, <2>1 DEF BindDeclaration
  <2>3. KindFits(a.kind, Request)
    BY <2>1, <2>2 DEF KindFits, Answer
  <2> QED
    BY <2>2, <2>3, Binds, AnsweredAtOnce
<1> QED
  BY <1>1, <1>2, <1>3 DEF Requests

-----------------------------------------------------------------------------
(* The invariant holds.                                                    *)

LEMMA Starting ==
  ASSUME Init
  PROVE  IInv
<1>1. program \in DOMAIN Programs /\ scopes = Unit.scopes /\ evs = <<>> /\ answers = <<>>
  BY DEF Init
<1>2. IsSeq(<<>>) /\ Len(<<>>) = 0
  BY TuplesAre
<1>3. GoodScopes(scopes) /\ Len(Unit.scopes) \in Nat /\ Len(Unit.requests) \in Nat
  BY <1>1, UnitIs
<1>4. Stacked(evs, scopes)
  BY <1>1, <1>2, <1>3 DEF Stacked
<1>5. UnitStays
  BY <1>1, <1>3 DEF UnitStays
<1>6. AnswersFit
  BY <1>1, <1>2, <1>3 DEF AnswersFit
<1> QED
  BY <1>1, <1>4, <1>5, <1>6 DEF IInv

LEMMA Stuttering ==
  ASSUME IInv, UNCHANGED vars
  PROVE  IInv'
BY DEF vars, IInv, UnitStays, AnswersFit, Unit, Request

LEMMA Preserved ==
  ASSUME IInv, [Next]_vars
  PROVE  IInv'
<1>1. CASE Expressions
  BY <1>1, VisitsOfNames, Operators, Increments, DereferencesAndCasts, Invocations, CallsEnd DEF Expressions
<1>2. CASE Statements
  BY <1>2, Blocks, Declarations, Assignments, Conditionals, Loops, Jumps DEF Statements
<1>3. CASE Finish
  BY <1>3, Finishes
<1>4. CASE Requests
  BY <1>4, RequestsTaken
<1>5. CASE Compiled \/ UNCHANGED vars
  BY <1>5, Stuttering DEF Compiled
<1> QED
  BY <1>1, <1>2, <1>3, <1>4, <1>5 DEF Next

-----------------------------------------------------------------------------
(* The scopes a scope stands on, as BlocksAreLeft computes them: up to the *)
(* base, those reached from it by way of parents.                          *)

Climbs(f, base, n, scs) ==
  f = [s \in 0..n |-> IF s <= base THEN {} ELSE {s} \cup f[scs[s].parent]]

LEMMA ClimbingIsDefined ==
  ASSUME NEW scs, GoodScopes(scs), NEW n \in Nat, n = Len(scs), NEW base \in Nat
  PROVE  \E f : Climbs(f, base, n, scs)
<1> DEFINE Closed(C) == \A c \in C : c > base => scs[c].parent \in C
           f == [s \in 0..n |-> IF s <= base THEN {}
                                ELSE {t \in (base + 1)..n :
                                        \A C \in SUBSET (0..n) : Closed(C) /\ s \in C => t \in C}]
<1>1. ASSUME NEW s \in 0..n, s > base
      PROVE  scs[s].parent \in 0..n /\ s \in (base + 1)..n
  <2>1. s \in 1..n
    BY <1>1
  <2>2. scs[s].parent \in 0..(s - 1)
    BY <2>1 DEF GoodScopes
  <2> QED
    BY <1>1, <2>1, <2>2
<1>2. ASSUME NEW s \in 0..n, s > base
      PROVE  f[s] = {s} \cup f[scs[s].parent]
  <2> DEFINE p == scs[s].parent
  <2>1. p \in 0..n /\ s \in (base + 1)..n /\ ~(s <= base)
    BY <1>1, <1>2
  <2>2. f[s] = {t \in (base + 1)..n : \A C \in SUBSET (0..n) : Closed(C) /\ s \in C => t \in C}
    BY <2>1
  <2>3. CASE p <= base
    <3>1. f[p] = {}
      BY <2>1, <2>3
    <3>2. s \in f[s]
      BY <2>1, <2>2
    <3>3. ASSUME NEW t \in f[s]
          PROVE  t = s
      <4>1. Closed({s, p}) /\ {s, p} \in SUBSET (0..n)
        BY <2>1, <2>3
      <4>2. t \in {s, p} /\ t \in (base + 1)..n
        BY <2>2, <3>3, <4>1
      <4> QED
        BY <2>1, <2>3, <4>2
    <3> HIDE DEF f
    <3> QED
      BY <3>1, <3>2, <3>3
  <2>4. CASE ~(p <= base)
    <3>1. f[p] = {t \in (base + 1)..n : \A C \in SUBSET (0..n) : Closed(C) /\ p \in C => t \in C}
      BY <2>1, <2>4
    <3>2. s \in f[s]
      BY <2>1, <2>2
    <3>3. ASSUME NEW t \in f[p]
          PROVE  t \in f[s]
      <4>1. ASSUME NEW C \in SUBSET (0..n), Closed(C), s \in C
            PROVE  t \in C
        <5>1. p \in C
          BY <1>2, <4>1
        <5> QED
          BY <3>1, <3>3, <4>1, <5>1
      <4> HIDE DEF Closed
      <4>2. t \in (base + 1)..n
        BY <3>1, <3>3
      <4> QED
        BY <2>2, <4>1, <4>2
    <3>4. ASSUME NEW t \in f[s], t # s
          PROVE  t \in f[p]
      <4>1. ASSUME NEW C \in SUBSET (0..n), Closed(C), p \in C
            PROVE  t \in C
        <5>1. Closed(C \cup {s}) /\ C \cup {s} \in SUBSET (0..n)
          BY <2>1, <4>1
        <5>2. t \in C \cup {s}
          BY <2>2, <3>4, <5>1
        <5> QED
          BY <3>4, <5>2
      <4> HIDE DEF Closed
      <4>2. t \in (base + 1)..n
        BY <2>2, <3>4
      <4> QED
        BY <3>1, <4>1, <4>2
    <3> HIDE DEF f
    <3> QED
      BY <3>2, <3>3, <3>4
  <2> QED
    BY <2>3, <2>4
<1>3. \A s \in 0..n : s <= base => f[s] = {}
  OBVIOUS
<1>4. DOMAIN f = 0..n /\ f = [s \in 0..n |-> f[s]]
  OBVIOUS
<1> HIDE DEF f
<1>5. \A s \in 0..n : f[s] = IF s <= base THEN {} ELSE {s} \cup f[scs[s].parent]
  <2>1. \A s \in 0..n : s <= base \/ s > base
    OBVIOUS
  <2> QED
    BY <1>2, <1>3, <2>1
<1> QED
  BY <1>4, <1>5 DEF Climbs

LEMMA ClimbsThroughTheLiving ==
  ASSUME NEW scs, GoodScopes(scs), NEW n \in Nat, n = Len(scs), NEW base \in 0..n,
         Linked(base, n, scs), NEW f, Climbs(f, base, n, scs), NEW s \in Living(base, n, scs)
  PROVE  f[s] = {t \in Living(base, n, scs) : t <= s}
<1> DEFINE wrong == {r \in Living(base, n, scs) : f[r] # {t \in Living(base, n, scs) : t <= r}}
<1>1. SUFFICES ASSUME wrong # {} PROVE FALSE
  OBVIOUS
<1>2. /\ Living(base, n, scs) \in SUBSET Nat
      /\ \A r \in Living(base, n, scs) : r \in 1..n /\ r > base /\ r \in 0..n /\ ~(r <= base)
  BY LivingIs
<1>3. PICK r \in wrong : \A m \in wrong : r <= m
  BY <1>1, <1>2, LeastNumber
<1> DEFINE p == scs[r].parent
           less == {t \in Living(base, n, scs) : t < r}
<1>4. r \in Living(base, n, scs) /\ f[r] # {t \in Living(base, n, scs) : t <= r}
  BY <1>3
<1>5. r \in 1..n /\ r \in 0..n /\ ~(r <= base)
  BY <1>2, <1>4
<1>6. f[r] = {r} \cup f[p]
  BY <1>5 DEF Climbs
<1>7. {t \in Living(base, n, scs) : t <= r} = {r} \cup less
  BY <1>2, <1>4, <1>5
<1>8. Innermost(p, less, base)
  BY <1>4 DEF Linked
<1>9. f[p] = less
  <2>1. CASE less = {}
    <3>1. p \in 1..base
      BY <1>8, <2>1 DEF Innermost
    <3>2. p \in 0..n /\ p <= base
      BY <3>1
    <3> QED
      BY <2>1, <3>2 DEF Climbs
  <2>2. CASE less # {}
    <3>1. p \in less /\ \A t \in less : t <= p
      BY <1>8, <2>2 DEF Innermost
    <3>2. p \in Living(base, n, scs) /\ p < r /\ p \in Nat /\ r \in Nat
      BY <1>2, <1>4, <3>1
    <3>3. p \notin wrong
      BY <1>3, <3>2
    <3>4. f[p] = {t \in Living(base, n, scs) : t <= p}
      BY <3>2, <3>3
    <3>5. {t \in Living(base, n, scs) : t <= p} = less
      BY <1>2, <3>1, <3>2
    <3> QED
      BY <3>4, <3>5
  <2> QED
    BY <2>1, <2>2
<1> QED
  BY <1>4, <1>6, <1>7, <1>9

-----------------------------------------------------------------------------
(* What the invariant comes to.                                            *)

LEMMA BlocksFollow ==
  ASSUME IInv
  PROVE  BlocksAreLeft
<1>1. SUFFICES ASSUME evs # <<>> PROVE BlocksAreLeft
  BY DEF BlocksAreLeft
<1>2. PICK base : base = Top.base
  OBVIOUS
<1>3. PICK n : n = Len(scopes)
  OBVIOUS
<1>4. /\ n \in Nat /\ GoodScopes(scopes) /\ base \in 0..n /\ base \in Nat
      /\ Innermost(Top.scope, Living(base, n, scopes), base) /\ Linked(base, n, scopes)
      /\ Cardinality(Living(base, n, scopes)) = Owing(Top.todo)
  BY <1>1, <1>2, <1>3, TopIs DEF Sound
<1> DEFINE above == CHOOSE f : Climbs(f, base, n, scopes)
           living == {s \in (base + 1)..n : scopes[s].alive}
<1>5. Climbs(above, base, n, scopes)
  BY <1>3, <1>4, ClimbingIsDefined
<1>6. living = Living(base, n, scopes)
  <2>1. \A s \in (base + 1)..n : s \in 1..n
    BY <1>4
  <2>2. \A s \in (base + 1)..n : scopes[s].alive \in BOOLEAN
    BY <1>3, <1>4, <2>1 DEF GoodScopes
  <2> QED
    BY <2>2 DEF Living
<1>7. living = above[Top.scope]
  <2> HIDE DEF above
  <2>1. CASE living = {}
    <3>1. Top.scope \in 1..base
      BY <1>4, <1>6, <2>1 DEF Innermost
    <3>2. Top.scope \in 0..n /\ Top.scope <= base
      BY <1>4, <3>1
    <3> QED
      BY <1>5, <2>1, <3>2 DEF Climbs
  <2>2. CASE living # {}
    <3>1. Top.scope \in Living(base, n, scopes) /\ \A t \in Living(base, n, scopes) : t <= Top.scope
      BY <1>4, <1>6, <2>2 DEF Innermost
    <3>2. above[Top.scope] = {t \in Living(base, n, scopes) : t <= Top.scope}
      BY <1>3, <1>4, <1>5, <3>1, ClimbsThroughTheLiving
    <3> QED
      BY <1>6, <3>1, <3>2
  <2> QED
    BY <2>1, <2>2
<1>8. Top.todo = <<>> => living = {}
  <2>1. SUFFICES ASSUME Top.todo = <<>> PROVE living = {}
    OBVIOUS
  <2>2. IsSeq(<<>>) /\ DOMAIN <<>> = {}
    BY SeqIs, TuplesAre
  <2>3. Owing(<<>>) = 0
    BY <2>2, NothingOwed
  <2>4. Cardinality(Living(base, n, scopes)) = 0
    BY <1>4, <2>1, <2>3
  <2>5. IsFiniteSet(Living(base, n, scopes))
    BY <1>4, LivingIs
  <2> QED
    BY <1>6, <2>4, <2>5, FS_EmptySet
<1> QED
  BY <1>2, <1>3, <1>7, <1>8 DEF BlocksAreLeft, Climbs

LEMMA HearingFollows ==
  ASSUME IInv
  PROVE  CallersHearWhatTheyExpect
<1>1. SUFFICES ASSUME answers # <<>>
               PROVE  answers[Len(answers)].kind
                        # IF Unit.requests[Len(answers)].kind = "call" THEN "error" ELSE "null"
  BY DEF CallersHearWhatTheyExpect, Latest
<1>2. Len(answers) \in 1..Len(answers)
  <2>1. Len(answers) \in Nat /\ Len(answers) > 0
    BY <1>1, SeqIs DEF IInv, AnswersFit
  <2> QED
    BY <2>1
<1> QED
  BY <1>2 DEF IInv, AnswersFit, KindFits

LEMMA TypesFollow ==
  ASSUME IInv
  PROVE  TypeOK
<1>1. /\ DOMAIN answers = 1..Len(answers) /\ DOMAIN evs = 1..Len(evs)
      /\ DOMAIN scopes = 1..Len(scopes) /\ Len(evs) \in Nat /\ Len(scopes) \in Nat
  BY SeqIs DEF IInv, Stacked, GoodScopes, AnswersFit
<1>2. \A i \in DOMAIN answers : answers[i].kind \in {"value", "null", "error", "undefined"}
  BY <1>1 DEF IInv, AnswersFit, KindFits
<1>3. ASSUME NEW i \in DOMAIN evs
      PROVE  /\ evs[i].scope \in DOMAIN scopes
             /\ evs[i].block \in {0} \cup DOMAIN scopes
             /\ evs[i].base <= Len(scopes)
             /\ i > 1 => evs[i - 1].base <= evs[i].base
  <2>1. i \in 1..Len(evs)
    BY <1>1
  <2>2. PICK high : high = Limit(evs, scopes, i)
    OBVIOUS
  <2>3. high \in 0..Len(scopes) /\ Sound(evs[i], high, scopes)
    BY <2>1, <2>2, LimitsAre DEF IInv, Stacked
  <2>4. high \in Nat /\ evs[i].scope \in 1..high
    BY <1>1, <2>3, ScopeIs
  <2>5. evs[i].block \in 0..high /\ evs[i].base \in 0..high
    BY <2>3 DEF Sound
  <2>6. i > 1 => evs[i - 1].base <= evs[i].base
    <3>1. i > 1 => i - 1 \in 1..Len(evs) /\ i - 1 < i
      BY <1>1, <2>1
    <3> QED
      BY <2>1, <3>1 DEF IInv, Stacked
  <2> QED
    BY <1>1, <2>3, <2>4, <2>5, <2>6
<1> QED
  BY <1>2, <1>3 DEF TypeOK, IInv, AnswersFit

-----------------------------------------------------------------------------
(* The theorems.                                                           *)

(* The scopes are in step with the evaluators on every path through the    *)
(* visits: what is opened is owed, what is owed is left, and what answers  *)
(* a request is of a kind it can take.                                     *)
THEOREM Invariant == Spec => []IInv
<1>1. Init => IInv
  BY Starting
<1>2. IInv /\ [Next]_vars => IInv'
  BY Preserved
<1> QED
  BY <1>1, <1>2, PTL DEF Spec

(* Evaluators nest and look names up in scopes there are, whatever is      *)
(* opened, cut off or left by an exception.                                *)
THEOREM TypeCorrect == Spec => []TypeOK
<1>1. IInv => TypeOK
  BY TypesFollow
<1> QED
  BY <1>1, Invariant, PTL

(* EvaluateConstExprFun never lets an exception out and EvaluateExpression *)
(* never returns null: an exception, wherever it is thrown below them,     *)
(* comes to the evaluator that was told to be silent or to none.           *)
THEOREM CallersAreServed == Spec => []CallersHearWhatTheyExpect
<1>1. IInv => CallersHearWhatTheyExpect
  BY HearingFollows
<1> QED
  BY <1>1, Invariant, PTL

(* The visits of a block, a for statement and a function body pop the      *)
(* container scope they have pushed, on the ways out by return, break and  *)
(* continue too; what an exception cuts off goes with its evaluator.       *)
THEOREM BlocksLeft == Spec => []BlocksAreLeft
<1>1. IInv => BlocksAreLeft
  BY BlocksFollow
<1> QED
  BY <1>1, Invariant, PTL
=============================================================================
