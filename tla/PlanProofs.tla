----------------------------- MODULE PlanProofs -----------------------------
(***************************************************************************)
(* Theorems about GridMoney for every configuration, any number of lines   *)
(* and of fills: the ladder is sound and pays its fees, the account pays   *)
(* for the ladder, and a report matches what can be matched.  First what   *)
(* they need of sums, powers and rounding.                                 *)
(***************************************************************************)
EXTENDS GridMoney, FiniteSetTheorems, WellFoundedInduction, TLAPS

(* What the step is computed from.                                          *)
Terms(c) == /\ c.buyFee \in 0 .. D - 1 /\ c.sellFee \in 0 .. D - 1
            /\ c.target \in [kind : {"pct", "quote"}, amount : Nat \ {0}]
            /\ c.value \in Int /\ c.capital \in Nat /\ c.reserve \in 0 .. D
            /\ c.maxLevels \in Nat \ {0} /\ c.minNotional \in Nat

Worked == {"counts", "buys", "sells", "preflight", "place", "running"}

(* After the step the ratio is that of the configuration, which keeps it.   *)
Stepped == cfg \in Config /\ (phase \in Worked => r = StepRatio(cfg))

-----------------------------------------------------------------------------
(* Induction *)

\* Induction over a set of numbers.
LEMMA SetInduction ==
  ASSUME NEW S, 0 \in S, \A n \in Nat : n \in S => n + 1 \in S
  PROVE  \A n \in Nat : n \in S
<1> DEFINE T == {n \in Nat : n \notin S}
<1> SUFFICES ASSUME T # {} PROVE FALSE
  OBVIOUS
<1>1. T \subseteq Nat
  OBVIOUS
<1>2. PICK x \in T : \A y \in T : ~(<<y, x>> \in OpToRel(<, Nat))
  BY <1>1, WFMin, NatLessThanWellFounded
<1>3. x \in Nat /\ x # 0
  OBVIOUS
<1>4. x - 1 \in Nat /\ x - 1 < x /\ x - 1 + 1 = x
  BY <1>3
<1>5. x - 1 \notin T
  BY <1>2, <1>3, <1>4 DEF OpToRel
<1> QED
  BY <1>3, <1>4, <1>5

\* The least of some numbers.
LEMMA Least ==
  ASSUME NEW T, T \subseteq Nat, T # {}
  PROVE  \E x \in T : \A y \in T : x <= y
<1>1. PICK x \in T : \A y \in T : ~(<<y, x>> \in OpToRel(<, Nat))
  BY WFMin, NatLessThanWellFounded
<1>2. \A y \in T : ~(y < x)
  BY <1>1 DEF OpToRel
<1> QED
  BY <1>2

-----------------------------------------------------------------------------
(* Sums *)

(* The element a sum over T takes first, and the sums over the subsets of S.*)
Any(T) == CHOOSE x \in T : TRUE
Sums(S, g) == {q \in [SUBSET S -> Int] :
                  /\ q[{}] = 0
                  /\ \A T \in SUBSET S : T # {} => q[T] = g[Any(T)] + q[T \ {Any(T)}]}

\* Induction over the subsets of a finite set.
LEMMA SizeInduction ==
  ASSUME NEW S, IsFiniteSet(S), NEW P, {} \in P,
         \A T \in SUBSET S : T # {} /\ (\A x \in T : T \ {x} \in P) => T \in P
  PROVE  \A T \in SUBSET S : T \in P
<1> DEFINE W == {n \in Nat : \A T \in SUBSET S : Cardinality(T) = n => T \in P}
<1>1. \A T \in SUBSET S : IsFiniteSet(T) /\ Cardinality(T) \in Nat
  BY FS_Subset, FS_CardinalityType
<1>2. 0 \in W
  BY <1>1, FS_EmptySet
<1>3. ASSUME NEW n \in Nat, n \in W PROVE n + 1 \in W
  <2> SUFFICES ASSUME NEW T \in SUBSET S, Cardinality(T) = n + 1 PROVE T \in P
    OBVIOUS
  <2>1. ASSUME NEW x \in T PROVE T \ {x} \in P
    <3>1. Cardinality(T \ {x}) = n
      BY <1>1, FS_RemoveElement
    <3> QED
      BY <1>3, <3>1
  <2>2. T # {}
    <3> SUFFICES ASSUME T = {} PROVE FALSE
      OBVIOUS
    <3>1. Cardinality(T) = 0
      BY FS_EmptySet
    <3> QED
      BY <3>1
  <2> QED
    BY <2>1, <2>2
<1> HIDE DEF W
<1>4. \A n \in Nat : n \in W
  BY <1>2, <1>3, SetInduction
<1> QED
  BY <1>1, <1>4 DEF W

\* Sums of the same numbers are the same, whatever else is summed.
LEMMA SumsAgree ==
  ASSUME NEW S, NEW R, NEW g, NEW h, NEW q \in Sums(S, g), NEW w \in Sums(R, h),
         NEW T, T \subseteq S, T \subseteq R, IsFiniteSet(T), \A x \in T : g[x] = h[x]
  PROVE  q[T] = w[T]
<1> DEFINE P == {U \in SUBSET T : q[U] = w[U]}
<1>1. {} \in P
  BY DEF Sums
<1>2. ASSUME NEW U \in SUBSET T, U # {}, \A x \in U : U \ {x} \in P PROVE U \in P
  <2> DEFINE a == Any(U)
  <2>1. a \in U
    BY <1>2 DEF Any
  <2>2. q[U] = g[a] + q[U \ {a}] /\ w[U] = h[a] + w[U \ {a}]
    BY <1>2 DEF Sums
  <2>3. q[U \ {a}] = w[U \ {a}]
    BY <1>2, <2>1
  <2> QED
    BY <2>1, <2>2, <2>3
<1> HIDE DEF P
<1>3. \A U \in SUBSET T : U \in P
  BY <1>1, <1>2, SizeInduction
<1> QED
  BY <1>3 DEF P

\* There are sums over the subsets of every finite set.
LEMMA SumsExist ==
  ASSUME NEW S, IsFiniteSet(S), NEW g, \A x \in S : g[x] \in Int
  PROVE  Sums(S, g) # {}
<1> DEFINE P == {T \in SUBSET S : Sums(T, g) # {}}
<1>1. {} \in P
  <2>1. [T \in SUBSET {} |-> 0] \in Sums({}, g)
    BY DEF Sums
  <2> QED
    BY <2>1
<1>2. ASSUME NEW T \in SUBSET S, T # {}, \A x \in T : T \ {x} \in P PROVE T \in P
  <2> DEFINE Some(x) == CHOOSE q \in Sums(T \ {x}, g) : TRUE
             a == Any(T)
             h == [U \in SUBSET T |-> IF U = T THEN g[a] + Some(a)[T \ {a}]
                                      ELSE Some(Any(T \ U))[U]]
  <2>1. \A x \in T : Some(x) \in Sums(T \ {x}, g)
    BY <1>2
  <2>2. a \in T
    BY <1>2 DEF Any
  <2>3. \A U \in SUBSET T : U # T => Any(T \ U) \in T \ U
    BY DEF Any
  <2>4. ASSUME NEW x \in T, NEW U \in SUBSET T, x \notin U PROVE h[U] = Some(x)[U]
    <3> DEFINE y == Any(T \ U)
    <3>1. y \in T /\ y \notin U /\ U # T
      BY <2>3, <2>4
    <3>2. IsFiniteSet(U)
      BY FS_Subset
    <3>3. Some(y) \in Sums(T \ {y}, g) /\ Some(x) \in Sums(T \ {x}, g)
      BY <2>1, <3>1
    <3>4. U \subseteq T \ {y} /\ U \subseteq T \ {x}
      BY <2>4, <3>1
    <3> HIDE DEF Some, y
    <3>5. Some(y)[U] = Some(x)[U]
      BY <3>2, <3>3, <3>4, SumsAgree
    <3> QED
      BY <3>1, <3>5 DEF y
  <2>5. ASSUME NEW x \in T, NEW U \in SUBSET T, x \notin U PROVE Some(x)[U] \in Int
    <3>1. Some(x) \in [SUBSET (T \ {x}) -> Int] /\ U \in SUBSET (T \ {x})
      BY <2>1, <2>5 DEF Sums
    <3> QED
      BY <3>1
  <2>6. h[T] = g[a] + h[T \ {a}] /\ h[T] \in Int
    <3>1. T \ {a} \in SUBSET T /\ a \notin T \ {a}
      OBVIOUS
    <3> HIDE DEF Some, a
    <3>2. h[T] = g[a] + Some(a)[T \ {a}]
      OBVIOUS
    <3>3. h[T \ {a}] = Some(a)[T \ {a}]
      <4> HIDE DEF h
      <4> QED
        BY <2>2, <2>4, <3>1
    <3> HIDE DEF h
    <3>4. g[a] \in Int /\ Some(a)[T \ {a}] \in Int
      BY <2>2, <2>5, <3>1
    <3> QED
      BY <3>2, <3>3, <3>4
  <2>7. ASSUME NEW U \in SUBSET T, U # T
        PROVE  /\ h[U] \in Int
               /\ U = {} => h[U] = 0
               /\ U # {} => h[U] = g[Any(U)] + h[U \ {Any(U)}]
    <3> DEFINE x == Any(T \ U)
               b == Any(U)
    <3>1. x \in T /\ x \notin U /\ x \notin U \ {b}
      BY <2>3, <2>7
    <3> HIDE DEF x, b, Some, h
    <3>2. h[U] = Some(x)[U] /\ h[U \ {b}] = Some(x)[U \ {b}]
      BY <2>4, <3>1
    <3>3. h[U] \in Int
      BY <2>5, <3>1, <3>2
    <3>4. Some(x) \in Sums(T \ {x}, g) /\ U \in SUBSET (T \ {x})
      BY <2>1, <3>1
    <3>5. /\ U = {} => Some(x)[U] = 0
          /\ U # {} => Some(x)[U] = g[b] + Some(x)[U \ {b}]
      BY <3>4 DEF Sums, b
    <3> QED
      BY <3>2, <3>3, <3>5 DEF b
  <2>8. h \in Sums(T, g)
    <3>1. h = [U \in SUBSET T |-> h[U]]
      OBVIOUS
    <3> HIDE DEF h, Some
    <3>2. \A U \in SUBSET T : h[U] \in Int
      BY <2>6, <2>7
    <3>3. h[{}] = 0
      BY <1>2, <2>7
    <3>4. \A U \in SUBSET T : U # {} => h[U] = g[Any(U)] + h[U \ {Any(U)}]
      BY <2>6, <2>7
    <3> QED
      BY <3>1, <3>2, <3>3, <3>4 DEF Sums
  <2> QED
    BY <2>8
<1> HIDE DEF P
<1>3. \A T \in SUBSET S : T \in P
  BY <1>1, <1>2, SizeInduction
<1> QED
  BY <1>3 DEF P

\* SumFunctionOnSet is one of them.
LEMMA SumIs ==
  ASSUME NEW S, IsFiniteSet(S), NEW g, \A x \in S : g[x] \in Int
  PROVE  \E q \in Sums(S, g) : SumFunctionOnSet(g, S) = q[S]
<1> DEFINE Recurs(q) == q = [s \in SUBSET S |->
                               IF s = {} THEN 0
                               ELSE g[CHOOSE x \in s : TRUE] + q[s \ {CHOOSE x \in s : TRUE}]]
           p == CHOOSE q : Recurs(q)
<1>1. PICK h : h \in Sums(S, g)
  BY SumsExist
<1>2. Recurs(h)
  <2>1. h = [s \in SUBSET S |-> h[s]]
    BY <1>1 DEF Sums
  <2>2. \A s \in SUBSET S : h[s] = IF s = {} THEN 0
                                   ELSE g[CHOOSE x \in s : TRUE]
                                          + h[s \ {CHOOSE x \in s : TRUE}]
    BY <1>1 DEF Sums, Any
  <2> QED
    BY <2>1, <2>2
<1>3. Recurs(p)
  <2> HIDE DEF Recurs
  <2> QED
    BY <1>2
<1>4. SumFunctionOnSet(g, S) = p[S]
  BY DEF SumFunctionOnSet, FoldFunctionOnSet, MapThenFoldSet
<1> HIDE DEF p
<1>5. /\ p = [s \in SUBSET S |-> p[s]] /\ p[{}] = 0
      /\ \A T \in SUBSET S : T # {} => p[T] = g[Any(T)] + p[T \ {Any(T)}]
  BY <1>3 DEF Any
<1> HIDE DEF Recurs
<1> DEFINE P == {T \in SUBSET S : p[T] \in Int}
<1>6. {} \in P
  BY <1>5
<1>7. ASSUME NEW T \in SUBSET S, T # {}, \A x \in T : T \ {x} \in P PROVE T \in P
  <2> DEFINE a == Any(T)
  <2>1. a \in T
    BY <1>7 DEF Any
  <2>2. p[T] = g[a] + p[T \ {a}] /\ p[T \ {a}] \in Int /\ g[a] \in Int
    BY <1>5, <1>7, <2>1
  <2> QED
    BY <2>2
<1> HIDE DEF P
<1>8. \A T \in SUBSET S : T \in P
  BY <1>6, <1>7, SizeInduction
<1>9. \A T \in SUBSET S : p[T] \in Int
  BY <1>8 DEF P
<1>10. p \in Sums(S, g)
  BY <1>5, <1>9 DEF Sums
<1> QED
  BY <1>4, <1>10

\* The sum over a part is found among the sums of the whole.
LEMMA SumOf ==
  ASSUME NEW S, IsFiniteSet(S), NEW g, \A x \in S : g[x] \in Int,
         NEW q \in Sums(S, g), NEW T \in SUBSET S
  PROVE  SumFunctionOnSet(g, T) = q[T]
<1>1. IsFiniteSet(T)
  BY FS_Subset
<1>2. PICK w \in Sums(T, g) : SumFunctionOnSet(g, T) = w[T]
  BY <1>1, SumIs
<1>3. q[T] = w[T]
  BY <1>1, SumsAgree
<1> QED
  BY <1>2, <1>3

\* A sum takes its elements in any order.
LEMMA SumStep ==
  ASSUME NEW S, IsFiniteSet(S), NEW g, \A x \in S : g[x] \in Int, NEW e \in S
  PROVE  SumFunctionOnSet(g, S) = g[e] + SumFunctionOnSet(g, S \ {e})
<1>1. PICK q : q \in Sums(S, g)
  BY SumsExist
<1> DEFINE P == {T \in SUBSET S : \A x \in T : q[T] = g[x] + q[T \ {x}]}
<1>2. {} \in P
  OBVIOUS
<1>3. ASSUME NEW T \in SUBSET S, T # {}, \A x \in T : T \ {x} \in P PROVE T \in P
  <2> DEFINE a == Any(T)
  <2>1. a \in T
    BY <1>3 DEF Any
  <2>2. q[T] = g[a] + q[T \ {a}]
    BY <1>1, <1>3 DEF Sums
  <2>3. ASSUME NEW x \in T, x # a PROVE q[T] = g[x] + q[T \ {x}]
    <3>1. q[T \ {a}] = g[x] + q[(T \ {a}) \ {x}]
      BY <1>3, <2>1, <2>3
    <3>2. q[T \ {x}] = g[a] + q[(T \ {x}) \ {a}]
      BY <1>3, <2>1, <2>3
    <3>3. (T \ {a}) \ {x} = (T \ {x}) \ {a}
      OBVIOUS
    <3>4. (T \ {x}) \ {a} \in SUBSET S /\ g[a] \in Int /\ g[x] \in Int
      BY <2>1
    <3>5. q[(T \ {x}) \ {a}] \in Int
      BY <1>1, <3>4 DEF Sums
    <3> DEFINE rest == q[(T \ {x}) \ {a}]
    <3>6. q[T] = g[a] + (g[x] + rest) /\ q[T \ {x}] = g[a] + rest
      BY <2>2, <3>1, <3>2, <3>3
    <3> HIDE DEF a, rest
    <3> QED
      BY <3>4, <3>5, <3>6 DEF rest
  <2> QED
    BY <2>2, <2>3
<1> HIDE DEF P
<1>4. \A T \in SUBSET S : T \in P
  BY <1>2, <1>3, SizeInduction
<1>5. q[S] = g[e] + q[S \ {e}]
  BY <1>4 DEF P
<1> QED
  BY <1>1, <1>5, SumOf

\* The empty sum, and the kind of a sum.
LEMMA SumType ==
  ASSUME NEW S, IsFiniteSet(S), NEW g, \A x \in S : g[x] \in Int
  PROVE  /\ SumFunctionOnSet(g, S) \in Int
         /\ S = {} => SumFunctionOnSet(g, S) = 0
         /\ (\A x \in S : g[x] >= 0) => SumFunctionOnSet(g, S) >= 0
<1>1. PICK q \in Sums(S, g) : SumFunctionOnSet(g, S) = q[S]
  BY SumIs
<1>2. q[S] \in Int /\ (S = {} => q[S] = 0)
  BY DEF Sums
<1>3. ASSUME \A x \in S : g[x] >= 0 PROVE q[S] >= 0
  <2> DEFINE P == {T \in SUBSET S : q[T] >= 0}
  <2>1. {} \in P
    BY DEF Sums
  <2>2. ASSUME NEW T \in SUBSET S, T # {}, \A x \in T : T \ {x} \in P PROVE T \in P
    <3> DEFINE a == Any(T)
    <3>1. a \in T
      BY <2>2 DEF Any
    <3>2. q[T] = g[a] + q[T \ {a}] /\ q[T \ {a}] \in Int
      BY <2>2 DEF Sums
    <3>3. g[a] >= 0 /\ q[T \ {a}] >= 0 /\ g[a] \in Int
      BY <1>3, <2>2, <3>1
    <3> HIDE DEF a
    <3> QED
      BY <3>2, <3>3
  <2> HIDE DEF P
  <2>3. \A T \in SUBSET S : T \in P
    BY <2>1, <2>2, SizeInduction
  <2> QED
    BY <2>3 DEF P
<1> QED
  BY <1>1, <1>2, <1>3

\* The same numbers have the same sum.
LEMMA SumSame ==
  ASSUME NEW S, IsFiniteSet(S), NEW g, NEW h, \A x \in S : g[x] \in Int /\ h[x] = g[x]
  PROVE  SumFunctionOnSet(h, S) = SumFunctionOnSet(g, S)
<1>1. PICK q \in Sums(S, g) : SumFunctionOnSet(g, S) = q[S]
  BY SumIs
<1>2. PICK w \in Sums(S, h) : SumFunctionOnSet(h, S) = w[S]
  BY SumIs
<1>3. q[S] = w[S]
  BY SumsAgree
<1> QED
  BY <1>1, <1>2, <1>3

\* One number more.
LEMMA SumMore ==
  ASSUME NEW S, IsFiniteSet(S), NEW e, e \notin S, NEW g, \A x \in S \cup {e} : g[x] \in Int
  PROVE  SumFunctionOnSet(g, S \cup {e}) = g[e] + SumFunctionOnSet(g, S)
<1>1. IsFiniteSet(S \cup {e}) /\ (S \cup {e}) \ {e} = S
  BY FS_AddElement
<1> QED
  BY <1>1, SumStep

\* The sum of a part and that of the rest.
LEMMA SumParts ==
  ASSUME NEW S, IsFiniteSet(S), NEW g, \A x \in S : g[x] \in Int, NEW T \in SUBSET S
  PROVE  SumFunctionOnSet(g, S) = SumFunctionOnSet(g, T) + SumFunctionOnSet(g, S \ T)
<1>1. PICK q : q \in Sums(S, g)
  BY SumsExist
<1> DEFINE P == {U \in SUBSET (S \ T) : q[T \cup U] = q[T] + q[U]}
<1>2. {} \in P
  <2>1. q[{}] = 0 /\ T \cup {} = T /\ q[T] \in Int
    BY <1>1 DEF Sums
  <2> QED
    BY <2>1
<1>0. \A V \in SUBSET S : \A x \in V : q[V] = g[x] + q[V \ {x}] /\ q[V] \in Int
  <2> TAKE V \in SUBSET S
  <2> TAKE x \in V
  <2>1. IsFiniteSet(V) /\ V \ {x} \in SUBSET S
    BY FS_Subset
  <2>2. SumFunctionOnSet(g, V) = g[x] + SumFunctionOnSet(g, V \ {x})
    BY <2>1, SumStep
  <2>3. SumFunctionOnSet(g, V) = q[V] /\ SumFunctionOnSet(g, V \ {x}) = q[V \ {x}]
    BY <1>1, <2>1, SumOf
  <2>4. q[V] \in Int
    BY <1>1 DEF Sums
  <2> QED
    BY <2>2, <2>3, <2>4
<1>3. ASSUME NEW U \in SUBSET (S \ T), U # {}, \A x \in U : U \ {x} \in P PROVE U \in P
  <2>1. PICK a : a \in U
    BY <1>3
  <2>2. q[T \cup (U \ {a})] = q[T] + q[U \ {a}]
    BY <1>3, <2>1
  <2>3. q[U] = g[a] + q[U \ {a}]
    BY <1>0, <2>1
  <2>4. q[T \cup U] = g[a] + q[T \cup (U \ {a})]
    <3>1. (T \cup U) \ {a} = T \cup (U \ {a}) /\ T \cup U \in SUBSET S /\ a \in T \cup U
      BY <2>1
    <3> QED
      BY <1>0, <3>1
  <2>5. g[a] \in Int /\ q[T] \in Int /\ q[U \ {a}] \in Int
    <3>1. U \ {a} \in SUBSET S
      OBVIOUS
    <3> QED
      BY <1>1, <2>1, <3>1 DEF Sums
  <2> QED
    BY <2>2, <2>3, <2>4, <2>5
<1> HIDE DEF P
<1>4. IsFiniteSet(S \ T)
  BY FS_Subset
<1> DEFINE rest == S \ T
<1>5. \A U \in SUBSET rest : U \in P
  <2>1. /\ IsFiniteSet(rest) /\ {} \in P
        /\ \A U \in SUBSET rest : U # {} /\ (\A x \in U : U \ {x} \in P) => U \in P
    BY <1>2, <1>3, <1>4
  <2> HIDE DEF rest
  <2> QED
    BY <2>1, SizeInduction
<1>6. T \cup (S \ T) = S
  OBVIOUS
<1>7. q[S] = q[T] + q[S \ T]
  BY <1>5, <1>6 DEF P
<1> QED
  BY <1>1, <1>7, SumOf

\* A part of numbers that are not negative has no larger sum.
LEMMA SumPart ==
  ASSUME NEW S, IsFiniteSet(S), NEW g, \A x \in S : g[x] \in Nat, NEW T \in SUBSET S
  PROVE  SumFunctionOnSet(g, T) <= SumFunctionOnSet(g, S)
<1>1. SumFunctionOnSet(g, S) = SumFunctionOnSet(g, T) + SumFunctionOnSet(g, S \ T)
  BY SumParts
<1>2. IsFiniteSet(T) /\ IsFiniteSet(S \ T)
  BY FS_Subset
<1>3. SumFunctionOnSet(g, T) \in Int
  BY <1>2, SumType
<1>4. SumFunctionOnSet(g, S \ T) \in Int /\ SumFunctionOnSet(g, S \ T) >= 0
  BY <1>2, SumType
<1> QED
  BY <1>1, <1>3, <1>4

\* Zeros add nothing.
LEMMA SumZeros ==
  ASSUME NEW S, IsFiniteSet(S), NEW g, \A x \in S : g[x] \in Int, NEW T \in SUBSET S,
         \A x \in S \ T : g[x] = 0
  PROVE  SumFunctionOnSet(g, S) = SumFunctionOnSet(g, T)
<1>1. SumFunctionOnSet(g, S) = SumFunctionOnSet(g, T) + SumFunctionOnSet(g, S \ T)
  BY SumParts
<1>2. IsFiniteSet(T) /\ IsFiniteSet(S \ T)
  BY FS_Subset
<1>3. PICK q \in Sums(S \ T, g) : SumFunctionOnSet(g, S \ T) = q[S \ T]
  BY <1>2, SumIs
<1> DEFINE P == {U \in SUBSET (S \ T) : q[U] = 0}
<1>4. {} \in P
  BY DEF Sums
<1>5. ASSUME NEW U \in SUBSET (S \ T), U # {}, \A x \in U : U \ {x} \in P PROVE U \in P
  <2>1. Any(U) \in U
    BY <1>5 DEF Any
  <2>2. q[U] = g[Any(U)] + q[U \ {Any(U)}]
    BY <1>5 DEF Sums
  <2>3. g[Any(U)] = 0 /\ q[U \ {Any(U)}] = 0
    BY <1>5, <2>1
  <2> QED
    BY <2>2, <2>3
<1> HIDE DEF P
<1> DEFINE rest == S \ T
<1>6. \A U \in SUBSET rest : U \in P
  <2>1. /\ IsFiniteSet(rest) /\ {} \in P
        /\ \A U \in SUBSET rest : U # {} /\ (\A x \in U : U \ {x} \in P) => U \in P
    BY <1>2, <1>4, <1>5
  <2> HIDE DEF rest
  <2> QED
    BY <2>1, SizeInduction
<1>7. SumFunctionOnSet(g, T) \in Int
  BY <1>2, SumType
<1> QED
  BY <1>1, <1>3, <1>6, <1>7 DEF P

-----------------------------------------------------------------------------
(* Powers *)

(* The powers of b up to the n-th.                                          *)
PowersTo(b, n) ==
    {g \in [0 .. n -> Int] : g[0] = 1 /\ \A i \in 1 .. n : g[i] = b * g[i - 1]}

\* There are powers of every number.
LEMMA PowersExist ==
  ASSUME NEW b \in Int
  PROVE  \A n \in Nat : PowersTo(b, n) # {}
<1> DEFINE S == {n \in Nat : PowersTo(b, n) # {}}
<1>1. 0 \in S
  <2>1. [i \in 0 .. 0 |-> 1] \in PowersTo(b, 0)
    BY DEF PowersTo
  <2> QED
    BY <2>1
<1>2. ASSUME NEW n \in Nat, n \in S PROVE n + 1 \in S
  <2>1. PICK g \in [0 .. n -> Int] : g[0] = 1 /\ \A i \in 1 .. n : g[i] = b * g[i - 1]
    BY <1>2 DEF PowersTo
  <2> DEFINE h == [i \in 0 .. n + 1 |-> IF i = n + 1 THEN b * g[n] ELSE g[i]]
  <2>2. b * g[n] \in Int
    BY <2>1
  <2>3. h \in [0 .. n + 1 -> Int]
    BY <2>1, <2>2
  <2>4. h[0] = 1
    BY <2>1
  <2>5. ASSUME NEW i \in 1 .. n + 1 PROVE h[i] = b * h[i - 1]
    <3>1. CASE i = n + 1
      BY <3>1
    <3>2. CASE i # n + 1
      <4>1. i \in 1 .. n /\ i - 1 \in 0 .. n /\ i - 1 # n + 1 /\ i \in 0 .. n + 1
        BY <3>2
      <4>2. h[i] = g[i] /\ h[i - 1] = g[i - 1]
        BY <3>2, <4>1
      <4> QED
        BY <2>1, <4>1, <4>2
    <3> QED
      BY <3>1, <3>2
  <2> HIDE DEF h
  <2>6. h \in PowersTo(b, n + 1)
    BY <2>3, <2>4, <2>5 DEF PowersTo
  <2> QED
    BY <2>6
<1> HIDE DEF S
<1>3. \A n \in Nat : n \in S
  BY <1>1, <1>2, SetInduction
<1> QED
  BY <1>3 DEF S

\* And no others.
LEMMA PowersAgree ==
  ASSUME NEW b \in Int
  PROVE  \A i \in Nat : \A n, m \in Nat : i <= n /\ i <= m =>
            \A g \in PowersTo(b, n), h \in PowersTo(b, m) : g[i] = h[i]
<1> DEFINE S == {i \in Nat : \A n, m \in Nat : i <= n /\ i <= m =>
                    \A g \in PowersTo(b, n), h \in PowersTo(b, m) : g[i] = h[i]}
<1>1. 0 \in S
  BY DEF PowersTo
<1>2. ASSUME NEW i \in Nat, i \in S PROVE i + 1 \in S
  <2>1. ASSUME NEW n \in Nat, NEW m \in Nat, i + 1 <= n, i + 1 <= m,
               NEW g \in PowersTo(b, n), NEW h \in PowersTo(b, m)
        PROVE  g[i + 1] = h[i + 1]
    <3>1. i <= n /\ i <= m /\ i + 1 \in 1 .. n /\ i + 1 \in 1 .. m /\ i + 1 - 1 = i
      BY <2>1
    <3>2. g[i] = h[i]
      BY <1>2, <3>1
    <3>3. g[i + 1] = b * g[i] /\ h[i + 1] = b * h[i]
      BY <3>1 DEF PowersTo
    <3> QED
      BY <3>2, <3>3
  <2> QED
    BY <2>1
<1> HIDE DEF S
<1>3. \A i \in Nat : i \in S
  BY <1>1, <1>2, SetInduction
<1> QED
  BY <1>3 DEF S

\* The power is what its definition says.
LEMMA PowerIs ==
  ASSUME NEW b \in Int
  PROVE  /\ Power(b, 0) = 1
         /\ \A n \in Nat : Power(b, n) \in Int /\ Power(b, n + 1) = b * Power(b, n)
<1> DEFINE Some(n) == CHOOSE g \in PowersTo(b, n) : TRUE
           f == [n \in Nat |-> Some(n)[n]]
           Recurs(q) == q = [i \in Nat |-> IF i = 0 THEN 1 ELSE b * q[i - 1]]
           p == CHOOSE q : Recurs(q)
<1>1. \A n \in Nat : Some(n) \in PowersTo(b, n)
  BY PowersExist
<1> HIDE DEF Some
<1>2. f[0] = 1
  BY <1>1 DEF PowersTo
<1>3. ASSUME NEW n \in Nat PROVE f[n + 1] = b * f[n] /\ f[n] \in Int
  <2>1. Some(n + 1) \in PowersTo(b, n + 1) /\ Some(n) \in PowersTo(b, n)
    BY <1>1
  <2>2. Some(n + 1)[n + 1] = b * Some(n + 1)[n + 1 - 1] /\ n + 1 - 1 = n
    BY <2>1 DEF PowersTo
  <2>3. Some(n + 1)[n] = Some(n)[n]
    <3>1. n <= n + 1 /\ n <= n /\ n + 1 \in Nat
      OBVIOUS
    <3> QED
      BY <2>1, <3>1, PowersAgree
  <2>4. Some(n)[n] \in Int
    BY <2>1 DEF PowersTo
  <2> QED
    BY <2>2, <2>3, <2>4
<1>4. Recurs(f)
  <2>1. ASSUME NEW i \in Nat PROVE f[i] = IF i = 0 THEN 1 ELSE b * f[i - 1]
    <3>1. CASE i = 0
      BY <1>2, <3>1
    <3>2. CASE i # 0
      <4>1. i - 1 \in Nat /\ i - 1 + 1 = i
        BY <3>2
      <4> HIDE DEF f
      <4>2. f[i - 1 + 1] = b * f[i - 1]
        BY <1>3, <4>1
      <4> QED
        BY <3>2, <4>1, <4>2
    <3> QED
      BY <3>1, <3>2
  <2>2. f = [i \in Nat |-> f[i]]
    OBVIOUS
  <2> HIDE DEF f
  <2> QED
    BY <2>1, <2>2
<1>5. Recurs(p)
  <2> HIDE DEF f, Recurs
  <2> QED
    BY <1>4
<1>6. \A n \in Nat : Power(b, n) = p[n]
  BY DEF Power
<1> HIDE DEF p
<1>7. p[0] = 1 /\ \A n \in Nat : p[n + 1] = b * p[n]
  <2>1. p = [i \in Nat |-> IF i = 0 THEN 1 ELSE b * p[i - 1]]
    BY <1>5
  <2>2. p[0] = 1
    BY <2>1
  <2>3. ASSUME NEW n \in Nat PROVE p[n + 1] = b * p[n]
    <3>1. n + 1 \in Nat /\ n + 1 # 0 /\ n + 1 - 1 = n
      OBVIOUS
    <3> QED
      BY <2>1, <3>1
  <2> QED
    BY <2>2, <2>3
<1> DEFINE S == {n \in Nat : p[n] \in Int}
<1>8. \A n \in Nat : n \in S
  <2>1. 0 \in S /\ \A n \in Nat : n \in S => n + 1 \in S
    BY <1>7
  <2> HIDE DEF S
  <2> QED
    BY <2>1, SetInduction
<1> QED
  BY <1>6, <1>7, <1>8

-----------------------------------------------------------------------------
(* Arithmetic *)

\* Percentages have a denominator.
LEMMA Denominator == D \in Nat \ {0}
  BY PlanAssumption

\* A product of two factors that are not negative is not negative.
LEMMA Scaled ==
  ASSUME NEW a \in Nat, NEW b \in Nat
  PROVE  a * b \in Nat
  OBVIOUS

\* Both sides of an inequality may be multiplied, and divided.
LEMMA Multiplied ==
  ASSUME NEW a \in Int, NEW b \in Int, NEW c \in Nat, a <= b
  PROVE  c * a <= c * b
<1>1. b - a \in Nat
  OBVIOUS
<1>2. c * (b - a) \in Nat
  BY <1>1, Scaled
<1>3. c * (b - a) = c * b - c * a
  OBVIOUS
<1> QED
  BY <1>2, <1>3

\* And divided by what is not zero.
LEMMA Cancelled ==
  ASSUME NEW a \in Int, NEW b \in Int, NEW c \in Nat \ {0}, c * a <= c * b
  PROVE  a <= b
<1> SUFFICES ASSUME b < a PROVE FALSE
  OBVIOUS
<1>1. a - b - 1 \in Nat
  OBVIOUS
<1>2. c * (a - b - 1) \in Nat
  BY <1>1, Scaled
<1>3. c * (a - b - 1) = c * a - c * b - c
  OBVIOUS
<1> QED
  BY <1>2, <1>3

\* The quotient of whole numbers.
LEMMA Quotient ==
  ASSUME NEW n \in Nat, NEW d \in Nat \ {0}
  PROVE  /\ n \div d \in Nat
         /\ d * (n \div d) <= n /\ n < d * (n \div d) + d
  OBVIOUS

\* A rounded number is half a unit off at most.
LEMMA Rounded ==
  ASSUME NEW n \in Int, NEW d \in Nat \ {0}
  PROVE  LET p == RoundHalfUp(n, d)
         IN  /\ p \in Int
             /\ n >= 0 => /\ p \in Nat
                          /\ 2 * (d * p) <= 2 * n + d /\ 2 * n + d < 2 * (d * p) + 2 * d
             /\ n < 0 => p <= 0
<1>1. 2 * d \in Nat \ {0}
  OBVIOUS
<1>2. CASE n >= 0
  <2>1. 2 * n + d \in Nat
    BY <1>2
  <2>2. RoundHalfUp(n, d) = (2 * n + d) \div (2 * d)
    BY <1>2 DEF RoundHalfUp
  <2> DEFINE p == (2 * n + d) \div (2 * d)
  <2>3. /\ p \in Nat /\ (2 * d) * p <= 2 * n + d
        /\ 2 * n + d < (2 * d) * p + 2 * d
    BY <1>1, <2>1, Quotient
  <2> HIDE DEF p
  <2>4. (2 * d) * p = 2 * (d * p)
    BY <2>3
  <2> QED
    BY <1>2, <2>2, <2>3, <2>4 DEF p
<1>3. CASE n < 0
  <2>1. d - 2 * n \in Nat
    BY <1>3
  <2>2. (d - 2 * n) \div (2 * d) \in Nat
    BY <1>1, <2>1, Quotient
  <2>3. RoundHalfUp(n, d) = -((d - 2 * n) \div (2 * d))
    BY <1>3 DEF RoundHalfUp
  <2> QED
    BY <1>3, <2>2, <2>3
<1> QED
  BY <1>2, <1>3

\* Rounding keeps the order of two fractions.
LEMMA RoundedInOrder ==
  ASSUME NEW n1 \in Nat, NEW d1 \in Nat \ {0}, NEW n2 \in Nat, NEW d2 \in Nat \ {0},
         n1 * d2 <= n2 * d1
  PROVE  RoundHalfUp(n1, d1) <= RoundHalfUp(n2, d2)
<1> DEFINE p == RoundHalfUp(n1, d1)
           q == RoundHalfUp(n2, d2)
<1>1. /\ p \in Nat /\ 2 * (d1 * p) <= 2 * n1 + d1
      /\ q \in Nat /\ 2 * n2 + d2 < 2 * (d2 * q) + 2 * d2
  BY Rounded
<1> HIDE DEF p, q
<1> SUFFICES ASSUME q + 1 <= p PROVE FALSE
  BY <1>1 DEF p, q
<1>2. d2 * (2 * (d1 * p)) <= d2 * (2 * n1 + d1)
  BY <1>1, Multiplied
<1>3. d1 * (2 * n2 + d2 + 1) <= d1 * (2 * (d2 * q) + 2 * d2)
  BY <1>1, Multiplied
<1>4. (d1 * d2) * (q + 1) <= (d1 * d2) * p
  <2>1. d1 * d2 \in Nat
    BY Scaled
  <2> QED
    BY <1>1, <2>1, Multiplied
<1>5. /\ d2 * (2 * (d1 * p)) = 2 * ((d1 * d2) * p)
      /\ d2 * (2 * n1 + d1) = 2 * (n1 * d2) + d1 * d2
      /\ d1 * (2 * n2 + d2 + 1) = 2 * (n2 * d1) + d1 * d2 + d1
      /\ d1 * (2 * (d2 * q) + 2 * d2) = 2 * ((d1 * d2) * (q + 1))
  BY <1>1
<1> DEFINE A == (d1 * d2) * p
           B == (d1 * d2) * (q + 1)
           M == n1 * d2
           N == n2 * d1
           E == d1 * d2
<1>6. A \in Int /\ B \in Int /\ M \in Int /\ N \in Int /\ E \in Int
  BY <1>1
<1>7. 2 * A <= 2 * M + E /\ 2 * N + E + d1 <= 2 * B /\ B <= A /\ M <= N
  BY <1>2, <1>3, <1>4, <1>5
<1> HIDE DEF A, B, M, N, E
<1> QED
  BY <1>6, <1>7

\* Two fractions a unit or more apart stay apart when they are rounded.
LEMMA RoundedApart ==
  ASSUME NEW n1 \in Nat, NEW d1 \in Nat \ {0}, NEW n2 \in Nat, NEW d2 \in Nat \ {0},
         n2 * d1 - n1 * d2 >= d1 * d2
  PROVE  RoundHalfUp(n1, d1) < RoundHalfUp(n2, d2)
<1> DEFINE p == RoundHalfUp(n1, d1)
           q == RoundHalfUp(n2, d2)
<1>1. /\ p \in Nat /\ 2 * (d1 * p) <= 2 * n1 + d1
      /\ q \in Nat /\ 2 * n2 + d2 < 2 * (d2 * q) + 2 * d2
  BY Rounded
<1> HIDE DEF p, q
<1> SUFFICES ASSUME q <= p PROVE FALSE
  BY <1>1 DEF p, q
<1>2. d2 * (2 * (d1 * p)) <= d2 * (2 * n1 + d1)
  BY <1>1, Multiplied
<1>3. d1 * (2 * n2 + d2 + 1) <= d1 * (2 * (d2 * q) + 2 * d2)
  BY <1>1, Multiplied
<1>4. (d1 * d2) * q <= (d1 * d2) * p
  <2>1. d1 * d2 \in Nat
    BY Scaled
  <2> QED
    BY <1>1, <2>1, Multiplied
<1>5. /\ d2 * (2 * (d1 * p)) = 2 * ((d1 * d2) * p)
      /\ d2 * (2 * n1 + d1) = 2 * (n1 * d2) + d1 * d2
      /\ d1 * (2 * n2 + d2 + 1) = 2 * (n2 * d1) + d1 * d2 + d1
      /\ d1 * (2 * (d2 * q) + 2 * d2) = 2 * ((d1 * d2) * q) + 2 * (d1 * d2)
  BY <1>1
<1> DEFINE A == (d1 * d2) * p
           B == (d1 * d2) * q
           M == n1 * d2
           N == n2 * d1
           E == d1 * d2
<1>6. A \in Int /\ B \in Int /\ M \in Int /\ N \in Int /\ E \in Int
  BY <1>1
<1>7. 2 * A <= 2 * M + E /\ 2 * N + E + d1 <= 2 * B + 2 * E /\ B <= A /\ N - M >= E
  BY <1>2, <1>3, <1>4, <1>5
<1> HIDE DEF A, B, M, N, E
<1> QED
  BY <1>6, <1>7

\* What two rounded prices with one denominator lose of a round trip that is short of
\* paying by at most w: w, and half a unit each.
LEMMA RoundedShort ==
  ASSUME NEW n1 \in Nat, NEW n2 \in Nat, NEW d \in Nat \ {0},
         NEW s \in Nat, NEW b \in Nat, NEW w \in Int, b * n1 <= s * n2 + w
  PROVE  d * (2 * (s * RoundHalfUp(n2, d) - b * RoundHalfUp(n1, d)) + (s + b)) >= -(2 * w)
<1> DEFINE p == RoundHalfUp(n1, d)
           q == RoundHalfUp(n2, d)
<1>0. /\ p \in Nat /\ 2 * (d * p) <= 2 * n1 + d
      /\ q \in Nat /\ 2 * n2 + d < 2 * (d * q) + 2 * d
  BY Rounded
<1> HIDE DEF p, q
<1>1. /\ p \in Nat /\ 2 * (d * p) <= 2 * n1 + d
      /\ q \in Nat /\ 2 * n2 + d <= 2 * (d * q) + 2 * d
  BY <1>0
<1> DEFINE A == b * (d * p)
           B == s * (d * q)
           M == b * n1
           N == s * n2
           bd == b * d
           sd == s * d
<1>2. /\ A \in Int /\ B \in Int /\ M \in Int /\ N \in Int /\ bd \in Int /\ sd \in Int
  BY <1>1
<1>3. 2 * A <= 2 * M + bd
  <2>1. b * (2 * (d * p)) <= b * (2 * n1 + d)
    BY <1>1, Multiplied
  <2>2. b * (2 * (d * p)) = 2 * A /\ b * (2 * n1 + d) = 2 * M + bd
    BY <1>1
  <2> QED
    BY <2>1, <2>2
<1>4. 2 * N + sd <= 2 * B + 2 * sd
  <2>1. s * (2 * n2 + d) <= s * (2 * (d * q) + 2 * d)
    BY <1>1, Multiplied
  <2>2. s * (2 * n2 + d) = 2 * N + sd /\ s * (2 * (d * q) + 2 * d) = 2 * B + 2 * sd
    BY <1>1
  <2> QED
    BY <2>1, <2>2
<1>5. M <= N + w
  OBVIOUS
<1>6. d * (2 * (s * q - b * p) + (s + b)) = 2 * B - 2 * A + sd + bd
  <2>1. d * (2 * (s * q - b * p)) = 2 * (d * (s * q)) - 2 * (d * (b * p))
    BY <1>1
  <2>2. d * (s * q) = B /\ d * (b * p) = A
    BY <1>1
  <2>3. d * (s + b) = sd + bd
    OBVIOUS
  <2>4. 2 * (s * q - b * p) \in Int /\ s + b \in Int
    BY <1>1
  <2>5. \A x, y \in Int : d * (x + y) = d * x + d * y
    OBVIOUS
  <2> QED
    BY <1>2, <2>1, <2>2, <2>3, <2>4, <2>5
<1> HIDE DEF A, B, M, N, bd, sd
<1>7. 2 * B - 2 * A + sd + bd >= -(2 * w)
  BY <1>2, <1>3, <1>4, <1>5
<1> QED
  BY <1>6, <1>7 DEF p, q

\* What two rounded prices lose of a round trip that pays: half a unit each.
LEMMA RoundedPays ==
  ASSUME NEW n1 \in Nat, NEW d1 \in Nat \ {0}, NEW n2 \in Nat, NEW d2 \in Nat \ {0},
         NEW s \in Nat, NEW b \in Nat,
         b * (n1 * d2) <= s * (n2 * d1)
  PROVE  2 * (s * RoundHalfUp(n2, d2) - b * RoundHalfUp(n1, d1)) >= -(s + b)
<1> DEFINE p == RoundHalfUp(n1, d1)
           q == RoundHalfUp(n2, d2)
<1>0. /\ p \in Nat /\ 2 * (d1 * p) <= 2 * n1 + d1
      /\ q \in Nat /\ 2 * n2 + d2 < 2 * (d2 * q) + 2 * d2
  BY Rounded
<1> HIDE DEF p, q
<1>1. /\ p \in Nat /\ 2 * (d1 * p) <= 2 * n1 + d1
      /\ q \in Nat /\ 2 * n2 + d2 <= 2 * (d2 * q) + 2 * d2
  BY <1>0
<1>2. (b * d2) * (2 * (d1 * p)) <= (b * d2) * (2 * n1 + d1)
  <2>1. b * d2 \in Nat
    BY Scaled
  <2> QED
    BY <1>1, <2>1, Multiplied
<1>3. (s * d1) * (2 * n2 + d2) <= (s * d1) * (2 * (d2 * q) + 2 * d2)
  <2>1. s * d1 \in Nat
    BY Scaled
  <2> QED
    BY <1>1, <2>1, Multiplied
<1> DEFINE E == d1 * d2
           A == E * (b * p)
           B == E * (s * q)
           M == b * (n1 * d2)
           N == s * (n2 * d1)
<1>4. /\ (b * d2) * (2 * (d1 * p)) = 2 * A
      /\ (b * d2) * (2 * n1 + d1) = 2 * M + E * b
  BY <1>1
<1>5. /\ (s * d1) * (2 * n2 + d2) = 2 * N + E * s
      /\ (s * d1) * (2 * (d2 * q) + 2 * d2) = 2 * B + 2 * (E * s)
  BY <1>1
<1>6. /\ A \in Int /\ B \in Int /\ M \in Int /\ N \in Int
      /\ E \in Nat \ {0} /\ E * b \in Int /\ E * s \in Int
  <2>1. E \in Nat /\ E # 0
    OBVIOUS
  <2> QED
    BY <1>1, <2>1
<1>7. 2 * A <= 2 * M + E * b /\ 2 * N <= 2 * B + E * s /\ M <= N
  <2>1. 2 * A <= 2 * M + E * b
    BY <1>2, <1>4
  <2>2. 2 * N + E * s <= 2 * B + 2 * (E * s)
    BY <1>3, <1>5
  <2>3. M <= N
    OBVIOUS
  <2> HIDE DEF A, B, M, N, E
  <2> QED
    BY <1>6, <2>1, <2>2, <2>3
<1>8. 2 * A <= 2 * B + E * b + E * s
  <2> HIDE DEF A, B, M, N, E
  <2> QED
    BY <1>6, <1>7
<1>9. E * (-(s + b)) <= E * (2 * (s * q - b * p))
  <2>1. E * (-(s + b)) = -(E * b + E * s)
    BY <1>6
  <2>2. E * (2 * (s * q - b * p)) = 2 * B - 2 * A
    <3>1. s * q \in Int /\ b * p \in Int
      BY <1>1
    <3> HIDE DEF E
    <3> QED
      BY <1>6, <3>1
  <2> HIDE DEF A, B, E
  <2> QED
    BY <1>6, <1>8, <2>1, <2>2
<1>10. -(s + b) \in Int /\ 2 * (s * q - b * p) \in Int
  BY <1>1
<1> HIDE DEF E
<1> QED
  BY <1>6, <1>9, <1>10, Cancelled DEF p, q

\* What is left over the fees by the ratio of a target in percent.
LEMMA PctNet ==
  ASSUME NEW d \in Int, NEW a \in Int, NEW b \in Int, NEW s \in Int
  PROVE  /\ (d - s) * ((d + a) * d) - (d + b) * ((d - b) * (d - s))
              = a * ((d - b) * (d - s)) + (d - s) * (b * (b + a))
         /\ ((d + a) * d) * (d - s) - (d + b) * ((d - b) * (d - s))
              = a * ((d - b) * (d - s)) + (d - s) * (b * (b + a))
  OBVIOUS

\* What is left over the fees by the ratio of a target in quote.
LEMMA QuoteNet ==
  ASSUME NEW d \in Int, NEW a \in Int, NEW b \in Int, NEW s \in Int, NEW v \in Int
  PROVE  /\ (d - s) * ((d + b) * v + a * d) - (d + b) * ((d - s) * v) = (d - s) * (a * d)
         /\ ((d + b) * v + a * d) * (d - s) - (d + b) * ((d - s) * v) = (d - s) * (a * d)
         /\ ((d - s) * (a * d)) * v = a * d * ((d - s) * v)
  OBVIOUS

\* The ratio of the target never falls below break even, so it is the one taken.
LEMMA TargetTaken ==
  ASSUME NEW c, Terms(c)
  PROVE  StepRatio(c) = TargetRatio(c)
<1> DEFINE a == c.target.amount
           b == c.buyFee
           s == c.sellFee
           v == c.value
<1>1. /\ D \in Nat /\ a \in Nat /\ b \in Nat /\ s \in Nat /\ v \in Int
      /\ D - b \in Nat /\ D - s \in Nat
  BY Denominator DEF Terms
<1> HIDE DEF a, b, s, v
<1>2. CASE c.target.kind = "pct"
  <2>1. TargetRatio(c) = [n |-> (D + a) * D, d |-> (D - b) * (D - s)]
    BY <1>2 DEF TargetRatio, a, b, s
  <2>2. ((D + a) * D) * (D - s) - (D + b) * ((D - b) * (D - s)) \in Nat
    <3>1. a * ((D - b) * (D - s)) \in Nat
      BY <1>1, Scaled
    <3>2. (D - s) * (b * (b + a)) \in Nat
      <4>1. b * (b + a) \in Nat
        BY <1>1, Scaled
      <4> QED
        BY <4>1, <1>1, Scaled
    <3>3. a * ((D - b) * (D - s)) + (D - s) * (b * (b + a)) \in Nat
      BY <3>1, <3>2
    <3> QED
      BY <3>3, <1>1, PctNet
  <2>3. ((D + a) * D) * (D - s) >= (D + b) * ((D - b) * (D - s))
    BY <2>2, <1>1
  <2> QED
    BY <2>1, <2>3 DEF StepRatio, AtLeast, BreakEven, b, s
<1>3. CASE c.target.kind # "pct"
  <2>1. TargetRatio(c) = [n |-> (D + b) * v + a * D, d |-> (D - s) * v]
    BY <1>3 DEF TargetRatio, a, b, s, v
  <2>2. ((D + b) * v + a * D) * (D - s) - (D + b) * ((D - s) * v) \in Nat
    <3>1. (D - s) * (a * D) \in Nat
      <4>1. a * D \in Nat
        BY <1>1, Scaled
      <4> QED
        BY <4>1, <1>1, Scaled
    <3> QED
      BY <3>1, <1>1, QuoteNet
  <2>3. ((D + b) * v + a * D) * (D - s) >= (D + b) * ((D - s) * v)
    BY <2>2, <1>1
  <2> QED
    BY <2>1, <2>3 DEF StepRatio, AtLeast, BreakEven, b, s
<1> QED
  BY <1>2, <1>3

\* What a line's value, bought and sold one line higher, leaves after both fees.
LEMMA NetOfStep ==
  ASSUME NEW c, Terms(c), NEW x, x = StepRatio(c)
  PROVE  LET net == (D - c.sellFee) * x.n - (D + c.buyFee) * x.d
         IN  /\ net >= 0
             /\ IF c.target.kind = "pct" THEN net >= c.target.amount * x.d
                ELSE net * c.value >= c.target.amount * D * x.d
<1> DEFINE a == c.target.amount
           b == c.buyFee
           s == c.sellFee
           v == c.value
           net == (D - s) * x.n - (D + b) * x.d
<1>1. /\ D \in Nat /\ a \in Nat /\ b \in Nat /\ s \in Nat /\ v \in Int
      /\ D - b \in Nat /\ D - s \in Nat
  BY Denominator DEF Terms
<1>2. x = TargetRatio(c)
  BY TargetTaken
<1> HIDE DEF a, b, s, v
<1>3. CASE c.target.kind = "pct"
  <2>1. x.n = (D + a) * D /\ x.d = (D - b) * (D - s)
    BY <1>2, <1>3 DEF TargetRatio, a, b, s
  <2>2. net = a * ((D - b) * (D - s)) + (D - s) * (b * (b + a))
    BY <2>1, <1>1, PctNet
  <2>3. a * ((D - b) * (D - s)) \in Nat /\ a * x.d = a * ((D - b) * (D - s))
    BY <2>1, <1>1, Scaled
  <2>4. (D - s) * (b * (b + a)) \in Nat
    <3>1. b * (b + a) \in Nat
      BY <1>1, Scaled
    <3> QED
      BY <3>1, <1>1, Scaled
  <2>5. net >= 0 /\ net >= a * x.d
    <3> HIDE DEF net
    <3> QED
      BY <2>2, <2>3, <2>4
  <2> QED
    BY <2>5, <1>3 DEF net, a, b, s, v
<1>4. CASE c.target.kind # "pct"
  <2>1. x.n = (D + b) * v + a * D /\ x.d = (D - s) * v
    BY <1>2, <1>4 DEF TargetRatio, a, b, s, v
  <2>2. net = (D - s) * (a * D)
    BY <2>1, <1>1, QuoteNet
  <2>3. net \in Nat
    <3>1. a * D \in Nat
      BY <1>1, Scaled
    <3> QED
      BY <3>1, <2>2, <1>1, Scaled
  <2>4. net * v = a * D * x.d
    BY <2>1, <2>2, <1>1, QuoteNet
  <2>5. net * v >= a * D * x.d
    <3>1. a * D * x.d \in Int
      BY <2>1, <1>1
    <3> HIDE DEF net
    <3> QED
      BY <2>4, <3>1
  <2> QED
    BY <2>3, <2>5, <1>4 DEF net, a, b, s, v
<1> QED
  BY <1>3, <1>4

-----------------------------------------------------------------------------
(* The lines *)

(* What the lines are computed from: an anchor, and a ratio of one or more. *)
Anchored(c, x) == /\ c.grid \in {"geometric", "arithmetic"} /\ c.anchor2 \in Nat \ {0}
                  /\ x.n \in Nat /\ x.d \in Nat \ {0} /\ x.d <= x.n

\* The powers of a positive number are positive.
LEMMA PowerPositive ==
  ASSUME NEW b \in Nat \ {0}
  PROVE  \A n \in Nat : Power(b, n) \in Nat \ {0}
<1> DEFINE S == {n \in Nat : Power(b, n) \in Nat \ {0}}
<1>1. 0 \in S
  BY PowerIs
<1>2. ASSUME NEW n \in Nat, n \in S PROVE n + 1 \in S
  <2>1. Power(b, n + 1) = b * Power(b, n) /\ Power(b, n) \in Nat \ {0}
    BY <1>2, PowerIs
  <2> DEFINE q == Power(b, n)
  <2> HIDE DEF q
  <2>2. b * q \in Nat /\ b * q # 0
    BY <2>1 DEF q
  <2> QED
    BY <2>1, <2>2 DEF q
<1> HIDE DEF S
<1>3. \A n \in Nat : n \in S
  BY <1>1, <1>2, SetInduction
<1> QED
  BY <1>3 DEF S

\* The line below one of a geometric grid is the same line over the ratio.
LEMMA GeometricLine ==
  ASSUME NEW c, NEW x, Anchored(c, x), c.grid = "geometric", NEW i \in Int
  PROVE  LET low == RawPrice(c, x, i)
             high == RawPrice(c, x, i + 1)
         IN  /\ low.n \in Nat /\ low.d \in Nat \ {0}
             /\ high.n \in Nat /\ high.d \in Nat \ {0}
             /\ x.d * (high.n * low.d) = x.n * (low.n * high.d)
<1> DEFINE low == RawPrice(c, x, i)
           high == RawPrice(c, x, i + 1)
           a == c.anchor2
<1>1. /\ a \in Nat \ {0} /\ x.n \in Nat \ {0} /\ x.d \in Nat \ {0}
      /\ x.n \in Int /\ x.d \in Int
  BY DEF Anchored
<1> DEFINE N == x.n
           E == x.d
<1>powers. ASSUME NEW w \in Nat
      PROVE  /\ Power(x.n, 0) = 1 /\ Power(x.d, 0) = 1
             /\ Power(x.n, w + 1) = x.n * Power(x.n, w)
             /\ Power(x.d, w + 1) = x.d * Power(x.d, w)
             /\ Power(x.n, w) \in Nat \ {0} /\ Power(x.d, w) \in Nat \ {0}
  <2> HIDE DEF N, E
  <2>1. /\ Power(N, 0) = 1 /\ Power(N, w + 1) = N * Power(N, w) /\ Power(N, w) \in Nat \ {0}
    BY <1>1, PowerIs, PowerPositive DEF N
  <2>2. /\ Power(E, 0) = 1 /\ Power(E, w + 1) = E * Power(E, w) /\ Power(E, w) \in Nat \ {0}
    BY <1>1, PowerIs, PowerPositive DEF E
  <2> QED
    BY <2>1, <2>2 DEF N, E
<1>2. CASE i >= 0
  <2> DEFINE p == Power(x.n, i)
             q == Power(x.d, i)
  <2>1. /\ low = [n |-> a * p, d |-> 2 * q]
        /\ high = [n |-> a * Power(x.n, i + 1), d |-> 2 * Power(x.d, i + 1)]
    BY <1>2 DEF RawPrice
  <2>2. Power(x.n, i + 1) = x.n * p /\ Power(x.d, i + 1) = x.d * q
    BY <1>powers, <1>2
  <2>3. p \in Nat \ {0} /\ q \in Nat \ {0}
    BY <1>powers, <1>2
  <2>4. low.n = a * p /\ low.d = 2 * q /\ high.n = a * (x.n * p) /\ high.d = 2 * (x.d * q)
    BY <2>1, <2>2
  <2> HIDE DEF p, q, low, high, a
  <2>5. a * p \in Nat /\ 2 * q \in Nat \ {0} /\ a * (x.n * p) \in Nat /\ 2 * (x.d * q) \in Nat \ {0}
    BY <1>1, <2>3
  <2>6. x.d * ((a * (x.n * p)) * (2 * q)) = x.n * ((a * p) * (2 * (x.d * q)))
    BY <1>1, <2>3
  <2> QED
    BY <2>4, <2>5, <2>6 DEF low, high
<1>3. CASE i < 0
  <2> DEFINE j == -(i + 1)
             p == Power(x.d, j)
             q == Power(x.n, j)
  <2>1. j \in Nat /\ -i = j + 1
    BY <1>3
  <2>2. low = [n |-> a * Power(x.d, j + 1), d |-> 2 * Power(x.n, j + 1)]
    BY <1>3, <2>1 DEF RawPrice
  <2>3. high = [n |-> a * p, d |-> 2 * q]
    <3>1. CASE i + 1 = 0
      <4>1. j = 0 /\ Power(x.n, 0) = 1 /\ Power(x.d, 0) = 1
        BY <1>powers, <3>1
      <4> QED
        BY <3>1, <4>1 DEF RawPrice
    <3>2. CASE i + 1 < 0
      BY <3>2 DEF RawPrice
    <3> QED
      BY <1>3, <3>1, <3>2
  <2> HIDE DEF j
  <2>4. Power(x.n, j + 1) = x.n * q /\ Power(x.d, j + 1) = x.d * p
    BY <1>powers, <2>1
  <2>5. p \in Nat \ {0} /\ q \in Nat \ {0}
    BY <1>powers, <2>1
  <2>6. low.n = a * (x.d * p) /\ low.d = 2 * (x.n * q) /\ high.n = a * p /\ high.d = 2 * q
    BY <2>2, <2>3, <2>4
  <2> HIDE DEF p, q, low, high, a
  <2>7. a * p \in Nat /\ 2 * q \in Nat \ {0} /\ a * (x.d * p) \in Nat /\ 2 * (x.n * q) \in Nat \ {0}
    BY <1>1, <2>5
  <2>8. x.d * ((a * p) * (2 * (x.n * q))) = x.n * ((a * (x.d * p)) * (2 * q))
    BY <1>1, <2>5
  <2> QED
    BY <2>6, <2>7, <2>8 DEF low, high
<1> QED
  BY <1>2, <1>3

\* The lines of an arithmetic grid are a step apart.
LEMMA ArithmeticLine ==
  ASSUME NEW c, NEW x, Anchored(c, x), c.grid = "arithmetic", NEW i \in Int
  PROVE  LET low == RawPrice(c, x, i)
             high == RawPrice(c, x, i + 1)
             m == x.n - x.d
         IN  /\ low.d = 2 * x.d /\ high.d = 2 * x.d /\ low.d \in Nat \ {0}
             /\ low.n = c.anchor2 * (x.d + i * m) /\ low.n \in Int
             /\ high.n = c.anchor2 * (x.d + i * m + m) /\ high.n \in Int
             /\ i >= 0 => low.n \in Nat
<1> DEFINE m == x.n - x.d
           a == c.anchor2
<1>1. a \in Nat \ {0} /\ x.n \in Nat /\ x.d \in Nat \ {0} /\ m \in Nat
  BY DEF Anchored
<1>2. /\ RawPrice(c, x, i) = [n |-> a * (x.d + i * m), d |-> 2 * x.d]
      /\ RawPrice(c, x, i + 1) = [n |-> a * (x.d + (i + 1) * m), d |-> 2 * x.d]
  BY DEF RawPrice
<1> HIDE DEF m, a
<1>3. (i + 1) * m = i * m + m /\ i * m \in Int
  BY <1>1
<1>4. i >= 0 => a * (x.d + i * m) \in Nat
  <2>1. i >= 0 => i * m \in Nat
    BY <1>1, Scaled
  <2> DEFINE im == i * m
  <2> HIDE DEF im
  <2>2. i >= 0 => x.d + im \in Nat
    BY <1>1, <2>1 DEF im
  <2> QED
    BY <1>1, <2>2, Scaled DEF im
<1>5. a * (x.d + i * m) \in Int /\ a * (x.d + i * m + m) \in Int
  BY <1>1, <1>3
<1> QED
  BY <1>1, <1>2, <1>3, <1>4, <1>5 DEF m, a

\* A line is at or above the one below it.
LEMMA LinesInOrder ==
  ASSUME NEW c, NEW x, Anchored(c, x), NEW i \in Int, RawPrice(c, x, i).n >= 0
  PROVE  LET low == RawPrice(c, x, i)
             high == RawPrice(c, x, i + 1)
         IN  /\ low.n \in Nat /\ low.d \in Nat \ {0}
             /\ high.n \in Nat /\ high.d \in Nat \ {0}
             /\ low.n * high.d <= high.n * low.d
<1> DEFINE low == RawPrice(c, x, i)
           high == RawPrice(c, x, i + 1)
<1>1. x.n \in Nat /\ x.d \in Nat \ {0} /\ x.d <= x.n /\ c.anchor2 \in Nat
  BY DEF Anchored
<1>2. CASE c.grid = "geometric"
  <2>1. /\ low.n \in Nat /\ low.d \in Nat \ {0}
        /\ high.n \in Nat /\ high.d \in Nat \ {0}
        /\ x.d * (high.n * low.d) = x.n * (low.n * high.d)
    BY <1>2, GeometricLine
  <2> DEFINE L == low.n * high.d
             H == high.n * low.d
  <2>2. L \in Nat /\ H \in Nat
    BY <2>1, Scaled
  <2>3. x.d * H = x.n * L
    BY <2>1
  <2> HIDE DEF L, H
  <2>4. L * x.d <= L * x.n
    BY <1>1, <2>2, Multiplied
  <2>5. x.d * L <= x.d * H
    BY <1>1, <2>2, <2>3, <2>4
  <2>6. L <= H
    <3>1. L \in Int /\ H \in Int
      BY <2>2
    <3> QED
      BY <1>1, <2>5, <3>1, Cancelled
  <2> QED
    BY <2>1, <2>6 DEF L, H
<1>3. CASE c.grid = "arithmetic"
  <2> DEFINE m == x.n - x.d
  <2>1. /\ low.d = 2 * x.d /\ high.d = 2 * x.d /\ low.d \in Nat \ {0}
        /\ low.n = c.anchor2 * (x.d + i * m) /\ low.n \in Int
        /\ high.n = c.anchor2 * (x.d + i * m + m) /\ high.n \in Int
    BY <1>3, ArithmeticLine
  <2>2. m \in Nat /\ i * m \in Int
    BY <1>1
  <2>3. low.n <= high.n
    <3>1. c.anchor2 * (x.d + i * m) <= c.anchor2 * (x.d + i * m + m)
      <4> DEFINE im == i * m
      <4> HIDE DEF im, m
      <4>1. x.d + im <= x.d + im + m /\ x.d + im \in Int /\ x.d + im + m \in Int
        BY <1>1, <2>2 DEF im
      <4> QED
        BY <1>1, <4>1, Multiplied DEF im
    <3> QED
      BY <2>1, <3>1
  <2> HIDE DEF low, high
  <2>4. low.d * low.n <= low.d * high.n
    BY <2>1, <2>3, Multiplied
  <2>5. low.d * low.n = low.n * high.d /\ low.d * high.n = high.n * low.d
    <3>1. low.d = high.d /\ low.d \in Int /\ low.n \in Int /\ high.n \in Int
      BY <2>1
    <3> QED
      BY <3>1
  <2>6. low.n \in Nat /\ high.n \in Nat
    <3>1. low.n >= 0
      BY DEF low
    <3> QED
      BY <2>1, <2>3, <3>1
  <2>7. low.d \in Nat \ {0} /\ high.d \in Nat \ {0}
    BY <2>1
  <2>8. low.n * high.d <= high.n * low.d
    BY <2>4, <2>5
  <2> QED
    BY <2>6, <2>7, <2>8 DEF low, high
<1> QED
  BY <1>2, <1>3 DEF Anchored

\* A round trip between neighbouring lines pays both fees if the ratio does; above the
\* anchor of an arithmetic grid the step is a smaller share of the price.
LEMMA LinesPay ==
  ASSUME NEW c, NEW x, Anchored(c, x), NEW i \in Int, RawPrice(c, x, i).n >= 0,
         c.grid = "geometric" \/ i <= 0,
         NEW s \in Nat, NEW b \in Nat, b * x.d <= s * x.n
  PROVE  LET low == RawPrice(c, x, i)
             high == RawPrice(c, x, i + 1)
         IN  b * (low.n * high.d) <= s * (high.n * low.d)
<1> DEFINE low == RawPrice(c, x, i)
           high == RawPrice(c, x, i + 1)
<1>1. x.n \in Nat /\ x.d \in Nat \ {0} /\ x.d <= x.n /\ c.anchor2 \in Nat
  BY DEF Anchored
<1>2. CASE c.grid = "geometric"
  <2>1. /\ low.n \in Nat /\ low.d \in Nat \ {0}
        /\ high.n \in Nat /\ high.d \in Nat \ {0}
        /\ x.d * (high.n * low.d) = x.n * (low.n * high.d)
    BY <1>2, GeometricLine
  <2> DEFINE L == low.n * high.d
             H == high.n * low.d
  <2>2. L \in Nat /\ H \in Nat
    BY <2>1, Scaled
  <2>3. x.d * H = x.n * L
    BY <2>1
  <2> HIDE DEF L, H
  <2>4. L * (b * x.d) <= L * (s * x.n)
    <3>1. b * x.d \in Int /\ s * x.n \in Int
      BY <1>1
    <3> QED
      BY <2>2, <3>1, Multiplied
  <2>5. x.d * (b * L) <= x.d * (s * H)
    <3>1. L * (b * x.d) = x.d * (b * L)
      BY <1>1, <2>2
    <3>2. L * (s * x.n) = s * (x.n * L)
      BY <1>1, <2>2
    <3>3. s * (x.d * H) = x.d * (s * H)
      BY <1>1, <2>2
    <3> QED
      BY <2>3, <2>4, <3>1, <3>2, <3>3
  <2>6. b * L <= s * H
    <3>1. b * L \in Int /\ s * H \in Int
      BY <2>2
    <3> QED
      BY <1>1, <2>5, <3>1, Cancelled
  <2> QED
    BY <2>6 DEF L, H
<1>3. CASE c.grid = "arithmetic"
  <2> DEFINE m == x.n - x.d
             a == c.anchor2
             y == x.d + i * m
  <2>1. /\ low.d = 2 * x.d /\ high.d = 2 * x.d
        /\ low.n = a * y /\ high.n = a * (y + m)
    BY <1>3, ArithmeticLine
  <2>2. m \in Nat /\ y \in Int /\ x.n = x.d + m /\ a \in Nat \ {0} /\ i \in Int /\ i <= 0
    BY <1>1, <1>3 DEF Anchored
  <2>3. y \in Nat
    <3> HIDE DEF y, a
    <3>1. a * 0 <= a * y
      BY <2>1, <2>2
    <3> QED
      BY <2>2, <3>1, Cancelled
  \* Over the ratio the line above would be at most where it is.
  <2>4. (x.d + m) * y <= x.d * (y + m)
    <3>1. x.d * (y + m) - (x.d + m) * y = m * (x.d - y)
      <4> HIDE DEF m, y
      <4> QED
        BY <1>1, <2>2
    <3>2. x.d - y \in Nat
      <4>1. (-i) * m \in Nat
        BY <2>2, Scaled
      <4>2. x.d - y = (-i) * m
        BY <1>1, <2>2
      <4> QED
        BY <4>1, <4>2
    <3>3. m * (x.d - y) \in Nat
      BY <2>2, <3>2, Scaled
    <3>4. x.d * (y + m) \in Int /\ (x.d + m) * y \in Int
      BY <1>1, <2>2
    <3> DEFINE A == x.d * (y + m)
               B == (x.d + m) * y
    <3> HIDE DEF A, B
    <3>5. A - B \in Nat
      BY <3>1, <3>3 DEF A, B
    <3> QED
      BY <3>4, <3>5 DEF A, B
  <2> HIDE DEF m, a, y, low, high
  <2>5. y * (b * x.d) <= y * (s * (x.d + m))
    <3>1. b * x.d \in Int /\ s * (x.d + m) \in Int
      BY <1>1, <2>2
    <3> QED
      BY <2>2, <2>3, <3>1, Multiplied
  <2>6. s * ((x.d + m) * y) <= s * (x.d * (y + m))
    <3>1. (x.d + m) * y \in Int /\ x.d * (y + m) \in Int
      BY <1>1, <2>2
    <3> QED
      BY <2>4, <3>1, Multiplied
  <2>7. x.d * (b * y) <= x.d * (s * (y + m))
    <3>1. y * (b * x.d) = x.d * (b * y)
      BY <1>1, <2>2
    <3>2. y * (s * (x.d + m)) = s * ((x.d + m) * y)
      BY <1>1, <2>2
    <3>3. s * (x.d * (y + m)) = x.d * (s * (y + m))
      BY <1>1, <2>2
    <3>4. x.d * (b * y) \in Int /\ s * ((x.d + m) * y) \in Int /\ x.d * (s * (y + m)) \in Int
      BY <1>1, <2>2
    <3> QED
      BY <2>5, <2>6, <3>1, <3>2, <3>3, <3>4
  <2>8. b * y <= s * (y + m)
    <3>1. b * y \in Int /\ s * (y + m) \in Int
      BY <2>2
    <3> QED
      BY <1>1, <2>7, <3>1, Cancelled
  <2>9. (a * (2 * x.d)) * (b * y) <= (a * (2 * x.d)) * (s * (y + m))
    <3>1. a * (2 * x.d) \in Nat
      BY <1>1, <2>2, Scaled
    <3>2. b * y \in Int /\ s * (y + m) \in Int
      BY <2>2
    <3> QED
      BY <2>8, <3>1, <3>2, Multiplied
  <2>10. /\ (a * (2 * x.d)) * (b * y) = b * ((a * y) * (2 * x.d))
         /\ (a * (2 * x.d)) * (s * (y + m)) = s * ((a * (y + m)) * (2 * x.d))
    BY <1>1, <2>2
  <2> QED
    BY <2>1, <2>9, <2>10 DEF low, high
<1> QED
  BY <1>2, <1>3 DEF Anchored

-----------------------------------------------------------------------------
(* The plan *)

\* An amount in whole cents is half a cent off at most.
LEMMA Cents ==
  ASSUME NEW n \in Nat, NEW d \in Nat \ {0}
  PROVE  /\ ToCents(n, d) \in Nat
         /\ 2 * (d * ToCents(n, d)) <= 2 * n + d * Cent
<1> DEFINE unit == d * Cent
           q == n \div unit
           m == n % unit
           uq == unit * q
<1>1. unit \in Nat \ {0}
  BY PlanAssumption
<1>2. q \in Nat /\ uq \in Nat /\ uq <= n
  <2> HIDE DEF unit
  <2> QED
    BY <1>1, Quotient, Scaled
<1>3. m \in Nat /\ n = uq + m
  <2> HIDE DEF unit
  <2> QED
    BY <1>1
<1>4. \/ ToCents(n, d) = Cent * (q + 1) /\ 2 * m >= unit
      \/ ToCents(n, d) = Cent * q
  <2>1. 2 * m > unit \/ 2 * m = unit => 2 * m >= unit
    <3> HIDE DEF unit, m
    <3> QED
      BY <1>1, <1>3
  <2> QED
    BY <2>1 DEF ToCents
<1>5. d * (Cent * (q + 1)) = uq + unit /\ d * (Cent * q) = uq
  <2> HIDE DEF q
  <2> QED
    BY <1>2, PlanAssumption
<1>6. Cent * (q + 1) \in Nat /\ Cent * q \in Nat
  <2> HIDE DEF q
  <2> QED
    BY <1>2, PlanAssumption, Scaled
<1> HIDE DEF unit, q, m, uq
<1>7. CASE ToCents(n, d) = Cent * (q + 1) /\ 2 * m >= unit
  <2>1. 2 * (uq + unit) <= 2 * n + unit
    BY <1>1, <1>2, <1>3, <1>7
  <2> QED
    BY <1>5, <1>6, <1>7, <2>1 DEF unit
<1>8. CASE ToCents(n, d) = Cent * q
  <2>1. 2 * uq <= 2 * n + unit
    BY <1>1, <1>2
  <2> QED
    BY <1>5, <1>6, <1>8, <2>1 DEF unit
<1> QED
  BY <1>4, <1>7, <1>8

\* The value of a line that the configuration leaves out is a number of units.
LEMMA AutoValueNumber ==
  ASSUME NEW c, Terms(c)
  PROVE  AutoValue(c) \in Nat
<1>1. ASSUME NEW n \in Nat, NEW d \in Nat \ {0} PROVE ToCents(n, d) \in Nat
  BY Cents
<1>2. AvailableD(c) \in Nat
  <2>1. D - c.reserve \in Nat /\ c.capital \in Nat
    BY Denominator DEF Terms
  <2> QED
    BY <2>1, Scaled DEF AvailableD
<1>3. D * c.maxLevels \in Nat \ {0}
  BY Denominator DEF Terms
<1>4. ToCents(AvailableD(c), D * c.maxLevels) \in Nat
  BY <1>1, <1>2, <1>3
<1>5. ToCents(c.minNotional * 11, 10) \in Nat
  <2>1. c.minNotional * 11 \in Nat
    BY DEF Terms
  <2> QED
    BY <2>1, <1>1
<1> QED
  BY <1>4, <1>5 DEF AutoValue

\* Every configuration has the terms of the step.
LEMMA ConfigTerms == \A c \in Config : Terms(c)
  BY DEF Config, Terms

\* Before the first step there is no ratio to speak of.
LEMMA SteppedInit == Init => Stepped
<1> SUFFICES ASSUME Init PROVE Stepped
  OBVIOUS
<1>1. cfg \in Config /\ phase = "value"
  BY PlanAssumption DEF Init, PlanInit
<1> QED
  BY <1>1 DEF Stepped, Worked

\* The value is set before the step, the step before the lines, and neither again.
LEMMA SteppedKept == Stepped /\ [Next]_vars => Stepped'
<1> SUFFICES ASSUME Stepped, [Next]_vars PROVE Stepped'
  OBVIOUS
<1>1. CASE OrderQuoteValue
  <2>1. cfg' \in Config
    <3>1. CASE cfg' = cfg
      BY <3>1 DEF Stepped
    <3>2. CASE cfg' = [cfg EXCEPT !.value = AutoValue(cfg)]
      <4>1. AutoValue(cfg) \in Nat
        BY AutoValueNumber, ConfigTerms DEF Stepped
      <4> QED
        BY <3>2, <4>1 DEF Stepped, Config
    <3> QED
      BY <3>1, <3>2, <1>1 DEF OrderQuoteValue
  <2>2. phase' \in {"step", "raised"}
    BY <1>1 DEF OrderQuoteValue
  <2> QED
    BY <2>1, <2>2 DEF Stepped, Worked
<1>2. CASE ComputeStep
  BY <1>2 DEF ComputeStep, Raise, Stepped, Worked
<1>3. CASE UNCHANGED <<cfg, r>> /\ (phase' \in Worked => phase \in Worked)
  BY <1>3 DEF Stepped
<1>4. ComputeCounts \/ AddBuy \/ AddSell \/ PreflightBalanceCheck \/ PlaceInitialOrders
        => UNCHANGED <<cfg, r>> /\ phase \in Worked
  BY DEF ComputeCounts, AddBuy, AddSell, PreflightBalanceCheck, PlaceInitialOrders, Worked
<1>5. UNCHANGED planVars => UNCHANGED <<cfg, r, phase>>
  BY DEF planVars
<1> QED
  BY <1>1, <1>2, <1>3, <1>4, <1>5
     DEF Next, Plan, PlanNext, Fill, LineFilled, Start, Match, End, vars

-----------------------------------------------------------------------------
(* The levels of the plan *)

Level == [price : Nat \ {0}, qty : Nat \ {0}]
SellQty(c) == (2 * c.value) \div c.anchor2

BuyLevel(c, x, l, j) == /\ l.price = LinePrice(c, x, -j) /\ l.qty = c.value \div l.price
                        /\ ValidOrder(c, l.price, l.qty)
SellLevel(c, x, l, j) == /\ l.price = LinePrice(c, x, j) /\ l.qty = SellQty(c)
                         /\ ValidOrder(c, l.price, l.qty)

Phases == {"value", "step", "counts", "buys", "sells", "preflight", "place", "running",
           "raised"}
Drawn == {"buys", "sells", "preflight", "place", "running"}

(* The configuration is one of those the code accepts, and the ratio one    *)
(* that keeps the lines apart.                                              *)
Sound == /\ phase \in Phases
         /\ cfg.sides = <<>> \/ Len(cfg.sides) = 2
         /\ r.n \in Nat /\ r.d \in Nat \ {0} /\ r.d <= r.n

(* The numbers of lines fit the capital before the first is computed.       *)
Counted == /\ k[1] \in Nat /\ k[2] \in Nat
           /\ phase \in Drawn => FitsCapital(cfg, k[1], k[2])

(* There are no more levels than that, each computed from its own line.     *)
Levels ==
    /\ phase \in {"value", "step", "counts"} => buys = <<>> /\ sells = <<>>
    /\ buys \in Seq(Level) /\ Len(buys) <= k[1]
    /\ sells \in Seq(Level) /\ Len(sells) <= k[2]
    /\ \A j \in DOMAIN buys : BuyLevel(cfg, r, buys[j], j)
    /\ \A j \in DOMAIN sells : SellLevel(cfg, r, sells[j], j)

(* What the levels cost: a BUY at most the value of a line.                 *)
Priced == /\ lock \in Nat /\ lock <= Len(buys) * cfg.value
          /\ base = Len(sells) * SellQty(cfg)

PlanInv == Stepped /\ Sound /\ Counted /\ Levels /\ Priced

\* The lines have whole prices.
LEMMA WholePrices ==
  ASSUME NEW c, NEW x, Anchored(c, x), NEW i \in Int
  PROVE  /\ RawPrice(c, x, i).n \in Int /\ RawPrice(c, x, i).d \in Nat \ {0}
         /\ LinePrice(c, x, i) \in Int
<1>1. RawPrice(c, x, i).n \in Int /\ RawPrice(c, x, i).d \in Nat \ {0}
  <2>1. CASE c.grid = "geometric"
    BY <2>1, GeometricLine
  <2>2. CASE c.grid = "arithmetic"
    BY <2>2, ArithmeticLine
  <2> QED
    BY <2>1, <2>2 DEF Anchored
<1> QED
  BY <1>1, Rounded DEF LinePrice

\* The numbers of a configuration.
LEMMA Numbers ==
  ASSUME NEW c \in Config
  PROVE  /\ c.value \in Nat /\ c.capital \in Nat /\ D - c.reserve \in Nat
         /\ D - c.buyFee \in Nat \ {0} /\ D - c.sellFee \in Nat \ {0}
         /\ c.buyFee \in Nat /\ c.sellFee \in Nat
         /\ D + c.buffer \in Nat /\ c.anchor2 \in Nat \ {0} /\ c.maxStep \in Nat
         /\ c.target.amount \in Nat \ {0} /\ c.target.kind \in {"pct", "quote"}
<1>1. /\ c.value \in Nat /\ c.capital \in Nat /\ c.reserve \in 0 .. D
      /\ c.buyFee \in 0 .. D - 1 /\ c.sellFee \in 0 .. D - 1
      /\ c.buffer \in Nat /\ c.anchor2 \in Nat \ {0} /\ c.maxStep \in Nat
      /\ c.target \in [kind : {"pct", "quote"}, amount : Nat \ {0}]
  BY DEF Config
<1>2. D \in Nat \ {0}
  BY PlanAssumption
<1> QED
  BY <1>1, <1>2

\* What a configuration has to spend, and what its lines cost.
LEMMA Costs ==
  ASSUME NEW c \in Config
  PROVE  /\ AvailableD(c) \in Nat /\ c.value \in Nat /\ SellQty(c) \in Nat
         /\ c.anchor2 * SellQty(c) <= 2 * c.value
         /\ CostPerSell(c).n \in Nat /\ CostPerSell(c).d \in Nat \ {0}
<1>1. /\ c.value \in Nat /\ c.capital \in Nat /\ D - c.reserve \in Nat
      /\ D - c.buyFee \in Nat \ {0} /\ D + c.buffer \in Nat /\ c.anchor2 \in Nat \ {0}
  BY Numbers
<1>2. AvailableD(c) \in Nat
  BY <1>1, Scaled DEF AvailableD
<1>3. c.value * (D + c.buffer) \in Nat
  BY <1>1, Scaled
<1>4. 2 * c.value \in Nat
  BY <1>1
<1>5. SellQty(c) \in Nat /\ c.anchor2 * SellQty(c) <= 2 * c.value
  BY <1>1, <1>4, Quotient DEF SellQty
<1>6. CostPerSell(c).n \in Nat /\ CostPerSell(c).d \in Nat \ {0}
  BY <1>1, <1>3 DEF CostPerSell
<1> QED
  BY <1>1, <1>2, <1>5, <1>6

\* The pairs computed from the capital fit it.
LEMMA PairsFit ==
  ASSUME NEW c \in Config, c.value # 0
  PROVE  PairsFor(c) \in Nat /\ FitsCapital(c, PairsFor(c), PairsFor(c))
<1> DEFINE n == CostPerSell(c).n
           d == CostPerSell(c).d
           v == c.value
           a == AvailableD(c)
           cost == v * d + n
           most == (a * d) \div (D * cost)
           p == PairsFor(c)
<1>1. n \in Nat /\ d \in Nat \ {0} /\ v \in Nat \ {0} /\ a \in Nat /\ D \in Nat \ {0}
  BY Costs, PlanAssumption
<1>2. c.maxLevels \div 2 \in Nat
  <2>1. c.maxLevels \in Nat
    BY DEF Config
  <2> QED
    BY <2>1, Quotient
<1>3. p \in {most, c.maxLevels \div 2} /\ (most < c.maxLevels \div 2 => p = most)
      /\ (~(most < c.maxLevels \div 2) => p = c.maxLevels \div 2)
  BY DEF PairsFor
<1> HIDE DEF n, d, v, a, p
<1>4. cost \in Nat \ {0}
  <2>1. v * d \in Nat /\ v * d # 0
    BY <1>1
  <2> QED
    BY <1>1, <2>1
<1> HIDE DEF cost
<1>5. D * cost \in Nat \ {0} /\ a * d \in Nat
  BY <1>1, <1>4
<1>6. most \in Nat /\ (D * cost) * most <= a * d
  BY <1>5, Quotient
<1> HIDE DEF most
<1>7. p \in Nat /\ p <= most
  BY <1>2, <1>3, <1>6
<1>8. (D * cost) * p <= a * d
  <2>1. (D * cost) * p <= (D * cost) * most
    BY <1>5, <1>6, <1>7, Multiplied
  <2>2. (D * cost) * p \in Int /\ (D * cost) * most \in Int /\ a * d \in Int
    BY <1>5, <1>6, <1>7
  <2> QED
    BY <1>6, <2>1, <2>2
<1>9. D * (p * v * d + p * n) = (D * cost) * p
  BY <1>1, <1>7 DEF cost
<1> QED
  BY <1>7, <1>8, <1>9 DEF FitsCapital, n, d, v, a, p

\* A ratio that reaches its target is one or more.
LEMMA RatioSound ==
  ASSUME NEW c \in Config, ~TooWide(c, StepRatio(c))
  PROVE  /\ StepRatio(c).n \in Nat /\ StepRatio(c).d \in Nat \ {0}
         /\ StepRatio(c).d <= StepRatio(c).n
<1> DEFINE x == StepRatio(c)
           a == c.target.amount
           b == c.buyFee
           s == c.sellFee
           v == c.value
<1>1. /\ D \in Nat \ {0} /\ a \in Nat \ {0} /\ b \in Nat /\ s \in Nat /\ v \in Nat
      /\ D - b \in Nat \ {0} /\ D - s \in Nat \ {0} /\ c.maxStep \in Nat
      /\ c.target.kind \in {"pct", "quote"}
  BY PlanAssumption, Numbers
<1>2. x = TargetRatio(c)
  BY ConfigTerms, TargetTaken
<1>3. ~((x.n - x.d) * D > c.maxStep * x.d)
  BY DEF TooWide
<1> HIDE DEF a, b, s, v, x
<1>4. x.n \in Nat /\ x.d \in Nat \ {0}
  <2>1. CASE c.target.kind = "pct"
    <3>1. x.n = (D + a) * D /\ x.d = (D - b) * (D - s)
      BY <1>2, <2>1 DEF TargetRatio, a, b, s
    <3>2. (D + a) * D \in Nat
      BY <1>1
    <3>3. (D - b) * (D - s) \in Nat \ {0}
      <4> DEFINE e == D - b
                 f == D - s
      <4>1. e \in Nat \ {0} /\ f \in Nat \ {0}
        BY <1>1
      <4> HIDE DEF e, f
      <4>2. e * f \in Nat /\ e * f # 0
        BY <4>1
      <4> QED
        BY <4>2 DEF e, f
    <3> QED
      BY <3>1, <3>2, <3>3
  <2>2. CASE c.target.kind = "quote"
    <3>1. x.n = (D + b) * v + a * D /\ x.d = (D - s) * v
      BY <1>2, <2>2 DEF TargetRatio, a, b, s, v
    <3>2. (D + b) * v + a * D \in Nat /\ a * D \in Nat /\ a * D # 0
      BY <1>1
    <3>3. v # 0
      <4> SUFFICES ASSUME v = 0 PROVE FALSE
        OBVIOUS
      <4>1. x.n = a * D /\ x.d = 0
        BY <1>1, <3>1
      <4>2. (a * D) * D > 0
        BY <1>1
      <4> QED
        BY <1>1, <1>3, <4>1, <4>2
    <3>4. (D - s) * v \in Nat \ {0}
      <4> DEFINE f == D - s
      <4>1. f \in Nat \ {0}
        BY <1>1
      <4> HIDE DEF f
      <4>2. f * v \in Nat /\ f * v # 0
        BY <1>1, <3>3, <4>1
      <4> QED
        BY <4>2 DEF f
    <3> QED
      BY <3>1, <3>2, <3>4
  <2> QED
    BY <1>1, <2>1, <2>2
<1>5. (D - s) * x.n - (D + b) * x.d >= 0
  BY ConfigTerms, NetOfStep DEF x, b, s
<1>6. (D - s) * x.d <= (D - s) * x.n
  <2>1. x.d * (D - s) <= x.d * (D + b)
    BY <1>1, <1>4, Multiplied
  <2> DEFINE A == x.d * (D - s)
             B == x.d * (D + b)
             C == (D - s) * x.n
  <2>2. A \in Int /\ B \in Int /\ C \in Int /\ (D - s) * x.d = A /\ (D + b) * x.d = B
    BY <1>1, <1>4
  <2>3. C - B >= 0
    BY <1>5, <2>2
  <2>4. A <= B
    BY <2>1
  <2> HIDE DEF A, B, C
  <2>5. A <= C
    BY <2>2, <2>3, <2>4
  <2> QED
    BY <2>2, <2>5 DEF C
<1>7. x.d \in Int /\ x.n \in Int
  BY <1>4
<1>8. x.d <= x.n
  BY <1>1, <1>6, <1>7, Cancelled
<1> QED
  BY <1>4, <1>8 DEF x

\* One level more.
LEMMA LevelMore ==
  ASSUME NEW s \in Seq(Level), NEW l \in Level
  PROVE  /\ Append(s, l) \in Seq(Level) /\ Len(Append(s, l)) = Len(s) + 1
         /\ Len(s) \in Nat
         /\ \A j \in DOMAIN Append(s, l) : \/ j \in DOMAIN s /\ Append(s, l)[j] = s[j]
                                           \/ j = Len(s) + 1 /\ Append(s, l)[j] = l
  OBVIOUS

\* A plan begins with a configuration and no level.
LEMMA PlanBegins == PlanInit => PlanInv
<1> SUFFICES ASSUME PlanInit PROVE PlanInv
  OBVIOUS
<1>1. /\ cfg \in Configs /\ cfg \in Config /\ phase = "value" /\ r = [n |-> 1, d |-> 1]
      /\ k = <<0, 0>> /\ buys = <<>> /\ sells = <<>> /\ lock = 0 /\ base = 0
  BY PlanAssumption DEF PlanInit
<1>2. Stepped
  BY <1>1 DEF Stepped, Worked
<1>3. Sound
  BY <1>1, PlanAssumption DEF Sound, Phases
<1>4. Counted
  BY <1>1 DEF Counted, Drawn
<1>5. Levels
  <2>1. /\ buys \in Seq(Level) /\ sells \in Seq(Level) /\ Len(buys) = 0 /\ Len(sells) = 0
        /\ DOMAIN buys = {} /\ DOMAIN sells = {} /\ k[1] = 0 /\ k[2] = 0
    BY <1>1
  <2> QED
    BY <1>1, <2>1 DEF Levels
<1>6. Priced
  <2>1. Len(buys) = 0 /\ Len(sells) = 0 /\ cfg.value \in Int /\ SellQty(cfg) \in Int
    BY <1>1, Costs
  <2> QED
    BY <1>1, <2>1 DEF Priced
<1> QED
  BY <1>2, <1>3, <1>4, <1>5, <1>6 DEF PlanInv

\* Until the lines are counted there are no levels to take with them.
LEMMA BeforeLevels ==
  ASSUME PlanInv, Stepped', Sound', phase' \in Phases, phase \in {"value", "step", "counts"},
         k'[1] \in Nat, k'[2] \in Nat, phase' \in Drawn => FitsCapital(cfg', k'[1], k'[2]),
         UNCHANGED <<buys, sells, lock, base>>
  PROVE  PlanInv'
<1>1. buys = <<>> /\ sells = <<>>
  BY DEF PlanInv, Levels
<1>2. /\ buys \in Seq(Level) /\ sells \in Seq(Level) /\ Len(buys) = 0 /\ Len(sells) = 0
      /\ DOMAIN buys = {} /\ DOMAIN sells = {}
  BY <1>1
<1>3. Levels'
  BY <1>1, <1>2 DEF Levels
<1>4. Priced'
  <2>1. /\ cfg \in Config /\ cfg' \in Config
    BY DEF PlanInv, Stepped
  <2>2. /\ cfg.value \in Int /\ SellQty(cfg) \in Int
    BY <2>1, Costs
  <2>3. /\ cfg'.value \in Int /\ SellQty(cfg') \in Int
    <3> DEFINE c == cfg'
    <3> HIDE DEF c
    <3>1. c.value \in Int /\ SellQty(c) \in Int
      BY <2>1, Costs DEF c
    <3> QED
      BY <3>1 DEF c
  <2>4. lock <= 0 * cfg.value /\ lock \in Nat /\ base = 0 * SellQty(cfg)
    BY <1>2 DEF PlanInv, Priced
  <2>5. lock = 0 /\ base = 0
    BY <2>2, <2>4
  <2>6. SellQty(cfg)' = SellQty(cfg')
    BY DEF SellQty
  <2> QED
    BY <1>2, <2>3, <2>5, <2>6 DEF Priced
<1>5. Counted'
  BY DEF Counted
<1> QED
  BY <1>3, <1>4, <1>5 DEF PlanInv

\* The value of a line, the step and the counts.
LEMMA Prepared ==
  ASSUME PlanInv, Stepped', OrderQuoteValue \/ ComputeStep \/ ComputeCounts
  PROVE  PlanInv'
<1>1. /\ cfg \in Config /\ cfg' \in Config /\ k[1] \in Nat /\ k[2] \in Nat
      /\ cfg.sides = <<>> \/ Len(cfg.sides) = 2
      /\ r.n \in Nat /\ r.d \in Nat \ {0} /\ r.d <= r.n
  BY DEF PlanInv, Stepped, Counted, Sound
<1>2. CASE OrderQuoteValue
  <2>1. /\ phase = "value" /\ phase' \in {"step", "raised"}
        /\ UNCHANGED <<r, k, buys, sells, lock, base>>
        /\ cfg' = cfg \/ cfg' = [cfg EXCEPT !.value = AutoValue(cfg)]
    BY <1>2 DEF OrderQuoteValue
  <2>2. cfg'.sides = cfg.sides
    BY <1>1, <2>1 DEF Config
  <2>3. Sound'
    BY <1>1, <2>1, <2>2 DEF Sound, Phases
  <2> QED
    BY <1>1, <2>1, <2>3, BeforeLevels DEF Phases, Drawn
<1>3. CASE ComputeStep
  <2>1. /\ phase = "step" /\ UNCHANGED <<cfg, k, buys, sells, lock, base>>
        /\ \/ phase' = "raised" /\ r' = r
           \/ ~TooWide(cfg, StepRatio(cfg)) /\ phase' = "counts" /\ r' = StepRatio(cfg)
    BY <1>3 DEF ComputeStep, Raise
  <2>2. r'.n \in Nat /\ r'.d \in Nat \ {0} /\ r'.d <= r'.n
    BY <1>1, <2>1, RatioSound
  <2>3. Sound'
    BY <1>1, <2>1, <2>2 DEF Sound, Phases
  <2> QED
    BY <1>1, <2>1, <2>3, BeforeLevels DEF Phases, Drawn
<1>4. CASE ComputeCounts
  <2>1. /\ phase = "counts" /\ UNCHANGED <<cfg, r, buys, sells, lock, base>>
        /\ phase' \in {"raised", "buys"}
    BY <1>4 DEF ComputeCounts, Raise
  <2>2. Sound'
    BY <1>1, <2>1 DEF Sound, Phases
  <2>3. /\ k'[1] \in Nat /\ k'[2] \in Nat
        /\ phase' \in Drawn => FitsCapital(cfg, k'[1], k'[2])
    <3>1. CASE k' = k /\ phase' = "raised"
      BY <1>1, <3>1 DEF Drawn
    <3>2. CASE cfg.sides # <<>> /\ k' = cfg.sides /\ FitsCapital(cfg, k'[1], k'[2])
      <4>1. k' \in Seq(Nat) /\ Len(k') = 2
        BY <1>1, <3>2 DEF Config
      <4>2. k'[1] \in Nat /\ k'[2] \in Nat
        BY <4>1
      <4> QED
        BY <3>2, <4>2
    <3>3. CASE cfg.sides = <<>> /\ cfg.value # 0 /\ k' = <<PairsFor(cfg), PairsFor(cfg)>>
      <4>1. k'[1] = PairsFor(cfg) /\ k'[2] = PairsFor(cfg)
        BY <3>3
      <4> QED
        BY <1>1, <3>3, <4>1, PairsFit
    <3> QED
      BY <1>4, <3>1, <3>2, <3>3 DEF ComputeCounts, Raise
  <2> QED
    BY <1>1, <2>1, <2>2, <2>3, BeforeLevels DEF Phases
<1> QED
  BY <1>2, <1>3, <1>4

\* A turn of the BUY loop ends it or adds the level of the next line, worth at most the
\* value of a line.
LEMMA BuyTurn ==
  ASSUME PlanInv, AddBuy
  PROVE  \/ UNCHANGED <<buys, lock>> /\ phase' \in {"sells", "raised"}
         \/ \E l \in Level : /\ Len(buys) < k[1] /\ BuyLevel(cfg, r, l, Len(buys) + 1)
                             /\ l.price * l.qty <= cfg.value
                             /\ buys' = Append(buys, l) /\ lock' = lock + l.price * l.qty
                             /\ phase' = phase
<1>1. /\ cfg \in Config /\ k[1] \in Nat /\ k[2] \in Nat /\ Anchored(cfg, r)
      /\ cfg.value \in Nat /\ buys \in Seq(Level) /\ lock \in Nat
  <2>1. cfg \in Config
    BY DEF PlanInv, Stepped
  <2>2. cfg.grid \in {"geometric", "arithmetic"} /\ cfg.anchor2 \in Nat \ {0}
    BY <2>1 DEF Config
  <2> QED
    BY <2>1, <2>2, Numbers DEF PlanInv, Counted, Levels, Priced, Sound, Anchored
<1>2. phase = "buys"
  BY DEF AddBuy
<1>3. LinePrice(cfg, r, NextBuyLine) \in Int
  <2>1. NextBuyLine \in Int
    BY <1>1 DEF NextBuyLine
  <2> QED
    BY <1>1, <2>1, WholePrices
<1> DEFINE price == LinePrice(cfg, r, NextBuyLine)
           qty == cfg.value \div price
<1>4. Len(buys) \in Nat /\ Len(buys) <= k[1]
  BY <1>1 DEF PlanInv, Levels
<1>5. \/ Len(buys) = k[1] /\ phase' = "sells" /\ UNCHANGED <<buys, lock>>
      \/ Len(buys) < k[1] /\ price = 0 /\ phase' = "raised" /\ UNCHANGED <<buys, lock>>
      \/ Len(buys) < k[1] /\ price < 0 /\ phase' = "sells" /\ UNCHANGED <<buys, lock>>
      \/ /\ Len(buys) < k[1] /\ price > 0
         /\ \/ /\ ValidOrder(cfg, price, qty)
               /\ buys' = Append(buys, [price |-> price, qty |-> qty])
               /\ lock' = lock + price * qty
               /\ phase' = phase
            \/ phase' = "sells" /\ UNCHANGED <<buys, lock>>
  <2> HIDE DEF price, qty
  <2>1. CASE Len(buys) = k[1]
    <3>1. ~(Len(buys) < k[1])
      BY <1>4, <2>1
    <3> QED
      BY <2>1, <3>1 DEF AddBuy
  <2>2. CASE Len(buys) < k[1] /\ price = 0
    BY <1>1, <1>4, <2>2 DEF AddBuy, Raise, price
  <2>3. CASE Len(buys) < k[1] /\ price < 0
    <3>1. Len(buys) # k[1] /\ price # 0 /\ ~(price > 0)
      BY <1>1, <1>3, <1>4, <2>3 DEF price
    <3> QED
      BY <2>3, <3>1 DEF AddBuy, price
  <2>4. CASE Len(buys) < k[1] /\ price > 0
    <3>1. Len(buys) # k[1] /\ price # 0 /\ ~(price < 0)
      BY <1>1, <1>3, <1>4, <2>4 DEF price
    <3> QED
      BY <2>4, <3>1 DEF AddBuy, price, qty
  <2>5. price \in Int
    BY <1>3 DEF price
  <2> QED
    BY <1>1, <1>4, <2>1, <2>2, <2>3, <2>4, <2>5
<1>6. ASSUME Len(buys) < k[1], price > 0, ValidOrder(cfg, price, qty)
      PROVE  LET l == [price |-> price, qty |-> qty]
             IN  /\ l \in Level /\ BuyLevel(cfg, r, l, Len(buys) + 1)
                 /\ l.price * l.qty <= cfg.value
  <2>1. price \in Nat \ {0} /\ price = LinePrice(cfg, r, -(Len(buys) + 1))
    BY <1>1, <1>3, <1>6 DEF NextBuyLine
  <2>2. qty = cfg.value \div price
    OBVIOUS
  <2> HIDE DEF price, qty
  <2>3. qty \in Nat \ {0} /\ price * qty <= cfg.value
    <3>1. qty \in Nat /\ price * qty <= cfg.value
      BY <1>1, <2>1, <2>2, Quotient
    <3> QED
      BY <1>6, <3>1 DEF ValidOrder
  <2> QED
    BY <1>6, <2>1, <2>2, <2>3 DEF Level, BuyLevel
<1> QED
  <2>1. CASE /\ Len(buys) < k[1] /\ price > 0 /\ ValidOrder(cfg, price, qty)
             /\ buys' = Append(buys, [price |-> price, qty |-> qty])
             /\ lock' = lock + price * qty /\ phase' = phase
    <3> DEFINE l == [price |-> price, qty |-> qty]
    <3>1. l \in Level /\ BuyLevel(cfg, r, l, Len(buys) + 1) /\ l.price * l.qty <= cfg.value
      BY <1>6, <2>1
    <3>2. l.price = price /\ l.qty = qty
      OBVIOUS
    <3> HIDE DEF price, qty
    <3>3. buys' = Append(buys, l) /\ lock' = lock + l.price * l.qty
      BY <2>1, <3>2
    <3> HIDE DEF l
    <3> QED
      BY <2>1, <3>1, <3>3
  <2> HIDE DEF price, qty
  <2> QED
    BY <1>5, <2>1

\* A BUY level more: worth at most the value of a line.
LEMMA BuyAdded ==
  ASSUME PlanInv, Stepped', AddBuy
  PROVE  PlanInv'
<1>1. /\ cfg \in Config /\ k[1] \in Nat /\ k[2] \in Nat /\ Anchored(cfg, r)
      /\ cfg.value \in Nat /\ buys \in Seq(Level) /\ lock \in Nat
  <2>1. cfg \in Config
    BY DEF PlanInv, Stepped
  <2>2. cfg.grid \in {"geometric", "arithmetic"} /\ cfg.anchor2 \in Nat \ {0}
    BY <2>1 DEF Config
  <2> QED
    BY <2>1, <2>2, Numbers DEF PlanInv, Counted, Levels, Priced, Sound, Anchored
<1>2. phase = "buys" /\ UNCHANGED <<cfg, r, k, sells, base>>
  BY DEF AddBuy
<1>3. CASE UNCHANGED <<buys, lock>> /\ phase' \in {"sells", "raised"}
  <2>1. Sound' /\ Counted'
    BY <1>2, <1>3 DEF PlanInv, Sound, Counted, Phases, Drawn
  <2>2. Levels' /\ Priced'
    BY <1>2, <1>3 DEF PlanInv, Levels, Priced, SellQty
  <2> QED
    BY <2>1, <2>2 DEF PlanInv
<1>4. CASE \E l \in Level : /\ Len(buys) < k[1] /\ BuyLevel(cfg, r, l, Len(buys) + 1)
                           /\ l.price * l.qty <= cfg.value
                           /\ buys' = Append(buys, l) /\ lock' = lock + l.price * l.qty
                           /\ phase' = phase
  <2>1. PICK l \in Level : /\ Len(buys) < k[1] /\ BuyLevel(cfg, r, l, Len(buys) + 1)
                           /\ l.price * l.qty <= cfg.value
                           /\ buys' = Append(buys, l) /\ lock' = lock + l.price * l.qty
                           /\ phase' = phase
    BY <1>4
  <2>2. Len(buys) \in Nat /\ l.price \in Nat \ {0} /\ l.qty \in Nat \ {0}
    BY <1>1 DEF Level
  <2>3. /\ buys' \in Seq(Level) /\ Len(buys') = Len(buys) + 1
        /\ \A j \in DOMAIN buys' : \/ j \in DOMAIN buys /\ buys'[j] = buys[j]
                                   \/ j = Len(buys) + 1 /\ buys'[j] = l
    BY <1>1, <2>1, LevelMore
  <2>4. Sound' /\ Counted'
    BY <1>2, <2>1 DEF PlanInv, Sound, Counted, Phases, Drawn
  <2>5. Levels'
    <3>1. \A j \in DOMAIN buys' : BuyLevel(cfg, r, buys'[j], j)
      BY <2>1, <2>3 DEF PlanInv, Levels
    <3>2. Len(buys') <= k[1]
      BY <1>1, <2>1, <2>2, <2>3
    <3>3. \A j \in DOMAIN buys' : BuyLevel(cfg', r', buys'[j], j)
      BY <1>2, <3>1
    <3>4. phase' = "buys" /\ sells \in Seq(Level) /\ Len(sells) <= k[2]
          /\ \A j \in DOMAIN sells : SellLevel(cfg, r, sells[j], j)
      BY <1>2, <2>1 DEF PlanInv, Levels
    <3> QED
      BY <1>2, <2>3, <3>2, <3>3, <3>4 DEF Levels, BuyLevel, SellLevel, SellQty
  <2>6. Priced'
    <3>1. l.price * l.qty \in Nat
      BY <2>2, Scaled
    <3>2. lock' \in Nat /\ lock' <= Len(buys) * cfg.value + cfg.value
      <4>1. lock <= Len(buys) * cfg.value /\ Len(buys) * cfg.value \in Int
        BY <1>1, <2>2 DEF PlanInv, Priced
      <4> DEFINE worth == l.price * l.qty
                 most == Len(buys) * cfg.value
      <4>2. worth \in Nat /\ worth <= cfg.value /\ lock' = lock + worth /\ lock <= most
            /\ most \in Int
        BY <2>1, <2>2, <3>1, <4>1
      <4> HIDE DEF worth, most
      <4>3. lock' \in Nat /\ lock' <= most + cfg.value
        BY <1>1, <4>2
      <4> QED
        BY <4>3 DEF most
    <3>3. Len(buys) * cfg.value + cfg.value = Len(buys') * cfg.value
      <4> DEFINE n == Len(buys)
                 v == cfg.value
      <4>1. n \in Nat /\ v \in Nat /\ Len(buys') = n + 1
        BY <1>1, <2>2, <2>3
      <4> HIDE DEF n, v
      <4>2. (n + 1) * v = n * v + v
        BY <4>1
      <4> QED
        BY <4>1, <4>2 DEF n, v
    <3>4. base = Len(sells) * SellQty(cfg)
      BY DEF PlanInv, Priced
    <3> QED
      BY <1>2, <3>2, <3>3, <3>4 DEF Priced, SellQty
  <2> QED
    BY <2>4, <2>5, <2>6 DEF PlanInv
<1> QED
  BY <1>3, <1>4, BuyTurn

\* A SELL level more: what a line's value buys at the anchor.
LEMMA SellAdded ==
  ASSUME PlanInv, Stepped', AddSell
  PROVE  PlanInv'
<1>1. /\ cfg \in Config /\ k[1] \in Nat /\ k[2] \in Nat /\ Anchored(cfg, r)
      /\ SellQty(cfg) \in Nat /\ sells \in Seq(Level)
  <2>1. cfg \in Config
    BY DEF PlanInv, Stepped
  <2>2. cfg.grid \in {"geometric", "arithmetic"} /\ cfg.anchor2 \in Nat \ {0}
    BY <2>1 DEF Config
  <2> QED
    BY <2>1, <2>2, Costs DEF PlanInv, Counted, Levels, Sound, Anchored
<1>2. phase = "sells" /\ UNCHANGED <<cfg, r, k, buys, lock>>
  BY DEF AddSell
<1>3. CASE UNCHANGED <<sells, base>> /\ phase' \in {"raised", "preflight", "place"}
  <2>1. Sound' /\ Counted'
    BY <1>2, <1>3 DEF PlanInv, Sound, Counted, Phases, Drawn
  <2>2. Levels' /\ Priced'
    BY <1>2, <1>3 DEF PlanInv, Levels, Priced, SellQty
  <2> QED
    BY <2>1, <2>2 DEF PlanInv
<1>4. CASE \E l \in {[price |-> LinePrice(cfg, r, Len(sells) + 1), qty |-> SellQty(cfg)]} :
             /\ Len(sells) < k[2] /\ ValidOrder(cfg, l.price, l.qty)
             /\ sells' = Append(sells, l) /\ base' = base + l.qty
             /\ phase' = phase
  <2>1. PICK l \in {[price |-> LinePrice(cfg, r, Len(sells) + 1), qty |-> SellQty(cfg)]} :
             /\ Len(sells) < k[2] /\ ValidOrder(cfg, l.price, l.qty)
             /\ sells' = Append(sells, l) /\ base' = base + l.qty
             /\ phase' = phase
    BY <1>4
  <2>2. /\ Len(sells) \in Nat /\ l.price = LinePrice(cfg, r, Len(sells) + 1)
        /\ l.qty = SellQty(cfg)
        /\ l = [price |-> l.price, qty |-> l.qty]
    BY <1>1
  <2>3. l.price \in Nat \ {0} /\ l.qty \in Nat \ {0}
    <3>1. l.price \in Int
      BY <1>1, <2>2, WholePrices
    <3>2. l.price >= 1 /\ l.qty >= 1
      BY <2>1 DEF ValidOrder
    <3> QED
      BY <1>1, <2>2, <3>1, <3>2
  <2>4. l \in Level
    BY <2>2, <2>3 DEF Level
  <2>5. SellLevel(cfg, r, l, Len(sells) + 1)
    BY <2>1, <2>2 DEF SellLevel
  <2>6. /\ sells' \in Seq(Level) /\ Len(sells') = Len(sells) + 1
        /\ \A j \in DOMAIN sells' : \/ j \in DOMAIN sells /\ sells'[j] = sells[j]
                                    \/ j = Len(sells) + 1 /\ sells'[j] = l
    BY <1>1, <2>1, <2>4, LevelMore
  <2>7. Sound' /\ Counted'
    BY <1>2, <2>1 DEF PlanInv, Sound, Counted, Phases, Drawn
  <2>8. Levels'
    <3>1. \A j \in DOMAIN sells' : SellLevel(cfg, r, sells'[j], j)
      BY <2>5, <2>6 DEF PlanInv, Levels
    <3>2. Len(sells') <= k[2]
      BY <1>1, <2>1, <2>2, <2>6
    <3>3. \A j \in DOMAIN sells' : SellLevel(cfg', r', sells'[j], j)
      BY <1>2, <3>1
    <3>4. phase' = "sells" /\ buys \in Seq(Level) /\ Len(buys) <= k[1]
          /\ \A j \in DOMAIN buys : BuyLevel(cfg, r, buys[j], j)
      BY <1>2, <2>1 DEF PlanInv, Levels
    <3> QED
      BY <1>2, <2>6, <3>2, <3>3, <3>4 DEF Levels, BuyLevel, SellLevel, SellQty
  <2>9. Priced'
    <3>1. base = Len(sells) * SellQty(cfg) /\ lock \in Nat /\ lock <= Len(buys) * cfg.value
      BY DEF PlanInv, Priced
    <3>2. base' = Len(sells') * SellQty(cfg)
      <4> DEFINE q == SellQty(cfg)
      <4> HIDE DEF q
      <4>1. base' = Len(sells) * q + q /\ q \in Nat /\ Len(sells') = Len(sells) + 1
        BY <1>1, <2>1, <2>2, <2>6, <3>1 DEF q
      <4>2. (Len(sells) + 1) * q = Len(sells) * q + q
        BY <2>2, <4>1
      <4> QED
        BY <4>1, <4>2 DEF q
    <3> QED
      BY <1>2, <3>1, <3>2 DEF Priced, SellQty
  <2> QED
    BY <2>7, <2>8, <2>9 DEF PlanInv
<1> QED
  BY <1>2, <1>3, <1>4 DEF AddSell, SellQty

\* The invariant of the plan is kept by every step, the fills and reports included.
LEMMA PlanKept == PlanInv /\ [Next]_vars => PlanInv'
<1> SUFFICES ASSUME PlanInv, [Next]_vars PROVE PlanInv'
  OBVIOUS
<1>1. Stepped'
  BY SteppedKept DEF PlanInv
<1>2. CASE UNCHANGED planVars
  <2>1. UNCHANGED <<cfg, phase, r, k, buys, sells, lock, base>>
    BY <1>2 DEF planVars
  <2>2. Sound' /\ Counted'
    BY <2>1 DEF PlanInv, Sound, Counted
  <2>3. Levels' /\ Priced'
    BY <2>1 DEF PlanInv, Levels, Priced, SellQty
  <2> QED
    BY <1>1, <2>2, <2>3 DEF PlanInv
<1>3. CASE PreflightBalanceCheck \/ PlaceInitialOrders
  <2>1. /\ UNCHANGED <<cfg, r, k, buys, sells, lock, base>>
        /\ phase \in {"preflight", "place"} /\ phase' \in {"raised", "place", "running"}
    BY <1>3 DEF PreflightBalanceCheck, PlaceInitialOrders
  <2>2. Sound' /\ Counted'
    BY <2>1 DEF PlanInv, Sound, Counted, Phases, Drawn
  <2>3. Levels' /\ Priced'
    BY <2>1 DEF PlanInv, Levels, Priced, SellQty
  <2> QED
    BY <1>1, <2>2, <2>3 DEF PlanInv
<1>4. CASE PlanNext
  BY <1>1, <1>3, <1>4, Prepared, BuyAdded, SellAdded DEF PlanNext
<1> QED
  BY <1>2, <1>4 DEF Next, Plan, Fill, LineFilled, Start, Match, End, vars

\* A plan always has it.
LEMMA PlanAlways == Spec => []PlanInv
<1>1. Init => PlanInv
  BY PlanBegins DEF Init
<1> QED
  BY <1>1, PlanKept, PTL DEF Spec

\* The bounds on what the levels cost, over the numbers of lines that were counted.
LEMMA LevelsCost ==
  ASSUME PlanInv
  PROVE  /\ lock \in Nat /\ lock <= k[1] * cfg.value
         /\ base \in Nat /\ base * cfg.anchor2 <= 2 * (k[2] * cfg.value)
<1> DEFINE v == cfg.value
           a == cfg.anchor2
           q == SellQty(cfg)
           nb == Len(buys)
           ns == Len(sells)
           kb == k[1]
           ks == k[2]
<1>1. /\ cfg \in Config /\ lock \in Nat /\ lock <= nb * v /\ base = ns * q
      /\ nb \in Nat /\ ns \in Nat /\ kb \in Nat /\ ks \in Nat /\ nb <= kb /\ ns <= ks
  BY DEF PlanInv, Stepped, Priced, Counted, Levels
<1>2. v \in Nat /\ a \in Nat /\ q \in Nat /\ a * q <= 2 * v
  BY <1>1, Costs, Numbers
<1> HIDE DEF v, a, q, nb, ns, kb, ks
<1>3. v * nb <= v * kb
  BY <1>1, <1>2, Multiplied
<1>4. lock <= kb * v
  <2>1. nb * v \in Int /\ kb * v \in Int /\ nb * v = v * nb /\ kb * v = v * kb
    BY <1>1, <1>2
  <2> QED
    BY <1>1, <1>3, <2>1
<1>5. base * a <= 2 * (ks * v)
  <2>1. ns * (a * q) <= ns * (2 * v)
    <3>1. a * q \in Int /\ 2 * v \in Int
      BY <1>2
    <3> QED
      BY <1>1, <1>2, <3>1, Multiplied
  <2>2. (2 * v) * ns <= (2 * v) * ks
    <3>1. 2 * v \in Nat
      BY <1>2
    <3> QED
      BY <1>1, <3>1, Multiplied
  <2>3. /\ (ns * q) * a = ns * (a * q)
        /\ ns * (2 * v) = (2 * v) * ns
        /\ (2 * v) * ks = 2 * (ks * v)
        /\ ns * (a * q) \in Int /\ (2 * v) * ns \in Int /\ 2 * (ks * v) \in Int
    BY <1>1, <1>2
  <2> QED
    BY <1>1, <2>1, <2>2, <2>3
<1>6. base \in Nat
  BY <1>1, <1>2, Scaled
<1> QED
  BY <1>1, <1>4, <1>5, <1>6 DEF v, a, ks, kb

\* What is counted for a line covers what the line costs.
LEMMA CapitalHolds == PlanInv => CapitalFits
<1> SUFFICES ASSUME PlanInv, Planned, ~(cfg.mode = "quote_only_bootstrap" /\ cfg.spend > 0)
             PROVE  IF cfg.mode = "quote_only_bootstrap"
                    THEN 2 * D * (lock + NeededQuote(cfg, base)) <= 2 * AvailableD(cfg) + D * Cent
                    ELSE D * (2 * lock + base * cfg.anchor2) <= 2 * AvailableD(cfg)
  BY DEF CapitalFits
<1> DEFINE v == cfg.value
           a == AvailableD(cfg)
           anchor == cfg.anchor2
           kb == k[1]
           ks == k[2]
           kv == kb * v
<1>1. cfg \in Config /\ kb \in Nat /\ ks \in Nat /\ FitsCapital(cfg, kb, ks)
  BY DEF PlanInv, Stepped, Counted, Planned, Drawn
<1>2. /\ v \in Nat /\ a \in Nat /\ anchor \in Nat /\ D \in Nat \ {0} /\ Cent \in Nat \ {0}
      /\ cfg.spend \in Nat
  <2>1. cfg.spend \in Nat
    BY <1>1 DEF Config
  <2> QED
    BY <1>1, <2>1, Costs, Numbers, PlanAssumption
<1>3. /\ lock \in Nat /\ lock <= kv /\ base \in Nat /\ base * anchor <= 2 * (ks * v)
      /\ kv \in Nat
  BY <1>1, <1>2, LevelsCost, Scaled
<1>4. CASE cfg.mode # "quote_only_bootstrap"
  <2>1. CostPerSell(cfg).n = v /\ CostPerSell(cfg).d = 1
    BY <1>4 DEF CostPerSell
  <2>2. D * (kb * v * 1 + ks * v) <= a * 1
    BY <1>1, <2>1 DEF FitsCapital
  <2> DEFINE kw == ks * v
             ba == base * anchor
  <2>3. kw \in Nat /\ ba \in Nat /\ ba <= 2 * kw
    BY <1>1, <1>2, <1>3, Scaled
  <2>4. D * (kv + kw) <= a
    BY <1>2, <1>3, <2>2, <2>3
  <2> HIDE DEF v, a, anchor, kb, ks, kv, kw, ba
  <2>5. 2 * lock + ba <= 2 * (kv + kw) /\ 2 * lock + ba \in Int /\ 2 * (kv + kw) \in Int
    BY <1>3, <2>3
  <2>6. D * (2 * lock + ba) <= D * (2 * (kv + kw))
    BY <1>2, <2>5, Multiplied
  <2>7. D * (2 * (kv + kw)) = 2 * (D * (kv + kw)) /\ D * (kv + kw) \in Int
        /\ D * (2 * lock + ba) \in Int
    BY <1>2, <1>3, <2>3
  <2>8. D * (2 * lock + ba) <= 2 * a
    BY <1>2, <2>4, <2>6, <2>7
  <2> QED
    BY <1>4, <2>8 DEF a, ba, anchor
<1>5. CASE cfg.mode = "quote_only_bootstrap"
  <2> DEFINE f == D - cfg.buyFee
             g == D + cfg.buffer
             n == base * g * anchor
             t == ToCents(n, 2 * f)
             kw == ks * (v * g)
  <2>1. f \in Nat \ {0} /\ g \in Nat
    BY <1>1, Numbers
  <2>2. cfg.spend = 0
    BY <1>2, <1>5
  <2>3. CostPerSell(cfg).n = v * g /\ CostPerSell(cfg).d = f
    BY <1>5, <2>2 DEF CostPerSell
  <2>4. D * (kb * v * f + kw) <= a * f
    BY <1>1, <2>3 DEF FitsCapital
  <2>5. NeededQuote(cfg, base) = t
    BY DEF NeededQuote
  <2> HIDE DEF f, g, v, a, anchor, kb, ks
  <2>6. kw \in Nat /\ n \in Nat /\ n <= 2 * kw
    <3>1. g * (base * anchor) <= g * (2 * (ks * v))
      <4>1. base * anchor \in Int /\ 2 * (ks * v) \in Int
        BY <1>1, <1>2, <1>3
      <4> QED
        BY <1>3, <2>1, <4>1, Multiplied
    <3>2. g * (base * anchor) = n /\ g * (2 * (ks * v)) = 2 * kw
      BY <1>1, <1>2, <1>3, <2>1
    <3>3. base * g \in Nat /\ v * g \in Nat
      BY <1>2, <1>3, <2>1, Scaled
    <3>4. n \in Nat /\ kw \in Nat
      BY <1>1, <1>2, <3>3, Scaled
    <3> QED
      BY <3>1, <3>2, <3>4
  <2> HIDE DEF n, kw
  <2>7. t \in Nat /\ 2 * ((2 * f) * t) <= 2 * n + (2 * f) * Cent
    <3>1. 2 * f \in Nat \ {0}
      BY <2>1
    <3> QED
      BY <2>6, <3>1, Cents
  <2> HIDE DEF t
  <2> DEFINE ft == f * t
             fc == f * Cent
             fl == f * lock
             fk == kv * f
             dk == D * (fk + kw)
  <2>8. ft \in Nat /\ fc \in Nat /\ fl \in Nat /\ fk \in Nat
    BY <1>2, <1>3, <2>1, <2>7, Scaled
  <2>9. 2 * ft <= 2 * kw + fc
    <3>1. 2 * ((2 * f) * t) = 4 * ft /\ (2 * f) * Cent = 2 * fc
      BY <1>2, <2>1, <2>7
    <3> HIDE DEF ft, fc
    <3> QED
      BY <2>6, <2>7, <2>8, <3>1
  <2>10. fl <= fk
    <3>1. f * lock <= f * kv
      BY <1>3, <2>1, Multiplied
    <3> QED
      BY <1>3, <2>1, <3>1
  <2>11. dk <= a * f /\ dk \in Int
    BY <1>1, <1>2, <1>3, <2>1, <2>4, <2>6, <2>8
  <2>12. 2 * (fl + ft) <= 2 * (fk + kw) + fc
    <3> HIDE DEF fl, ft, fk, fc
    <3> QED
      BY <2>6, <2>8, <2>9, <2>10
  <2>13. D * (2 * (fl + ft)) <= D * (2 * (fk + kw) + fc)
    <3> HIDE DEF fl, ft, fk, fc
    <3>1. 2 * (fl + ft) \in Int /\ 2 * (fk + kw) + fc \in Int
      BY <2>6, <2>8
    <3> QED
      BY <1>2, <2>12, <3>1, Multiplied
  <2>14. D * (2 * (fk + kw) + fc) = 2 * dk + D * fc
    <3> HIDE DEF fk, fc
    <3> QED
      BY <1>2, <2>6, <2>8
  <2>15. D * (2 * (fl + ft)) <= 2 * (a * f) + D * fc
    <3>1. D * fc \in Int /\ a * f \in Int /\ D * (2 * (fl + ft)) \in Int
      BY <1>2, <2>1, <2>8
    <3> HIDE DEF fl, ft, fk, fc, dk
    <3> QED
      BY <2>11, <2>13, <2>14, <3>1
  <2>16. /\ D * (2 * (fl + ft)) = f * (2 * D * (lock + t))
         /\ 2 * (a * f) + D * fc = f * (2 * a + D * Cent)
    BY <1>2, <1>3, <2>1, <2>7
  <2>17. 2 * D * (lock + t) \in Int /\ 2 * a + D * Cent \in Int
    BY <1>2, <1>3, <2>7
  <2>18. 2 * D * (lock + t) <= 2 * a + D * Cent
    BY <2>1, <2>15, <2>16, <2>17, Cancelled
  <2> QED
    BY <1>5, <2>5, <2>18 DEF a, t
<1> QED
  BY <1>4, <1>5

\* The anchor's line has the anchor's price.
LEMMA AnchorLine ==
  ASSUME NEW c, NEW x, Anchored(c, x)
  PROVE  LinePrice(c, x, 0) = RoundHalfUp(c.anchor2, 2)
<1>1. x.n \in Nat \ {0} /\ x.d \in Nat \ {0} /\ x.d <= x.n /\ c.anchor2 \in Nat \ {0}
  BY DEF Anchored
<1>2. CASE c.grid = "geometric"
  <2>1. Power(x.n, 0) = 1 /\ Power(x.d, 0) = 1
    <3>1. x.n \in Int /\ x.d \in Int
      BY <1>1
    <3> QED
      BY <3>1, PowerIs
  <2>2. RawPrice(c, x, 0) = [n |-> c.anchor2, d |-> 2]
    BY <1>1, <1>2, <2>1 DEF RawPrice
  <2> QED
    BY <2>2 DEF LinePrice
<1>3. CASE c.grid = "arithmetic"
  <2> DEFINE n == c.anchor2 * x.d
             d == 2 * x.d
  <2>1. RawPrice(c, x, 0) = [n |-> n, d |-> d]
    <3>1. x.d + 0 * (x.n - x.d) = x.d
      BY <1>1
    <3> QED
      BY <1>3, <3>1 DEF RawPrice
  <2>2. n \in Nat /\ d \in Nat \ {0} /\ n * 2 = c.anchor2 * d
    BY <1>1
  <2> HIDE DEF n, d
  <2>3. RoundHalfUp(n, d) <= RoundHalfUp(c.anchor2, 2)
    BY <1>1, <2>2, RoundedInOrder
  <2>4. RoundHalfUp(c.anchor2, 2) <= RoundHalfUp(n, d)
    BY <1>1, <2>2, RoundedInOrder
  <2>5. RoundHalfUp(n, d) \in Int /\ RoundHalfUp(c.anchor2, 2) \in Int
    <3>1. n \in Int /\ c.anchor2 \in Int /\ 2 \in Nat \ {0}
      BY <1>1, <2>2
    <3> QED
      BY <2>2, <3>1, Rounded
  <2> QED
    BY <2>1, <2>3, <2>4, <2>5 DEF LinePrice
<1> QED
  BY <1>2, <1>3 DEF Anchored

\* A level has the price of its line, and a line with a level a price above zero.
LEMMA LinesPriced ==
  ASSUME PlanInv, NEW i \in Lines
  PROVE  /\ i \in Int /\ Anchored(cfg, r)
         /\ PriceOf(i) = LinePrice(cfg, r, i) /\ RawPrice(cfg, r, i).n >= 0
<1>1. /\ cfg \in Config /\ buys \in Seq(Level) /\ sells \in Seq(Level)
      /\ \A j \in DOMAIN buys : BuyLevel(cfg, r, buys[j], j)
      /\ \A j \in DOMAIN sells : SellLevel(cfg, r, sells[j], j)
  BY DEF PlanInv, Stepped, Levels
<1>2. Anchored(cfg, r)
  <2>1. cfg.grid \in {"geometric", "arithmetic"} /\ cfg.anchor2 \in Nat \ {0}
    BY <1>1 DEF Config
  <2> QED
    BY <2>1 DEF PlanInv, Sound, Anchored
<1>3. i \in Int /\ -Len(buys) <= i /\ i <= Len(sells) /\ Len(buys) \in Nat /\ Len(sells) \in Nat
  BY <1>1 DEF Lines
<1>4. RawPrice(cfg, r, i).n \in Int /\ RawPrice(cfg, r, i).d \in Nat \ {0}
  BY <1>2, <1>3, WholePrices
<1>5. ASSUME LinePrice(cfg, r, i) >= 1 PROVE RawPrice(cfg, r, i).n >= 0
  <2> DEFINE n == RawPrice(cfg, r, i).n
             d == RawPrice(cfg, r, i).d
  <2>1. n < 0 => RoundHalfUp(n, d) <= 0
    <3> HIDE DEF n, d
    <3> QED
      BY <1>4, Rounded DEF n, d
  <2>2. RoundHalfUp(n, d) >= 1 /\ RoundHalfUp(n, d) \in Int
    BY <1>2, <1>3, <1>5, WholePrices DEF LinePrice
  <2> HIDE DEF n, d
  <2> QED
    BY <1>4, <2>1, <2>2 DEF n, d
<1>6. CASE i < 0
  <2>1. -i \in DOMAIN buys /\ -(-i) = i
    BY <1>1, <1>3, <1>6
  <2>2. BuyLevel(cfg, r, buys[-i], -i)
    BY <1>1, <2>1
  <2>3. buys[-i].price = LinePrice(cfg, r, i) /\ buys[-i].price >= 1
    BY <2>1, <2>2 DEF BuyLevel, ValidOrder
  <2>4. PriceOf(i) = buys[-i].price
    BY <1>3, <1>6 DEF PriceOf
  <2> QED
    BY <1>2, <1>3, <1>5, <2>3, <2>4
<1>7. CASE i = 0
  <2>1. PriceOf(i) = RoundHalfUp(cfg.anchor2, 2)
    BY <1>3, <1>7 DEF PriceOf
  <2>2. PriceOf(i) = LinePrice(cfg, r, i)
    BY <1>2, <1>7, <2>1, AnchorLine
  <2>3. RawPrice(cfg, r, i).n \in Nat
    <3>1. CASE cfg.grid = "geometric"
      BY <1>2, <1>3, <3>1, GeometricLine
    <3>2. CASE cfg.grid = "arithmetic"
      BY <1>2, <1>3, <1>7, <3>2, ArithmeticLine
    <3> QED
      BY <1>2, <3>1, <3>2 DEF Anchored
  <2> QED
    BY <1>2, <1>3, <2>2, <2>3
<1>8. CASE i > 0
  <2>1. i \in DOMAIN sells
    BY <1>1, <1>3, <1>8
  <2>2. SellLevel(cfg, r, sells[i], i)
    BY <1>1, <2>1
  <2>3. sells[i].price = LinePrice(cfg, r, i) /\ sells[i].price >= 1
    BY <2>2 DEF SellLevel, ValidOrder
  <2>4. PriceOf(i) = sells[i].price
    BY <1>3, <1>8 DEF PriceOf
  <2> QED
    BY <1>2, <1>3, <1>5, <2>3, <2>4
<1> QED
  BY <1>3, <1>6, <1>7, <1>8

\* Neighbouring lines, as fractions.
LEMMA Neighbours ==
  ASSUME PlanInv, NEW i \in -Len(buys) .. Len(sells) - 1
  PROVE  LET low == RawPrice(cfg, r, i)
             high == RawPrice(cfg, r, i + 1)
         IN  /\ i \in Int /\ Anchored(cfg, r) /\ low.n >= 0
             /\ low.n \in Nat /\ low.d \in Nat \ {0}
             /\ high.n \in Nat /\ high.d \in Nat \ {0}
             /\ low.n * high.d <= high.n * low.d
             /\ PriceOf(i) = RoundHalfUp(low.n, low.d)
             /\ PriceOf(i + 1) = RoundHalfUp(high.n, high.d)
<1>1. Len(buys) \in Nat /\ Len(sells) \in Nat
  BY DEF PlanInv, Levels
<1>2. i \in Lines /\ i + 1 \in Lines
  BY <1>1 DEF Lines
<1>3. /\ i \in Int /\ Anchored(cfg, r) /\ RawPrice(cfg, r, i).n >= 0
      /\ PriceOf(i) = LinePrice(cfg, r, i) /\ PriceOf(i + 1) = LinePrice(cfg, r, i + 1)
  BY <1>2, LinesPriced
<1> QED
  BY <1>3, LinesInOrder DEF LinePrice

\* The prices follow the lines, and every level was accepted when it was added.
LEMMA LadderHolds == PlanInv => LadderSound
<1> SUFFICES ASSUME PlanInv, Planned PROVE LadderSound
  BY DEF LadderSound
<1>1. ASSUME NEW i \in -Len(buys) .. Len(sells) - 1
      PROVE  LET low == RawPrice(cfg, r, i)
                 high == RawPrice(cfg, r, i + 1)
             IN  /\ PriceOf(i) <= PriceOf(i + 1)
                 /\ high.n * low.d - low.n * high.d >= low.d * high.d
                      => PriceOf(i) < PriceOf(i + 1)
  <2> DEFINE low == RawPrice(cfg, r, i)
             high == RawPrice(cfg, r, i + 1)
  <2>1. /\ low.n \in Nat /\ low.d \in Nat \ {0}
        /\ high.n \in Nat /\ high.d \in Nat \ {0}
        /\ low.n * high.d <= high.n * low.d
        /\ PriceOf(i) = RoundHalfUp(low.n, low.d)
        /\ PriceOf(i + 1) = RoundHalfUp(high.n, high.d)
    BY Neighbours
  <2> HIDE DEF low, high
  <2>2. PriceOf(i) <= PriceOf(i + 1)
    BY <2>1, RoundedInOrder
  <2>3. high.n * low.d - low.n * high.d >= low.d * high.d => PriceOf(i) < PriceOf(i + 1)
    BY <2>1, RoundedApart
  <2> QED
    BY <2>2, <2>3 DEF low, high
<1>2. cfg \in Config /\ cfg.value \in Nat
  BY Numbers DEF PlanInv, Stepped
<1>3. ASSUME NEW j \in DOMAIN buys
      PROVE  ValidOrder(cfg, buys[j].price, buys[j].qty) /\ buys[j].price * buys[j].qty <= cfg.value
  <2>1. BuyLevel(cfg, r, buys[j], j) /\ buys[j] \in Level
    BY DEF PlanInv, Levels
  <2>2. buys[j].price \in Nat \ {0}
    BY <2>1 DEF Level
  <2> QED
    BY <1>2, <2>1, <2>2, Quotient DEF BuyLevel
<1>4. ASSUME NEW j \in DOMAIN sells
      PROVE  /\ ValidOrder(cfg, sells[j].price, sells[j].qty)
             /\ sells[j].qty * cfg.anchor2 <= 2 * cfg.value
  <2>1. SellLevel(cfg, r, sells[j], j)
    BY DEF PlanInv, Levels
  <2>2. ValidOrder(cfg, sells[j].price, sells[j].qty) /\ sells[j].qty = SellQty(cfg)
    BY <2>1 DEF SellLevel
  <2>3. SellQty(cfg) * cfg.anchor2 = cfg.anchor2 * SellQty(cfg)
    BY <1>2, Costs, Numbers
  <2> QED
    BY <1>2, <2>2, <2>3, Costs
<1> QED
  BY <1>1, <1>3, <1>4 DEF LadderSound

\* The ratio pays the fees, and a line is at least the ratio above the one below it, but
\* above the anchor of an arithmetic grid.
LEMMA TripsPay ==
  ASSUME PlanInv, Planned, NEW i \in -Len(buys) .. Len(sells) - 1,
         cfg.grid = "geometric" \/ i <= 0
  PROVE  2 * Net(i) >= -(2 * D + cfg.buyFee - cfg.sellFee)
<1> DEFINE low == RawPrice(cfg, r, i)
           high == RawPrice(cfg, r, i + 1)
           s == D - cfg.sellFee
           b == D + cfg.buyFee
<1>1. /\ i \in Int /\ Anchored(cfg, r) /\ low.n >= 0
      /\ low.n \in Nat /\ low.d \in Nat \ {0}
      /\ high.n \in Nat /\ high.d \in Nat \ {0}
      /\ PriceOf(i) = RoundHalfUp(low.n, low.d)
      /\ PriceOf(i + 1) = RoundHalfUp(high.n, high.d)
  BY Neighbours
<1>2. cfg \in Config /\ r = StepRatio(cfg)
  BY DEF PlanInv, Stepped, Planned, Worked
<1>3. s \in Nat /\ b \in Nat /\ s + b = 2 * D + cfg.buyFee - cfg.sellFee
  <2>1. /\ D \in Nat /\ cfg.buyFee \in Nat /\ cfg.sellFee \in Nat /\ s \in Nat
    BY <1>2, Numbers, PlanAssumption
  <2>2. b \in Nat
    BY <2>1
  <2>3. s + b = 2 * D + cfg.buyFee - cfg.sellFee
    BY <2>1
  <2> QED
    BY <2>1, <2>2, <2>3
<1>4. r.n \in Nat /\ r.d \in Nat
  BY DEF PlanInv, Sound
<1>5. b * r.d <= s * r.n
  <2>1. s * r.n - b * r.d >= 0
    BY <1>2, ConfigTerms, NetOfStep
  <2> DEFINE A == s * r.n
             B == b * r.d
  <2>2. A \in Int /\ B \in Int
    BY <1>3, <1>4
  <2>3. A - B >= 0
    BY <2>1
  <2> HIDE DEF A, B
  <2>4. B <= A
    BY <2>2, <2>3
  <2> QED
    BY <2>4 DEF A, B
<1> HIDE DEF s, b
<1>6. b * (low.n * high.d) <= s * (high.n * low.d)
  BY <1>1, <1>3, <1>5, LinesPay
<1> HIDE DEF low, high
<1>7. 2 * (s * PriceOf(i + 1) - b * PriceOf(i)) >= -(s + b)
  BY <1>1, <1>3, <1>6, RoundedPays
<1> QED
  BY <1>3, <1>7 DEF s, b, Net

\* Above the anchor of an arithmetic grid the fees on the distance are missing.
LEMMA TripsShort ==
  ASSUME PlanInv, Planned, NEW i \in -Len(buys) .. Len(sells) - 1,
         cfg.grid = "arithmetic", i > 0
  PROVE  r.d * (2 * Net(i) + (2 * D + cfg.buyFee - cfg.sellFee)) >= -FeesAbove(i)
<1> DEFINE s == D - cfg.sellFee
           b == D + cfg.buyFee
           f == cfg.buyFee + cfg.sellFee
           m == r.n - r.d
           a == cfg.anchor2
           im == i * m
           y == r.d + im
           w == a * (im * f)
<1>1. /\ cfg \in Config /\ r = StepRatio(cfg) /\ r.n \in Nat /\ r.d \in Nat \ {0}
      /\ i \in Int /\ Anchored(cfg, r)
      /\ RawPrice(cfg, r, i).n \in Nat /\ RawPrice(cfg, r, i + 1).n \in Nat
      /\ PriceOf(i) = RoundHalfUp(RawPrice(cfg, r, i).n, RawPrice(cfg, r, i).d)
      /\ PriceOf(i + 1) = RoundHalfUp(RawPrice(cfg, r, i + 1).n, RawPrice(cfg, r, i + 1).d)
  BY Neighbours DEF PlanInv, Stepped, Planned, Worked, Sound, Anchored
<1>2. /\ s \in Nat /\ b \in Nat /\ f \in Nat /\ b = s + f
      /\ s + b = 2 * D + cfg.buyFee - cfg.sellFee
  <2>1. D \in Nat /\ cfg.buyFee \in Nat /\ cfg.sellFee \in Nat /\ s \in Nat
    BY <1>1, Numbers, PlanAssumption
  <2>2. b \in Nat /\ f \in Nat
    BY <2>1
  <2>3. b = s + f
    BY <2>1
  <2>4. s + b = 2 * D + cfg.buyFee - cfg.sellFee
    BY <2>1
  <2> QED
    BY <2>1, <2>2, <2>3, <2>4
<1>3. m \in Nat /\ a \in Nat \ {0} /\ r.n = r.d + m
  BY <1>1 DEF Anchored
<1>4. /\ RawPrice(cfg, r, i) = [n |-> RawPrice(cfg, r, i).n, d |-> 2 * r.d]
      /\ RawPrice(cfg, r, i).d = 2 * r.d /\ RawPrice(cfg, r, i + 1).d = 2 * r.d
      /\ RawPrice(cfg, r, i).n = a * y /\ RawPrice(cfg, r, i + 1).n = a * (y + m)
  <2>1. RawPrice(cfg, r, i) = [n |-> cfg.anchor2 * (r.d + i * (r.n - r.d)), d |-> 2 * r.d]
    BY DEF RawPrice
  <2> QED
    BY <1>1, <2>1, ArithmeticLine
<1>0. s * r.n - b * r.d >= 0
  BY <1>1, ConfigTerms, NetOfStep
<1> HIDE DEF s, b, f
<1>5. b * r.d <= s * r.n
  <2>1. s * r.n - b * r.d >= 0
    BY <1>0
  <2> DEFINE A == s * r.n
             B == b * r.d
  <2>2. A \in Int /\ B \in Int
    BY <1>1, <1>2
  <2>3. A - B >= 0
    BY <2>1
  <2> HIDE DEF A, B
  <2>4. B <= A
    BY <2>2, <2>3
  <2> QED
    BY <2>4 DEF A, B
<1>6. im \in Nat
  BY <1>1, <1>3, Scaled
<1>7. FeesAbove(i) = w
  <2>1. FeesAbove(i) = i * f * (a * m)
    BY DEF FeesAbove, f
  <2>2. i * f * (a * m) = a * ((i * m) * f)
    <3> HIDE DEF a, m
    <3> QED
      BY <1>1, <1>2, <1>3
  <2> QED
    BY <2>1, <2>2
<1> HIDE DEF m, a, im
<1>8. b * y <= s * (y + m) + im * f
  <2>1. b * y = b * r.d + b * im /\ s * (y + m) = s * r.n + s * im
    <3>1. r.d \in Int /\ im \in Int /\ m \in Int /\ r.n = r.d + m /\ y + m = r.n + im
      BY <1>1, <1>3, <1>6
    <3>2. \A e \in {s, b} : \A g, h \in Int : e * (g + h) = e * g + e * h
      BY <1>2
    <3>3. r.n \in Int
      BY <1>1
    <3> QED
      BY <3>1, <3>2, <3>3
  <2>2. b * im = s * im + im * f
    BY <1>2, <1>6
  <2> DEFINE u == b * r.d
             v == s * r.n
             t == s * im
             g == im * f
  <2>3. u \in Int /\ v \in Int /\ t \in Int /\ g \in Int
    BY <1>1, <1>2, <1>6
  <2>4. b * y = u + t + g /\ s * (y + m) = v + t /\ u <= v
    <3>1. b * im = t + g /\ b * y = u + b * im /\ s * (y + m) = v + t /\ u <= v
      BY <1>5, <2>1, <2>2
    <3> HIDE DEF y, u, v, t, g
    <3> QED
      BY <2>3, <3>1
  <2> HIDE DEF u, v, t, g
  <2>5. u + t + g <= v + t + g
    BY <2>3, <2>4
  <2> QED
    BY <2>4, <2>5 DEF g
<1>9. b * (a * y) <= s * (a * (y + m)) + w
  <2> DEFINE g == im * f
  <2>1. y \in Int /\ y + m \in Int /\ g \in Int
    BY <1>1, <1>2, <1>3, <1>6
  <2>2. b * y \in Int /\ s * (y + m) + g \in Int
    BY <1>2, <2>1
  <2>3. a * (b * y) <= a * (s * (y + m) + g)
    BY <1>3, <1>8, <2>2, Multiplied
  <2> HIDE DEF y, g
  <2>4. a * (b * y) = b * (a * y) /\ a * (s * (y + m) + g) = s * (a * (y + m)) + a * g
    BY <1>2, <1>3, <2>1
  <2> QED
    BY <2>3, <2>4 DEF g
<1>10. w \in Int
  BY <1>2, <1>3, <1>6
<1> DEFINE net == 2 * (s * PriceOf(i + 1) - b * PriceOf(i)) + (s + b)
<1>11. (2 * r.d) * net >= -(2 * w)
  <2>1. a * y \in Nat /\ a * (y + m) \in Nat /\ 2 * r.d \in Nat \ {0}
    BY <1>1, <1>4
  <2>2. /\ PriceOf(i) = RoundHalfUp(a * y, 2 * r.d)
        /\ PriceOf(i + 1) = RoundHalfUp(a * (y + m), 2 * r.d)
    BY <1>1, <1>4
  <2> HIDE DEF w, y
  <2> QED
    BY <1>2, <1>9, <1>10, <2>1, <2>2, RoundedShort
<1>12. net \in Int
  <2>1. PriceOf(i) \in Int /\ PriceOf(i + 1) \in Int
    BY <1>1, <1>4, Rounded
  <2> QED
    BY <1>2, <2>1
<1>13. r.d * net >= -w
  <2> DEFINE z == r.d * net
  <2>1. z \in Int /\ (2 * r.d) * net = 2 * z
    <3> HIDE DEF net
    <3> QED
      BY <1>1, <1>12
  <2>2. 2 * z >= -(2 * w)
    BY <1>11, <2>1
  <2> HIDE DEF z, w
  <2>3. z >= -w
    BY <1>10, <2>1, <2>2
  <2> QED
    BY <2>3 DEF z
<1> HIDE DEF w
<1>14. net = 2 * Net(i) + (2 * D + cfg.buyFee - cfg.sellFee)
  BY <1>2 DEF Net, s, b
<1> QED
  BY <1>7, <1>13, <1>14

\* So the loss is bounded everywhere.
LEMMA TripsBounded == PlanInv => LossBounded
<1> SUFFICES ASSUME PlanInv, Planned, NEW i \in -Len(buys) .. Len(sells) - 1
             PROVE  r.d * (2 * Net(i) + (2 * D + cfg.buyFee - cfg.sellFee)) >= -FeesAbove(i)
  BY DEF LossBounded
<1>1. CASE cfg.grid = "geometric" \/ i <= 0
  <2> DEFINE n == 2 * Net(i)
             c == 2 * D + cfg.buyFee - cfg.sellFee
             z == r.d * (n + c)
  <2>1. FeesAbove(i) = 0 /\ n >= -c
    BY <1>1, TripsPay DEF FeesAbove
  <2>2. n \in Int /\ c \in Int
    <3> DEFINE low == RawPrice(cfg, r, i)
               high == RawPrice(cfg, r, i + 1)
    <3>0. /\ low.n \in Nat /\ low.d \in Nat \ {0} /\ high.n \in Nat /\ high.d \in Nat \ {0}
          /\ PriceOf(i) = RoundHalfUp(low.n, low.d)
          /\ PriceOf(i + 1) = RoundHalfUp(high.n, high.d)
      BY Neighbours
    <3> HIDE DEF low, high
    <3>1. PriceOf(i) \in Int /\ PriceOf(i + 1) \in Int
      <4>1. low.n \in Int /\ high.n \in Int
        BY <3>0
      <4> QED
        BY <3>0, <4>1, Rounded
    <3>2. D - cfg.sellFee \in Int /\ D + cfg.buyFee \in Int /\ c \in Int
      <4>1. cfg \in Config
        BY DEF PlanInv, Stepped
      <4>2. D \in Nat /\ cfg.buyFee \in Nat /\ cfg.sellFee \in Nat
        BY <4>1, Numbers, PlanAssumption
      <4> QED
        BY <4>2
    <3> QED
      BY <3>1, <3>2 DEF Net
  <2>3. r.d \in Nat
    BY DEF PlanInv, Sound
  <2> HIDE DEF n, c
  <2>4. n + c \in Nat
    BY <2>1, <2>2
  <2>5. z \in Nat
    BY <2>3, <2>4, Scaled
  <2> QED
    BY <2>1, <2>5 DEF n, c
<1>2. CASE cfg.grid = "arithmetic" /\ i > 0
  BY <1>2, TripsShort
<1>3. i \in Int /\ cfg.grid \in {"geometric", "arithmetic"}
  <2>1. cfg \in Config /\ i \in Int
    BY Neighbours DEF PlanInv, Stepped
  <2> QED
    BY <2>1 DEF Config
<1> QED
  BY <1>1, <1>2, <1>3

-----------------------------------------------------------------------------
(* What is paid *)

(* The BUY levels cost what was counted, what was counted was checked       *)
(* against the balance, and what is placed is at most that.                 *)
Afforded ==
    /\ lock = SumFunctionOnSet(Cost, DOMAIN buys)
    /\ phase \in {"place", "running"} /\ cfg.mode = "quote_only_bootstrap"
         => lock + PreflightQuote(cfg, base) <= cfg.quote
    /\ phase = "running" =>
         /\ placed.buys \subseteq DOMAIN buys
         /\ placed.spend = IF cfg.mode = "quote_only_bootstrap"
                           THEN BootstrapQuote(cfg, base) ELSE 0

\* What is in a sequence.
LEMMA Items ==
  ASSUME NEW S, NEW s \in Seq(S)
  PROVE  \A j \in DOMAIN s : j \in Nat /\ s[j] \in S
  OBVIOUS

\* The numbers of the pre-flight check.
LEMMA Preflighted ==
  ASSUME PlanInv
  PROVE  /\ lock \in Int /\ PreflightQuote(cfg, base) \in Int
         /\ lock + PreflightQuote(cfg, base) \in Int
         /\ cfg.quote \in Int /\ cfg.spend \in Nat
<1>1. cfg \in Config /\ lock \in Nat /\ base \in Nat
  BY LevelsCost DEF PlanInv, Stepped
<1>2. cfg.quote \in Nat /\ cfg.spend \in Nat
  BY <1>1 DEF Config
<1>3. NeededQuote(cfg, base) \in Int
  <2> DEFINE n == base * (D + cfg.buffer) * cfg.anchor2
             d == 2 * (D - cfg.buyFee)
  <2>1. D + cfg.buffer \in Nat /\ cfg.anchor2 \in Nat /\ D - cfg.buyFee \in Nat \ {0}
    BY <1>1, Numbers
  <2>2. base * (D + cfg.buffer) \in Nat
    BY <1>1, <2>1, Scaled
  <2>3. n \in Nat
    BY <2>1, <2>2, Scaled
  <2>4. d \in Nat \ {0}
    BY <2>1
  <2> HIDE DEF n, d
  <2>5. ToCents(n, d) \in Nat
    BY <2>3, <2>4, Cents
  <2> QED
    BY <2>5 DEF NeededQuote, n, d
<1>4. PreflightQuote(cfg, base) \in Int
  BY <1>2, <1>3 DEF PreflightQuote
<1> QED
  BY <1>1, <1>2, <1>4

\* What the BUY levels cost is a sum of numbers.
LEMMA CostNumbers ==
  ASSUME PlanInv
  PROVE  /\ IsFiniteSet(DOMAIN buys) /\ Len(buys) \in Nat /\ DOMAIN buys = 1 .. Len(buys)
         /\ \A j \in DOMAIN buys : Cost[j] \in Nat
<1>1. buys \in Seq(Level)
  BY DEF PlanInv, Levels
<1>2. Len(buys) \in Nat /\ DOMAIN buys = 1 .. Len(buys)
  BY <1>1
<1>3. IsFiniteSet(DOMAIN buys)
  BY <1>2, FS_Interval
<1>4. ASSUME NEW j \in DOMAIN buys PROVE Cost[j] \in Nat
  <2>1. buys[j] \in Level
    BY <1>1, Items
  <2>2. buys[j].price \in Nat /\ buys[j].qty \in Nat
    BY <2>1 DEF Level
  <2> QED
    BY <2>2, Scaled DEF Cost
<1> QED
  BY <1>2, <1>3, <1>4

\* Every step keeps the account of the BUY levels, and only a plan that passed the
\* pre-flight check is placed.
LEMMA AffordedKept == PlanInv /\ Afforded /\ [Next]_vars => Afforded'
<1> SUFFICES ASSUME PlanInv, Afforded, [Next]_vars PROVE Afforded'
  OBVIOUS
<1>1. CASE UNCHANGED planVars
  BY <1>1 DEF Afforded, planVars, Cost, PreflightQuote, NeededQuote, BootstrapQuote
<1>2. ASSUME UNCHANGED <<buys, lock>>, phase' \notin {"place", "running"}
      PROVE  Afforded'
  <2>1. lock' = SumFunctionOnSet(Cost, DOMAIN buys)' /\ phase' # "running"
    BY <1>2 DEF Afforded, Cost
  <2> QED
    BY <1>2, <2>1 DEF Afforded
<1>3. CASE OrderQuoteValue \/ ComputeStep \/ ComputeCounts
  BY <1>2, <1>3 DEF OrderQuoteValue, ComputeStep, ComputeCounts, Raise
<1>4. CASE AddBuy
  <2>1. CASE UNCHANGED <<buys, lock>>
    <3>1. phase = "buys"
      BY <1>4 DEF AddBuy
    <3>2. phase' \notin {"place", "running"}
      BY <1>4, <3>1, BuyTurn
    <3> QED
      BY <1>2, <2>1, <3>2
  <2>2. CASE \E l \in Level : /\ buys' = Append(buys, l) /\ lock' = lock + l.price * l.qty
                              /\ phase' = phase
    <3> PICK l \in Level : /\ buys' = Append(buys, l) /\ lock' = lock + l.price * l.qty
                           /\ phase' = phase
      BY <2>2
    <3> DEFINE n == Len(buys)
               s == DOMAIN buys
               g == Cost
               h == Cost'
               worth == l.price * l.qty
    <3>1. IsFiniteSet(s) /\ n \in Nat /\ s = 1 .. n /\ \A j \in s : g[j] \in Int
      BY CostNumbers
    <3>2. /\ DOMAIN buys' = s \cup {n + 1} /\ n + 1 \notin s
          /\ \A j \in s : buys'[j] = buys[j]
          /\ buys'[n + 1] = l
      <4>1. buys \in Seq(Level)
        BY DEF PlanInv, Levels
      <4> QED
        BY <3>1, <4>1
    <3>3. (\A j \in s : h[j] = g[j]) /\ h[n + 1] = worth
      BY <3>2 DEF Cost
    <3>4. worth \in Int
      BY Scaled DEF Level
    <3>5. lock' = SumFunctionOnSet(g, s) + worth
      BY DEF Afforded
    <3> HIDE DEF n, s, g, h, worth
    <3>6. SumFunctionOnSet(h, s \cup {n + 1}) = h[n + 1] + SumFunctionOnSet(h, s)
      BY <3>1, <3>2, <3>3, <3>4, SumMore
    <3>7. SumFunctionOnSet(h, s) = SumFunctionOnSet(g, s)
      BY <3>1, <3>3, SumSame
    <3>8. SumFunctionOnSet(g, s) \in Int
      BY <3>1, SumType
    <3>9. lock' = SumFunctionOnSet(h, s \cup {n + 1})
      BY <3>3, <3>4, <3>5, <3>6, <3>7, <3>8
    <3>10. lock' = SumFunctionOnSet(Cost, DOMAIN buys)'
      BY <3>2, <3>9 DEF h
    <3>11. phase' = "buys"
      BY <1>4 DEF AddBuy
    <3> QED
      BY <3>10, <3>11 DEF Afforded
  <2> QED
    BY <1>4, <2>1, <2>2, BuyTurn
<1>5. CASE AddSell
  <2>1. /\ phase = "sells" /\ UNCHANGED <<cfg, buys, lock>>
        /\ \/ phase' = "sells"
           \/ phase' \in {"raised", "preflight"}
           \/ phase' = "place" /\ cfg.mode # "quote_only_bootstrap"
    BY <1>5 DEF AddSell
  <2>2. lock' = SumFunctionOnSet(Cost, DOMAIN buys)'
    BY <2>1 DEF Afforded, Cost
  <2> QED
    BY <2>1, <2>2 DEF Afforded
<1>6. CASE PreflightBalanceCheck
  <2>1. /\ UNCHANGED <<cfg, buys, sells, lock, base>>
        /\ phase' # "running"
        /\ phase' = "place" => ~(lock + PreflightQuote(cfg, base) > cfg.quote)
    BY <1>6 DEF PreflightBalanceCheck
  <2>2. lock + PreflightQuote(cfg, base) \in Int /\ cfg.quote \in Int
    BY Preflighted
  <2>3. phase' = "place" => lock + PreflightQuote(cfg, base) <= cfg.quote
    BY <2>1, <2>2
  <2>4. lock' = SumFunctionOnSet(Cost, DOMAIN buys)'
    BY <2>1 DEF Afforded, Cost
  <2>5. PreflightQuote(cfg, base)' = PreflightQuote(cfg, base)
    BY <2>1 DEF PreflightQuote, NeededQuote
  <2> QED
    BY <2>1, <2>3, <2>4, <2>5 DEF Afforded
<1>7. CASE PlaceInitialOrders
  <2>1. /\ UNCHANGED <<cfg, buys, sells, lock, base>> /\ phase = "place"
        /\ placed'.buys \subseteq DOMAIN buys
        /\ placed'.spend = IF cfg.mode = "quote_only_bootstrap"
                           THEN BootstrapQuote(cfg, base) ELSE 0
    BY <1>7 DEF PlaceInitialOrders
  <2>2. lock' = SumFunctionOnSet(Cost, DOMAIN buys)'
    BY <2>1 DEF Afforded, Cost
  <2>3. /\ PreflightQuote(cfg, base)' = PreflightQuote(cfg, base)
        /\ BootstrapQuote(cfg, base)' = BootstrapQuote(cfg, base)
    BY <2>1 DEF PreflightQuote, BootstrapQuote, NeededQuote
  <2>4. cfg.mode = "quote_only_bootstrap" => lock + PreflightQuote(cfg, base) <= cfg.quote
    BY <2>1 DEF Afforded
  <2> QED
    BY <2>1, <2>2, <2>3, <2>4 DEF Afforded
<1> QED
  BY <1>1, <1>3, <1>4, <1>5, <1>6, <1>7
     DEF Next, Plan, PlanNext, Fill, LineFilled, Start, Match, End, vars

\* What is placed is part of what was counted, and the bootstrap spends what was checked.
LEMMA PlacedHolds == PlanInv /\ Afforded => PlacedFits
<1> SUFFICES ASSUME PlanInv, Afforded, phase = "running",
                    cfg.mode = "quote_only_bootstrap", sells # <<>>
             PROVE  SumFunctionOnSet(Cost, placed.buys) + placed.spend <= cfg.quote
  BY DEF PlacedFits
<1>1. /\ lock = SumFunctionOnSet(Cost, DOMAIN buys) /\ placed.buys \in SUBSET DOMAIN buys
      /\ lock + PreflightQuote(cfg, base) <= cfg.quote
      /\ placed.spend = BootstrapQuote(cfg, base)
  BY DEF Afforded
<1>2. /\ PreflightQuote(cfg, base) \in Int /\ cfg.quote \in Int /\ cfg.spend \in Nat
      /\ lock \in Int
  BY Preflighted
<1>3. placed.spend = PreflightQuote(cfg, base)
  BY <1>1, <1>2 DEF BootstrapQuote, PreflightQuote
<1>4. SumFunctionOnSet(Cost, placed.buys) <= lock
  BY <1>1, CostNumbers, SumPart
<1>5. SumFunctionOnSet(Cost, placed.buys) \in Int
  <2>1. IsFiniteSet(placed.buys) /\ \A j \in placed.buys : Cost[j] \in Int
    BY <1>1, CostNumbers, FS_Subset
  <2> QED
    BY <2>1, SumType
<1> QED
  BY <1>1, <1>2, <1>3, <1>4, <1>5

-----------------------------------------------------------------------------
(* The match *)

Row == [side : {"BUY", "SELL"}, price : Nat, qty : Nat, fee : Int]

(* The fills are rows with whole prices and quantities; what is left of     *)
(* each is part of it, and a report counts every fill while it is computed. *)
MatchInv ==
    /\ fills \in Seq(Row)
    /\ DOMAIN left \subseteq DOMAIN fills
    /\ \A i \in DOMAIN left : left[i] \in 0 .. fills[i].qty
    /\ reporting => DOMAIN left = DOMAIN fills
    /\ report # <<>> => report.fills \in Nat /\ report.fills <= Len(fills)

\* A pair that can be matched is a BUY and a SELL above it.
LEMMA OpenPair ==
  ASSUME MatchInv, NEW p \in Open
  PROVE  /\ p = <<p[1], p[2]>>
         /\ p[1] \in DOMAIN fills /\ p[2] \in DOMAIN fills /\ p[1] # p[2]
         /\ p[1] \in Nat /\ p[2] \in Nat /\ Gap(p) \in Nat
<1>1. p \in Of("BUY") \X Of("SELL") /\ fills[p[1]].price < fills[p[2]].price
  BY DEF Open
<1>2. p = <<p[1], p[2]>> /\ p[1] \in Of("BUY") /\ p[2] \in Of("SELL")
  BY <1>1
<1>3. /\ p[1] \in DOMAIN fills /\ fills[p[1]].side = "BUY"
      /\ p[2] \in DOMAIN fills /\ fills[p[2]].side = "SELL"
  BY <1>2 DEF Of
<1>4. \A i \in DOMAIN fills : i \in Nat /\ fills[i].price \in Int
  <2>1. \A i \in DOMAIN fills : i \in Nat /\ fills[i] \in Row
    BY Items DEF MatchInv
  <2> QED
    BY <2>1 DEF Row
<1>5. Gap(p) \in Nat
  <2>1. fills[p[1]].price \in Int /\ fills[p[2]].price \in Int
    BY <1>3, <1>4
  <2> QED
    BY <1>1, <2>1 DEF Gap
<1> QED
  BY <1>2, <1>3, <1>4, <1>5

\* There is a closest pair, and BestPair is one.
LEMMA BestIsOpen ==
  ASSUME MatchInv, Open # {}
  PROVE  BestPair \in Open /\ \A q \in Open : Before(BestPair, q)
<1> DEFINE gaps == {Gap(p) : p \in Open}
<1>1. PICK g \in gaps : \A h \in gaps : g <= h
  <2>1. gaps \subseteq Nat /\ gaps # {}
    BY OpenPair
  <2> HIDE DEF gaps
  <2> QED
    BY <2>1, Least
<1> DEFINE closest == {p \in Open : Gap(p) = g}
           bought == {p[1] : p \in closest}
<1>2. PICK b \in bought : \A h \in bought : b <= h
  <2>1. bought \subseteq Nat /\ bought # {}
    BY <1>1, OpenPair
  <2> HIDE DEF bought
  <2> QED
    BY <2>1, Least
<1> DEFINE sold == {p[2] : p \in {q \in closest : q[1] = b}}
<1>3. PICK s \in sold : \A h \in sold : s <= h
  <2>1. sold \subseteq Nat /\ sold # {}
    BY <1>2, OpenPair
  <2> HIDE DEF sold
  <2> QED
    BY <2>1, Least
<1>4. PICK p \in Open : Gap(p) = g /\ p[1] = b /\ p[2] = s
  BY <1>3
<1>5. ASSUME NEW q \in Open PROVE Before(p, q)
  <2>1. Gap(q) \in Nat /\ q[1] \in Nat /\ q[2] \in Nat /\ g \in Nat /\ b \in Nat /\ s \in Nat
    BY <1>4, OpenPair
  <2>2. g <= Gap(q)
    BY <1>1
  <2>3. Gap(q) = g => b <= q[1]
    BY <1>2
  <2>4. Gap(q) = g /\ q[1] = b => s <= q[2]
    BY <1>3
  <2> HIDE DEF gaps, closest, bought, sold
  <2> QED
    BY <1>4, <2>1, <2>2, <2>3, <2>4 DEF Before
<1> QED
  BY <1>4, <1>5 DEF BestPair

\* The quantity of a fill and the price of a line are whole numbers.
LEMMA FillWhole ==
  ASSUME PlanInv, NEW i \in Lines, NEW qty \in Quantities
  PROVE  qty \in Nat /\ PriceOf(i) \in Nat /\ cfg.buyFee \in Int /\ cfg.sellFee \in Int
<1>1. buys \in Seq(Level) /\ sells \in Seq(Level) /\ cfg \in Config
  BY DEF PlanInv, Levels, Stepped
<1>2. qty \in Nat
  <2>1. (\A j \in DOMAIN buys : buys[j] \in Level) /\ \A j \in DOMAIN sells : sells[j] \in Level
    BY <1>1, Items
  <2>2. \A l \in Level : l.qty \in Nat
    BY DEF Level
  <2> QED
    BY <2>1, <2>2 DEF Quantities
<1>3. PriceOf(i) \in Nat
  <2>1. /\ i \in Int /\ Anchored(cfg, r) /\ PriceOf(i) = LinePrice(cfg, r, i)
        /\ RawPrice(cfg, r, i).n >= 0
    BY LinesPriced
  <2>2. RawPrice(cfg, r, i).n \in Int /\ RawPrice(cfg, r, i).d \in Nat \ {0}
    BY <2>1, WholePrices
  <2> QED
    BY <2>1, <2>2, Rounded DEF LinePrice
<1> QED
  BY <1>1, <1>2, <1>3, Numbers

\* A fill is stored whole, and a match takes from both sides what both still have.
LEMMA MatchKept == PlanInv /\ MatchInv /\ [Next]_vars => MatchInv'
<1> SUFFICES ASSUME PlanInv, MatchInv, [Next]_vars PROVE MatchInv'
  OBVIOUS
<1>1. /\ fills \in Seq(Row)
      /\ DOMAIN left \subseteq DOMAIN fills
      /\ \A i \in DOMAIN left : left[i] \in 0 .. fills[i].qty
      /\ reporting => DOMAIN left = DOMAIN fills
      /\ report # <<>> => report.fills \in Nat /\ report.fills <= Len(fills)
      /\ Len(fills) \in Nat
  BY DEF MatchInv
<1>0. \A j \in DOMAIN fills : fills[j].qty \in Nat
  <2>1. \A j \in DOMAIN fills : fills[j] \in Row
    BY <1>1, Items
  <2> QED
    BY <2>1 DEF Row
<1>2. CASE UNCHANGED pnlVars
  BY <1>2 DEF MatchInv, pnlVars
<1>3. ASSUME NEW i \in Lines, NEW side \in {"BUY", "SELL"}, NEW qty \in Quantities,
             LineFilled(i, side, qty)
      PROVE  MatchInv'
  <2> DEFINE fee == PriceOf(i) * (IF side = "BUY" THEN cfg.buyFee ELSE cfg.sellFee)
             row == [side |-> side, price |-> PriceOf(i), qty |-> qty, fee |-> fee]
  <2>1. /\ ~reporting /\ fills' = Append(fills, row)
        /\ UNCHANGED <<reporting, left, matches, report>>
    BY <1>3 DEF LineFilled, StoreFill
  <2>2. qty \in Nat /\ PriceOf(i) \in Nat /\ fee \in Int
    BY FillWhole
  <2>3. row \in Row
    BY <2>2 DEF Row
  <2> HIDE DEF row
  <2>4. /\ fills' \in Seq(Row) /\ Len(fills') = Len(fills) + 1
        /\ \A j \in DOMAIN fills : j \in DOMAIN fills' /\ fills'[j] = fills[j]
    BY <1>1, <2>1, <2>3
  <2>5. \A j \in DOMAIN left : j \in DOMAIN fills' /\ left[j] \in 0 .. fills'[j].qty
    BY <1>1, <2>4
  <2>6. report # <<>> => report.fills <= Len(fills')
    BY <1>1, <2>4
  <2> QED
    BY <1>1, <2>1, <2>4, <2>5, <2>6 DEF MatchInv
<1>4. CASE StartReport
  <2>1. /\ reporting' = TRUE /\ left' = [j \in DOMAIN fills |-> fills[j].qty]
        /\ UNCHANGED <<fills, report>>
    BY <1>4 DEF StartReport, Quantity
  <2>2. \A j \in DOMAIN fills : fills[j].qty \in Nat
    BY <1>0
  <2>3. DOMAIN left' = DOMAIN fills /\ \A j \in DOMAIN left' : left'[j] \in 0 .. fills[j].qty
    BY <2>1, <2>2
  <2> QED
    BY <1>1, <2>1, <2>3 DEF MatchInv
<1>5. CASE MatchClosest
  <2> DEFINE p == BestPair
             qty == Smaller(left[p[1]], left[p[2]])
  <2>1. /\ reporting /\ Open # {} /\ UNCHANGED <<fills, reporting, report>>
        /\ left' = [left EXCEPT ![p[1]] = @ - qty, ![p[2]] = @ - qty]
    BY <1>5 DEF MatchClosest
  <2>2. p[1] \in DOMAIN fills /\ p[2] \in DOMAIN fills /\ p[1] # p[2]
    BY <2>1, BestIsOpen, OpenPair
  <2> HIDE DEF p
  <2>3. \A j \in DOMAIN fills : fills[j].qty \in Nat /\ left[j] \in 0 .. fills[j].qty
    BY <1>0, <1>1, <2>1
  <2>4. qty \in Nat /\ qty <= left[p[1]] /\ qty <= left[p[2]]
    BY <2>2, <2>3 DEF Smaller
  <2> HIDE DEF qty
  <2>5. DOMAIN left' = DOMAIN fills
    BY <1>1, <2>1
  <2>6. ASSUME NEW j \in DOMAIN fills PROVE left'[j] \in 0 .. fills[j].qty
    <3>1. left'[j] = IF j = p[1] \/ j = p[2] THEN left[j] - qty ELSE left[j]
      BY <1>1, <2>1, <2>2
    <3> QED
      BY <2>3, <2>4, <3>1
  <2> QED
    BY <1>1, <2>1, <2>5, <2>6 DEF MatchInv
<1>6. CASE EndReport(D)
  <2>1. /\ UNCHANGED <<fills, left>> /\ reporting' = FALSE /\ report'.fills = Len(fills)
    BY <1>6 DEF EndReport
  <2> QED
    BY <1>1, <2>1 DEF MatchInv
<1>7. Plan \/ UNCHANGED vars => UNCHANGED pnlVars
  BY DEF Plan, vars
<1> QED
  BY <1>2, <1>3, <1>4, <1>5, <1>6, <1>7 DEF Next, Fill, Start, Match, End

-----------------------------------------------------------------------------
(* What is matched *)

Pair == [buy : Nat, sell : Nat, qty : Nat]
Counting(side) == Of(side) \cap DOMAIN left

(* A match is a BUY with a dearer SELL, and no BUY between the two prices   *)
(* has anything left: it would have been closer.                            *)
Paired ==
    /\ matches \in Seq(Pair)
    /\ \A m \in DOMAIN matches :
          /\ matches[m].buy \in Counting("BUY") /\ matches[m].sell \in Counting("SELL")
          /\ fills[matches[m].buy].price < fills[matches[m].sell].price
          /\ \A b \in Counting("BUY") :
                left[b] > 0 /\ fills[b].price > fills[matches[m].buy].price
                  => fills[b].price >= fills[matches[m].sell].price

(* What is matched of some fills and what is left of them is all of them.   *)
Balanced ==
    /\ \A B \in SUBSET Counting("BUY") :
          SumFunctionOnSet(left, B)
            + SumFunctionOnSet(Taken, {m \in DOMAIN matches : matches[m].buy \in B})
          = SumFunctionOnSet(Quantity, B)
    /\ \A B \in SUBSET Counting("SELL") :
          SumFunctionOnSet(left, B)
            + SumFunctionOnSet(Taken, {m \in DOMAIN matches : matches[m].sell \in B})
          = SumFunctionOnSet(Quantity, B)

(* A report is about the fills it counted, and no excess of them is larger  *)
(* than what it left.                                                       *)
Reported ==
    /\ report # <<>> /\ ~reporting /\ report.fills = Len(fills) =>
          /\ Open = {} /\ DOMAIN left = DOMAIN fills
          /\ report.buyLeft = SumFunctionOnSet(left, Of("BUY"))
    /\ report # <<>> =>
          /\ report.buyLeft \in Nat
          /\ \A p \in Int : BoughtAt(p, report.fills) - SoldAbove(p, report.fills)
                              <= report.buyLeft

ReportInv == MatchInv /\ Paired /\ Balanced /\ Reported

\* What is summed: whole numbers, over finite sets.
LEMMA Summed ==
  ASSUME MatchInv
  PROVE  /\ IsFiniteSet(DOMAIN fills) /\ Len(fills) \in Nat /\ DOMAIN fills = 1 .. Len(fills)
         /\ \A side : IsFiniteSet(Of(side)) /\ Of(side) \subseteq DOMAIN fills
         /\ \A i \in DOMAIN fills : Quantity[i] \in Nat /\ fills[i].price \in Nat
         /\ \A i \in DOMAIN left : left[i] \in Nat
<1>1. fills \in Seq(Row)
  BY DEF MatchInv
<1>2. Len(fills) \in Nat /\ DOMAIN fills = 1 .. Len(fills)
  BY <1>1
<1>3. IsFiniteSet(DOMAIN fills)
  BY <1>2, FS_Interval
<1>4. \A side : IsFiniteSet(Of(side)) /\ Of(side) \subseteq DOMAIN fills
  <2> TAKE side
  <2>1. Of(side) \in SUBSET DOMAIN fills
    BY DEF Of
  <2> QED
    BY <1>3, <2>1, FS_Subset
<1>5. \A i \in DOMAIN fills : fills[i].qty \in Nat /\ fills[i].price \in Nat
  <2>1. \A i \in DOMAIN fills : fills[i] \in Row
    BY <1>1, Items
  <2> QED
    BY <2>1 DEF Row
<1>6. \A i \in DOMAIN left : left[i] \in Nat
  BY <1>5 DEF MatchInv
<1> QED
  BY <1>2, <1>3, <1>4, <1>5, <1>6 DEF Quantity

\* And so are the matches.
LEMMA TakenSummed ==
  ASSUME Paired
  PROVE  /\ IsFiniteSet(DOMAIN matches) /\ Len(matches) \in Nat
         /\ DOMAIN matches = 1 .. Len(matches)
         /\ \A m \in DOMAIN matches : Taken[m] \in Nat /\ matches[m] \in Pair
<1>1. matches \in Seq(Pair)
  BY DEF Paired
<1>2. Len(matches) \in Nat /\ DOMAIN matches = 1 .. Len(matches)
  BY <1>1
<1>3. \A m \in DOMAIN matches : matches[m] \in Pair
  BY <1>1, Items
<1> QED
  BY <1>2, <1>3, FS_Interval DEF Taken, Pair

\* What was bought at or above a price and not sold above it is left.
LEMMA ExcessLeft ==
  ASSUME MatchInv, Paired, Balanced, DOMAIN left = DOMAIN fills, NEW p \in Int
  PROVE  /\ BoughtAt(p, Len(fills)) - SoldAbove(p, Len(fills))
              <= SumFunctionOnSet(left, Of("BUY"))
         /\ SumFunctionOnSet(left, Of("BUY")) \in Nat
<1> DEFINE B == {i \in Of("BUY") : i <= Len(fills) /\ fills[i].price >= p}
           S == {i \in Of("SELL") : i <= Len(fills) /\ fills[i].price > p}
           M == {m \in DOMAIN matches : matches[m].buy \in B}
           W == {m \in DOMAIN matches : matches[m].sell \in S}
           all == SumFunctionOnSet(left, Of("BUY"))
           lb == SumFunctionOnSet(left, B)
           ls == SumFunctionOnSet(left, S)
           tb == SumFunctionOnSet(Taken, M)
           ts == SumFunctionOnSet(Taken, W)
           qb == SumFunctionOnSet(Quantity, B)
           qs == SumFunctionOnSet(Quantity, S)
<1>1. /\ IsFiniteSet(Of("BUY")) /\ Of("BUY") \subseteq DOMAIN fills
      /\ IsFiniteSet(Of("SELL")) /\ Of("SELL") \subseteq DOMAIN fills
      /\ \A i \in DOMAIN fills : Quantity[i] \in Nat /\ left[i] \in Nat
      /\ DOMAIN fills = 1 .. Len(fills) /\ \A i \in DOMAIN fills : fills[i].price \in Nat
  BY Summed
<1>2. B \in SUBSET Of("BUY") /\ S \in SUBSET Of("SELL")
  OBVIOUS
<1>3. IsFiniteSet(B) /\ IsFiniteSet(S)
  BY <1>1, <1>2, FS_Subset
<1>4. B \in SUBSET Counting("BUY") /\ S \in SUBSET Counting("SELL")
  BY <1>1, <1>2 DEF Counting
<1>5. lb + tb = qb /\ ls + ts = qs
  <2>1. lb + tb = qb
    BY <1>4 DEF Balanced
  <2>2. ls + ts = qs
    BY <1>4 DEF Balanced
  <2> QED
    BY <2>1, <2>2
<1>6. /\ IsFiniteSet(DOMAIN matches)
      /\ \A m \in DOMAIN matches : Taken[m] \in Nat
  BY TakenSummed
<1>7. M \in SUBSET W
  <2> SUFFICES ASSUME NEW m \in M PROVE m \in W
    OBVIOUS
  <2>1. /\ matches[m].buy \in B /\ matches[m].sell \in Of("SELL")
        /\ fills[matches[m].buy].price < fills[matches[m].sell].price
    BY DEF Paired, Counting
  <2>2. /\ matches[m].sell \in DOMAIN fills /\ matches[m].buy \in DOMAIN fills
        /\ fills[matches[m].buy].price >= p
    BY <1>1, <2>1
  <2>3. fills[matches[m].sell].price > p
    BY <1>1, <2>1, <2>2
  <2>4. matches[m].sell <= Len(fills)
    BY <1>1, <2>2
  <2> QED
    BY <2>1, <2>3, <2>4
<1>8. W \in SUBSET DOMAIN matches /\ IsFiniteSet(W) /\ IsFiniteSet(M)
  <2>1. W \in SUBSET DOMAIN matches /\ M \in SUBSET DOMAIN matches
    OBVIOUS
  <2> QED
    BY <1>6, <2>1, FS_Subset
<1> HIDE DEF B, S, M, W
<1>9. tb <= ts
  <2>1. \A m \in W : Taken[m] \in Nat
    BY <1>6, <1>8
  <2> QED
    BY <1>7, <1>8, <2>1, SumPart
<1>10. lb <= all /\ all \in Nat
  <2>1. \A i \in Of("BUY") : left[i] \in Nat
    BY <1>1
  <2>2. all \in Int /\ all >= 0
    <3>1. \A i \in Of("BUY") : left[i] \in Int /\ left[i] >= 0
      BY <2>1
    <3> QED
      BY <1>1, <3>1, SumType
  <2> QED
    BY <1>1, <1>2, <2>1, <2>2, SumPart
<1>11. ls \in Int /\ ls >= 0
  <2>1. \A i \in S : left[i] \in Int /\ left[i] >= 0
    BY <1>1, <1>2
  <2> QED
    BY <1>3, <2>1, SumType
<1>12. lb \in Int /\ tb \in Int /\ ts \in Int
  <2>1. \A i \in B : left[i] \in Int
    BY <1>1, <1>2
  <2>2. (\A m \in W : Taken[m] \in Int) /\ \A m \in M : Taken[m] \in Int
    BY <1>6, <1>7, <1>8
  <2> QED
    BY <1>3, <1>8, <2>1, <2>2, SumType
<1>13. BoughtAt(p, Len(fills)) = qb /\ SoldAbove(p, Len(fills)) = qs
  BY DEF BoughtAt, SoldAbove, B, S
<1> HIDE DEF all, lb, ls, tb, ts, qb, qs
<1>14. qb - qs <= all
  BY <1>5, <1>9, <1>10, <1>11, <1>12
<1> QED
  BY <1>10, <1>13, <1>14 DEF all

\* When nothing can be matched any more, all that is left is the excess at one price.
LEMMA ExcessFound ==
  ASSUME MatchInv, Paired, Balanced, DOMAIN left = DOMAIN fills, Open = {},
         SumFunctionOnSet(left, Of("BUY")) # 0
  PROVE  \E i \in Of("BUY") :
            BoughtAt(fills[i].price, Len(fills)) - SoldAbove(fills[i].price, Len(fills))
              = SumFunctionOnSet(left, Of("BUY"))
<1>1. /\ IsFiniteSet(Of("BUY")) /\ Of("BUY") \subseteq DOMAIN fills
      /\ IsFiniteSet(Of("SELL")) /\ Of("SELL") \subseteq DOMAIN fills
      /\ \A i \in DOMAIN fills : Quantity[i] \in Nat /\ left[i] \in Nat
      /\ DOMAIN fills = 1 .. Len(fills) /\ \A i \in DOMAIN fills : fills[i].price \in Nat
      /\ Len(fills) \in Nat
  BY Summed
<1> DEFINE open == {i \in Of("BUY") : left[i] > 0}
           prices == {fills[i].price : i \in open}
\* The cheapest BUY that has something left.
<1>2. PICK i \in open : \A b \in open : fills[i].price <= fills[b].price
  <2>1. open # {}
    <3> SUFFICES ASSUME open = {} PROVE FALSE
      OBVIOUS
    <3>1. \A b \in Of("BUY") \ {} : left[b] = 0
      BY <1>1
    <3>2. \A b \in Of("BUY") : left[b] \in Int
      BY <1>1
    <3>3. SumFunctionOnSet(left, Of("BUY")) = SumFunctionOnSet(left, {})
      <4>1. {} \in SUBSET Of("BUY")
        OBVIOUS
      <4> QED
        BY <1>1, <3>1, <3>2, <4>1, SumZeros
    <3>4. SumFunctionOnSet(left, {}) = 0
      BY FS_EmptySet, SumType
    <3> QED
      BY <3>3, <3>4
  <2>2. prices \subseteq Nat /\ prices # {}
    BY <1>1, <2>1
  <2>3. PICK x \in prices : \A y \in prices : x <= y
    <3> HIDE DEF prices
    <3> QED
      BY <2>2, Least
  <2> QED
    BY <2>3
<1> DEFINE p == fills[i].price
           B == {b \in Of("BUY") : b <= Len(fills) /\ fills[b].price >= p}
           S == {s \in Of("SELL") : s <= Len(fills) /\ fills[s].price > p}
           M == {m \in DOMAIN matches : matches[m].buy \in B}
           W == {m \in DOMAIN matches : matches[m].sell \in S}
<1>3. p \in Nat /\ left[i] > 0 /\ i \in Of("BUY") /\ i \in DOMAIN fills
  BY <1>1, <1>2
<1>4. B \in SUBSET Counting("BUY") /\ S \in SUBSET Counting("SELL")
  BY <1>1 DEF Counting
<1>5. B \in SUBSET Of("BUY") /\ S \in SUBSET Of("SELL") /\ IsFiniteSet(B) /\ IsFiniteSet(S)
  <2>1. B \in SUBSET Of("BUY") /\ S \in SUBSET Of("SELL")
    OBVIOUS
  <2> HIDE DEF B, S
  <2> QED
    BY <1>1, <2>1, FS_Subset
<1>6. SumFunctionOnSet(left, Of("BUY")) = SumFunctionOnSet(left, B)
  <2>1. \A b \in Of("BUY") \ B : left[b] = 0
    <3> SUFFICES ASSUME NEW b \in Of("BUY") \ B, left[b] # 0 PROVE FALSE
      OBVIOUS
    <3>1. b \in DOMAIN fills /\ left[b] \in Nat /\ b <= Len(fills) /\ fills[b].price \in Nat
      BY <1>1
    <3>2. b \in open
      BY <3>1
    <3>3. fills[i].price <= fills[b].price
      BY <1>2, <3>2
    <3> QED
      BY <1>3, <3>1, <3>3
  <2>2. \A b \in Of("BUY") : left[b] \in Int
    BY <1>1
  <2> HIDE DEF B
  <2> QED
    BY <1>1, <1>5, <2>1, <2>2, SumZeros
<1>7. \A s \in S : left[s] = 0
  <2> SUFFICES ASSUME NEW s \in S, left[s] # 0 PROVE FALSE
    OBVIOUS
  <2>1. s \in Of("SELL") /\ fills[s].price > p /\ left[s] \in Nat
    BY <1>1
  <2>2. <<i, s>> \in Open
    <3> DEFINE q == <<i, s>>
    <3>1. q \in Of("BUY") \X Of("SELL") /\ q[1] = i /\ q[2] = s
      BY <1>3, <2>1
    <3>2. left[s] > 0
      BY <2>1
    <3>3. fills[i].price < fills[s].price
      BY <1>1, <1>3, <2>1
    <3> HIDE DEF q
    <3> QED
      BY <1>3, <3>1, <3>2, <3>3 DEF Open, q
  <2> QED
    BY <2>2
<1>8. M = W
  <2>1. ASSUME NEW m \in DOMAIN matches PROVE matches[m].buy \in B <=> matches[m].sell \in S
    <3> DEFINE b == matches[m].buy
               s == matches[m].sell
    <3>1. /\ b \in Of("BUY") /\ s \in Of("SELL") /\ fills[b].price < fills[s].price
          /\ \A x \in Counting("BUY") : left[x] > 0 /\ fills[x].price > fills[b].price
                => fills[x].price >= fills[s].price
      BY DEF Paired, Counting
    <3>2. /\ b \in DOMAIN fills /\ s \in DOMAIN fills
          /\ b <= Len(fills) /\ s <= Len(fills)
          /\ fills[b].price \in Nat /\ fills[s].price \in Nat
      BY <1>1, <3>1
    <3>3. i \in Counting("BUY")
      BY <1>3 DEF Counting
    <3>4. p > fills[b].price => p >= fills[s].price
      BY <1>3, <3>1, <3>3
    <3> HIDE DEF b, s
    <3>5. fills[b].price >= p <=> fills[s].price > p
      <4> HIDE DEF p
      <4> QED
        BY <1>3, <3>1, <3>2, <3>4
    <3>6. (b \in B <=> fills[b].price >= p) /\ (s \in S <=> fills[s].price > p)
      BY <3>1, <3>2
    <3> QED
      BY <3>5, <3>6 DEF b, s
  <2> QED
    BY <2>1
<1> DEFINE all == SumFunctionOnSet(left, Of("BUY"))
           lb == SumFunctionOnSet(left, B)
           ls == SumFunctionOnSet(left, S)
           tb == SumFunctionOnSet(Taken, M)
           ts == SumFunctionOnSet(Taken, W)
           qb == SumFunctionOnSet(Quantity, B)
           qs == SumFunctionOnSet(Quantity, S)
<1>9. lb + tb = qb /\ ls + ts = qs
  <2>1. lb + tb = qb
    BY <1>4 DEF Balanced
  <2>2. ls + ts = qs
    BY <1>4 DEF Balanced
  <2> QED
    BY <2>1, <2>2
<1>10. tb = ts
  <2> HIDE DEF M, W
  <2> QED
    BY <1>8
<1>11. tb \in Int
  <2>1. IsFiniteSet(DOMAIN matches) /\ \A m \in DOMAIN matches : Taken[m] \in Nat
    BY TakenSummed
  <2>2. M \in SUBSET DOMAIN matches
    OBVIOUS
  <2> HIDE DEF M
  <2>3. IsFiniteSet(M) /\ \A m \in M : Taken[m] \in Int
    BY <2>1, <2>2, FS_Subset
  <2> QED
    BY <2>3, SumType
<1> HIDE DEF B, S, M, W
<1>12. ls = 0
  <2>1. SumFunctionOnSet(left, S) = SumFunctionOnSet(left, {})
    <3>1. {} \in SUBSET S /\ (\A s \in S \ {} : left[s] = 0) /\ \A s \in S : left[s] \in Int
      BY <1>7
    <3> QED
      BY <1>5, <3>1, SumZeros
  <2>2. SumFunctionOnSet(left, {}) = 0
    BY FS_EmptySet, SumType
  <2> QED
    BY <2>1, <2>2
<1>13. lb \in Int
  <2>1. \A b \in B : left[b] \in Int
    BY <1>1, <1>5
  <2> QED
    BY <1>5, <2>1, SumType
<1>14. BoughtAt(p, Len(fills)) = qb /\ SoldAbove(p, Len(fills)) = qs
  BY DEF BoughtAt, SoldAbove, B, S
<1>15. all = lb
  BY <1>6
<1> HIDE DEF all, lb, ls, tb, ts, qb, qs
<1>16. qb - qs = all
  BY <1>9, <1>10, <1>11, <1>12, <1>13, <1>15
<1> QED
  BY <1>3, <1>14, <1>16 DEF all

\* A sum from which a quantity is taken at one element.
LEMMA SumLess ==
  ASSUME NEW B, IsFiniteSet(B), NEW g, NEW h, NEW e, NEW qty \in Int,
         \A x \in B : g[x] \in Int /\ h[x] = IF x = e THEN g[x] - qty ELSE g[x]
  PROVE  SumFunctionOnSet(h, B) = SumFunctionOnSet(g, B) - (IF e \in B THEN qty ELSE 0)
<1>1. CASE e \notin B
  <2>1. \A x \in B : g[x] \in Int /\ h[x] = g[x]
    BY <1>1
  <2>2. SumFunctionOnSet(h, B) = SumFunctionOnSet(g, B) /\ SumFunctionOnSet(g, B) \in Int
    BY <2>1, SumSame, SumType
  <2> QED
    BY <1>1, <2>2
<1>2. CASE e \in B
  <2>1. SumFunctionOnSet(g, B) = g[e] + SumFunctionOnSet(g, B \ {e})
    <3>1. \A x \in B : g[x] \in Int
      OBVIOUS
    <3> QED
      BY <1>2, <3>1, SumStep
  <2>2. SumFunctionOnSet(h, B) = h[e] + SumFunctionOnSet(h, B \ {e})
    <3>1. \A x \in B : h[x] \in Int
      OBVIOUS
    <3> QED
      BY <1>2, <3>1, SumStep
  <2>3. /\ SumFunctionOnSet(h, B \ {e}) = SumFunctionOnSet(g, B \ {e})
        /\ SumFunctionOnSet(g, B \ {e}) \in Int
    <3>1. \A x \in B \ {e} : g[x] \in Int /\ h[x] = g[x]
      OBVIOUS
    <3> QED
      BY <3>1, FS_Subset, SumSame, SumType
  <2>4. g[e] \in Int /\ h[e] = g[e] - qty
    BY <1>2
  <2> QED
    BY <1>2, <2>1, <2>2, <2>3, <2>4
<1> QED
  BY <1>1, <1>2

\* A fill stored after a report changes nothing of what the report counted.
LEMMA StoredLater ==
  ASSUME PlanInv, ReportInv,
         NEW i \in Lines, NEW side \in {"BUY", "SELL"}, NEW qty \in Quantities,
         LineFilled(i, side, qty)
  PROVE  Paired' /\ Balanced' /\ Reported'
<1> DEFINE fee == PriceOf(i) * (IF side = "BUY" THEN cfg.buyFee ELSE cfg.sellFee)
           row == [side |-> side, price |-> PriceOf(i), qty |-> qty, fee |-> fee]
<1>1. /\ ~reporting /\ fills' = Append(fills, row)
      /\ UNCHANGED <<reporting, left, matches, report>>
  BY DEF LineFilled, StoreFill
<1>2. MatchInv /\ Paired /\ Balanced /\ Reported
  BY DEF ReportInv
<1>3. qty \in Nat /\ PriceOf(i) \in Nat /\ fee \in Int
  BY FillWhole
<1>4. row \in Row
  BY <1>3 DEF Row
<1> HIDE DEF row
<1>5. fills \in Seq(Row) /\ DOMAIN left \subseteq DOMAIN fills
  BY <1>2 DEF MatchInv
<1>6. /\ Len(fills) \in Nat /\ Len(fills') = Len(fills) + 1
      /\ DOMAIN fills = 1 .. Len(fills) /\ DOMAIN fills' = 1 .. Len(fills) + 1
      /\ \A j \in DOMAIN fills : j \in DOMAIN fills' /\ fills'[j] = fills[j]
  BY <1>1, <1>4, <1>5
<1>7. \A j \in DOMAIN fills : Quantity'[j] = Quantity[j] /\ Quantity[j] \in Nat
  BY <1>2, <1>6, Summed DEF Quantity
<1>8. \A b \in {"BUY", "SELL"} : Counting(b)' = Counting(b)
  BY <1>1, <1>5, <1>6 DEF Counting, Of
<1>9. \A B \in SUBSET DOMAIN fills : SumFunctionOnSet(Quantity', B) = SumFunctionOnSet(Quantity, B)
  <2> TAKE B \in SUBSET DOMAIN fills
  <2>1. IsFiniteSet(B)
    BY <1>2, Summed, FS_Subset
  <2>2. \A j \in B : Quantity[j] \in Int /\ Quantity'[j] = Quantity[j]
    BY <1>7
  <2> QED
    BY <2>1, <2>2, SumSame
<1>10. Taken' = Taken
  BY <1>1 DEF Taken
<1>11. Paired'
  <2>1. \A b \in Counting("BUY") \cup Counting("SELL") : fills'[b] = fills[b]
    BY <1>5, <1>6 DEF Counting
  <2>2. ASSUME NEW m \in DOMAIN matches
        PROVE  /\ matches[m].buy \in Counting("BUY")' /\ matches[m].sell \in Counting("SELL")'
               /\ fills'[matches[m].buy].price < fills'[matches[m].sell].price
               /\ \A b \in Counting("BUY")' :
                     left[b] > 0 /\ fills'[b].price > fills'[matches[m].buy].price
                       => fills'[b].price >= fills'[matches[m].sell].price
    BY <1>2, <1>8, <2>1 DEF Paired
  <2>3. matches \in Seq(Pair)
    BY <1>2 DEF Paired
  <2> QED
    BY <1>1, <2>2, <2>3 DEF Paired
<1>12. Balanced'
  <2>1. Counting("BUY") \subseteq DOMAIN fills /\ Counting("SELL") \subseteq DOMAIN fills
    BY <1>5 DEF Counting
  <2>2. \A B \in SUBSET Counting("BUY")' :
          SumFunctionOnSet(left', B)
            + SumFunctionOnSet(Taken', {m \in DOMAIN matches' : matches'[m].buy \in B})
          = SumFunctionOnSet(Quantity', B)
    BY <1>1, <1>2, <1>8, <1>9, <1>10, <2>1 DEF Balanced
  <2>3. \A B \in SUBSET Counting("SELL")' :
          SumFunctionOnSet(left', B)
            + SumFunctionOnSet(Taken', {m \in DOMAIN matches' : matches'[m].sell \in B})
          = SumFunctionOnSet(Quantity', B)
    BY <1>1, <1>2, <1>8, <1>9, <1>10, <2>1 DEF Balanced
  <2> QED
    BY <2>2, <2>3 DEF Balanced
<1>13. Reported'
  <2>1. report # <<>> => report.fills \in Nat /\ report.fills <= Len(fills)
    BY <1>2 DEF MatchInv
  <2>2. ASSUME report # <<>>, NEW p \in Int
        PROVE  BoughtAt(p, report.fills)' - SoldAbove(p, report.fills)' <= report.buyLeft
    <3> DEFINE B == {b \in Of("BUY") : b <= report.fills /\ fills[b].price >= p}
               S == {b \in Of("SELL") : b <= report.fills /\ fills[b].price > p}
    <3>1. B \in SUBSET DOMAIN fills /\ S \in SUBSET DOMAIN fills
      BY DEF Of
    <3>2. /\ {b \in Of("BUY")' : b <= report.fills /\ fills'[b].price >= p} = B
          /\ {b \in Of("SELL")' : b <= report.fills /\ fills'[b].price > p} = S
      BY <1>6, <2>1, <2>2 DEF Of
    <3> HIDE DEF B, S
    <3>3. BoughtAt(p, report.fills)' = SumFunctionOnSet(Quantity, B)
      BY <1>1, <1>9, <3>1, <3>2 DEF BoughtAt
    <3>4. SoldAbove(p, report.fills)' = SumFunctionOnSet(Quantity, S)
      BY <1>1, <1>9, <3>1, <3>2 DEF SoldAbove
    <3>5. BoughtAt(p, report.fills) - SoldAbove(p, report.fills) <= report.buyLeft
      BY <1>2, <2>2 DEF Reported
    <3> QED
      BY <3>3, <3>4, <3>5 DEF BoughtAt, SoldAbove, B, S
  <2>3. report # <<>> => report.buyLeft \in Nat /\ report.fills # Len(fills')
    BY <1>2, <1>6, <2>1 DEF Reported
  <2> QED
    BY <1>1, <2>2, <2>3 DEF Reported
<1> QED
  BY <1>11, <1>12, <1>13

\* A report starts with everything left and nothing matched.
LEMMA StartedWhole ==
  ASSUME ReportInv, StartReport
  PROVE  Paired' /\ Balanced' /\ Reported'
<1>1. /\ reporting' /\ left' = Quantity /\ matches' = <<>> /\ UNCHANGED <<fills, report>>
  BY DEF StartReport
<1>2. MatchInv /\ Reported
  BY DEF ReportInv
<1>3. Quantity' = Quantity /\ DOMAIN Quantity = DOMAIN fills /\ DOMAIN matches' = {}
  BY <1>1 DEF Quantity
<1>4. \A m \in {} : Taken'[m] \in Int
  OBVIOUS
<1>5. SumFunctionOnSet(Taken', {}) = 0
  BY <1>4, FS_EmptySet, SumType
<1>6. ASSUME NEW B \in SUBSET DOMAIN fills
      PROVE  SumFunctionOnSet(left', B) + 0 = SumFunctionOnSet(Quantity', B)
  <2>1. IsFiniteSet(B)
    BY <1>2, Summed, FS_Subset
  <2>2. \A j \in B : Quantity[j] \in Int
    BY <1>2, Summed
  <2>3. SumFunctionOnSet(Quantity, B) \in Int
    BY <2>1, <2>2, SumType
  <2> QED
    BY <1>1, <1>3, <2>3
<1>7. \A b : Counting(b)' \subseteq DOMAIN fills
  BY <1>1, <1>3 DEF Counting
<1>8. Balanced'
  <2>1. \A B : /\ {m \in DOMAIN matches' : matches'[m].buy \in B} = {}
               /\ {m \in DOMAIN matches' : matches'[m].sell \in B} = {}
    BY <1>3
  <2> QED
    BY <1>5, <1>6, <1>7, <2>1 DEF Balanced
<1>9. Paired'
  BY <1>1, <1>3 DEF Paired
<1>10. Reported'
  <2>1. \A p, n : BoughtAt(p, n)' = BoughtAt(p, n) /\ SoldAbove(p, n)' = SoldAbove(p, n)
    BY <1>1, <1>3 DEF BoughtAt, SoldAbove, Of
  <2>2. report # <<>> =>
          /\ report.buyLeft \in Nat
          /\ \A p \in Int : BoughtAt(p, report.fills)' - SoldAbove(p, report.fills)'
                              <= report.buyLeft
    BY <1>1, <1>2, <1>3 DEF Reported, BoughtAt, SoldAbove, Of
  <2> QED
    BY <1>1, <2>2 DEF Reported
<1> QED
  BY <1>8, <1>9, <1>10

\* The closest pair is matched: the balance stays, and nothing open is between its prices.
LEMMA MatchedClosest ==
  ASSUME ReportInv, MatchClosest
  PROVE  Paired' /\ Balanced' /\ Reported'
<1> DEFINE p == BestPair
           qty == Smaller(left[p[1]], left[p[2]])
           pair == [buy |-> p[1], sell |-> p[2], qty |-> qty]
           n == Len(matches) + 1
<1>1. /\ reporting /\ Open # {} /\ UNCHANGED <<fills, reporting, report>>
      /\ matches' = Append(matches, pair)
      /\ left' = [left EXCEPT ![p[1]] = @ - qty, ![p[2]] = @ - qty]
  BY DEF MatchClosest
<1>2. MatchInv /\ Paired /\ Balanced /\ Reported
  BY DEF ReportInv
<1>3. p \in Open /\ \A q \in Open : Before(p, q)
  BY <1>1, <1>2, BestIsOpen
<1>4. p = <<p[1], p[2]>> /\ p[1] \in Nat /\ p[2] \in Nat /\ p[1] # p[2]
  BY <1>2, <1>3, OpenPair
<1> HIDE DEF p
<1>5. /\ p[1] \in Of("BUY") /\ p[2] \in Of("SELL") /\ left[p[1]] > 0 /\ left[p[2]] > 0
      /\ fills[p[1]].price < fills[p[2]].price
  BY <1>3, <1>4 DEF Open
<1>6. /\ DOMAIN left = DOMAIN fills
      /\ \A j \in DOMAIN fills : left[j] \in Nat /\ fills[j].price \in Nat
      /\ \A side : IsFiniteSet(Of(side)) /\ Of(side) \subseteq DOMAIN fills
  BY <1>1, <1>2, Summed DEF MatchInv
<1>7. qty \in Nat /\ qty <= left[p[1]] /\ qty <= left[p[2]]
  BY <1>5, <1>6 DEF Smaller
<1>8. pair \in Pair /\ pair.buy = p[1] /\ pair.sell = p[2] /\ pair.qty = qty
  BY <1>4, <1>7 DEF Pair
<1> HIDE DEF qty, pair
<1>9. /\ DOMAIN left' = DOMAIN fills
      /\ \A j \in DOMAIN fills :
            left'[j] = IF j = p[1] \/ j = p[2] THEN left[j] - qty ELSE left[j]
  BY <1>1, <1>4, <1>6
<1>10. /\ Of("BUY")' = Of("BUY") /\ Of("SELL")' = Of("SELL")
       /\ Counting("BUY") = Of("BUY") /\ Counting("SELL") = Of("SELL")
       /\ Counting("BUY")' = Of("BUY") /\ Counting("SELL")' = Of("SELL")
  BY <1>1, <1>6, <1>9 DEF Counting, Of
<1>11. /\ IsFiniteSet(DOMAIN matches) /\ Len(matches) \in Nat
       /\ DOMAIN matches = 1 .. Len(matches) /\ matches \in Seq(Pair)
       /\ \A m \in DOMAIN matches : Taken[m] \in Nat
  BY <1>2, TakenSummed DEF Paired
<1>12. /\ matches' \in Seq(Pair) /\ DOMAIN matches' = DOMAIN matches \cup {n}
       /\ n \notin DOMAIN matches /\ matches'[n] = pair
       /\ \A m \in DOMAIN matches : matches'[m] = matches[m]
  BY <1>1, <1>8, <1>11
<1>13. Taken'[n] = qty /\ \A m \in DOMAIN matches : Taken'[m] = Taken[m]
  BY <1>8, <1>12 DEF Taken
<1> HIDE DEF n
\* What was open between the prices of the pair would have been closer.
<1>14. ASSUME NEW b \in Of("BUY"), left[b] > 0, fills[b].price > fills[p[1]].price
       PROVE  fills[b].price >= fills[p[2]].price
  <2> SUFFICES ASSUME fills[b].price < fills[p[2]].price PROVE FALSE
    BY <1>5, <1>6
  <2> DEFINE q == <<b, p[2]>>
  <2>1. q \in Of("BUY") \X Of("SELL") /\ q[1] = b /\ q[2] = p[2]
    BY <1>5
  <2> HIDE DEF q
  <2>2. q \in Open
    BY <1>5, <1>14, <2>1 DEF Open
  <2>3. Gap(p) <= Gap(q)
    <3>1. Before(p, q)
      BY <1>3, <2>2
    <3>2. Gap(p) \in Nat /\ Gap(q) \in Nat
      BY <1>2, <1>3, <2>2, OpenPair
    <3> QED
      BY <3>1, <3>2 DEF Before
  <2>4. Gap(q) = fills[p[2]].price - fills[b].price
        /\ Gap(p) = fills[p[2]].price - fills[p[1]].price
    BY <2>1 DEF Gap
  <2>5. fills[b].price \in Nat /\ fills[p[1]].price \in Nat /\ fills[p[2]].price \in Nat
    BY <1>5, <1>6
  <2> QED
    BY <1>14, <2>3, <2>4, <2>5
<1>15. Paired'
  <2>1. ASSUME NEW b \in Of("BUY"), left'[b] > 0 PROVE left[b] > 0
    <3>1. b \in DOMAIN fills
      BY <1>6
    <3> QED
      BY <1>6, <1>7, <1>9, <2>1, <3>1
  <2>2. ASSUME NEW m \in DOMAIN matches'
        PROVE  /\ matches'[m].buy \in Of("BUY") /\ matches'[m].sell \in Of("SELL")
               /\ fills[matches'[m].buy].price < fills[matches'[m].sell].price
               /\ \A b \in Of("BUY") :
                     left'[b] > 0 /\ fills[b].price > fills[matches'[m].buy].price
                       => fills[b].price >= fills[matches'[m].sell].price
    <3>1. CASE m = n
      BY <1>5, <1>8, <1>12, <1>14, <2>1, <3>1
    <3>2. CASE m \in DOMAIN matches
      BY <1>2, <1>10, <1>12, <2>1, <3>2 DEF Paired
    <3> QED
      BY <1>12, <3>1, <3>2
  <2> QED
    BY <1>1, <1>10, <1>12, <2>2 DEF Paired
<1>16. Balanced'
  <2>1. ASSUME NEW B \in SUBSET Of("BUY")
        PROVE  SumFunctionOnSet(left', B)
                 + SumFunctionOnSet(Taken', {m \in DOMAIN matches' : matches'[m].buy \in B})
               = SumFunctionOnSet(Quantity', B)
    <3> DEFINE K == {m \in DOMAIN matches : matches[m].buy \in B}
    <3> DEFINE L == {m \in DOMAIN matches' : matches'[m].buy \in B}
    <3>1. L = IF p[1] \in B THEN K \cup {n} ELSE K
      BY <1>8, <1>12
    <3>2. SumFunctionOnSet(left, B) + SumFunctionOnSet(Taken, K) = SumFunctionOnSet(Quantity, B)
      BY <1>2, <1>10 DEF Balanced
    <3>3. K \in SUBSET DOMAIN matches
      OBVIOUS
    <3> HIDE DEF K
    <3>4. IsFiniteSet(K) /\ n \notin K /\ \A m \in K : Taken[m] \in Int /\ Taken'[m] = Taken[m]
      BY <1>11, <1>12, <1>13, <3>3, FS_Subset
    <3>5. IsFiniteSet(B)
      BY <1>6, FS_Subset
    <3>6. \A x \in B : left[x] \in Int /\ left'[x] = IF x = p[1] THEN left[x] - qty ELSE left[x]
      <4>1. p[2] \notin Of("BUY")
        BY <1>5 DEF Of
      <4> QED
        BY <1>6, <1>9, <4>1
    <3> HIDE DEF L
    <3>7. SumFunctionOnSet(left', B) + SumFunctionOnSet(Taken', L)
            = SumFunctionOnSet(left, B) + SumFunctionOnSet(Taken, K)
      <4>1. qty \in Int
        BY <1>7
      <4>2. SumFunctionOnSet(left', B)
              = SumFunctionOnSet(left, B) - (IF p[1] \in B THEN qty ELSE 0)
        <5> DEFINE e == p[1]
        <5>1. \A x \in B : left[x] \in Int /\ left'[x] = IF x = e THEN left[x] - qty ELSE left[x]
          BY <3>6
        <5> HIDE DEF e
        <5>2. SumFunctionOnSet(left', B)
                = SumFunctionOnSet(left, B) - (IF e \in B THEN qty ELSE 0)
          BY <3>5, <4>1, <5>1, SumLess
        <5> QED
          BY <5>2 DEF e
      <4>3. SumFunctionOnSet(Taken', K) = SumFunctionOnSet(Taken, K)
        BY <3>4, SumSame
      <4>4. SumFunctionOnSet(Taken', K \cup {n}) = qty + SumFunctionOnSet(Taken', K)
        <5>1. \A m \in K \cup {n} : Taken'[m] \in Int
          BY <1>13, <3>4, <4>1
        <5> QED
          BY <1>13, <3>4, <5>1, SumMore
      <4>5. SumFunctionOnSet(left, B) \in Int /\ SumFunctionOnSet(Taken, K) \in Int
        BY <3>4, <3>5, <3>6, SumType
      <4> QED
        BY <3>1, <4>1, <4>2, <4>3, <4>4, <4>5
    <3>8. Quantity' = Quantity
      BY <1>1 DEF Quantity
    <3> QED
      BY <3>2, <3>7, <3>8 DEF L
  <2>2. ASSUME NEW B \in SUBSET Of("SELL")
        PROVE  SumFunctionOnSet(left', B)
                 + SumFunctionOnSet(Taken', {m \in DOMAIN matches' : matches'[m].sell \in B})
               = SumFunctionOnSet(Quantity', B)
    <3> DEFINE K == {m \in DOMAIN matches : matches[m].sell \in B}
    <3> DEFINE L == {m \in DOMAIN matches' : matches'[m].sell \in B}
    <3>1. L = IF p[2] \in B THEN K \cup {n} ELSE K
      BY <1>8, <1>12
    <3>2. SumFunctionOnSet(left, B) + SumFunctionOnSet(Taken, K) = SumFunctionOnSet(Quantity, B)
      BY <1>2, <1>10 DEF Balanced
    <3>3. K \in SUBSET DOMAIN matches
      OBVIOUS
    <3> HIDE DEF K
    <3>4. IsFiniteSet(K) /\ n \notin K /\ \A m \in K : Taken[m] \in Int /\ Taken'[m] = Taken[m]
      BY <1>11, <1>12, <1>13, <3>3, FS_Subset
    <3>5. IsFiniteSet(B)
      BY <1>6, FS_Subset
    <3>6. \A x \in B : left[x] \in Int /\ left'[x] = IF x = p[2] THEN left[x] - qty ELSE left[x]
      <4>1. p[1] \notin Of("SELL")
        BY <1>5 DEF Of
      <4> QED
        BY <1>6, <1>9, <4>1
    <3> HIDE DEF L
    <3>7. SumFunctionOnSet(left', B) + SumFunctionOnSet(Taken', L)
            = SumFunctionOnSet(left, B) + SumFunctionOnSet(Taken, K)
      <4>1. qty \in Int
        BY <1>7
      <4>2. SumFunctionOnSet(left', B)
              = SumFunctionOnSet(left, B) - (IF p[2] \in B THEN qty ELSE 0)
        <5> DEFINE e == p[2]
        <5>1. \A x \in B : left[x] \in Int /\ left'[x] = IF x = e THEN left[x] - qty ELSE left[x]
          BY <3>6
        <5> HIDE DEF e
        <5>2. SumFunctionOnSet(left', B)
                = SumFunctionOnSet(left, B) - (IF e \in B THEN qty ELSE 0)
          BY <3>5, <4>1, <5>1, SumLess
        <5> QED
          BY <5>2 DEF e
      <4>3. SumFunctionOnSet(Taken', K) = SumFunctionOnSet(Taken, K)
        BY <3>4, SumSame
      <4>4. SumFunctionOnSet(Taken', K \cup {n}) = qty + SumFunctionOnSet(Taken', K)
        <5>1. \A m \in K \cup {n} : Taken'[m] \in Int
          BY <1>13, <3>4, <4>1
        <5> QED
          BY <1>13, <3>4, <5>1, SumMore
      <4>5. SumFunctionOnSet(left, B) \in Int /\ SumFunctionOnSet(Taken, K) \in Int
        BY <3>4, <3>5, <3>6, SumType
      <4> QED
        BY <3>1, <4>1, <4>2, <4>3, <4>4, <4>5
    <3>8. Quantity' = Quantity
      BY <1>1 DEF Quantity
    <3> QED
      BY <3>2, <3>7, <3>8 DEF L
  <2> QED
    BY <1>10, <2>1, <2>2 DEF Balanced
<1>17. Reported'
  BY <1>1, <1>2 DEF Reported, BoughtAt, SoldAbove, Of, Quantity
<1> QED
  BY <1>15, <1>16, <1>17

\* The report ends when nothing is open: what is left is at least every excess.
LEMMA EndedWhole ==
  ASSUME ReportInv, EndReport(D)
  PROVE  Paired' /\ Balanced' /\ Reported'
<1>1. /\ reporting /\ Open = {} /\ ~reporting' /\ UNCHANGED <<fills, left, matches>>
      /\ report' # <<>> /\ report'.fills = Len(fills)
      /\ report'.buyLeft = SumFunctionOnSet(left, Of("BUY"))
  BY DEF EndReport
<1>2. MatchInv /\ Paired /\ Balanced /\ DOMAIN left = DOMAIN fills
  BY <1>1 DEF ReportInv, MatchInv
<1>3. Paired' /\ Balanced'
  BY <1>1, <1>2 DEF Paired, Balanced, Counting, Of, Taken, Quantity
<1>4. Open' = {}
  BY <1>1 DEF Open, Of
<1>5. SumFunctionOnSet(left, Of("BUY")) \in Nat
  <2>1. 0 \in Int
    OBVIOUS
  <2> QED
    BY <1>2, <2>1, ExcessLeft
<1>6. ASSUME NEW p \in Int
      PROVE  (BoughtAt(p, report.fills) - SoldAbove(p, report.fills) <= report.buyLeft)'
  <2>1. BoughtAt(p, Len(fills)) - SoldAbove(p, Len(fills)) <= report'.buyLeft
    BY <1>1, <1>2, ExcessLeft
  <2> QED
    BY <1>1, <2>1 DEF BoughtAt, SoldAbove, Of, Quantity
<1> QED
  <2>1. (report.buyLeft \in Nat)' /\ (DOMAIN left = DOMAIN fills)'
    BY <1>1, <1>2, <1>5
  <2>2. (report.buyLeft = SumFunctionOnSet(left, Of("BUY")))'
    BY <1>1 DEF Of
  <2> QED
    BY <1>4, <1>6, <2>1, <2>2, <1>3 DEF Reported

\* Every step keeps the account of the report.
LEMMA ReportKept == PlanInv /\ ReportInv /\ [Next]_vars => ReportInv'
<1> SUFFICES ASSUME PlanInv, ReportInv, [Next]_vars PROVE ReportInv'
  OBVIOUS
<1>1. MatchInv'
  BY MatchKept DEF ReportInv
<1>2. CASE UNCHANGED pnlVars
  <2>1. MatchInv /\ Paired /\ Balanced /\ Reported
    BY DEF ReportInv
  <2>2. UNCHANGED <<fills, reporting, left, matches, report>>
    BY <1>2 DEF pnlVars
  <2>3. Paired' /\ Balanced'
    BY <2>1, <2>2 DEF Paired, Balanced, Counting, Of, Taken, Quantity
  <2>4. Reported'
    BY <2>1, <2>2 DEF Reported, Open, Of, BoughtAt, SoldAbove, Quantity
  <2> QED
    BY <1>1, <2>3, <2>4 DEF ReportInv
<1>3. ASSUME NEW i \in Lines, NEW side \in {"BUY", "SELL"}, NEW qty \in Quantities,
             LineFilled(i, side, qty)
      PROVE  ReportInv'
  BY <1>1, <1>3, StoredLater DEF ReportInv
<1>4. CASE StartReport
  BY <1>1, <1>4, StartedWhole DEF ReportInv
<1>5. CASE MatchClosest
  BY <1>1, <1>5, MatchedClosest DEF ReportInv
<1>6. CASE EndReport(D)
  BY <1>1, <1>6, EndedWhole DEF ReportInv
<1>7. Plan \/ UNCHANGED vars => UNCHANGED pnlVars
  BY DEF Plan, vars
<1> QED
  BY <1>2, <1>3, <1>4, <1>5, <1>6, <1>7 DEF Next, Fill, Start, Match, End

\* The sum over one element.
LEMMA SumOne ==
  ASSUME NEW e, NEW g, g[e] \in Int
  PROVE  SumFunctionOnSet(g, {e}) = g[e]
<1>1. SumFunctionOnSet(g, {}) = 0 /\ IsFiniteSet({})
  BY FS_EmptySet, SumType
<1>2. SumFunctionOnSet(g, {} \cup {e}) = g[e] + SumFunctionOnSet(g, {})
  BY <1>1, SumMore
<1>3. {} \cup {e} = {e}
  OBVIOUS
<1> QED
  BY <1>1, <1>2, <1>3

\* More fills are more bought below a price, and more sold above it.
LEMMA MoreFills ==
  ASSUME MatchInv, NEW p \in Int, NEW n \in Nat, n <= Len(fills)
  PROVE  /\ Bought(n) \in Nat /\ BoughtAt(p, n) \in Nat /\ SoldAbove(p, n) \in Nat
         /\ SoldAbove(p, n) <= SoldAbove(p, Len(fills))
         /\ Bought(n) - BoughtAt(p, n) <= Bought(Len(fills)) - BoughtAt(p, Len(fills))
         /\ Bought(n) <= Bought(Len(fills))
<1> DEFINE N == Len(fills)
           Buy(h) == {i \in Of("BUY") : i <= h}
           At(h) == {i \in Of("BUY") : i <= h /\ fills[i].price >= p}
           Sell(h) == {i \in Of("SELL") : i <= h /\ fills[i].price > p}
           Sum(S) == SumFunctionOnSet(Quantity, S)
<1>1. /\ IsFiniteSet(DOMAIN fills) /\ N \in Nat
      /\ \A side : Of(side) \subseteq DOMAIN fills
      /\ \A i \in DOMAIN fills : Quantity[i] \in Nat
      /\ DOMAIN fills = 1 .. N
  BY Summed
<1>2. ASSUME NEW S \in SUBSET DOMAIN fills
      PROVE  /\ IsFiniteSet(S) /\ Sum(S) \in Nat
             /\ \A T \in SUBSET S : Sum(T) <= Sum(S) /\ Sum(S) = Sum(T) + Sum(S \ T)
  <2>1. IsFiniteSet(S) /\ \A i \in S : Quantity[i] \in Nat
    BY <1>1, FS_Subset
  <2>2. Sum(S) \in Int /\ Sum(S) >= 0
    <3>1. \A i \in S : Quantity[i] \in Int /\ Quantity[i] >= 0
      BY <2>1
    <3> QED
      BY <2>1, <3>1, SumType
  <2>3. ASSUME NEW T \in SUBSET S PROVE Sum(T) <= Sum(S) /\ Sum(S) = Sum(T) + Sum(S \ T)
    <3>1. \A i \in S : Quantity[i] \in Int
      BY <2>1
    <3> QED
      BY <2>1, <3>1, SumPart, SumParts
  <2> QED
    BY <2>1, <2>2, <2>3
<1>3. /\ Bought(n) = Sum(Buy(n)) /\ Bought(N) = Sum(Buy(N))
      /\ BoughtAt(p, n) = Sum(At(n)) /\ BoughtAt(p, N) = Sum(At(N))
      /\ SoldAbove(p, n) = Sum(Sell(n)) /\ SoldAbove(p, N) = Sum(Sell(N))
  BY DEF Bought, BoughtAt, SoldAbove
<1>4. /\ Buy(n) \in SUBSET DOMAIN fills /\ Buy(N) \in SUBSET DOMAIN fills
      /\ Sell(n) \in SUBSET DOMAIN fills /\ Sell(N) \in SUBSET DOMAIN fills
      /\ Buy(n) \ At(n) \in SUBSET DOMAIN fills /\ Buy(N) \ At(N) \in SUBSET DOMAIN fills
      /\ At(n) \in SUBSET DOMAIN fills /\ At(N) \in SUBSET DOMAIN fills
  BY <1>1
<1>5. /\ At(n) \in SUBSET Buy(n) /\ At(N) \in SUBSET Buy(N)
      /\ Sell(n) \in SUBSET Sell(N)
      /\ Buy(n) \in SUBSET Buy(N)
      /\ Buy(n) \ At(n) \in SUBSET (Buy(N) \ At(N))
  BY <1>1
<1> HIDE DEF Buy, At, Sell, Sum, N
<1>6. /\ Sum(Buy(n)) \in Nat /\ Sum(Buy(N)) \in Nat /\ Sum(Sell(n)) \in Nat
      /\ Sum(At(n)) \in Nat /\ Sum(At(N)) \in Nat
      /\ Sum(Buy(n) \ At(n)) \in Nat /\ Sum(Buy(N) \ At(N)) \in Nat
  BY <1>2, <1>4
<1>7. Sum(Sell(n)) <= Sum(Sell(N)) /\ Sum(Buy(n)) <= Sum(Buy(N))
      /\ Sum(Buy(n) \ At(n)) <= Sum(Buy(N) \ At(N))
  BY <1>2, <1>4, <1>5
<1>8. Sum(Buy(n)) = Sum(At(n)) + Sum(Buy(n) \ At(n))
      /\ Sum(Buy(N)) = Sum(At(N)) + Sum(Buy(N) \ At(N))
  BY <1>2, <1>4, <1>5
<1>9. Sum(Buy(n)) - Sum(At(n)) <= Sum(Buy(N)) - Sum(At(N))
  BY <1>6, <1>7, <1>8
<1> QED
  BY <1>3, <1>6, <1>7, <1>9 DEF N

\* A finished report has left no more than one excess, which no match avoids.
LEMMA MostMatched == ReportInv => MatchesMost
<1> SUFFICES ASSUME ReportInv, report # <<>>, ~reporting, report.fills = Len(fills)
             PROVE  /\ \A i \in Of("BUY") : left[i] = fills[i].qty - Matched("buy", i)
                    /\ \A i \in Of("SELL") : left[i] = fills[i].qty - Matched("sell", i)
                    /\ \A m \in DOMAIN matches :
                          fills[matches[m].buy].price < fills[matches[m].sell].price
                    /\ Bought(Len(fills)) - report.buyLeft = MostMatchable
  BY DEF MatchesMost
<1>1. MatchInv /\ Paired /\ Balanced /\ Reported
  BY DEF ReportInv
<1>2. /\ Open = {} /\ DOMAIN left = DOMAIN fills
      /\ report.buyLeft = SumFunctionOnSet(left, Of("BUY"))
  BY <1>1 DEF Reported
<1>3. /\ \A i \in DOMAIN fills : /\ Quantity[i] \in Nat /\ left[i] \in Nat
                                 /\ fills[i].price \in Nat /\ Quantity[i] = fills[i].qty
      /\ \A side : Of(side) \subseteq DOMAIN fills
      /\ Len(fills) \in Nat
  BY <1>1, <1>2, Summed DEF Quantity
<1>4. Counting("BUY") = Of("BUY") /\ Counting("SELL") = Of("SELL")
  BY <1>2, <1>3 DEF Counting
<1>5. \A K \in SUBSET DOMAIN matches : SumFunctionOnSet(Taken, K) \in Int
  <2> TAKE K \in SUBSET DOMAIN matches
  <2>1. IsFiniteSet(K) /\ \A m \in K : Taken[m] \in Int
    BY <1>1, TakenSummed, FS_Subset
  <2> QED
    BY <2>1, SumType
<1>6. ASSUME NEW i \in Of("BUY") PROVE left[i] = fills[i].qty - Matched("buy", i)
  <2> DEFINE K == {m \in DOMAIN matches : matches[m].buy \in {i}}
  <2>1. SumFunctionOnSet(left, {i}) + SumFunctionOnSet(Taken, K) = SumFunctionOnSet(Quantity, {i})
    <3>1. {i} \in SUBSET Counting("BUY")
      BY <1>4
    <3> QED
      BY <1>1, <3>1 DEF Balanced
  <2>2. /\ SumFunctionOnSet(left, {i}) = left[i] /\ SumFunctionOnSet(Quantity, {i}) = fills[i].qty
        /\ left[i] \in Int
    <3>1. left[i] \in Int /\ Quantity[i] \in Int /\ Quantity[i] = fills[i].qty
      BY <1>3
    <3>2. SumFunctionOnSet(left, {i}) = left[i]
      BY <3>1, SumOne
    <3>3. SumFunctionOnSet(Quantity, {i}) = Quantity[i]
      BY <3>1, SumOne
    <3> QED
      BY <3>1, <3>2, <3>3
  <2>3. SumFunctionOnSet(Taken, K) \in Int
    BY <1>5
  <2>4. K = {m \in DOMAIN matches : matches[m]["buy"] = i}
    OBVIOUS
  <2> HIDE DEF K
  <2>5. Matched("buy", i) = SumFunctionOnSet(Taken, K)
    BY <2>4 DEF Matched
  <2> QED
    BY <2>1, <2>2, <2>3, <2>5
<1>7. ASSUME NEW i \in Of("SELL") PROVE left[i] = fills[i].qty - Matched("sell", i)
  <2> DEFINE K == {m \in DOMAIN matches : matches[m].sell \in {i}}
  <2>1. SumFunctionOnSet(left, {i}) + SumFunctionOnSet(Taken, K) = SumFunctionOnSet(Quantity, {i})
    <3>1. {i} \in SUBSET Counting("SELL")
      BY <1>4
    <3> QED
      BY <1>1, <3>1 DEF Balanced
  <2>2. /\ SumFunctionOnSet(left, {i}) = left[i] /\ SumFunctionOnSet(Quantity, {i}) = fills[i].qty
        /\ left[i] \in Int
    <3>1. left[i] \in Int /\ Quantity[i] \in Int /\ Quantity[i] = fills[i].qty
      BY <1>3
    <3>2. SumFunctionOnSet(left, {i}) = left[i]
      BY <3>1, SumOne
    <3>3. SumFunctionOnSet(Quantity, {i}) = Quantity[i]
      BY <3>1, SumOne
    <3> QED
      BY <3>1, <3>2, <3>3
  <2>3. SumFunctionOnSet(Taken, K) \in Int
    BY <1>5
  <2>4. K = {m \in DOMAIN matches : matches[m]["sell"] = i}
    OBVIOUS
  <2> HIDE DEF K
  <2>5. Matched("sell", i) = SumFunctionOnSet(Taken, K)
    BY <2>4 DEF Matched
  <2> QED
    BY <2>1, <2>2, <2>3, <2>5
<1>8. MostMatchable = Bought(Len(fills)) - report.buyLeft
  <2> DEFINE X == {0} \cup {Excess(fills[i].price) : i \in Of("BUY")}
  <2>1. ASSUME NEW i \in Of("BUY")
        PROVE  Excess(fills[i].price) \in Int /\ Excess(fills[i].price) <= report.buyLeft
    <3>1. fills[i].price \in Int
      BY <1>3
    <3>2. /\ BoughtAt(fills[i].price, Len(fills)) \in Nat
          /\ SoldAbove(fills[i].price, Len(fills)) \in Nat
      <4>1. Len(fills) \in Nat /\ Len(fills) <= Len(fills)
        BY <1>3
      <4> QED
        BY <1>1, <3>1, <4>1, MoreFills
    <3>3. BoughtAt(fills[i].price, Len(fills)) - SoldAbove(fills[i].price, Len(fills)) <= report.buyLeft
      BY <1>1, <1>2, <3>1, ExcessLeft
    <3> QED
      BY <3>2, <3>3 DEF Excess
  <2>2. report.buyLeft \in Nat
    BY <1>1 DEF Reported
  <2>3. report.buyLeft \in X
    BY <1>1, <1>2, ExcessFound DEF Excess
  <2>4. \A x \in X : x \in Int /\ x <= report.buyLeft
    BY <2>1, <2>2
  <2> HIDE DEF X
  <2>5. Max(X) = report.buyLeft
    <3>1. \A x \in X : (\A y \in X : x >= y) => x = report.buyLeft
      BY <2>2, <2>3, <2>4
    <3>2. \A y \in X : report.buyLeft >= y
      BY <2>2, <2>4
    <3> QED
      BY <2>3, <3>1, <3>2 DEF Max
  <2> QED
    BY <2>5 DEF MostMatchable, X
<1> QED
  BY <1>1, <1>6, <1>7, <1>8 DEF Paired

\* Between two reports what was matched can only have grown.
LEMMA ReportGrows ==
  ASSUME ReportInv, EndReport(D), report # <<>>
  PROVE  Bought(report.fills) - report.buyLeft <= Bought(report'.fills) - report'.buyLeft
<1> DEFINE n == report.fills
           N == Len(fills)
           rest == SumFunctionOnSet(left, Of("BUY"))
<1>1. /\ reporting /\ Open = {} /\ report'.fills = N /\ report'.buyLeft = rest
  BY DEF EndReport
<1>2. MatchInv /\ Paired /\ Balanced /\ Reported /\ DOMAIN left = DOMAIN fills
  BY <1>1 DEF ReportInv, MatchInv
<1>3. n \in Nat /\ n <= N /\ report.buyLeft \in Nat
      /\ \A p \in Int : BoughtAt(p, n) - SoldAbove(p, n) <= report.buyLeft
  BY <1>2 DEF MatchInv, Reported
<1>4. Bought(n) \in Nat /\ Bought(N) \in Nat /\ Bought(n) <= Bought(N)
  <2>1. 0 \in Int /\ N \in Nat /\ N <= N
    BY <1>2, Summed
  <2> QED
    BY <1>2, <1>3, <2>1, MoreFills
<1> HIDE DEF n, N, rest
<1>5. CASE rest = 0
  BY <1>1, <1>3, <1>4, <1>5 DEF n
<1>6. CASE rest # 0
  <2>1. PICK i \in Of("BUY") : BoughtAt(fills[i].price, N) - SoldAbove(fills[i].price, N) = rest
    BY <1>1, <1>2, <1>6, ExcessFound DEF rest, N
  <2> DEFINE p == fills[i].price
  <2>2. p \in Int
    BY <1>2, Summed
  <2> HIDE DEF p
  <2>3. BoughtAt(p, N) - SoldAbove(p, N) = rest
    BY <2>1 DEF p
  <2>4. /\ BoughtAt(p, n) \in Nat /\ SoldAbove(p, n) \in Nat
        /\ SoldAbove(p, n) <= SoldAbove(p, N)
        /\ Bought(n) - BoughtAt(p, n) <= Bought(N) - BoughtAt(p, N)
    BY <1>2, <1>3, <2>2, MoreFills DEF N
  <2>5. BoughtAt(p, N) \in Nat /\ SoldAbove(p, N) \in Nat
    <3>1. N \in Nat /\ N <= Len(fills)
      BY <1>2, Summed DEF N
    <3> QED
      BY <1>2, <2>2, <3>1, MoreFills
  <2>6. BoughtAt(p, n) - SoldAbove(p, n) <= report.buyLeft
    BY <1>3, <2>2
  <2>7. Bought(n) - report.buyLeft <= Bought(N) - rest
    BY <1>3, <1>4, <2>3, <2>4, <2>5, <2>6
  <2> QED
    BY <1>1, <2>7 DEF n
<1> QED
  BY <1>5, <1>6

-----------------------------------------------------------------------------
(* Theorems *)

\* Whatever fees, target and value are configured, a line's value that is bought and
\* sold one line higher leaves at least the target after both fees.
THEOREM ReachesTarget == Spec => []TargetReached
<1>1. Stepped => TargetReached
  BY NetOfStep, ConfigTerms DEF Stepped, TargetReached, Planned, Worked
<1> QED
  BY <1>1, SteppedInit, SteppedKept, PTL DEF Spec

\* Whatever is configured, the lines of the plan do not cross, a tick of distance is not
\* rounded away, and every level passes the exchange's filters at the value of a line.
THEOREM LadderIsSound == Spec => []LadderSound
  BY PlanAlways, LadderHolds, PTL

\* Whatever is configured, a round trip between neighbouring lines loses at most half a
\* tick of rounding at either price and, above the anchor of an arithmetic grid, the fees
\* on the distance from the anchor.
THEOREM LossIsBounded == Spec => []LossBounded
  BY PlanAlways, TripsBounded, PTL

\* Whatever is configured, the levels and the computed bootstrap fit the capital without
\* its reserve, but for half a cent of rounding.
THEOREM CapitalIsEnough == Spec => []CapitalFits
  BY PlanAlways, CapitalHolds, PTL

\* Whatever is configured, the BUY levels that are placed and the bootstrap fit the quote
\* the pre-flight check has found.
THEOREM PlacedIsPaid == Spec => []PlacedFits
<1>1. Init => Afforded
  <2> SUFFICES ASSUME Init PROVE Afforded
    OBVIOUS
  <2>1. phase = "value" /\ buys = <<>> /\ lock = 0
    BY DEF Init, PlanInit
  <2>2. DOMAIN buys = {}
    BY <2>1
  <2>3. SumFunctionOnSet(Cost, DOMAIN buys) = 0
    BY <2>2, FS_EmptySet, SumType
  <2> QED
    BY <2>1, <2>3 DEF Afforded
<1> QED
  BY <1>1, AffordedKept, PlacedHolds, PlanAlways, PTL DEF Spec

\* Nothing is stored or matched at the start.
LEMMA ReportBegins == Init => ReportInv
<1> SUFFICES ASSUME Init PROVE ReportInv
  OBVIOUS
<1>1. fills = <<>> /\ left = <<>> /\ reporting = FALSE /\ matches = <<>> /\ report = <<>>
  BY DEF Init, PnlInit
<1>2. fills \in Seq(Row) /\ matches \in Seq(Pair)
      /\ DOMAIN left = {} /\ DOMAIN fills = {} /\ DOMAIN matches = {}
  BY <1>1
<1>3. MatchInv /\ Paired /\ Reported
  BY <1>1, <1>2 DEF MatchInv, Paired, Reported
<1>4. Balanced
  <2>1. \A g : SumFunctionOnSet(g, {}) = 0
    <3> TAKE g
    <3>1. \A x \in {} : g[x] \in Int
      OBVIOUS
    <3> QED
      BY <3>1, FS_EmptySet, SumType
  <2>2. Counting("BUY") = {} /\ Counting("SELL") = {}
    BY <1>2 DEF Counting
  <2>3. \A B : /\ {m \in DOMAIN matches : matches[m].buy \in B} = {}
               /\ {m \in DOMAIN matches : matches[m].sell \in B} = {}
    BY <1>2
  <2>4. \A B \in SUBSET {} : B = {}
    OBVIOUS
  <2> QED
    BY <2>1, <2>2, <2>3, <2>4 DEF Balanced
<1> QED
  BY <1>3, <1>4 DEF ReportInv

\* The account of the matches holds throughout.
LEMMA ReportAlways == Spec => []ReportInv
  BY PlanAlways, ReportBegins, ReportKept, PTL DEF Spec

\* Whatever is configured, the plan and the report keep to their numbers: no more levels
\* than were counted, and never more of a fill matched than was filled.
THEOREM MoneyIsTyped == Spec => []MoneyType
<1>1. PlanInv /\ MatchInv => MoneyType
  <2> SUFFICES ASSUME PlanInv, MatchInv PROVE MoneyType
    OBVIOUS
  <2>1. cfg \in Config /\ phase \in Phases
    BY DEF PlanInv, Stepped, Sound
  <2>2. r.n >= r.d /\ r.d > 0
    BY DEF PlanInv, Sound
  <2>3. Len(buys) <= k[1] /\ Len(sells) <= k[2]
    BY DEF PlanInv, Levels
  <2>4. (\A i \in DOMAIN left : left[i] \in 0 .. fills[i].qty)
        /\ (report # <<>> => report.fills <= Len(fills))
    BY DEF MatchInv
  <2> QED
    BY <2>1, <2>2, <2>3, <2>4 DEF MoneyType, Phases
<1>2. ReportInv => MatchInv
  BY DEF ReportInv
<1> QED
  BY <1>1, <1>2, PlanAlways, ReportAlways, PTL

\* However many fills there are and at whatever prices, the closest pairs first match as
\* much as any matching could: what is left is an excess of one price, which no match avoids.
THEOREM GreedyMatchesMost == Spec => []MatchesMost
  BY ReportAlways, MostMatched, PTL

\* A later report has matched at least as many units as the one before.
THEOREM ReportsOnlyGrow == Spec => MatchedKept
<1>1. ReportInv /\ [Next]_vars =>
        [report # <<>> /\ report' # report =>
           Bought(report.fills) - report.buyLeft
             <= Bought(report'.fills) - report'.buyLeft]_vars
  <2> SUFFICES ASSUME ReportInv, [Next]_vars, report # <<>>, report' # report
               PROVE  Bought(report.fills) - report.buyLeft
                        <= Bought(report'.fills) - report'.buyLeft
    OBVIOUS
  <2>1. EndReport(D)
    <3>1. UNCHANGED pnlVars \/ StartReport \/ MatchClosest \/ Fill => report' = report
      BY DEF pnlVars, StartReport, MatchClosest, Fill, LineFilled, StoreFill
    <3>2. Plan \/ UNCHANGED vars => UNCHANGED pnlVars
      BY DEF Plan, vars
    <3> QED
      BY <3>1, <3>2 DEF Next, Start, Match, End
  <2> QED
    BY <2>1, ReportGrows
<1> QED
  BY <1>1, ReportAlways, PTL DEF Spec, MatchedKept
=============================================================================
