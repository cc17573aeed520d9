-------------------------- MODULE MainDriverProofs --------------------------
(***************************************************************************)
(* What TLAPS proves of MainDriver, for any number of processes, threads and *)
(* items, and however requests overlap and fail.                            *)
(*                                                                         *)
(* The inductive invariant has a part that always holds (the types, what is  *)
(* registered, where each request is, what workers hold), one that holds     *)
(* until requests overlap, and one that holds while there is nothing to      *)
(* blame.  The last counts: what was accepted is added, queued or in hand.   *)
(***************************************************************************)
EXTENDS MainDriver, FiniteSetTheorems, TLAPS
-----------------------------------------------------------------------------
(***************************************************************************)
(* Sums.  SumFunction folds + over a set, an element at a time; FiniteMin    *)
(* takes the place of induction over sets.                                  *)
(***************************************************************************)
\* Some element of a set, as the fold takes it.
Pick(T) == CHOOSE x \in T : TRUE

\* h is the fold of f over the subsets of S.
IsSum(h, f, S) ==
    h = [T \in SUBSET S |-> IF T = {} THEN 0 ELSE f[Pick(T)] + h[T \ {Pick(T)}]]

\* Induction over finite sets, as a smallest member.
LEMMA FiniteMin ==
    ASSUME NEW S, IsFiniteSet(S), NEW Q, Q \subseteq SUBSET S, Q # {}
    PROVE  \E T \in Q : \A U \in SUBSET T : U # T => U \notin Q
<1> DEFINE R == StrictSubsetOrdering(S)
<1>1. IsWellFoundedOn(R, SUBSET S)
  BY FS_StrictSubsetOrderingWellFounded, FS_FiniteSubsetsOfFinite
<1>2. PICK T \in Q : \A U \in Q : ~ (<<U, T>> \in R)
  <2> HIDE DEF R
  <2> QED BY <1>1, WFMin
<1>3. ASSUME NEW U \in SUBSET T, U # T, U \in Q PROVE FALSE
  BY <1>2, <1>3 DEF StrictSubsetOrdering
<1> QED BY <1>3

\* SumFunctionOnSet takes some element first, and so on.
LEMMA SumOnSet ==
    ASSUME NEW f, NEW S
    PROVE SumFunctionOnSet(f, S) = (CHOOSE h : IsSum(h, f, S))[S]
  BY DEF SumFunctionOnSet, FoldFunctionOnSet, MapThenFoldSet, IsSum, Pick

\* Induction over the natural numbers, as a least element.
LEMMA NatMin ==
    ASSUME NEW Q, Q \subseteq Nat, Q # {}
    PROVE  \E n \in Q : \A m \in Q : n <= m
<1> DEFINE R == OpToRel(<, Nat)
<1>1. IsWellFoundedOn(R, Nat)
  BY NatLessThanWellFounded
<1>2. PICK n \in Q : \A m \in Q : ~ (<<m, n>> \in R)
  <2> HIDE DEF R
  <2> QED BY <1>1, WFMin
<1>3. \A m \in Q : ~ (m < n)
  BY <1>2 DEF OpToRel
<1> QED BY <1>3

\* The recursion has a solution: were there none for the subsets of up to n elements,
\* the least such n would have one.
LEMMA SumExists ==
    ASSUME NEW S, IsFiniteSet(S), NEW f \in [S -> Nat]
    PROVE  \E h \in [SUBSET S -> Nat] : IsSum(h, f, S)
<1> DEFINE value(h, T) == IF T = {} THEN 0 ELSE f[Pick(T)] + h[T \ {Pick(T)}]
           Small(n) == {T \in SUBSET S : Cardinality(T) <= n}
           Q == {n \in Nat : ~ \E h \in [SUBSET S -> Nat] : \A U \in Small(n) : h[U] = value(h, U)}
<1>0. ASSUME NEW T \in SUBSET S, T # {}
      PROVE  /\ Pick(T) \in S /\ T \ {Pick(T)} \in SUBSET S
             /\ Cardinality(T) \in Nat \ {0}
             /\ Cardinality(T \ {Pick(T)}) = Cardinality(T) - 1
  <2>1. IsFiniteSet(T)
    BY FS_Subset
  <2>2. Pick(T) \in T
    BY <1>0 DEF Pick
  <2>3. Cardinality(T) \in Nat /\ (Cardinality(T) = 0 <=> T = {})
    BY <2>1, FS_CardinalityType, FS_EmptySet
  <2> QED
    BY <2>1, <2>2, <2>3, <1>0, FS_RemoveElement
<1> HIDE DEF value
<1>1. ASSUME Q # {} PROVE FALSE
  <2>1. PICK n \in Q : \A m \in Q : n <= m
    <3>1. Q \subseteq Nat
      OBVIOUS
    <3> HIDE DEF Q
    <3> QED
      BY <3>1, <1>1, NatMin
  <2>2. CASE n = 0
    <3> DEFINE h0 == [U \in SUBSET S |-> 0]
    <3>1. h0 \in [SUBSET S -> Nat]
      OBVIOUS
    <3>2. ASSUME NEW U \in Small(0), U # {} PROVE FALSE
      <4>1. U \in SUBSET S /\ Cardinality(U) <= 0
        OBVIOUS
      <4>2. Cardinality(U) \in Nat \ {0}
        BY <4>1, <3>2, <1>0
      <4> QED
        BY <4>1, <4>2
    <3>3. \A U \in Small(0) : h0[U] = value(h0, U)
      BY <3>2 DEF value
    <3> QED
      BY <3>1, <3>3, <2>2, <2>1
  <2>3. CASE n # 0
    <3>1. n - 1 \in Nat /\ n - 1 \notin Q
      <4>1. n \in Nat
        BY <2>1
      <4>2. n - 1 \in Nat /\ ~(n <= n - 1)
        BY <4>1, <2>3
      <4> HIDE DEF Q
      <4> QED
        BY <2>1, <4>2
    <3>2. PICK h \in [SUBSET S -> Nat] : \A U \in Small(n - 1) : h[U] = value(h, U)
      BY <3>1
    <3> DEFINE g == [T \in SUBSET S |-> value(h, T)]
    <3>3. g \in [SUBSET S -> Nat]
      <4> SUFFICES ASSUME NEW T \in SUBSET S PROVE value(h, T) \in Nat
        OBVIOUS
      <4>1. CASE T = {}
        BY <4>1 DEF value
      <4>2. CASE T # {}
        <5>1. f[Pick(T)] \in Nat /\ h[T \ {Pick(T)}] \in Nat
          BY <4>2, <1>0
        <5> QED
          BY <5>1, <4>2 DEF value
      <4> QED
        BY <4>1, <4>2
    <3>4. ASSUME NEW U \in Small(n)
          PROVE  g[U] = value(g, U)
      <4>1. CASE U = {}
        BY <4>1 DEF value
      <4>2. CASE U # {}
        <5> DEFINE V == U \ {Pick(U)}
        <5>1. V \in Small(n - 1)
          BY <1>0, <4>2
        <5>2. h[V] = g[V]
          BY <5>1, <3>2
        <5> QED
          BY <5>2, <4>2 DEF value
      <4> QED
        BY <4>1, <4>2
    <3> HIDE DEF g
    <3> QED
      BY <3>3, <3>4, <2>1
  <2> QED
    BY <2>2, <2>3
<1>2. Cardinality(S) \in Nat /\ Cardinality(S) \notin Q
  BY <1>1, FS_CardinalityType
<1>3. PICK h \in [SUBSET S -> Nat] : \A U \in Small(Cardinality(S)) : h[U] = value(h, U)
  BY <1>2
<1>4. \A U \in SUBSET S : h[U] = value(h, U)
  BY <1>3, FS_Subset
<1>5. h = [T \in SUBSET S |-> value(h, T)]
  BY <1>4
<1> QED
  BY <1>5 DEF IsSum, value

\* h[T] is the sum of f over T, whichever element is taken first.
Adds(h, f, S) ==
    /\ h \in [SUBSET S -> Nat]
    /\ h[{}] = 0
    /\ \A T \in SUBSET S : \A x \in T : h[T] = f[x] + h[T \ {x}]

\* The recursion takes the elements in one order; any other gives the same.
LEMMA SumAny ==
    ASSUME NEW S, IsFiniteSet(S), NEW f \in [S -> Nat], NEW h, IsSum(h, f, S)
    PROVE  Adds(h, f, S)
<1> DEFINE P == {T \in SUBSET S : h[T] \notin Nat}
           Q == {T \in SUBSET S : \E x \in T : h[T] # f[x] + h[T \ {x}]}
<1>1. \A T \in SUBSET S : h[T] = IF T = {} THEN 0 ELSE f[Pick(T)] + h[T \ {Pick(T)}]
  BY DEF IsSum
<1>2. \A T \in SUBSET S : T # {} => Pick(T) \in T
  BY DEF Pick
<1>3. ASSUME P # {} PROVE FALSE
  <2>1. PICK T \in P : \A U \in SUBSET T : U # T => U \notin P
    <3>1. P \subseteq SUBSET S
      OBVIOUS
    <3> HIDE DEF P
    <3> QED
      BY <3>1, <1>3, FiniteMin
  <2>2. CASE T = {}
    BY <2>2, <1>1
  <2>3. CASE T # {}
    <3>1. Pick(T) \in S /\ T \ {Pick(T)} \in SUBSET T /\ T \ {Pick(T)} # T
      BY <2>3, <1>2
    <3>2. h[T \ {Pick(T)}] \in Nat
      BY <3>1, <2>1
    <3>3. f[Pick(T)] \in Nat
      BY <3>1
    <3>4. h[T] = f[Pick(T)] + h[T \ {Pick(T)}]
      BY <2>3, <1>1
    <3>5. h[T] \in Nat
      BY <3>2, <3>3, <3>4
    <3> QED
      BY <3>5
  <2> QED
    BY <2>2, <2>3
<1>4. \A T \in SUBSET S : h[T] \in Nat
  BY <1>3
<1>5. ASSUME Q # {} PROVE FALSE
  <2>1. PICK T \in Q : \A U \in SUBSET T : U # T => U \notin Q
    <3>1. Q \subseteq SUBSET S
      OBVIOUS
    <3> HIDE DEF Q
    <3> QED
      BY <3>1, <1>5, FiniteMin
  <2>2. PICK x \in T : h[T] # f[x] + h[T \ {x}]
    OBVIOUS
  <2> DEFINE y == Pick(T)
             U == T \ {x, y}
  <2>3. y \in T /\ h[T] = f[y] + h[T \ {y}] /\ x # y
    BY <1>1, <1>2, <2>2
  <2> HIDE DEF y
  <2>4. h[T \ {y}] = f[x] + h[U]
    <3>1. T \ {y} \notin Q /\ x \in T \ {y} /\ (T \ {y}) \ {x} = U
      BY <2>1, <2>3
    <3> QED
      BY <3>1
  <2>5. h[T \ {x}] = f[y] + h[U]
    <3>1. T \ {x} \notin Q /\ y \in T \ {x} /\ (T \ {x}) \ {y} = U
      BY <2>1, <2>3
    <3> QED
      BY <3>1
  <2>6. f[x] \in Nat /\ f[y] \in Nat /\ h[U] \in Nat
    BY <2>3, <1>4
  <2> QED
    BY <2>2, <2>3, <2>4, <2>5, <2>6
<1>6. h \in [SUBSET S -> Nat]
  BY <1>4 DEF IsSum
<1> QED
  BY <1>1, <1>5, <1>6 DEF Adds

\* Two sums of the same values, one for one, are equal.
LEMMA SumSame ==
    ASSUME NEW S, IsFiniteSet(S), NEW f, NEW h, Adds(h, f, S),
           NEW R, NEW g, NEW k, Adds(k, g, R),
           NEW T \in SUBSET S, NEW p \in [T -> R],
           \A x, y \in T : p[x] = p[y] => x = y,
           \A x \in T : f[x] = g[p[x]],
           NEW W, W = {p[x] : x \in T}
    PROVE  h[T] = k[W]
<1> DEFINE image(U) == {p[x] : x \in U}
           Q == {U \in SUBSET T : h[U] # k[image(U)]}
<1>1. ASSUME Q # {} PROVE FALSE
  <2>1. PICK U \in Q : \A V \in SUBSET U : V # U => V \notin Q
    <3>1. Q \subseteq SUBSET T /\ IsFiniteSet(T)
      BY FS_Subset
    <3> HIDE DEF Q
    <3> QED
      BY <3>1, <1>1, FiniteMin
  <2>2. image({}) = {}
    OBVIOUS
  <2>3. U # {}
    BY <2>2 DEF Adds
  <2>4. PICK x \in U : TRUE
    BY <2>3
  <2> DEFINE V == U \ {x}
  <2>5. h[V] = k[image(V)]
    BY <2>1
  <2>6. image(V) = image(U) \ {p[x]} /\ p[x] \in image(U) /\ image(U) \in SUBSET R
    OBVIOUS
  <2>7. h[U] = f[x] + h[V]
    BY DEF Adds
  <2>8. k[image(U)] = g[p[x]] + k[image(U) \ {p[x]}]
    <3> HIDE DEF image
    <3> QED
      BY <2>6 DEF Adds
  <2>9. h[U] = k[image(U)]
    BY <2>5, <2>6, <2>7, <2>8
  <2> QED
    BY <2>9
<1> QED
  BY <1>1

\* What SumFunction computes.
LEMMA SumIs ==
    ASSUME NEW S, IsFiniteSet(S), NEW f \in [S -> Nat]
    PROVE  \E h : Adds(h, f, S) /\ SumFunction(f) = h[S]
<1>1. \E h : IsSum(h, f, S)
  BY SumExists
<1>2. IsSum(CHOOSE h : IsSum(h, f, S), f, S)
  BY <1>1, Zenon
<1>3. SumFunction(f) = (CHOOSE h : IsSum(h, f, S))[S]
  BY SumOnSet DEF SumFunction
<1> QED
  BY <1>2, <1>3, SumAny

\* The sum when one value is replaced,
LEMMA SumExcept ==
    ASSUME NEW S, IsFiniteSet(S), NEW f \in [S -> Nat], NEW i \in S, NEW v \in Nat
    PROVE  /\ SumFunction(f) \in Nat
           /\ SumFunction([f EXCEPT ![i] = v]) = SumFunction(f) - f[i] + v
<1> DEFINE g == [f EXCEPT ![i] = v]
           T == S \ {i}
           p == [x \in T |-> x]
<1>1. PICK h : Adds(h, f, S) /\ SumFunction(f) = h[S]
  BY SumIs
<1>2. g \in [S -> Nat] /\ g[i] = v /\ \A x \in T : f[x] = g[p[x]]
  OBVIOUS
<1>3. T \in SUBSET S /\ p \in [T -> S] /\ (\A x, y \in T : p[x] = p[y] => x = y)
  OBVIOUS
<1>4. T = {p[x] : x \in T}
  OBVIOUS
<1> HIDE DEF g, T, p
<1>5. PICK k : Adds(k, g, S) /\ SumFunction(g) = k[S]
  BY <1>2, SumIs
<1>6. h[T] = k[T]
  BY <1>1, <1>2, <1>3, <1>4, <1>5, SumSame
<1>7. h \in [SUBSET S -> Nat] /\ h[S] = f[i] + h[T] /\ k[S] = v + k[T]
  BY <1>1, <1>2, <1>5 DEF Adds, T
<1>8. f[i] \in Nat /\ h[T] \in Nat /\ h[S] \in Nat
  BY <1>7, <1>3
<1>9. k[S] = h[S] - f[i] + v
  BY <1>6, <1>7, <1>8
<1> QED
  BY <1>1, <1>5, <1>8, <1>9 DEF g

\* when all are zero,
LEMMA SumZero ==
    ASSUME NEW S, IsFiniteSet(S), NEW f \in [S -> Nat], \A x \in S : f[x] = 0
    PROVE  SumFunction(f) = 0
<1>1. PICK h : Adds(h, f, S) /\ SumFunction(f) = h[S]
  BY SumIs
<1>2. /\ h \in [SUBSET S -> Nat] /\ h[{}] = 0
      /\ \A T \in SUBSET S : \A x \in T : h[T] = f[x] + h[T \ {x}]
  BY <1>1 DEF Adds
<1> DEFINE Q == {T \in SUBSET S : h[T] # 0}
<1>3. ASSUME Q # {} PROVE FALSE
  <2>1. PICK T \in Q : \A U \in SUBSET T : U # T => U \notin Q
    <3>1. Q \subseteq SUBSET S
      OBVIOUS
    <3> HIDE DEF Q
    <3> QED
      BY <3>1, <1>3, FiniteMin
  <2>2. PICK x \in T : TRUE
    BY <2>1, <1>2
  <2>3. h[T] = h[T \ {x}] /\ h[T \ {x}] = 0
    BY <2>1, <2>2, <1>2
  <2> QED
    BY <2>3
<1> QED
  BY <1>1, <1>3

\* when one is added at the end of a list,
LEMMA SumAppend ==
    ASSUME NEW s \in Seq(Nat), NEW x \in Nat
    PROVE  SumFunction(Append(s, x)) = SumFunction(s) + x
<1> DEFINE n == Len(s)
           t == Append(s, x)
           N == 1..n
           M == 1..(n + 1)
           p == [i \in N |-> i]
<1>0. n \in Nat
  OBVIOUS
<1>1. IsFiniteSet(N) /\ IsFiniteSet(M)
  BY <1>0, FS_Interval
<1>13. n + 1 \in M /\ M \ {n + 1} = N /\ N \subseteq M
  BY <1>0
<1>2. s \in [N -> Nat]
  OBVIOUS
<1>3. t \in Seq(Nat) /\ Len(t) = n + 1
  OBVIOUS
<1>4. t \in [M -> Nat]
  <2> HIDE DEF t, n
  <2> QED
    BY <1>3
<1>5. t[n + 1] = x /\ \A i \in N : s[i] = t[i]
  OBVIOUS
<1> HIDE DEF t, n, N, M
<1>6. p \in [N -> M] /\ (\A i, j \in N : p[i] = p[j] => i = j) /\ \A i \in N : s[i] = t[p[i]]
  BY <1>13, <1>5
<1>7. N = {p[i] : i \in N}
  OBVIOUS
<1> HIDE DEF p
<1>8. PICK h : Adds(h, s, N) /\ SumFunction(s) = h[N]
  BY <1>1, <1>2, SumIs
<1>9. PICK k : Adds(k, t, M) /\ SumFunction(t) = k[M]
  BY <1>1, <1>4, SumIs
<1>10. h[N] = k[N]
  <2>1. N \in SUBSET N
    OBVIOUS
  <2> QED
    BY <2>1, <1>1, <1>6, <1>7, <1>8, <1>9, SumSame
<1>11. k[M] = t[n + 1] + k[M \ {n + 1}] /\ k[N] \in Nat
  BY <1>13, <1>9 DEF Adds
<1>12. SumFunction(t) = SumFunction(s) + x
  <2>1. k[M] = x + k[N]
    BY <1>13, <1>5, <1>11
  <2> QED
    BY <2>1, <1>8, <1>9, <1>10, <1>11
<1> QED
  BY <1>12 DEF t

\* and when the first is taken off.
LEMMA SumTail ==
    ASSUME NEW s \in Seq(Nat), s # <<>>
    PROVE  SumFunction(s) = Head(s) + SumFunction(Tail(s))
<1> DEFINE n == Len(s)
           t == Tail(s)
           N == 1..n
           M == 1..(n - 1)
           p == [i \in M |-> i + 1]
<1>0. n \in Nat \ {0} /\ n - 1 \in Nat
  OBVIOUS
<1>1. IsFiniteSet(N) /\ IsFiniteSet(M) /\ 1 \in N
  BY <1>0, FS_Interval
<1>2. s \in [N -> Nat]
  OBVIOUS
<1>3. t \in Seq(Nat) /\ Len(t) = n - 1
  OBVIOUS
<1>4. t \in [M -> Nat]
  <2> HIDE DEF t, n
  <2> QED
    BY <1>3
<1>5. Head(s) = s[1] /\ \A i \in M : t[i] = s[i + 1]
  OBVIOUS
<1> HIDE DEF t, n
<1>6. p \in [M -> N] /\ (\A i, j \in M : p[i] = p[j] => i = j) /\ \A i \in M : t[i] = s[p[i]]
  BY <1>0, <1>5
<1>7. N \ {1} = {p[i] : i \in M}
  <2>1. ASSUME NEW j \in N \ {1} PROVE j - 1 \in M /\ p[j - 1] = j
    BY <1>0
  <2>2. \A i \in M : p[i] \in N \ {1}
    BY <1>0
  <2> HIDE DEF p, M, N
  <2> QED
    BY <2>1, <2>2
<1> HIDE DEF p, M, N
<1>8. PICK h : Adds(h, s, N) /\ SumFunction(s) = h[N]
  BY <1>1, <1>2, SumIs
<1>9. PICK k : Adds(k, t, M) /\ SumFunction(t) = k[M]
  BY <1>1, <1>4, SumIs
<1>10. k[M] = h[N \ {1}]
  <2>1. M \in SUBSET M
    OBVIOUS
  <2> QED
    BY <2>1, <1>1, <1>6, <1>7, <1>8, <1>9, SumSame
<1>11. h[N] = s[1] + h[N \ {1}]
  BY <1>1, <1>8 DEF Adds
<1>12. SumFunction(s) = Head(s) + SumFunction(t)
  BY <1>5, <1>8, <1>9, <1>10, <1>11
<1> QED
  BY <1>12 DEF t

\* In the terms of MainDriver: what the list holds.
LEMMA ListSum ==
    /\ Sum(<<>>) = 0
    /\ \A s \in Seq(Nat) :
          /\ Sum(s) \in Nat
          /\ \A x \in Nat : Sum(Append(s, x)) = Sum(s) + x
          /\ s # <<>> => Sum(s) = Head(s) + Sum(Tail(s))
<1>1. \A s : Sum(s) = SumFunction(s)
  BY DEF Sum, FoldSeq, FoldFunction, SumFunction, SumFunctionOnSet
<1>2. SumFunction(<<>>) = 0
  <2>1. <<>> \in [{} -> Nat] /\ IsFiniteSet({})
    BY FS_EmptySet
  <2> QED
    BY <2>1, SumZero
<1>3. ASSUME NEW s \in Seq(Nat) PROVE SumFunction(s) \in Nat
  <2>1. s \in [1..Len(s) -> Nat] /\ Len(s) \in Nat
    OBVIOUS
  <2> DEFINE N == 1..Len(s)
  <2>2. IsFiniteSet(N) /\ N \in SUBSET N
    BY <2>1, FS_Interval
  <2> HIDE DEF N
  <2>3. PICK h : Adds(h, s, N) /\ SumFunction(s) = h[N]
    BY <2>1, <2>2, SumIs DEF N
  <2> QED
    BY <2>2, <2>3 DEF Adds
<1> QED
  BY <1>1, <1>2, <1>3, SumAppend, SumTail
-----------------------------------------------------------------------------
(***************************************************************************)
(* The inductive invariant                                                 *)
(***************************************************************************)
Typed ==
    /\ DriverOK /\ RequestsOK /\ PoolOK
    /\ blame \in {"none", "failed", "noInput", "overlaid", "foreign", "overlap"}
    /\ failures \in 0..Failures
    /\ crashed \in {"no", "input", "list", "join", "worker", "callback", "ob"}

\* DriverEntry has registered the object callback unless something failed, and
\* what MyDriverUnload has taken off stays off.
LoadOK ==
    /\ load \in {"entry", "unloading"} => step \in 1..7
    /\ inside \subseteq registered
    /\ load = "unloading" => \A k \in 1..7 : k < step => UnloadOrder[k] \notin registered
    /\ load = "unloaded" => registered = {}
    /\ failures = 0 /\ (load = "entry" => step > 5) /\ (load = "unloading" => step <= 3) =>
           "ob" \in registered \/ load = "unloaded"

\* Where each request may be, and that it keeps the driver loaded.
PlaceOK ==
    \A c \in Callers :
        /\ at[c] = "idle" => op[c] = "none"
        /\ at[c] = "tpInit" => /\ op[c] \in {"INIT", "TEST"}
                               /\ op[c] = "TEST" => left[c] = TestThreads
        /\ at[c] = "queue" => op[c] \in {"PROCESS", "TEST"}
        /\ at[c] = "clear" => op[c] = "UNINIT"
        /\ at[c] \in {"uninit", "join", "drain", "hung"} =>
               op[c] \in {"UNINIT", "TEST", "failedInit", "failedEnqueue"}
        /\ at[c] # "idle" => c \in open /\ load = "loaded"

\* Requests in progress are all PROCESS, unless there is one, or they overlapped.
OneAtATime ==
    blame # "overlap" =>
        \A c, d \in Callers :
            c # d /\ at[c] # "idle" /\ at[d] # "idle" => op[c] \in {"PROCESS", "failedEnqueue"}

\* Without an overlap a request whose TpInit failed cannot return: its pool is
\* zeroed, or its handles are gone.
FailedInitOK ==
    blame # "overlap" =>
        \A c \in Callers :
            /\ status[c] # "failedInit"
            /\ op[c] = "INIT" => pool = "zeroed"
            /\ op[c] = "failedInit" => \/ at[c] = "uninit" /\ (pool = "zeroed" \/ array = "freed")
                                       \/ at[c] = "join" /\ array = "freed"

\* Only a worker that has an item has something to add.
AddsOK == \A i \in Ids : thread[i] # "busy" => adds[i] = 0

\* With nothing to blame: where the pool is for each request in progress,
RequestOK(c) ==
    /\ at[c] = "tpInit" => /\ op[c] = "INIT" <=> hasBeenInitialized
                           /\ array # "open" /\ list = <<>> /\ number = 0 /\ accepted = 0
    /\ at[c] = "queue" => /\ pool = "running" /\ array = "open"
                          /\ op[c] = "PROCESS" <=> hasBeenInitialized
                          /\ op[c] = "TEST" => /\ handleOwner = c
                                               /\ left[c] <= TestItems
                                               /\ accepted = (TestItems - left[c]) * TestLoop
    /\ at[c] = "clear" => hasBeenInitialized
    /\ at[c] \in {"uninit", "join", "drain"} =>
           /\ ~hasBeenInitialized /\ op[c] \in {"UNINIT", "TEST"}
           /\ op[c] = "TEST" => accepted = TestItems * TestLoop
    /\ at[c] = "uninit" => pool = "running" /\ array = "open" /\ (op[c] = "TEST" => handleOwner = c)
    /\ at[c] = "join" => pool = "stopped" /\ array = "open" /\ handleOwner = c
    /\ at[c] = "drain" => pool = "stopped" /\ array = "freed"
    /\ at[c] # "hung" /\ status[c] # "unexpected"

\* between them,
RestOK ==
    /\ Live \subseteq inArray
    /\ pool = "zeroed" => array # "open"
    /\ hasBeenInitialized /\ (\A c \in Callers : at[c] # "tpInit") =>
           pool = "running" /\ array = "open"
    /\ Idle /\ ~hasBeenInitialized => array # "open" /\ list = <<>>

\* and what has been accepted is added, queued or in a worker's hands.
Conserved == number + Sum(list) + SumFunction(adds) = accepted

Blameless == blame = "none" => RestOK /\ Conserved /\ \A c \in Callers : RequestOK(c)

IInv ==
    /\ Typed /\ LoadOK /\ PlaceOK /\ OneAtATime /\ FailedInitOK /\ AddsOK /\ Blameless
    /\ CrashHasCause

\* What the drivers' life needs, by itself.
DriverInv ==
    /\ DriverOK /\ LoadOK
    /\ blame \in {"none", "failed", "noInput", "overlaid", "foreign", "overlap"}
    /\ failures \in 0..Failures
    /\ crashed \in {"no", "input", "list", "join", "worker", "callback", "ob"}

-----------------------------------------------------------------------------
\* The two orders name each of the seven steps once.
LEMMA Orders ==
    /\ Len(EntryOrder) = 7 /\ Len(UnloadOrder) = 7
    /\ \A k \in 1..7 : /\ EntryOrder[k] \in Notifiers \cup {"device", "link"}
                       /\ UnloadOrder[k] \in Notifiers \cup {"device", "link"}
                       /\ EntryOrder[k] = "ob" <=> k = 5
                       /\ UnloadOrder[k] = "ob" <=> k = 3
    /\ \A n \in Notifiers \cup {"device", "link"} : \E k \in 1..7 : UnloadOrder[k] = n
<1>1. \A k \in 1..7 : k = 1 \/ k = 2 \/ k = 3 \/ k = 4 \/ k = 5 \/ k = 6 \/ k = 7
  OBVIOUS
<1>2. Len(EntryOrder) = 7 /\ Len(UnloadOrder) = 7
  BY DEF EntryOrder, UnloadOrder
<1>3. /\ EntryOrder[1] = "device" /\ EntryOrder[2] = "link" /\ EntryOrder[3] = "process"
      /\ EntryOrder[4] = "image" /\ EntryOrder[5] = "ob" /\ EntryOrder[6] = "registry"
      /\ EntryOrder[7] = "thread"
  BY DEF EntryOrder
<1>4. /\ UnloadOrder[1] = "thread" /\ UnloadOrder[2] = "registry" /\ UnloadOrder[3] = "ob"
      /\ UnloadOrder[4] = "image" /\ UnloadOrder[5] = "process" /\ UnloadOrder[6] = "link"
      /\ UnloadOrder[7] = "device"
  BY DEF UnloadOrder
<1> QED
  BY <1>1, <1>2, <1>3, <1>4 DEF Notifiers

\* TEST alone can find an unexpected number, and only a failed TpInit is passed on.
LEMMA Outcomes ==
    \A c, n :
      /\ Outcome(c, n) \in {"done", "failedInit", "unexpected"}
      /\ Outcome(c, n) = "failedInit" => op[c] = "failedInit"
      /\ Outcome(c, n) = "unexpected" => op[c] = "TEST" /\ n # TestItems * TestLoop
  BY Zenon DEF Outcome

\* What taking and queueing an item leave of the list.
LEMMA SeqTypes ==
    /\ \A s \in Seq(Nat) : s # <<>> => Head(s) \in Nat /\ Tail(s) \in Seq(Nat)
    /\ \A s \in Seq(Nat), n \in Nat : Append(s, n) \in Seq(Nat)
  OBVIOUS

\* Stranding a thread leaves each in one of its states.
LEMMA StrandType ==
    ASSUME PoolOK
    PROVE  Strand \in [Ids -> {"none", "waiting", "busy", "draining", "stranded"}]
  BY DEF PoolOK, Strand

\* TpInit makes at least one thread.
LEMMA NewThreads ==
    \A n \in Nat \ {0} : \A new \in kSubset(n, Free) : new # {} /\ new \subseteq Ids
  BY FS_EmptySet DEF kSubset, Free

\* Every step keeps what is registered in step with DriverEntry and MyDriverUnload;
LEMMA DriverStep ==
    DriverInv /\ [Next]_vars => DriverInv'
<1> SUFFICES ASSUME DriverInv, [Next]_vars PROVE DriverInv'
  OBVIOUS
<1> USE DEF DriverInv, DriverOK, LoadOK, driverVars
<1>1. ASSUME NEW c \in Callers, InitTpool(c) PROVE DriverInv'
  BY <1>1 DEF InitTpool, ZeroPool, Arrive, Blame
<1>2. ASSUME NEW c \in Callers, TestTpool(c) PROVE DriverInv'
  BY <1>2 DEF TestTpool, Arrive, Blame
<1>3. ASSUME NEW c \in Callers, ProcessTpool(c) PROVE DriverInv'
  BY <1>3 DEF ProcessTpool, Arrive, Blame
<1>4. ASSUME NEW c \in Callers, UninitTpool(c) PROVE DriverInv'
  BY <1>4 DEF UninitTpool, Arrive, Blame
<1>5. ASSUME NEW c \in Callers, ClearFlag(c) PROVE DriverInv'
  BY <1>5 DEF ClearFlag, GoTo
<1>6. ASSUME NEW c \in Callers, TpInitFails(c) PROVE DriverInv'
  BY <1>6, BoundsAssumption DEF TpInitFails, GoTo, Fails, Blame
<1>7. ASSUME NEW c \in Callers, TpInit(c) PROVE DriverInv'
  BY <1>7 DEF TpInit, GoTo, Return
<1>8. ASSUME NEW c \in Callers, TpEnqueueWorkItem(c) PROVE DriverInv'
  BY <1>8 DEF TpEnqueueWorkItem, Crash
<1>9. ASSUME NEW c \in Callers, EnqueueFails(c) PROVE DriverInv'
  BY <1>9, BoundsAssumption DEF EnqueueFails, GoTo, Fails, Blame
<1>10. ASSUME NEW c \in Callers, AllQueued(c) PROVE DriverInv'
  BY <1>10 DEF AllQueued, GoTo, Return
<1>11. ASSUME NEW c \in Callers, TpUninit(c) PROVE DriverInv'
  BY <1>11 DEF TpUninit, GoTo, Blame, Crash
<1>12. ASSUME NEW c \in Callers, Join(c) PROVE DriverInv'
  BY <1>12 DEF Join, GoTo, HandlesFreed
<1>13. ASSUME NEW c \in Callers, JoinFreed(c) PROVE DriverInv'
  BY <1>13 DEF JoinFreed, GoTo, Crash
<1>14. ASSUME NEW c \in Callers, Drain(c) PROVE DriverInv'
  BY <1>14 DEF Drain, Return, GoTo, Crash
<1>15. ASSUME NEW c \in Callers, ProcessEnds(c) PROVE DriverInv'
  BY <1>15 DEF ProcessEnds
<1>16. ASSUME NEW i \in Ids, WorkerWakes(i) PROVE DriverInv'
  BY <1>16 DEF WorkerWakes, TakeItem, WorkerGoesOn
<1>17. ASSUME NEW i \in Ids, WorkerRuns(i) PROVE DriverInv'
  BY <1>17 DEF WorkerRuns, WorkerGoesOn
<1>18. ASSUME NEW i \in Ids, WorkerLooks(i) PROVE DriverInv'
  BY <1>18 DEF WorkerLooks, TakeItem, WorkerGoesOn, Crash
<1>19. ASSUME NEW i \in Ids, WorkerWithoutDriver(i) PROVE DriverInv'
  BY <1>19 DEF WorkerWithoutDriver, Crash
<1>20. CASE EntryStepSucceeds
  BY <1>20, Orders DEF EntryStepSucceeds
<1>21. CASE EntryStepFails
  BY <1>21, BoundsAssumption, Orders DEF EntryStepFails, Fails
<1>22. CASE MyDriverUnload
  BY <1>22 DEF MyDriverUnload
<1>23. CASE Unregister
  BY <1>23, Orders DEF Unregister
<1>24. CASE UnregisterNothing
  BY <1>24, Orders DEF UnregisterNothing, Crash
<1>25. ASSUME NEW k \in Fired, Notify(k) PROVE DriverInv'
  BY <1>25, FiredAssumption, Orders DEF Notify, Crash
<1>26. ASSUME NEW k \in Fired, NotifyReturns(k) PROVE DriverInv'
  BY <1>26 DEF NotifyReturns
<1>27. CASE UNCHANGED vars
  BY <1>27 DEF vars
<1>28. ASSUME NEW c \in Callers, InitTpoolNoInput(c) PROVE DriverInv'
  BY <1>28 DEF InitTpoolNoInput, Arrive, ZeroPool, Blame
<1> QED
  BY <1>1, <1>2, <1>3, <1>4, <1>5, <1>6, <1>7, <1>8, <1>9, <1>10, <1>11, <1>12, <1>13,
     <1>14, <1>15, <1>16, <1>17, <1>18, <1>19, <1>20, <1>21, <1>22, <1>23, <1>24,
     <1>25, <1>26, <1>27, <1>28
  DEF Next, MyDeviceControl, TpWorkerThread

\* each request where its IOCTL may be;
LEMMA RequestsStep ==
    RequestsOK /\ PlaceOK /\ DriverInv /\ [Next]_vars => RequestsOK' /\ PlaceOK'
<1> SUFFICES ASSUME RequestsOK, PlaceOK, DriverInv, [Next]_vars
             PROVE  RequestsOK' /\ PlaceOK'
  OBVIOUS
<1> USE DEF DriverInv, RequestsOK, PlaceOK, requestVars, driverVars
<1>1. ASSUME NEW c \in Callers, InitTpool(c) PROVE RequestsOK' /\ PlaceOK'
  BY <1>1, StrandType, MaxThreadsAssumption, BoundsAssumption
     DEF InitTpool, ZeroPool, Arrive, Enter, GoTo
<1>2. ASSUME NEW c \in Callers, TestTpool(c) PROVE RequestsOK' /\ PlaceOK'
  BY <1>2, TestAssumption, BoundsAssumption DEF TestTpool, Arrive, Enter, GoTo
<1>3. ASSUME NEW c \in Callers, ProcessTpool(c) PROVE RequestsOK' /\ PlaceOK'
  BY <1>3, ProcessItemsAssumption, BoundsAssumption
     DEF ProcessTpool, Arrive, Enter, Return, GoTo
<1>4. ASSUME NEW c \in Callers, UninitTpool(c) PROVE RequestsOK' /\ PlaceOK'
  BY <1>4, BoundsAssumption DEF UninitTpool, Arrive, Enter, Return, GoTo
<1>5. ASSUME NEW c \in Callers, ClearFlag(c) PROVE RequestsOK' /\ PlaceOK'
  BY <1>5 DEF ClearFlag, GoTo
<1>6. ASSUME NEW c \in Callers, TpInitFails(c) PROVE RequestsOK' /\ PlaceOK'
  BY <1>6, StrandType DEF TpInitFails, GoTo, Fails, Blame
<1>7. ASSUME NEW c \in Callers, TpInit(c) PROVE RequestsOK' /\ PlaceOK'
  <2>1. TestItems \in Nat
    BY TestAssumption
  <2>2. CASE op[c] = "TEST"
    BY <1>7, <2>1, <2>2 DEF TpInit, GoTo
  <2>3. CASE op[c] # "TEST"
    <3>1. Return(c, "done") /\ UNCHANGED <<driverVars, open, requests>> /\ left[c] \in Nat
      BY <1>7, <2>3 DEF TpInit
    <3> QED
      BY <3>1 DEF GoTo, Return
  <2> QED
    BY <2>2, <2>3
<1>8. ASSUME NEW c \in Callers, TpEnqueueWorkItem(c) PROVE RequestsOK' /\ PlaceOK'
  <2>1. CASE pool = "zeroed"
    BY <1>8, <2>1 DEF TpEnqueueWorkItem, Crash
  <2>2. CASE pool # "zeroed"
    BY <1>8, <2>2 DEF TpEnqueueWorkItem
  <2> QED
    BY <2>1, <2>2
<1>9. ASSUME NEW c \in Callers, EnqueueFails(c) PROVE RequestsOK' /\ PlaceOK'
  BY <1>9 DEF EnqueueFails, GoTo, Fails, Blame
<1>10. ASSUME NEW c \in Callers, AllQueued(c) PROVE RequestsOK' /\ PlaceOK'
  BY <1>10 DEF AllQueued, GoTo, Return
<1>11. ASSUME NEW c \in Callers, TpUninit(c) PROVE RequestsOK' /\ PlaceOK'
  BY <1>11 DEF TpUninit, GoTo, Blame, Crash
<1>12. ASSUME NEW c \in Callers, Join(c) PROVE RequestsOK' /\ PlaceOK'
  BY <1>12 DEF Join, GoTo, HandlesFreed
<1>13. ASSUME NEW c \in Callers, JoinFreed(c) PROVE RequestsOK' /\ PlaceOK'
  BY <1>13 DEF JoinFreed, GoTo, Crash
<1>14. ASSUME NEW c \in Callers, Drain(c) PROVE RequestsOK' /\ PlaceOK'
  <2>1. CASE pool = "zeroed"
    BY <1>14, <2>1 DEF Drain, Crash
  <2>2. CASE pool # "zeroed"
    <3>1. Outcome(c, number') \in {"done", "failedInit", "unexpected"}
      BY Zenon DEF Outcome
    <3>2. /\ Return(c, Outcome(c, number')) /\ at[c] = "drain"
          /\ UNCHANGED <<driverVars, open, requests>>
      BY <1>14, <2>2 DEF Drain
    <3> HIDE DEF Outcome
    <3> QED
      BY <3>1, <3>2 DEF Return, GoTo
  <2> QED
    BY <2>1, <2>2
<1>15. ASSUME NEW c \in Callers, ProcessEnds(c) PROVE RequestsOK' /\ PlaceOK'
  BY <1>15 DEF ProcessEnds
<1>16. ASSUME NEW i \in Ids, WorkerWakes(i) PROVE RequestsOK' /\ PlaceOK'
  BY <1>16, SeqTypes DEF WorkerWakes, TakeItem, WorkerGoesOn
<1>17. ASSUME NEW i \in Ids, WorkerRuns(i) PROVE RequestsOK' /\ PlaceOK'
  BY <1>17 DEF WorkerRuns, WorkerGoesOn
<1>18. ASSUME NEW i \in Ids, WorkerLooks(i) PROVE RequestsOK' /\ PlaceOK'
  BY <1>18, SeqTypes DEF WorkerLooks, TakeItem, WorkerGoesOn, Crash
<1>19. ASSUME NEW i \in Ids, WorkerWithoutDriver(i) PROVE RequestsOK' /\ PlaceOK'
  BY <1>19 DEF WorkerWithoutDriver, Crash
<1>20. CASE EntryStepSucceeds
  BY <1>20 DEF EntryStepSucceeds
<1>21. CASE EntryStepFails
  BY <1>21 DEF EntryStepFails, Fails
<1>22. CASE MyDriverUnload
  BY <1>22 DEF MyDriverUnload
<1>23. CASE Unregister
  BY <1>23 DEF Unregister
<1>24. CASE UnregisterNothing
  BY <1>24 DEF UnregisterNothing, Crash
<1>25. ASSUME NEW k \in Fired, Notify(k) PROVE RequestsOK' /\ PlaceOK'
  BY <1>25 DEF Notify, Crash
<1>26. ASSUME NEW k \in Fired, NotifyReturns(k) PROVE RequestsOK' /\ PlaceOK'
  BY <1>26 DEF NotifyReturns
<1>27. CASE UNCHANGED vars
  BY <1>27 DEF vars
<1>28. ASSUME NEW c \in Callers, InitTpoolNoInput(c) PROVE RequestsOK' /\ PlaceOK'
  BY <1>28, BoundsAssumption DEF InitTpoolNoInput, Arrive, ZeroPool, Blame
<1> QED
  BY <1>1, <1>2, <1>3, <1>4, <1>5, <1>6, <1>7, <1>8, <1>9, <1>10, <1>11, <1>12, <1>13,
     <1>14, <1>15, <1>16, <1>17, <1>18, <1>19, <1>20, <1>21, <1>22, <1>23, <1>24,
     <1>25, <1>26, <1>27, <1>28
  DEF Next, MyDeviceControl, TpWorkerThread

\* the types of the pool;
LEMMA PoolStep ==
    RequestsOK /\ PlaceOK /\ PoolOK /\ [Next]_vars => PoolOK'
<1> SUFFICES ASSUME RequestsOK, PlaceOK, PoolOK, [Next]_vars PROVE PoolOK'
  OBVIOUS
<1> USE DEF RequestsOK, PlaceOK, PoolOK, poolVars, sumVars
<1>1. ASSUME NEW c \in Callers, InitTpool(c) PROVE PoolOK'
  BY <1>1, StrandType, MaxThreadsAssumption, BoundsAssumption DEF InitTpool, ZeroPool
<1>2. ASSUME NEW c \in Callers, TestTpool(c) PROVE PoolOK'
  BY <1>2, TestAssumption, BoundsAssumption DEF TestTpool
<1>3. ASSUME NEW c \in Callers, ProcessTpool(c) PROVE PoolOK'
  BY <1>3, ProcessItemsAssumption, BoundsAssumption DEF ProcessTpool
<1>4. ASSUME NEW c \in Callers, UninitTpool(c) PROVE PoolOK'
  BY <1>4, BoundsAssumption DEF UninitTpool
<1>5. ASSUME NEW c \in Callers, ClearFlag(c) PROVE PoolOK'
  BY <1>5 DEF ClearFlag, GoTo
<1>6. ASSUME NEW c \in Callers, TpInitFails(c) PROVE PoolOK'
  <2>1. CASE left[c] = 0
    BY <1>6, <2>1 DEF TpInitFails
  <2>2. CASE left[c] > 0
    <3>1. /\ list' = <<>> /\ array' = "freed" /\ inArray' = {} /\ pool' \in {"running", "stopped"}
          /\ thread' = Strand /\ UNCHANGED <<hasBeenInitialized, handleOwner, adds, sumVars>>
      BY <1>6, <2>2 DEF TpInitFails
    <3>2. <<>> \in Seq(Nat)
      OBVIOUS
    <3> QED
      BY <3>1, <3>2, StrandType
  <2> QED
    BY <1>6, <2>1, <2>2
<1>7. ASSUME NEW c \in Callers, TpInit(c) PROVE PoolOK'
  BY <1>7, StrandType, NewThreads, TestAssumption DEF TpInit, GoTo, Return
<1>8. ASSUME NEW c \in Callers, TpEnqueueWorkItem(c) PROVE PoolOK'
  <2>1. CASE pool = "zeroed"
    BY <1>8, <2>1 DEF TpEnqueueWorkItem, Crash
  <2>2. CASE pool # "zeroed"
    <3> DEFINE adding == IF op[c] = "TEST" THEN TestLoop ELSE 1
    <3>1. adding \in Nat
      BY TestAssumption
    <3>2. Append(list, adding) \in Seq(Nat) /\ accepted + adding \in Nat
      BY <3>1, SeqTypes
    <3> QED
      BY <1>8, <2>2, <3>2 DEF TpEnqueueWorkItem
  <2> QED
    BY <2>1, <2>2
<1>9. ASSUME NEW c \in Callers, EnqueueFails(c) PROVE PoolOK'
  BY <1>9 DEF EnqueueFails, GoTo, Fails, Blame
<1>10. ASSUME NEW c \in Callers, AllQueued(c) PROVE PoolOK'
  BY <1>10 DEF AllQueued, GoTo, Return
<1>11. ASSUME NEW c \in Callers, TpUninit(c) PROVE PoolOK'
  BY <1>11 DEF TpUninit, GoTo, Blame, Crash
<1>12. ASSUME NEW c \in Callers, Join(c) PROVE PoolOK'
  BY <1>12 DEF Join, GoTo, HandlesFreed
<1>13. ASSUME NEW c \in Callers, JoinFreed(c) PROVE PoolOK'
  BY <1>13 DEF JoinFreed, GoTo, Crash
<1>14. ASSUME NEW c \in Callers, Drain(c) PROVE PoolOK'
  <2>1. CASE pool = "zeroed"
    BY <1>14, <2>1 DEF Drain, Crash
  <2>2. CASE pool # "zeroed"
    <3>1. Sum(list) \in Nat
      BY ListSum
    <3>2. number + Sum(list) \in Nat /\ <<>> \in Seq(Nat)
      BY <3>1
    <3> QED
      BY <1>14, <2>2, <3>2 DEF Drain
  <2> QED
    BY <2>1, <2>2
<1>15. ASSUME NEW c \in Callers, ProcessEnds(c) PROVE PoolOK'
  BY <1>15 DEF ProcessEnds
<1>16. ASSUME NEW i \in Ids, WorkerWakes(i) PROVE PoolOK'
  BY <1>16, SeqTypes DEF WorkerWakes, TakeItem, WorkerGoesOn
<1>17. ASSUME NEW i \in Ids, WorkerRuns(i) PROVE PoolOK'
  BY <1>17 DEF WorkerRuns, WorkerGoesOn
<1>18. ASSUME NEW i \in Ids, WorkerLooks(i) PROVE PoolOK'
  BY <1>18, SeqTypes DEF WorkerLooks, TakeItem, WorkerGoesOn, Crash
<1>19. ASSUME NEW i \in Ids, WorkerWithoutDriver(i) PROVE PoolOK'
  BY <1>19 DEF WorkerWithoutDriver, Crash
<1>20. CASE EntryStepSucceeds
  BY <1>20 DEF EntryStepSucceeds
<1>21. CASE EntryStepFails
  BY <1>21 DEF EntryStepFails, Fails
<1>22. CASE MyDriverUnload
  BY <1>22 DEF MyDriverUnload
<1>23. CASE Unregister
  BY <1>23 DEF Unregister
<1>24. CASE UnregisterNothing
  BY <1>24 DEF UnregisterNothing, Crash
<1>25. ASSUME NEW k \in Fired, Notify(k) PROVE PoolOK'
  BY <1>25 DEF Notify, Crash
<1>26. ASSUME NEW k \in Fired, NotifyReturns(k) PROVE PoolOK'
  BY <1>26 DEF NotifyReturns
<1>27. CASE UNCHANGED vars
  BY <1>27 DEF vars
<1>28. ASSUME NEW c \in Callers, InitTpoolNoInput(c) PROVE PoolOK'
  BY <1>28, StrandType DEF InitTpoolNoInput, ZeroPool
<1> QED
  BY <1>1, <1>2, <1>3, <1>4, <1>5, <1>6, <1>7, <1>8, <1>9, <1>10, <1>11, <1>12, <1>13,
     <1>14, <1>15, <1>16, <1>17, <1>18, <1>19, <1>20, <1>21, <1>22, <1>23, <1>24,
     <1>25, <1>26, <1>27, <1>28
  DEF Next, MyDeviceControl, TpWorkerThread

\* unless requests overlapped, one at a time, and none that failed on its way back;
LEMMA OverlapStep ==
    RequestsOK /\ PlaceOK /\ PoolOK /\ OneAtATime /\ FailedInitOK /\ [Next]_vars =>
        OneAtATime' /\ FailedInitOK'
<1> SUFFICES ASSUME RequestsOK, PlaceOK, PoolOK, OneAtATime, FailedInitOK, [Next]_vars
             PROVE  OneAtATime' /\ FailedInitOK'
  OBVIOUS
<1> USE DEF RequestsOK, PlaceOK, OneAtATime, FailedInitOK, requestVars, poolVars
<1>1. ASSUME NEW c \in Callers, InitTpool(c) PROVE OneAtATime' /\ FailedInitOK'
  <2>1. CASE \E d \in Callers \ {c} : at[d] # "idle"
    <3>1. PICK d \in Callers \ {c} : at[d] # "idle"
      BY <2>1
    <3>2. {"INIT", op[d]} # {"PROCESS"}
      OBVIOUS
    <3>3. blame' = "overlap"
      BY <1>1, <3>1, <3>2 DEF InitTpool, ZeroPool, Arrive, Blame
    <3> QED
      BY <3>3
  <2>2. CASE \A d \in Callers \ {c} : at[d] = "idle"
    <3>1. /\ pool' = "zeroed" /\ status' = status
          /\ at' = [at EXCEPT ![c] = "tpInit"] /\ op' = [op EXCEPT ![c] = "INIT"]
          /\ blame # "overlap"
      BY <1>1 DEF InitTpool, ZeroPool, Arrive, Enter, GoTo
    <3> QED
      BY <3>1, <2>2
  <2> QED
    BY <2>1, <2>2
<1>2. ASSUME NEW c \in Callers, TestTpool(c) PROVE OneAtATime' /\ FailedInitOK'
  BY <1>2 DEF TestTpool, Arrive, Enter, GoTo, Blame
<1>3. ASSUME NEW c \in Callers, ProcessTpool(c) PROVE OneAtATime' /\ FailedInitOK'
  BY <1>3 DEF ProcessTpool, Arrive, Enter, Return, GoTo, Blame
<1>4. ASSUME NEW c \in Callers, UninitTpool(c) PROVE OneAtATime' /\ FailedInitOK'
  BY <1>4 DEF UninitTpool, Arrive, Enter, Return, GoTo, Blame
<1>5. ASSUME NEW c \in Callers, ClearFlag(c) PROVE OneAtATime' /\ FailedInitOK'
  BY <1>5 DEF ClearFlag, GoTo
<1>6. ASSUME NEW c \in Callers, TpInitFails(c) PROVE OneAtATime' /\ FailedInitOK'
  BY <1>6, TestAssumption DEF TpInitFails, GoTo, Fails, Blame
<1>7. ASSUME NEW c \in Callers, TpInit(c) PROVE OneAtATime' /\ FailedInitOK'
  <2>1. blame' = blame /\ at[c] = "tpInit" /\ status' \in {status, [status EXCEPT ![c] = "done"]}
    BY <1>7 DEF TpInit, Return
  <2>2. \/ op' = op /\ op[c] = "TEST" /\ at' = [at EXCEPT ![c] = "queue"]
        \/ op' = [op EXCEPT ![c] = "none"] /\ at' = [at EXCEPT ![c] = "idle"]
    BY <1>7 DEF TpInit, Return, GoTo
  <2>3. blame # "overlap" => \A d \in Callers \ {c} : op[d] \notin {"INIT", "failedInit"}
    BY <2>1
  <2> QED
    BY <2>1, <2>2, <2>3
<1>8. ASSUME NEW c \in Callers, TpEnqueueWorkItem(c) PROVE OneAtATime' /\ FailedInitOK'
  BY <1>8 DEF TpEnqueueWorkItem, Crash
<1>9. ASSUME NEW c \in Callers, EnqueueFails(c) PROVE OneAtATime' /\ FailedInitOK'
  BY <1>9 DEF EnqueueFails, GoTo, Fails, Blame
<1>10. ASSUME NEW c \in Callers, AllQueued(c) PROVE OneAtATime' /\ FailedInitOK'
  BY <1>10 DEF AllQueued, GoTo, Return
<1>11. ASSUME NEW c \in Callers, TpUninit(c) PROVE OneAtATime' /\ FailedInitOK'
  BY <1>11 DEF TpUninit, GoTo, Blame, Crash
<1>12. ASSUME NEW c \in Callers, Join(c) PROVE OneAtATime' /\ FailedInitOK'
  BY <1>12 DEF Join, GoTo, HandlesFreed
<1>13. ASSUME NEW c \in Callers, JoinFreed(c) PROVE OneAtATime' /\ FailedInitOK'
  BY <1>13 DEF JoinFreed, GoTo, Crash
<1>14. ASSUME NEW c \in Callers, Drain(c) PROVE OneAtATime' /\ FailedInitOK'
  <2>1. CASE pool = "zeroed"
    BY <1>14, <2>1 DEF Drain, Crash
  <2>2. CASE pool # "zeroed"
    <3>1. Outcome(c, number') = "failedInit" => op[c] = "failedInit"
      BY Zenon DEF Outcome
    <3>2. /\ Return(c, Outcome(c, number')) /\ at[c] = "drain"
          /\ UNCHANGED <<pool, array, blame>>
      BY <1>14, <2>2 DEF Drain
    <3> HIDE DEF Outcome
    <3> QED
      BY <3>1, <3>2 DEF Return, GoTo
  <2> QED
    BY <2>1, <2>2
<1>15. ASSUME NEW c \in Callers, ProcessEnds(c) PROVE OneAtATime' /\ FailedInitOK'
  BY <1>15 DEF ProcessEnds
<1>16. ASSUME NEW i \in Ids, WorkerWakes(i) PROVE OneAtATime' /\ FailedInitOK'
  BY <1>16 DEF WorkerWakes, TakeItem, WorkerGoesOn
<1>17. ASSUME NEW i \in Ids, WorkerRuns(i) PROVE OneAtATime' /\ FailedInitOK'
  BY <1>17 DEF WorkerRuns, WorkerGoesOn
<1>18. ASSUME NEW i \in Ids, WorkerLooks(i) PROVE OneAtATime' /\ FailedInitOK'
  BY <1>18 DEF WorkerLooks, TakeItem, WorkerGoesOn, Crash
<1>19. ASSUME NEW i \in Ids, WorkerWithoutDriver(i) PROVE OneAtATime' /\ FailedInitOK'
  BY <1>19 DEF WorkerWithoutDriver, Crash
<1>20. CASE EntryStepSucceeds
  BY <1>20 DEF EntryStepSucceeds
<1>21. CASE EntryStepFails
  BY <1>21 DEF EntryStepFails, Fails
<1>22. CASE MyDriverUnload
  BY <1>22 DEF MyDriverUnload
<1>23. CASE Unregister
  BY <1>23 DEF Unregister
<1>24. CASE UnregisterNothing
  BY <1>24 DEF UnregisterNothing, Crash
<1>25. ASSUME NEW k \in Fired, Notify(k) PROVE OneAtATime' /\ FailedInitOK'
  BY <1>25 DEF Notify, Crash
<1>26. ASSUME NEW k \in Fired, NotifyReturns(k) PROVE OneAtATime' /\ FailedInitOK'
  BY <1>26 DEF NotifyReturns
<1>27. CASE UNCHANGED vars
  BY <1>27 DEF vars
<1>28. ASSUME NEW c \in Callers, InitTpoolNoInput(c) PROVE OneAtATime' /\ FailedInitOK'
  BY <1>28 DEF InitTpoolNoInput, Arrive, ZeroPool, Blame
<1> QED
  BY <1>1, <1>2, <1>3, <1>4, <1>5, <1>6, <1>7, <1>8, <1>9, <1>10, <1>11, <1>12, <1>13,
     <1>14, <1>15, <1>16, <1>17, <1>18, <1>19, <1>20, <1>21, <1>22, <1>23, <1>24,
     <1>25, <1>26, <1>27, <1>28
  DEF Next, MyDeviceControl, TpWorkerThread

\* and idle hands empty.
LEMMA AddsStep ==
    PoolOK /\ AddsOK /\ [Next]_vars => AddsOK'
<1> SUFFICES ASSUME PoolOK, AddsOK, [Next]_vars PROVE AddsOK'
  OBVIOUS
<1> USE DEF PoolOK, AddsOK, poolVars, Free, Strand
<1>1. ASSUME NEW c \in Callers, InitTpool(c) PROVE AddsOK'
  BY <1>1 DEF InitTpool, ZeroPool
<1>2. ASSUME NEW c \in Callers, TestTpool(c) PROVE AddsOK'
  BY <1>2 DEF TestTpool
<1>3. ASSUME NEW c \in Callers, ProcessTpool(c) PROVE AddsOK'
  BY <1>3 DEF ProcessTpool
<1>4. ASSUME NEW c \in Callers, UninitTpool(c) PROVE AddsOK'
  BY <1>4 DEF UninitTpool
<1>5. ASSUME NEW c \in Callers, ClearFlag(c) PROVE AddsOK'
  BY <1>5 DEF ClearFlag, GoTo
<1>6. ASSUME NEW c \in Callers, TpInitFails(c) PROVE AddsOK'
  BY <1>6 DEF TpInitFails, GoTo, Fails, Blame
<1>7. ASSUME NEW c \in Callers, TpInit(c) PROVE AddsOK'
  <2>1. PICK new \in SUBSET Ids :
            /\ thread' = [i \in Ids |-> IF i \in new THEN "waiting" ELSE Strand[i]]
            /\ new \subseteq Free
    BY <1>7 DEF TpInit, kSubset
  <2> QED
    BY <2>1, <1>7 DEF TpInit
<1>8. ASSUME NEW c \in Callers, TpEnqueueWorkItem(c) PROVE AddsOK'
  BY <1>8 DEF TpEnqueueWorkItem, Crash
<1>9. ASSUME NEW c \in Callers, EnqueueFails(c) PROVE AddsOK'
  BY <1>9 DEF EnqueueFails, GoTo, Fails, Blame
<1>10. ASSUME NEW c \in Callers, AllQueued(c) PROVE AddsOK'
  BY <1>10 DEF AllQueued, GoTo, Return
<1>11. ASSUME NEW c \in Callers, TpUninit(c) PROVE AddsOK'
  BY <1>11 DEF TpUninit, GoTo, Blame, Crash
<1>12. ASSUME NEW c \in Callers, Join(c) PROVE AddsOK'
  BY <1>12 DEF Join, GoTo, HandlesFreed
<1>13. ASSUME NEW c \in Callers, JoinFreed(c) PROVE AddsOK'
  BY <1>13 DEF JoinFreed, GoTo, Crash
<1>14. ASSUME NEW c \in Callers, Drain(c) PROVE AddsOK'
  BY <1>14 DEF Drain, Return, GoTo, Crash
<1>15. ASSUME NEW c \in Callers, ProcessEnds(c) PROVE AddsOK'
  BY <1>15 DEF ProcessEnds
<1>16. ASSUME NEW i \in Ids, WorkerWakes(i) PROVE AddsOK'
  BY <1>16 DEF WorkerWakes, TakeItem, WorkerGoesOn
<1>17. ASSUME NEW i \in Ids, WorkerRuns(i) PROVE AddsOK'
  BY <1>17 DEF WorkerRuns, WorkerGoesOn
<1>18. ASSUME NEW i \in Ids, WorkerLooks(i) PROVE AddsOK'
  BY <1>18 DEF WorkerLooks, TakeItem, WorkerGoesOn, Crash
<1>19. ASSUME NEW i \in Ids, WorkerWithoutDriver(i) PROVE AddsOK'
  BY <1>19 DEF WorkerWithoutDriver, Crash
<1>20. CASE EntryStepSucceeds
  BY <1>20 DEF EntryStepSucceeds
<1>21. CASE EntryStepFails
  BY <1>21 DEF EntryStepFails, Fails
<1>22. CASE MyDriverUnload
  BY <1>22 DEF MyDriverUnload
<1>23. CASE Unregister
  BY <1>23 DEF Unregister
<1>24. CASE UnregisterNothing
  BY <1>24 DEF UnregisterNothing, Crash
<1>25. ASSUME NEW k \in Fired, Notify(k) PROVE AddsOK'
  BY <1>25 DEF Notify, Crash
<1>26. ASSUME NEW k \in Fired, NotifyReturns(k) PROVE AddsOK'
  BY <1>26 DEF NotifyReturns
<1>27. CASE UNCHANGED vars
  BY <1>27 DEF vars
<1>28. ASSUME NEW c \in Callers, InitTpoolNoInput(c) PROVE AddsOK'
  BY <1>28 DEF InitTpoolNoInput, ZeroPool
<1> QED
  BY <1>1, <1>2, <1>3, <1>4, <1>5, <1>6, <1>7, <1>8, <1>9, <1>10, <1>11, <1>12, <1>13,
     <1>14, <1>15, <1>16, <1>17, <1>18, <1>19, <1>20, <1>21, <1>22, <1>23, <1>24,
     <1>25, <1>26, <1>27, <1>28
  DEF Next, MyDeviceControl, TpWorkerThread

\* The two halves of Blameless.
Settled == blame = "none" => RestOK /\ \A c \in Callers : RequestOK(c)
Balanced == blame = "none" => Conserved

\* There are finitely many threads,
LEMMA IdsFinite == IsFiniteSet(Ids)
  BY ThreadIdsAssumption, FS_Interval DEF Ids

\* so what they hold has a sum.
LEMMA SumType == \A f \in [Ids -> Nat] : SumFunction(f) \in Nat
<1> SUFFICES ASSUME NEW f \in [Ids -> Nat] PROVE SumFunction(f) \in Nat
  OBVIOUS
<1>1. 1 \in Ids
  BY ThreadIdsAssumption DEF Ids
<1> QED
  BY <1>1, IdsFinite, SumExcept

\* With no worker busy, there is nothing in any worker's hands.
LEMMA NothingInHand ==
    ASSUME PoolOK, AddsOK, Live = {}
    PROVE  SumFunction(adds) = 0
<1>1. \A i \in Ids : adds[i] = 0
  BY DEF Live, AddsOK
<1> QED
  BY <1>1, IdsFinite, SumZero DEF PoolOK

\* A request that leaves nothing to blame came alone: the others are PROCESS, and
\* INIT and TEST found neither a pool nor its threads.
LEMMA ArriveAlone ==
    ASSUME NEW c \in Callers, NEW code \in {"INIT", "noInput", "PROCESS", "UNINIT", "TEST"},
           RequestsOK, PlaceOK, Arrive(c, code), blame' = "none"
    PROVE  /\ blame = "none" /\ at[c] = "idle"
           /\ code # "PROCESS" => Idle
           /\ code # "noInput"
           /\ code \in {"INIT", "TEST"} => Live = {} /\ array # "open"
           /\ \A d \in Callers : at[d] # "idle" => op[d] = "PROCESS"
<1>1. at[c] = "idle" /\ blame # "overlap"
  BY DEF Arrive
<1>2. \A d \in Callers \ {c} : at[d] # "idle" => {code, op[d]} = {"PROCESS"}
  BY DEF Arrive, Blame
<1>3. \A d \in Callers \ {c} : at[d] # "idle" => code = "PROCESS" /\ op[d] = "PROCESS"
  BY <1>2
<1>4. code \in {"INIT", "TEST"} => Live = {} /\ array # "open"
  BY DEF Arrive, Blame
<1>5. blame = "none" /\ code # "noInput"
  BY DEF Arrive, Blame
<1> QED
  BY <1>1, <1>3, <1>4, <1>5 DEF Idle

\* Taking an item moves it from the list into a worker's hands.
LEMMA TakeBalanced ==
    ASSUME NEW i \in Ids, PoolOK, AddsOK, thread[i] # "busy", TakeItem(i)
    PROVE  number' + Sum(list') + SumFunction(adds') = number + Sum(list) + SumFunction(adds)
<1>1. /\ list # <<>> /\ list' = Tail(list) /\ number' = number
      /\ adds' = [adds EXCEPT ![i] = Head(list)]
  BY DEF TakeItem, WorkerGoesOn
<1>2. list \in Seq(Nat) /\ adds \in [Ids -> Nat] /\ number \in Nat /\ adds[i] = 0
  BY DEF PoolOK, AddsOK
<1>3. Head(list) \in Nat /\ Tail(list) \in Seq(Nat)
  BY <1>1, <1>2, SeqTypes
<1>4. Sum(list) = Head(list) + Sum(Tail(list)) /\ Sum(Tail(list)) \in Nat
  BY <1>1, <1>2, <1>3, ListSum
<1>5. /\ SumFunction(adds) \in Nat
      /\ SumFunction([adds EXCEPT ![i] = Head(list)]) = SumFunction(adds) - 0 + Head(list)
  BY <1>2, <1>3, IdsFinite, SumExcept
<1> QED
  BY <1>1, <1>2, <1>3, <1>4, <1>5

\* With nothing to blame no item is lost or run twice,
LEMMA BalancedStep ==
    RequestsOK /\ PlaceOK /\ PoolOK /\ AddsOK /\ Settled /\ Balanced /\ [Next]_vars =>
        Balanced'
<1> SUFFICES ASSUME RequestsOK, PlaceOK, PoolOK, AddsOK, Settled, Balanced, [Next]_vars
             PROVE  Balanced'
  OBVIOUS
<1> USE DEF Balanced, Conserved, poolVars, sumVars
<1>1. ASSUME NEW c \in Callers, InitTpool(c) PROVE Balanced'
  <2> SUFFICES ASSUME blame' = "none" PROVE Conserved'
    BY DEF Balanced
  <2>1. Arrive(c, "INIT") /\ number' = 0 /\ accepted' = 0 /\ list' = <<>> /\ adds' = adds
    BY <1>1 DEF InitTpool, ZeroPool
  <2>2. SumFunction(adds) = 0
    BY <2>1, ArriveAlone, NothingInHand
  <2> QED
    BY <2>1, <2>2, ListSum DEF Conserved
<1>2. ASSUME NEW c \in Callers, TestTpool(c) PROVE Balanced'
  <2> SUFFICES ASSUME blame' = "none" PROVE Conserved'
    BY DEF Balanced
  <2>1. Arrive(c, "TEST") /\ number' = 0 /\ accepted' = 0 /\ list' = list /\ adds' = adds
    BY <1>2 DEF TestTpool
  <2>2. blame = "none" /\ Idle /\ Live = {} /\ array # "open"
    BY <2>1, ArriveAlone
  <2>3. SumFunction(adds) = 0
    BY <2>2, NothingInHand
  <2>4. list = <<>>
    BY <2>2 DEF Settled, RestOK, Idle
  <2> QED
    BY <2>1, <2>3, <2>4, ListSum DEF Conserved
<1>3. ASSUME NEW c \in Callers, ProcessTpool(c) PROVE Balanced'
  BY <1>3 DEF ProcessTpool, Arrive, Blame
<1>4. ASSUME NEW c \in Callers, UninitTpool(c) PROVE Balanced'
  BY <1>4 DEF UninitTpool, Arrive, Blame
<1>5. ASSUME NEW c \in Callers, ClearFlag(c) PROVE Balanced'
  BY <1>5 DEF ClearFlag, GoTo
<1>6. ASSUME NEW c \in Callers, TpInitFails(c) PROVE Balanced'
  BY <1>6 DEF TpInitFails, GoTo, Fails, Blame
<1>7. ASSUME NEW c \in Callers, TpInit(c) PROVE Balanced'
  <2> SUFFICES ASSUME blame' = "none" PROVE Conserved'
    BY DEF Balanced
  <2>1. at[c] = "tpInit" /\ list' = <<>> /\ adds' = adds /\ blame' = blame
    BY <1>7 DEF TpInit
  <2>2. (number' = number /\ accepted' = accepted) \/ (number' = 0 /\ accepted' = 0)
    BY <1>7 DEF TpInit
  <2>3. list = <<>> /\ number = 0 /\ accepted = 0
    BY <2>1 DEF Settled, RequestOK
  <2> QED
    BY <2>1, <2>2, <2>3 DEF Balanced, Conserved
<1>8. ASSUME NEW c \in Callers, TpEnqueueWorkItem(c) PROVE Balanced'
  <2> SUFFICES ASSUME blame' = "none" PROVE Conserved'
    BY DEF Balanced
  <2>1. CASE pool = "zeroed"
    BY <1>8, <2>1 DEF TpEnqueueWorkItem, Crash, Balanced, Conserved
  <2>2. CASE pool # "zeroed"
    <3> DEFINE adding == IF op[c] = "TEST" THEN TestLoop ELSE 1
    <3>1. adding \in Nat
      BY TestAssumption
    <3>2. /\ list' = Append(list, adding) /\ accepted' = accepted + adding
          /\ number' = number /\ adds' = adds /\ blame' = blame
      BY <1>8, <2>2 DEF TpEnqueueWorkItem
    <3> HIDE DEF adding
    <3>3. Sum(list') = Sum(list) + adding /\ Sum(list) \in Nat
      BY <3>1, <3>2, ListSum DEF PoolOK
    <3>4. SumFunction(adds) \in Nat
      BY SumType DEF PoolOK
    <3>5. number \in Nat /\ number + Sum(list) + SumFunction(adds) = accepted
      BY <3>2 DEF Balanced, Conserved, PoolOK
    <3>6. number + (Sum(list) + adding) + SumFunction(adds) = accepted + adding
      BY <3>1, <3>3, <3>4, <3>5
    <3> QED
      BY <3>2, <3>3, <3>6 DEF Conserved
  <2> QED
    BY <2>1, <2>2
<1>9. ASSUME NEW c \in Callers, EnqueueFails(c) PROVE Balanced'
  BY <1>9 DEF EnqueueFails, GoTo, Fails, Blame
<1>10. ASSUME NEW c \in Callers, AllQueued(c) PROVE Balanced'
  BY <1>10 DEF AllQueued, GoTo, Return
<1>11. ASSUME NEW c \in Callers, TpUninit(c) PROVE Balanced'
  BY <1>11 DEF TpUninit, GoTo, Blame, Crash
<1>12. ASSUME NEW c \in Callers, Join(c) PROVE Balanced'
  BY <1>12 DEF Join, GoTo, HandlesFreed
<1>13. ASSUME NEW c \in Callers, JoinFreed(c) PROVE Balanced'
  BY <1>13 DEF JoinFreed, GoTo, Crash
<1>14. ASSUME NEW c \in Callers, Drain(c) PROVE Balanced'
  <2> SUFFICES ASSUME blame' = "none" PROVE Conserved'
    BY DEF Balanced
  <2>1. CASE pool = "zeroed"
    BY <1>14, <2>1 DEF Drain, Crash, Balanced, Conserved
  <2>2. CASE pool # "zeroed"
    <3>1. /\ list' = <<>> /\ number' = number + Sum(list)
          /\ accepted' = accepted /\ adds' = adds /\ blame' = blame
      BY <1>14, <2>2 DEF Drain
    <3>2. Sum(list) \in Nat /\ Sum(list') = 0
      BY <3>1, ListSum DEF PoolOK
    <3>3. SumFunction(adds) \in Nat
      BY SumType DEF PoolOK
    <3> QED
      BY <3>1, <3>2, <3>3 DEF Balanced, Conserved, PoolOK
  <2> QED
    BY <2>1, <2>2
<1>15. ASSUME NEW c \in Callers, ProcessEnds(c) PROVE Balanced'
  BY <1>15 DEF ProcessEnds
<1>16. ASSUME NEW i \in Ids, WorkerWakes(i) PROVE Balanced'
  <2>1. CASE TakeItem(i)
    <3>1. number' + Sum(list') + SumFunction(adds') = number + Sum(list) + SumFunction(adds)
      BY <1>16, <2>1, TakeBalanced DEF WorkerWakes
    <3>2. accepted' = accepted /\ blame' = blame
      BY <2>1 DEF TakeItem, WorkerGoesOn
    <3> QED
      BY <3>1, <3>2 DEF Balanced, Conserved
  <2>2. CASE ~TakeItem(i)
    BY <1>16, <2>2 DEF WorkerWakes, WorkerGoesOn, Balanced, Conserved
  <2> QED
    BY <2>1, <2>2
<1>17. ASSUME NEW i \in Ids, WorkerRuns(i) PROVE Balanced'
  <2>1. /\ number' = number + adds[i] /\ adds' = [adds EXCEPT ![i] = 0] /\ list' = list
        /\ accepted' = accepted /\ blame' = blame
    BY <1>17 DEF WorkerRuns, WorkerGoesOn
  <2>2. /\ SumFunction(adds) \in Nat
        /\ SumFunction([adds EXCEPT ![i] = 0]) = SumFunction(adds) - adds[i] + 0
    <3>1. adds \in [Ids -> Nat] /\ 0 \in Nat
      BY DEF PoolOK
    <3> QED
      BY <3>1, IdsFinite, SumExcept
  <2>3. Sum(list) \in Nat /\ adds[i] \in Nat /\ number \in Nat
    BY ListSum DEF PoolOK
  <2>4. number' + Sum(list') + SumFunction(adds') = number + Sum(list) + SumFunction(adds)
    BY <2>1, <2>2, <2>3
  <2> QED
    BY <2>1, <2>4 DEF Balanced, Conserved
<1>18. ASSUME NEW i \in Ids, WorkerLooks(i) PROVE Balanced'
  <2>1. CASE TakeItem(i)
    <3>1. number' + Sum(list') + SumFunction(adds') = number + Sum(list) + SumFunction(adds)
      BY <1>18, <2>1, TakeBalanced DEF WorkerLooks
    <3>2. accepted' = accepted /\ blame' = blame
      BY <2>1 DEF TakeItem, WorkerGoesOn
    <3> QED
      BY <3>1, <3>2 DEF Balanced, Conserved
  <2>2. CASE ~TakeItem(i)
    BY <1>18, <2>2 DEF WorkerLooks, WorkerGoesOn, Crash, Balanced, Conserved
  <2> QED
    BY <2>1, <2>2
<1>19. ASSUME NEW i \in Ids, WorkerWithoutDriver(i) PROVE Balanced'
  BY <1>19 DEF WorkerWithoutDriver, Crash
<1>20. CASE EntryStepSucceeds
  BY <1>20 DEF EntryStepSucceeds
<1>21. CASE EntryStepFails
  BY <1>21 DEF EntryStepFails, Fails
<1>22. CASE MyDriverUnload
  BY <1>22 DEF MyDriverUnload
<1>23. CASE Unregister
  BY <1>23 DEF Unregister
<1>24. CASE UnregisterNothing
  BY <1>24 DEF UnregisterNothing, Crash
<1>25. ASSUME NEW k \in Fired, Notify(k) PROVE Balanced'
  BY <1>25 DEF Notify, Crash
<1>26. ASSUME NEW k \in Fired, NotifyReturns(k) PROVE Balanced'
  BY <1>26 DEF NotifyReturns
<1>27. CASE UNCHANGED vars
  BY <1>27 DEF vars
<1>28. ASSUME NEW c \in Callers, InitTpoolNoInput(c) PROVE Balanced'
  <2>1. Arrive(c, "noInput")
    BY <1>28 DEF InitTpoolNoInput
  <2> QED
    BY <2>1, ArriveAlone
<1> QED
  BY <1>1, <1>2, <1>3, <1>4, <1>5, <1>6, <1>7, <1>8, <1>9, <1>10, <1>11, <1>12, <1>13,
     <1>14, <1>15, <1>16, <1>17, <1>18, <1>19, <1>20, <1>21, <1>22, <1>23, <1>24,
     <1>25, <1>26, <1>27, <1>28
  DEF Next, MyDeviceControl, TpWorkerThread

\* and each request finds the pool as its own earlier steps left it.
LEMMA SettledStep ==
    RequestsOK /\ PlaceOK /\ PoolOK /\ OneAtATime /\ AddsOK /\ Settled /\ Balanced
    /\ [Next]_vars =>
        Settled'
<1> SUFFICES ASSUME RequestsOK, PlaceOK, PoolOK, OneAtATime, AddsOK, Settled, Balanced,
                    [Next]_vars
             PROVE  Settled'
  OBVIOUS
<1> USE DEF requestVars, poolVars, sumVars
<1>1. ASSUME NEW c \in Callers, InitTpool(c) PROVE Settled'
  <2> SUFFICES ASSUME blame' = "none" PROVE RestOK' /\ \A d \in Callers : RequestOK(d)'
    BY DEF Settled
  <2>1. Arrive(c, "INIT")
    BY <1>1 DEF InitTpool, ZeroPool
  <2>2. blame = "none" /\ Idle /\ Live = {} /\ array # "open"
    BY <2>1, ArriveAlone
  <2>3. /\ hasBeenInitialized' = TRUE /\ pool' = "zeroed" /\ list' = <<>>
        /\ array' = "zero" /\ number' = 0 /\ accepted' = 0 /\ thread' = Strand
        /\ at' = [at EXCEPT ![c] = "tpInit"] /\ op' = [op EXCEPT ![c] = "INIT"]
        /\ status' = status
    BY <1>1 DEF InitTpool, ZeroPool, Enter, GoTo
  <2>4. Live' = {}
    BY <2>2, <2>3 DEF Live, Strand
  <2>5. \A d \in Callers : RequestOK(d)'
    BY <2>2, <2>3 DEF Settled, RequestOK, Idle, RequestsOK
  <2> QED
    BY <2>3, <2>4, <2>5 DEF RestOK, Idle, RequestsOK
<1>2. ASSUME NEW c \in Callers, TestTpool(c) PROVE Settled'
  <2> SUFFICES ASSUME blame' = "none" PROVE RestOK' /\ \A d \in Callers : RequestOK(d)'
    BY DEF Settled
  <2>1. Arrive(c, "TEST")
    BY <1>2 DEF TestTpool
  <2>2. blame = "none" /\ Idle /\ Live = {} /\ array # "open"
    BY <2>1, ArriveAlone
  <2>3. /\ poolVars' = poolVars /\ number' = 0 /\ accepted' = 0
        /\ at' = [at EXCEPT ![c] = "tpInit"] /\ op' = [op EXCEPT ![c] = "TEST"]
        /\ status' = status
    BY <1>2 DEF TestTpool, Enter, GoTo
  <2>4. ~hasBeenInitialized /\ list = <<>>
    BY <2>2 DEF Settled, RestOK, Idle
  <2>5. \A d \in Callers : RequestOK(d)'
    BY <2>2, <2>3, <2>4 DEF Settled, RequestOK, Idle, RequestsOK, poolVars
  <2> QED
    BY <2>2, <2>3, <2>4, <2>5 DEF Settled, RestOK, Live, Idle, RequestsOK, poolVars
<1>3. ASSUME NEW c \in Callers, ProcessTpool(c) PROVE Settled'
  <2> SUFFICES ASSUME blame' = "none" PROVE RestOK' /\ \A d \in Callers : RequestOK(d)'
    BY DEF Settled
  <2>1. Arrive(c, "PROCESS") /\ UNCHANGED <<poolVars, sumVars>>
    BY <1>3 DEF ProcessTpool
  <2>2. blame = "none" /\ \A d \in Callers : at[d] # "idle" => op[d] = "PROCESS"
    BY <2>1, ArriveAlone
  <2>3. \/ /\ hasBeenInitialized /\ status' = status
           /\ at' = [at EXCEPT ![c] = "queue"] /\ op' = [op EXCEPT ![c] = "PROCESS"]
        \/ /\ ~hasBeenInitialized /\ status' = [status EXCEPT ![c] = "done"]
           /\ at' = [at EXCEPT ![c] = "idle"] /\ op' = [op EXCEPT ![c] = "none"]
    BY <1>3 DEF ProcessTpool, Enter, Return, GoTo
  <2>4. \A d \in Callers : at[d] # "tpInit"
    BY <2>2 DEF PlaceOK
  <2>5. \A d \in Callers : d # c => RequestOK(d)'
    BY <2>1, <2>2, <2>3 DEF Settled, RequestOK, RequestsOK, poolVars, sumVars
  <2>6. RequestOK(c)'
    BY <2>1, <2>2, <2>3, <2>4 DEF Settled, RequestOK, RestOK, RequestsOK, poolVars, sumVars
  <2> QED
    BY <2>1, <2>2, <2>3, <2>4, <2>5, <2>6, ArriveAlone
       DEF Settled, RestOK, Live, Idle, RequestsOK, poolVars
<1>4. ASSUME NEW c \in Callers, UninitTpool(c) PROVE Settled'
  <2> SUFFICES ASSUME blame' = "none" PROVE RestOK' /\ \A d \in Callers : RequestOK(d)'
    BY DEF Settled
  <2>1. Arrive(c, "UNINIT") /\ UNCHANGED <<poolVars, sumVars>>
    BY <1>4 DEF UninitTpool
  <2>2. blame = "none" /\ \A d \in Callers : at[d] # "idle" => op[d] = "PROCESS"
    BY <2>1, ArriveAlone
  <2>3. \/ /\ hasBeenInitialized /\ status' = status
           /\ at' = [at EXCEPT ![c] = "clear"] /\ op' = [op EXCEPT ![c] = "UNINIT"]
        \/ /\ ~hasBeenInitialized /\ status' = [status EXCEPT ![c] = "done"]
           /\ at' = [at EXCEPT ![c] = "idle"] /\ op' = [op EXCEPT ![c] = "none"]
    BY <1>4 DEF UninitTpool, Enter, Return, GoTo
  <2>4. \A d \in Callers : at[d] # "tpInit"
    BY <2>2 DEF PlaceOK
  <2>5. \A d \in Callers : d # c => RequestOK(d)'
    BY <2>1, <2>2, <2>3 DEF Settled, RequestOK, RequestsOK, poolVars, sumVars
  <2>6. RequestOK(c)'
    BY <2>1, <2>2, <2>3, <2>4 DEF Settled, RequestOK, RestOK, RequestsOK, poolVars, sumVars
  <2> QED
    BY <2>1, <2>2, <2>3, <2>4, <2>5, <2>6, ArriveAlone
       DEF Settled, RestOK, Live, Idle, RequestsOK, poolVars
<1>5. ASSUME NEW c \in Callers, ClearFlag(c) PROVE Settled'
  <2> SUFFICES ASSUME blame' = "none" PROVE RestOK' /\ \A d \in Callers : RequestOK(d)'
    BY DEF Settled
  <2>1. /\ blame = "none" /\ at[c] = "clear" /\ op[c] = "UNINIT" /\ hasBeenInitialized
        /\ hasBeenInitialized' = FALSE /\ at' = [at EXCEPT ![c] = "uninit"]
        /\ UNCHANGED <<op, status, pool, list, array, inArray, handleOwner, thread,
                       number, accepted>>
    BY <1>5 DEF ClearFlag, GoTo, Settled, RequestOK, PlaceOK, sumVars
  <2>2. \A d \in Callers \ {c} : at[d] = "idle"
    BY <2>1 DEF OneAtATime
  <2>3. \A d \in Callers : at[d] # "tpInit"
    BY <2>1, <2>2
  <2>4. pool = "running" /\ array = "open"
    BY <2>1, <2>3 DEF Settled, RestOK
  <2>5. \A d \in Callers : RequestOK(d)'
    BY <2>1, <2>2, <2>4 DEF Settled, RequestOK, RequestsOK
  <2> QED
    BY <2>1, <2>2, <2>4, <2>5 DEF Settled, RestOK, Live, Idle, RequestsOK
<1>6. ASSUME NEW c \in Callers, TpInitFails(c) PROVE Settled'
  BY <1>6 DEF TpInitFails, Blame, Settled
<1>7. ASSUME NEW c \in Callers, TpInit(c) PROVE Settled'
  <2> SUFFICES ASSUME blame' = "none" PROVE RestOK' /\ \A d \in Callers : RequestOK(d)'
    BY DEF Settled
  <2>1. PICK new \in kSubset(left[c], Free) :
            /\ inArray' = new
            /\ thread' = [i \in Ids |-> IF i \in new THEN "waiting" ELSE Strand[i]]
    BY <1>7 DEF TpInit
  <2>2. /\ blame' = blame /\ at[c] = "tpInit" /\ left[c] > 0
        /\ pool' = "running" /\ list' = <<>> /\ array' = "open" /\ handleOwner' = c
        /\ hasBeenInitialized' = hasBeenInitialized
    BY <1>7 DEF TpInit
  <2>3. \/ /\ op[c] = "TEST" /\ at' = [at EXCEPT ![c] = "queue"]
           /\ left' = [left EXCEPT ![c] = TestItems] /\ UNCHANGED <<op, status, number, accepted>>
        \/ /\ op[c] # "TEST" /\ at' = [at EXCEPT ![c] = "idle"] /\ op' = [op EXCEPT ![c] = "none"]
           /\ status' = [status EXCEPT ![c] = "done"]
    BY <1>7 DEF TpInit, Return, GoTo, sumVars
  <2>4. \A d \in Callers \ {c} : at[d] = "idle"
    BY <2>2 DEF OneAtATime, PlaceOK
  <2>5. blame = "none" /\ (op[c] = "INIT" <=> hasBeenInitialized) /\ array # "open" /\ accepted = 0
    BY <2>2 DEF Settled, RequestOK
  <2>6. TestItems \in Nat /\ accepted = (TestItems - TestItems) * TestLoop
    BY <2>5, TestAssumption
  <2>7. \A d \in Callers : RequestOK(d)'
    BY <2>2, <2>3, <2>4, <2>5, <2>6 DEF Settled, RequestOK, RequestsOK, PlaceOK
  <2>8. Live = {} /\ Live' \subseteq inArray'
    BY <2>1, <2>5 DEF Settled, RestOK, Live, PoolOK, Strand
  <2> QED
    BY <2>2, <2>3, <2>4, <2>5, <2>7, <2>8 DEF RestOK, Idle, RequestsOK, PlaceOK
<1>8. ASSUME NEW c \in Callers, TpEnqueueWorkItem(c) PROVE Settled'
  <2> SUFFICES ASSUME blame' = "none" PROVE RestOK' /\ \A d \in Callers : RequestOK(d)'
    BY DEF Settled
  <2>1. blame = "none" /\ at[c] = "queue" /\ pool # "zeroed" /\ left[c] > 0
    BY <1>8 DEF TpEnqueueWorkItem, Crash, Settled, RequestOK
  <2>2. /\ accepted' = accepted + IF op[c] = "TEST" THEN TestLoop ELSE 1
        /\ left' = [left EXCEPT ![c] = left[c] - 1]
        /\ UNCHANGED <<at, op, status, hasBeenInitialized, pool, array, inArray,
                       handleOwner, thread>>
    BY <1>8, <2>1 DEF TpEnqueueWorkItem
  <2>3. ~Idle
    BY <2>1 DEF Idle
  <2>4. ASSUME op[c] = "TEST"
        PROVE  left'[c] <= TestItems /\ accepted' = (TestItems - left'[c]) * TestLoop
    <3>1. left[c] <= TestItems /\ accepted = (TestItems - left[c]) * TestLoop
      BY <2>1, <2>4 DEF Settled, RequestOK
    <3>2. accepted' = accepted + TestLoop /\ left'[c] = left[c] - 1 /\ left[c] \in Nat
      BY <2>2, <2>4 DEF RequestsOK
    <3>3. TestItems - left'[c] = (TestItems - left[c]) + 1 /\ TestItems - left[c] \in Int
      BY <3>2, TestAssumption
    <3>4. ((TestItems - left[c]) + 1) * TestLoop = (TestItems - left[c]) * TestLoop + TestLoop
      <4>1. \A x \in Int, y \in Nat : (x + 1) * y = x * y + y
        OBVIOUS
      <4> QED
        BY <3>3, <4>1, TestAssumption
    <3> QED
      BY <2>1, <3>1, <3>2, <3>3, <3>4, TestAssumption
  <2>5. RequestOK(c)'
    BY <2>1, <2>2, <2>4 DEF Settled, RequestOK, RequestsOK
  <2>6. \A d \in Callers \ {c} : at[d] # "idle" => op[c] = "PROCESS" /\ op[d] = "PROCESS"
    <3>1. \A d \in Callers \ {c} : at[d] # "idle" =>
              op[c] \in {"PROCESS", "failedEnqueue"} /\ op[d] \in {"PROCESS", "failedEnqueue"}
      BY <2>1 DEF OneAtATime
    <3> QED
      BY <2>1, <3>1 DEF PlaceOK, Settled, RequestOK, RequestsOK
  <2>7. \A d \in Callers \ {c} : RequestOK(d)'
    BY <2>1, <2>2, <2>6 DEF Settled, RequestOK, RequestsOK
  <2> QED
    BY <2>1, <2>2, <2>3, <2>5, <2>7 DEF Settled, RestOK, Live, Idle
<1>9. ASSUME NEW c \in Callers, EnqueueFails(c) PROVE Settled'
  BY <1>9 DEF EnqueueFails, Blame, Settled
<1>10. ASSUME NEW c \in Callers, AllQueued(c) PROVE Settled'
  <2> SUFFICES ASSUME blame' = "none" PROVE RestOK' /\ \A d \in Callers : RequestOK(d)'
    BY DEF Settled
  <2>1. /\ blame = "none" /\ at[c] = "queue" /\ left[c] = 0 /\ UNCHANGED <<poolVars, sumVars>>
    BY <1>10 DEF AllQueued
  <2>2. \/ /\ op[c] = "TEST" /\ at' = [at EXCEPT ![c] = "uninit"] /\ UNCHANGED <<op, left, status>>
        \/ /\ op[c] = "PROCESS"
           /\ at' = [at EXCEPT ![c] = "idle"] /\ op' = [op EXCEPT ![c] = "none"]
           /\ status' = [status EXCEPT ![c] = "done"] /\ left' = [left EXCEPT ![c] = 0]
    BY <1>10 DEF AllQueued, Return, GoTo, PlaceOK
  <2>3. /\ pool = "running" /\ array = "open" /\ (op[c] = "PROCESS" <=> hasBeenInitialized)
        /\ op[c] = "TEST" => handleOwner = c /\ accepted = (TestItems - 0) * TestLoop
    BY <2>1 DEF Settled, RequestOK
  <2>4. (TestItems - 0) * TestLoop = TestItems * TestLoop
    BY TestAssumption
  <2>5. RequestOK(c)'
    BY <2>1, <2>2, <2>3, <2>4 DEF Settled, RequestOK, RequestsOK, poolVars, sumVars
  <2>6. \A d \in Callers \ {c} : RequestOK(d)'
    BY <2>1, <2>2 DEF Settled, RequestOK, RequestsOK, poolVars, sumVars
  <2> QED
    BY <2>1, <2>2, <2>3, <2>5, <2>6 DEF Settled, RestOK, Live, Idle, RequestsOK, poolVars
<1>11. ASSUME NEW c \in Callers, TpUninit(c) PROVE Settled'
  BY <1>11
     DEF TpUninit, GoTo, Blame, Crash, RequestsOK, OneAtATime, Settled, RestOK, RequestOK,
         Live, Idle
<1>12. ASSUME NEW c \in Callers, Join(c) PROVE Settled'
  BY <1>12 DEF Join, GoTo, HandlesFreed, RequestsOK, Settled, RestOK, RequestOK, Live, Idle
<1>13. ASSUME NEW c \in Callers, JoinFreed(c) PROVE Settled'
  BY <1>13 DEF JoinFreed, Crash, Settled, RequestOK
<1>14. ASSUME NEW c \in Callers, Drain(c) PROVE Settled'
  <2> SUFFICES ASSUME blame' = "none" PROVE RestOK' /\ \A d \in Callers : RequestOK(d)'
    BY DEF Settled
  <2>1. /\ blame = "none" /\ at[c] = "drain" /\ pool # "zeroed" /\ array = "freed"
        /\ ~hasBeenInitialized /\ op[c] \in {"UNINIT", "TEST"}
        /\ op[c] = "TEST" => accepted = TestItems * TestLoop
    BY <1>14 DEF Drain, Crash, Settled, RequestOK
  <2>2. /\ list' = <<>> /\ number' = number + Sum(list) /\ Return(c, Outcome(c, number'))
        /\ UNCHANGED <<hasBeenInitialized, pool, array, inArray, handleOwner, thread, accepted>>
    BY <1>14, <2>1 DEF Drain
  <2>3. Live = {}
    BY <2>1 DEF Settled, RestOK, PoolOK
  <2>4. SumFunction(adds) = 0
    BY <2>3, NothingInHand
  <2>5. number' = accepted
    BY <2>1, <2>2, <2>4, ListSum DEF Balanced, Conserved, PoolOK
  <2>6. Outcome(c, number') = "done"
    BY <2>1, <2>5, Zenon DEF Outcome
  <2>7. /\ at' = [at EXCEPT ![c] = "idle"] /\ op' = [op EXCEPT ![c] = "none"]
        /\ status' = [status EXCEPT ![c] = "done"] /\ left' = [left EXCEPT ![c] = 0]
    BY <2>2, <2>6 DEF Return, GoTo
  <2>8. \A d \in Callers \ {c} : at[d] = "idle"
    BY <2>1 DEF OneAtATime
  <2>9. \A d \in Callers : RequestOK(d)'
    BY <2>1, <2>7, <2>8 DEF Settled, RequestOK, RequestsOK
  <2> QED
    BY <2>1, <2>2, <2>3, <2>7, <2>8, <2>9 DEF Settled, RestOK, Live, Idle, RequestsOK
<1>15. ASSUME NEW c \in Callers, ProcessEnds(c) PROVE Settled'
  BY <1>15 DEF ProcessEnds, Settled, RestOK, RequestOK, Live, Idle
<1>16. ASSUME NEW i \in Ids, WorkerWakes(i) PROVE Settled'
  BY <1>16
     DEF WorkerWakes, TakeItem, WorkerGoesOn, PoolOK, Settled, RestOK, RequestOK, Live,
         Idle
<1>17. ASSUME NEW i \in Ids, WorkerRuns(i) PROVE Settled'
  BY <1>17 DEF WorkerRuns, WorkerGoesOn, PoolOK, Settled, RestOK, RequestOK, Live, Idle
<1>18. ASSUME NEW i \in Ids, WorkerLooks(i) PROVE Settled'
  BY <1>18
     DEF WorkerLooks, TakeItem, WorkerGoesOn, Crash, PoolOK, Settled, RestOK, RequestOK,
         Live, Idle
<1>19. ASSUME NEW i \in Ids, WorkerWithoutDriver(i) PROVE Settled'
  BY <1>19 DEF WorkerWithoutDriver, Crash, Settled, RestOK, RequestOK, Live, Idle
<1>20. CASE EntryStepSucceeds
  BY <1>20 DEF EntryStepSucceeds, Settled, RestOK, RequestOK, Live, Idle
<1>21. CASE EntryStepFails
  BY <1>21 DEF EntryStepFails, Settled, RestOK, RequestOK, Live, Idle
<1>22. CASE MyDriverUnload
  BY <1>22 DEF MyDriverUnload, Settled, RestOK, RequestOK, Live, Idle
<1>23. CASE Unregister
  BY <1>23 DEF Unregister, Settled, RestOK, RequestOK, Live, Idle
<1>24. CASE UnregisterNothing
  BY <1>24 DEF UnregisterNothing, Crash, Settled, RestOK, RequestOK, Live, Idle
<1>25. ASSUME NEW k \in Fired, Notify(k) PROVE Settled'
  BY <1>25 DEF Notify, Crash, Settled, RestOK, RequestOK, Live
<1>26. ASSUME NEW k \in Fired, NotifyReturns(k) PROVE Settled'
  BY <1>26 DEF NotifyReturns, Settled, RestOK, RequestOK, Live, Idle
<1>27. CASE UNCHANGED vars
  BY <1>27 DEF vars, Settled, RestOK, RequestOK, Live, Idle
<1>28. ASSUME NEW c \in Callers, InitTpoolNoInput(c) PROVE Settled'
  <2>1. Arrive(c, "noInput")
    BY <1>28 DEF InitTpoolNoInput
  <2> QED
    BY <2>1, ArriveAlone DEF Settled
<1> QED
  BY <1>1, <1>2, <1>3, <1>4, <1>5, <1>6, <1>7, <1>8, <1>9, <1>10, <1>11, <1>12, <1>13,
     <1>14, <1>15, <1>16, <1>17, <1>18, <1>19, <1>20, <1>21, <1>22, <1>23, <1>24,
     <1>25, <1>26, <1>27, <1>28
  DEF Next, MyDeviceControl, TpWorkerThread

\* A step that stops the system has its cause.
LEMMA CrashStep ==
    Typed /\ LoadOK /\ PlaceOK /\ FailedInitOK /\ Settled /\ CrashHasCause /\ [Next]_vars =>
        CrashHasCause'
<1> SUFFICES ASSUME Typed, LoadOK, PlaceOK, FailedInitOK, Settled, CrashHasCause,
                    [Next]_vars
             PROVE  CrashHasCause'
  OBVIOUS
<1> USE DEF CrashHasCause
<1>1. ASSUME NEW c \in Callers, InitTpool(c) PROVE CrashHasCause'
  BY <1>1 DEF InitTpool, ZeroPool, Arrive, Enter, Blame
<1>2. ASSUME NEW c \in Callers, TestTpool(c) PROVE CrashHasCause'
  BY <1>2 DEF TestTpool, Arrive, Enter, Blame
<1>3. ASSUME NEW c \in Callers, ProcessTpool(c) PROVE CrashHasCause'
  <2>1. crashed' = crashed /\ crashed = "no" /\ blame # "overlap"
    BY <1>3 DEF ProcessTpool, Arrive, Running
  <2>2. status' = status \/ status' = [status EXCEPT ![c] = "done"]
    BY <1>3 DEF ProcessTpool, Enter, Return
  <2> QED
    BY <2>1, <2>2 DEF Typed, RequestsOK
<1>4. ASSUME NEW c \in Callers, UninitTpool(c) PROVE CrashHasCause'
  <2>1. crashed' = crashed /\ crashed = "no" /\ blame # "overlap"
    BY <1>4 DEF UninitTpool, Arrive, Running
  <2>2. status' = status \/ status' = [status EXCEPT ![c] = "done"]
    BY <1>4 DEF UninitTpool, Enter, Return
  <2> QED
    BY <2>1, <2>2 DEF Typed, RequestsOK
<1>5. ASSUME NEW c \in Callers, ClearFlag(c) PROVE CrashHasCause'
  BY <1>5 DEF ClearFlag, PlaceOK
<1>6. ASSUME NEW c \in Callers, TpInitFails(c) PROVE CrashHasCause'
  BY <1>6 DEF TpInitFails, Fails, Blame, Typed, PlaceOK
<1>7. ASSUME NEW c \in Callers, TpInit(c) PROVE CrashHasCause'
  BY <1>7 DEF TpInit, Return, Typed, RequestsOK, PlaceOK
<1>8. ASSUME NEW c \in Callers, TpEnqueueWorkItem(c) PROVE CrashHasCause'
  BY <1>8 DEF TpEnqueueWorkItem, Crash, PlaceOK, Settled, RequestOK, requestVars
<1>9. ASSUME NEW c \in Callers, EnqueueFails(c) PROVE CrashHasCause'
  BY <1>9 DEF EnqueueFails, Fails, Blame, Typed, PlaceOK
<1>10. ASSUME NEW c \in Callers, AllQueued(c) PROVE CrashHasCause'
  BY <1>10 DEF AllQueued, Return, Typed, RequestsOK, PlaceOK
<1>11. ASSUME NEW c \in Callers, TpUninit(c) PROVE CrashHasCause'
  BY <1>11 DEF TpUninit, Blame, Crash, PlaceOK, Settled, RequestOK, requestVars
<1>12. ASSUME NEW c \in Callers, Join(c) PROVE CrashHasCause'
  BY <1>12 DEF Join, HandlesFreed, PlaceOK
<1>13. ASSUME NEW c \in Callers, JoinFreed(c) PROVE CrashHasCause'
  BY <1>13 DEF JoinFreed, Crash, PlaceOK, Settled, RequestOK, requestVars
<1>14. ASSUME NEW c \in Callers, Drain(c) PROVE CrashHasCause'
  <2>1. CASE pool = "zeroed"
    BY <1>14, <2>1 DEF Drain, Crash, Settled, RequestOK, requestVars, Running
  <2>2. CASE pool # "zeroed"
    <3>1. Outcome(c, number') = "failedInit" => op[c] = "failedInit"
      BY Zenon DEF Outcome
    <3>2. /\ crashed' = crashed /\ crashed = "no" /\ blame' = blame /\ at[c] = "drain"
          /\ status' = [status EXCEPT ![c] = Outcome(c, number')]
      BY <1>14, <2>2 DEF Drain, Return, Running
    <3> HIDE DEF Outcome
    <3> QED
      BY <3>1, <3>2 DEF FailedInitOK, Typed, RequestsOK
  <2> QED
    BY <2>1, <2>2
<1>15. ASSUME NEW c \in Callers, ProcessEnds(c) PROVE CrashHasCause'
  BY <1>15 DEF ProcessEnds, driverVars
<1>16. ASSUME NEW i \in Ids, WorkerWakes(i) PROVE CrashHasCause'
  BY <1>16 DEF WorkerWakes, TakeItem, WorkerGoesOn, driverVars, requestVars
<1>17. ASSUME NEW i \in Ids, WorkerRuns(i) PROVE CrashHasCause'
  BY <1>17 DEF WorkerRuns, WorkerGoesOn, driverVars, requestVars
<1>18. ASSUME NEW i \in Ids, WorkerLooks(i) PROVE CrashHasCause'
  BY <1>18
     DEF WorkerLooks, TakeItem, WorkerGoesOn, Crash, Typed, PoolOK, Settled, RestOK, Live,
         driverVars, requestVars
<1>19. ASSUME NEW i \in Ids, WorkerWithoutDriver(i) PROVE CrashHasCause'
  BY <1>19
     DEF WorkerWithoutDriver, Crash, Typed, PoolOK, PlaceOK, Settled, RestOK, Idle,
         driverVars, requestVars, poolVars
<1>20. CASE EntryStepSucceeds
  BY <1>20 DEF EntryStepSucceeds, requestVars
<1>21. CASE EntryStepFails
  BY <1>21 DEF EntryStepFails, Fails, Typed, requestVars
<1>22. CASE MyDriverUnload
  BY <1>22 DEF MyDriverUnload, requestVars
<1>23. CASE Unregister
  BY <1>23 DEF Unregister, requestVars
<1>24. CASE UnregisterNothing
  <2>1. /\ load = "unloading" /\ UnloadOrder[step] = "ob" /\ "ob" \notin registered
        /\ crashed' = "ob" /\ UNCHANGED <<failures, blame, status>>
    BY <1>24 DEF UnregisterNothing, Crash, requestVars
  <2>2. step = 3
    BY <2>1, Orders DEF LoadOK
  <2>3. failures \in Nat /\ failures # 0
    BY <2>1, <2>2, BoundsAssumption DEF LoadOK, Typed
  <2> QED
    BY <2>1, <2>3
<1>25. ASSUME NEW k \in Fired, Notify(k) PROVE CrashHasCause'
  BY <1>25 DEF Notify, Crash, LoadOK, driverVars, requestVars
<1>26. ASSUME NEW k \in Fired, NotifyReturns(k) PROVE CrashHasCause'
  BY <1>26 DEF NotifyReturns, LoadOK, requestVars
<1>27. CASE UNCHANGED vars
  BY <1>27 DEF vars, driverVars, requestVars, poolVars
<1>28. ASSUME NEW c \in Callers, InitTpoolNoInput(c) PROVE CrashHasCause'
  BY <1>28 DEF InitTpoolNoInput, Arrive, ZeroPool, Blame, Running
<1> QED
  BY <1>1, <1>2, <1>3, <1>4, <1>5, <1>6, <1>7, <1>8, <1>9, <1>10, <1>11, <1>12, <1>13,
     <1>14, <1>15, <1>16, <1>17, <1>18, <1>19, <1>20, <1>21, <1>22, <1>23, <1>24,
     <1>25, <1>26, <1>27, <1>28
  DEF Next, MyDeviceControl, TpWorkerThread

\* The invariant holds at first,
LEMMA InitInvariant == Init => IInv
<1> SUFFICES ASSUME Init PROVE IInv
  OBVIOUS
<1> USE DEF Init
<1>1. DriverOK /\ LoadOK
  BY DEF DriverOK, LoadOK
<1>2. RequestsOK
  BY BoundsAssumption DEF RequestsOK
<1>3. PoolOK
  <2>1. <<>> \in Seq(Nat)
    OBVIOUS
  <2> QED
    BY <2>1 DEF PoolOK
<1>4. PlaceOK /\ OneAtATime /\ FailedInitOK /\ AddsOK
  BY DEF PlaceOK, OneAtATime, FailedInitOK, AddsOK
<1>5. RestOK /\ \A c \in Callers : RequestOK(c)
  BY DEF RestOK, RequestOK, Live
<1>6. Conserved
  <2>1. /\ adds \in [Ids -> Nat] /\ (\A i \in Ids : adds[i] = 0)
        /\ list = <<>> /\ number = 0 /\ accepted = 0
    OBVIOUS
  <2>2. SumFunction(adds) = 0
    BY <2>1, IdsFinite, SumZero
  <2> QED
    BY <2>1, <2>2, ListSum DEF Conserved
<1>7. CrashHasCause
  BY DEF CrashHasCause
<1> QED
  BY <1>1, <1>2, <1>3, <1>4, <1>5, <1>6, <1>7, BoundsAssumption DEF IInv, Typed, Blameless

\* and every step keeps it.
LEMMA InductiveStep == IInv /\ [Next]_vars => IInv'
<1> SUFFICES ASSUME IInv, [Next]_vars PROVE IInv'
  OBVIOUS
<1>1. /\ Typed /\ LoadOK /\ PlaceOK /\ OneAtATime /\ FailedInitOK /\ AddsOK
      /\ DriverOK /\ RequestsOK /\ PoolOK /\ DriverInv /\ Settled /\ Balanced /\ CrashHasCause
  BY DEF IInv, Typed, DriverInv, Blameless, Settled, Balanced
<1>2. DriverInv'
  BY <1>1, DriverStep
<1>3. RequestsOK' /\ PlaceOK'
  BY <1>1, RequestsStep
<1>4. PoolOK'
  BY <1>1, PoolStep
<1>5. OneAtATime' /\ FailedInitOK'
  BY <1>1, OverlapStep
<1>6. AddsOK'
  BY <1>1, AddsStep
<1>7. Settled' /\ Balanced'
  BY <1>1, SettledStep, BalancedStep
<1>8. CrashHasCause'
  BY <1>1, CrashStep
<1> QED
  BY <1>2, <1>3, <1>4, <1>5, <1>6, <1>7, <1>8
     DEF IInv, Typed, DriverInv, Blameless, Settled, Balanced

\* In every reachable state, for any number of processes, threads and items: where the
\* pool is for each request in progress, and who is to blame when it is elsewhere.
THEOREM Invariance == Spec => []IInv
  BY InitInvariant, InductiveStep, PTL DEF Spec

\* The variables keep their types, and unless something is to blame every live worker
\* has a handle that TpUninit will wait for.
THEOREM TypeCorrect == Spec => []TypeOK
<1>1. IInv => TypeOK
  BY DEF IInv, Typed, Blameless, RestOK, TypeOK
<1> QED
  BY <1>1, Invariance, PTL

\* Each stop of the system has a cause: the list and the join need a failure or
\* requests out of order, reading the number of threads a request without one, a worker outlives the driver only when UNINIT was not asked
\* for, and INIT or TEST never returns the failure of TpInit (main.c:233).
THEOREM CrashHasCauseCorrect == Spec => []CrashHasCause
<1>1. IInv => CrashHasCause
  BY DEF IInv
<1> QED
  BY <1>1, Invariance, PTL

\* With nothing to blame every accepted item is in the list, in one worker's hands or
\* added to Number once; so TEST gets the number its comment expects (main.c:275).
THEOREM NumberExactCorrect == Spec => []NumberExact
<1>1. IInv => NumberExact
  <2> SUFFICES ASSUME IInv, blame = "none" PROVE
          /\ number + Sum(list) + SumFunction(adds) = accepted
          /\ \A c \in Callers : status[c] # "unexpected"
          /\ Idle /\ ~hasBeenInitialized => Live = {} /\ number = accepted
    BY DEF NumberExact
  <2>1. PoolOK /\ AddsOK /\ RestOK /\ Conserved /\ \A c \in Callers : RequestOK(c)
    BY DEF IInv, Typed, Blameless
  <2>2. ASSUME Idle, ~hasBeenInitialized PROVE Live = {} /\ number = accepted
    <3>1. Live = {} /\ list = <<>>
      BY <2>1, <2>2 DEF RestOK, PoolOK
    <3>2. SumFunction(adds) = 0 /\ Sum(list) = 0
      BY <2>1, <3>1, NothingInHand, ListSum
    <3> QED
      BY <2>1, <3>1, <3>2 DEF Conserved, PoolOK
  <2> QED
    BY <2>1, <2>2 DEF Conserved, RequestOK
<1> QED
  BY <1>1, Invariance, PTL

\* What DriverEntry has registered at each of its steps, and what is left of it at
\* each step of MyDriverUnload; the object callback apart.
Through(n) == {EntryOrder[k] : k \in 1..n} \cup {"ob"}

Retraced ==
    /\ load = "entry" => registered \cup {"ob"} = Through(step - 1)
    /\ load = "loaded" => registered \cup {"ob"} = Through(7)
    /\ load = "unloading" => registered \cup {"ob"} = Through(8 - step)
    /\ load = "unloaded" => step = 8

\* Either order is the other one backwards.
LEMMA Backwards ==
    ASSUME NEW k \in 1..7
    PROVE  /\ Through(k) = Through(k - 1) \cup {EntryOrder[k]}
           /\ UnloadOrder[k] = EntryOrder[8 - k]
           /\ EntryOrder[k] # "ob" => EntryOrder[k] \notin Through(k - 1)
<1>1. k = 1 \/ k = 2 \/ k = 3 \/ k = 4 \/ k = 5 \/ k = 6 \/ k = 7
  OBVIOUS
<1>2. /\ EntryOrder[1] = "device" /\ EntryOrder[2] = "link" /\ EntryOrder[3] = "process"
      /\ EntryOrder[4] = "image" /\ EntryOrder[5] = "ob" /\ EntryOrder[6] = "registry"
      /\ EntryOrder[7] = "thread"
  BY DEF EntryOrder
<1>3. /\ UnloadOrder[1] = "thread" /\ UnloadOrder[2] = "registry" /\ UnloadOrder[3] = "ob"
      /\ UnloadOrder[4] = "image" /\ UnloadOrder[5] = "process" /\ UnloadOrder[6] = "link"
      /\ UnloadOrder[7] = "device"
  BY DEF UnloadOrder
<1>4. k - 1 \in Int /\ 1..k = 1..(k - 1) \cup {k}
  OBVIOUS
<1>5. Through(k) = Through(k - 1) \cup {EntryOrder[k]}
  BY <1>4, Zenon DEF Through
<1>6. UnloadOrder[k] = EntryOrder[8 - k]
  BY <1>1, <1>2, <1>3
<1>7. \A i, j \in 1..7 : EntryOrder[i] = EntryOrder[j] => i = j
  <2> SUFFICES ASSUME NEW i \in 1..7, NEW j \in 1..7, EntryOrder[i] = EntryOrder[j] PROVE i = j
    OBVIOUS
  <2>1. i = 1 \/ i = 2 \/ i = 3 \/ i = 4 \/ i = 5 \/ i = 6 \/ i = 7
    OBVIOUS
  <2>2. j = 1 \/ j = 2 \/ j = 3 \/ j = 4 \/ j = 5 \/ j = 6 \/ j = 7
    OBVIOUS
  <2> QED
    BY <1>2, <2>1, <2>2
<1>8. EntryOrder[k] # "ob" => EntryOrder[k] \notin Through(k - 1)
  BY <1>7 DEF Through
<1> QED
  BY <1>5, <1>6, <1>8

\* Each step of the two goes one further, or one back.
LEMMA RetracedStep == DriverInv /\ Retraced /\ [Next]_vars => Retraced'
<1> SUFFICES ASSUME DriverInv, Retraced, [Next]_vars PROVE Retraced'
  OBVIOUS
<1> USE DEF Retraced, driverVars
<1>1. CASE EntryStepSucceeds
  <2>1. /\ load = "entry" /\ step \in 1..7 /\ step' = step + 1
        /\ registered' = registered \cup {EntryOrder[step]}
        /\ load' = IF step = 7 THEN "loaded" ELSE "entry"
    BY <1>1, Orders DEF EntryStepSucceeds, DriverInv, LoadOK
  <2>2. Through(step) = Through(step - 1) \cup {EntryOrder[step]}
    BY <2>1, Backwards
  <2>3. registered' \cup {"ob"} = Through(step) /\ step' - 1 = step
    BY <2>1, <2>2
  <2> QED
    BY <2>1, <2>3
<1>2. CASE EntryStepFails
  <2>1. /\ load = "entry" /\ step \in 1..7 /\ registered' = registered
        /\ \/ step' = step + 1 /\ load' = load /\ EntryOrder[step] = "ob"
           \/ load' = "failed"
    BY <1>2 DEF EntryStepFails, DriverInv, LoadOK
  <2>2. Through(step) = Through(step - 1) \cup {EntryOrder[step]}
    BY <2>1, Backwards
  <2>3. EntryOrder[step] = "ob" => Through(step) = Through(step - 1)
    BY <2>2 DEF Through
  <2> QED
    BY <2>1, <2>3
<1>3. CASE MyDriverUnload
  BY <1>3 DEF MyDriverUnload
<1>4. CASE Unregister
  <2>1. /\ load = "unloading" /\ step \in 1..7 /\ step' = step + 1
        /\ registered' = registered \ {UnloadOrder[step]}
        /\ load' = IF step = 7 THEN "unloaded" ELSE "unloading"
    BY <1>4, Orders DEF Unregister, DriverInv, LoadOK
  <2>2. 8 - step \in 1..7 /\ 8 - (8 - step) = step /\ (8 - step) - 1 = 8 - step'
    BY <2>1
  <2>3. /\ Through(8 - step) = Through(8 - step') \cup {UnloadOrder[step]}
        /\ UnloadOrder[step] # "ob" => UnloadOrder[step] \notin Through(8 - step')
    BY <2>1, <2>2, Backwards
  <2>4. registered' \cup {"ob"} = Through(8 - step')
    BY <2>1, <2>3 DEF Through
  <2> QED
    BY <2>1, <2>4
<1>5. CASE UNCHANGED <<load, step, registered>>
  BY <1>5
<1>6. ASSUME NEW c \in Callers,
             \/ InitTpool(c) \/ InitTpoolNoInput(c) \/ ProcessTpool(c) \/ UninitTpool(c)
             \/ TestTpool(c) \/ MyDeviceControl(c) \/ ProcessEnds(c)
      PROVE  UNCHANGED <<load, step, registered>>
  BY <1>6 DEF InitTpool, InitTpoolNoInput, ProcessTpool, UninitTpool, TestTpool, ProcessEnds,
              MyDeviceControl, TpInit, TpInitFails, TpEnqueueWorkItem, EnqueueFails, AllQueued,
              ClearFlag, TpUninit, Join, HandlesFreed, JoinFreed, Drain, Crash
<1>7. ASSUME NEW i \in Ids, TpWorkerThread(i) PROVE UNCHANGED <<load, step, registered>>
  BY <1>7 DEF TpWorkerThread, WorkerWakes, WorkerRuns, WorkerLooks, WorkerWithoutDriver,
              TakeItem, WorkerGoesOn, Crash
<1>8. CASE \/ UnregisterNothing \/ UNCHANGED vars
           \/ \E k \in Fired : Notify(k) \/ NotifyReturns(k)
  BY <1>5, <1>8 DEF UnregisterNothing, Notify, NotifyReturns, Crash, vars
<1> QED
  BY <1>1, <1>2, <1>3, <1>4, <1>5, <1>6, <1>7, <1>8 DEF Next

\* MyDriverUnload undoes DriverEntry from the last step to the first, whether or not the
\* object callback could be registered, and leaves nothing registered or running.
THEOREM UnloadUndoesEntryCorrect == Spec => []UnloadUndoesEntry
<1>1. Init => Retraced
  BY DEF Init, Retraced, Through
<1>2. IInv => DriverInv
  BY DEF IInv, Typed, DriverInv
<1>3. DriverInv /\ Retraced => UnloadUndoesEntry
  <2> SUFFICES ASSUME DriverInv, Retraced PROVE UnloadUndoesEntry
    OBVIOUS
  <2>1. load = "unloaded" => registered = {} /\ inside = {} /\ step = 8
    BY DEF DriverInv, LoadOK, Retraced
  <2>2. {EntryOrder[k] : k \in 1..0} = {}
    OBVIOUS
  <2> QED
    BY <2>1, <2>2 DEF UnloadUndoesEntry, Retraced, Through
<1>4. Spec => []Retraced
  BY <1>1, <1>2, RetracedStep, Invariance, PTL DEF Spec
<1> QED
  BY <1>2, <1>3, <1>4, Invariance, PTL

\* A thread is left on a wait list nobody signals only by a pool made over it.
NotStranded == blame = "none" => \A i \in Ids : thread[i] # "stranded"

\* Each step keeps that: INIT and TEST, alone and in order, find no live thread.
LEMMA NotStrandedStep ==
    ASSUME IInv, NotStranded, [Next]_vars
    PROVE  NotStranded'
<1> SUFFICES ASSUME blame' = "none" PROVE \A i \in Ids : thread'[i] # "stranded"
  BY DEF NotStranded
<1>1. RequestsOK /\ PlaceOK /\ PoolOK /\ Settled
  BY DEF IInv, Typed, Blameless, Settled
<1>2. ASSUME NEW c \in Callers, InitTpool(c) PROVE \A i \in Ids : thread'[i] # "stranded"
  <2>1. Arrive(c, "INIT") /\ thread' = Strand
    BY <1>2 DEF InitTpool, ZeroPool
  <2>2. Live = {}
    BY <1>1, <2>1, ArriveAlone
  <2> QED
    BY <2>1, <2>2 DEF Strand, Live
<1>3. ASSUME NEW c \in Callers, TpInit(c) PROVE \A i \in Ids : thread'[i] # "stranded"
  <2>1. PICK new \in kSubset(left[c], Free) :
            thread' = [i \in Ids |-> IF i \in new THEN "waiting" ELSE Strand[i]]
    BY <1>3 DEF TpInit
  <2>2. at[c] = "tpInit" /\ blame = "none"
    BY <1>3 DEF TpInit
  <2>3. Live = {}
    BY <1>1, <2>2 DEF Settled, RestOK, RequestOK, PoolOK
  <2> QED
    BY <2>1, <2>3 DEF Strand, Live
<1>4. CASE /\ \E i \in Ids, place \in {"none", "busy", "draining", "waiting"} :
                  thread' = [thread EXCEPT ![i] = place]
           /\ blame' = blame
  BY <1>1, <1>4 DEF NotStranded, PoolOK
<1>5. ASSUME NEW i \in Ids, TpWorkerThread(i) PROVE \A j \in Ids : thread'[j] # "stranded"
  <2>1. \/ blame' = blame /\ \E place \in {"none", "busy", "draining", "waiting"} :
                                 thread' = [thread EXCEPT ![i] = place]
        \/ blame' = blame /\ thread' = thread
    BY <1>5 DEF TpWorkerThread, WorkerWakes, WorkerRuns, WorkerLooks, WorkerWithoutDriver,
                TakeItem, WorkerGoesOn, Crash, poolVars
  <2> QED
    BY <1>4, <2>1 DEF NotStranded
<1>6. CASE UNCHANGED thread /\ (blame' = "none" => blame = "none")
  BY <1>6 DEF NotStranded
<1>7. ASSUME NEW c \in Callers,
             \/ ProcessTpool(c) \/ UninitTpool(c) \/ TestTpool(c)
             \/ TpInitFails(c) \/ EnqueueFails(c) \/ TpUninit(c)
      PROVE  \A i \in Ids : thread'[i] # "stranded"
  BY <1>6, <1>7 DEF ProcessTpool, UninitTpool, TestTpool, TpInitFails, EnqueueFails, TpUninit,
                    Arrive, Blame, Crash, poolVars
<1>10. ASSUME NEW c \in Callers, InitTpoolNoInput(c) PROVE FALSE
  <2>1. Arrive(c, "noInput")
    BY <1>10 DEF InitTpoolNoInput
  <2> QED
    BY <1>1, <2>1, ArriveAlone
<1>8. ASSUME NEW c \in Callers,
             \/ TpEnqueueWorkItem(c) \/ AllQueued(c) \/ ClearFlag(c)
             \/ Join(c) \/ JoinFreed(c) \/ Drain(c) \/ ProcessEnds(c)
      PROVE  \A i \in Ids : thread'[i] # "stranded"
  BY <1>6, <1>8 DEF TpEnqueueWorkItem, AllQueued, ClearFlag, Join, HandlesFreed, JoinFreed,
                    Drain, ProcessEnds, Crash, poolVars
<1>9. CASE \/ EntryStepSucceeds \/ EntryStepFails \/ MyDriverUnload
           \/ Unregister \/ UnregisterNothing \/ UNCHANGED vars
           \/ \E k \in Fired : Notify(k) \/ NotifyReturns(k)
  BY <1>6, <1>9 DEF EntryStepSucceeds, EntryStepFails, MyDriverUnload, Unregister,
                    UnregisterNothing, Notify, NotifyReturns, Crash, vars, poolVars
<1> QED
  BY <1>2, <1>3, <1>5, <1>7, <1>8, <1>9, <1>10 DEF Next, MyDeviceControl

\* With nothing to blame a request that waits in TpUninit waits for its own handles,
\* the stop event is set, and no thread it waits for is deaf to it: each has only to
\* finish its item and look (threadpool.c:64-79).
THEOREM JoinIsAnswered ==
    Spec => [](blame = "none" =>
                 \A c \in Callers : at[c] = "join" =>
                     /\ pool = "stopped" /\ array = "open" /\ handleOwner = c
                     /\ \A i \in Live : i \in inArray /\ thread[i] \in {"waiting", "busy", "draining"})
<1> DEFINE Answered ==
        blame = "none" =>
          \A c \in Callers : at[c] = "join" =>
              /\ pool = "stopped" /\ array = "open" /\ handleOwner = c
              /\ \A i \in Live : i \in inArray /\ thread[i] \in {"waiting", "busy", "draining"}
<1>1. Init => NotStranded
  BY DEF Init, NotStranded
<1>2. IInv /\ NotStranded => Answered
  BY DEF IInv, Typed, PoolOK, Blameless, RestOK, RequestOK, NotStranded, Live
<1>3. Spec => []NotStranded
  BY <1>1, NotStrandedStep, Invariance, PTL DEF Spec
<1> QED
  BY <1>2, <1>3, Invariance, PTL
=============================================================================
