------------------------------ MODULE ListsProofs ------------------------------
(***************************************************************************)
(* What the recursive functions of the modules rest on: induction over the *)
(* natural numbers, on a set of them, the existence of functions defined   *)
(* by recursion, and what the two loops of Lists compute.                  *)
(***************************************************************************)
EXTENDS Lists, TLAPS, WellFoundedInduction

\* A set of natural numbers with 0 and each member's successor has them all.
LEMMA Induction ==
  ASSUME NEW S, 0 \in S, \A n \in Nat : n \in S => n + 1 \in S
  PROVE  \A n \in Nat : n \in S
<1> DEFINE T == Nat \ S
<1> SUFFICES ASSUME T # {} PROVE FALSE
  OBVIOUS
<1>1. IsWellFoundedOn(OpToRel(<,Nat), Nat)
  BY NatLessThanWellFounded
<1>2. T \subseteq Nat
  OBVIOUS
<1> HIDE DEF T
<1>3. PICK k \in T : \A m \in T : ~(<<m, k>> \in OpToRel(<,Nat))
  BY <1>1, <1>2, WFMin
<1>4. \A m \in T : ~(m < k)
  BY <1>2, <1>3 DEF OpToRel
<1>5. k \in Nat /\ k # 0
  BY <1>3 DEF T
<1>6. k - 1 \in Nat /\ k - 1 < k /\ (k - 1) + 1 = k
  BY <1>5
<1>7. k - 1 \in S
  BY <1>4, <1>6 DEF T
<1>8. k \in S
  BY <1>6, <1>7
<1>9. QED
  BY <1>3, <1>8 DEF T

\* A non-empty set of natural numbers has a least member.
LEMMA Least ==
  ASSUME NEW S \in SUBSET Nat, S # {}
  PROVE  \E k \in S : \A m \in S : k <= m
<1>1. IsWellFoundedOn(OpToRel(<,Nat), Nat)
  BY NatLessThanWellFounded
<1>2. PICK k \in S : \A m \in S : ~(<<m, k>> \in OpToRel(<,Nat))
  BY <1>1, WFMin
<1>3. \A m \in S : ~(m < k)
  BY <1>2 DEF OpToRel
<1>4. QED
  BY <1>3

\* A loop of N rounds, each a function of the round and of what the last left.
IsLoop(N, X, init, round) == init \in X /\ round \in [(1..N) \X X -> X]

Runs(f, N, X, init, round) ==
  /\ f \in [0..N -> X]
  /\ f[0] = init
  /\ \A n \in 1..N : f[n] = round[<<n, f[n - 1]>>]

LEMMA Loop ==
  ASSUME NEW N \in Nat, NEW X, NEW init, NEW round, IsLoop(N, X, init, round)
  PROVE  \E f : Runs(f, N, X, init, round)
<1>0. init \in X /\ round \in [(1..N) \X X -> X]
  BY DEF IsLoop
<1> DEFINE Goal(n, f) == f[0] = init /\ \A m \in 1..n : f[m] = round[<<m, f[m - 1]>>]
           S == {n \in Nat : n <= N => \E f \in [0..n -> X] : Goal(n, f)}
<1>1. 0 \in S
  <2>1. [n \in 0..0 |-> init] \in [0..0 -> X] /\ Goal(0, [n \in 0..0 |-> init])
    BY <1>0
  <2>2. QED
    BY <2>1
<1>2. ASSUME NEW n \in Nat, n \in S PROVE n + 1 \in S
  <2> SUFFICES ASSUME n + 1 <= N PROVE \E f \in [0..(n + 1) -> X] : Goal(n + 1, f)
    OBVIOUS
  <2>1. PICK f \in [0..n -> X] : Goal(n, f)
    BY <1>2
  <2> DEFINE g == [m \in 0..(n + 1) |-> IF m = n + 1 THEN round[<<n + 1, f[n]>>] ELSE f[m]]
  <2>2. n + 1 \in 1..N /\ n \in 0..n /\ f[n] \in X
    OBVIOUS
  <2>3. round[<<n + 1, f[n]>>] \in X
    BY <1>0, <2>2
  <2>4. g \in [0..(n + 1) -> X]
    BY <2>3
  <2>5. \A m \in 0..n : g[m] = f[m]
    OBVIOUS
  <2>6. ASSUME NEW m \in 0..(n + 1), m # 0
        PROVE  g[m] = round[<<m, g[m - 1]>>]
    <3>1. m - 1 \in 0..n /\ g[m - 1] = f[m - 1]
      BY <2>5, <2>6
    <3>2. CASE m = n + 1
      <4>1. m - 1 = n /\ g[m] = round[<<n + 1, f[n]>>]
        BY <3>2
      <4>2. QED
        BY <3>1, <3>2, <4>1
    <3>3. CASE m # n + 1
      <4>1. m \in 0..n /\ g[m] = f[m]
        BY <3>3
      <4>2. f[m] = round[<<m, f[m - 1]>>]
        BY <2>1, <2>6, <4>1
      <4>3. QED
        BY <3>1, <4>1, <4>2
    <3>4. QED
      BY <3>2, <3>3
  <2>7. g[0] = init
    BY <2>1, <2>5
  <2> HIDE DEF g
  <2>8. Goal(n + 1, g)
    BY <2>6, <2>7
  <2>9. QED
    BY <2>4, <2>8
<1> HIDE DEF S
<1>3. N \in S
  BY <1>1, <1>2, Induction
<1>4. QED
  BY <1>3 DEF S, Runs

-----------------------------------------------------------------------------
(* A function on D whose value at v depends on its values at what a        *)
(* measure puts below v.                                                   *)

Local(D, measure, X, F) ==
  /\ measure \in [D -> Nat]
  /\ F \in [[D -> X] \X D -> X]
  /\ \A v \in D : \A g, h \in [D -> X] :
       (\A u \in D : measure[u] < measure[v] => g[u] = h[u]) => F[<<g, v>>] = F[<<h, v>>]

\* g is as it should be wherever the measure is below n.
SolvesBelow(D, measure, F, g, n) == \A v \in D : measure[v] < n => g[v] = F[<<g, v>>]

LEMMA SolutionsAgree ==
  ASSUME NEW D, NEW measure, NEW X, NEW F, Local(D, measure, X, F)
  PROVE  \A n \in Nat : \A g, h \in [D -> X] :
           SolvesBelow(D, measure, F, g, n) /\ SolvesBelow(D, measure, F, h, n) =>
             \A v \in D : measure[v] < n => g[v] = h[v]
<1> DEFINE S == {n \in Nat : \A g, h \in [D -> X] :
           SolvesBelow(D, measure, F, g, n) /\ SolvesBelow(D, measure, F, h, n) =>
             \A v \in D : measure[v] < n => g[v] = h[v]}
<1>1. measure \in [D -> Nat]
  BY DEF Local
<1>2. 0 \in S
  BY <1>1
<1>3. ASSUME NEW n \in Nat, n \in S PROVE n + 1 \in S
  <2> SUFFICES ASSUME NEW g \in [D -> X], NEW h \in [D -> X],
                      SolvesBelow(D, measure, F, g, n + 1), SolvesBelow(D, measure, F, h, n + 1),
                      NEW v \in D, measure[v] < n + 1
               PROVE  g[v] = h[v]
    OBVIOUS
  <2>1. \A u \in D : measure[u] \in Nat /\ measure[v] \in Nat
    BY <1>1
  <2>2. SolvesBelow(D, measure, F, g, n) /\ SolvesBelow(D, measure, F, h, n)
    BY <2>1 DEF SolvesBelow
  <2>3. \A u \in D : measure[u] < n => g[u] = h[u]
    BY <1>3, <2>2
  <2>4. \A u \in D : measure[u] < measure[v] => g[u] = h[u]
    BY <2>1, <2>3
  <2>5. F[<<g, v>>] = F[<<h, v>>]
    BY <2>4 DEF Local
  <2>6. g[v] = F[<<g, v>>] /\ h[v] = F[<<h, v>>]
    BY DEF SolvesBelow
  <2>7. QED
    BY <2>5, <2>6
<1> HIDE DEF S
<1>4. \A n \in Nat : n \in S
  BY <1>2, <1>3, Induction
<1>5. QED
  BY <1>4 DEF S

LEMMA SolutionsBelow ==
  ASSUME NEW D, NEW measure, NEW X, NEW F, X # {}, Local(D, measure, X, F)
  PROVE  \A n \in Nat : \E g \in [D -> X] : SolvesBelow(D, measure, F, g, n)
<1> DEFINE S == {n \in Nat : \E g \in [D -> X] : SolvesBelow(D, measure, F, g, n)}
<1>1. measure \in [D -> Nat] /\ F \in [[D -> X] \X D -> X]
  BY DEF Local
<1>2. 0 \in S
  <2>1. PICK x \in X : TRUE
    OBVIOUS
  <2>2. [v \in D |-> x] \in [D -> X]
    OBVIOUS
  <2>3. SolvesBelow(D, measure, F, [v \in D |-> x], 0)
    BY <1>1 DEF SolvesBelow
  <2>4. QED
    BY <2>2, <2>3
<1>3. ASSUME NEW n \in Nat, n \in S PROVE n + 1 \in S
  <2>1. PICK g \in [D -> X] : SolvesBelow(D, measure, F, g, n)
    BY <1>3
  <2> DEFINE h == [v \in D |-> F[<<g, v>>]]
  <2>2. h \in [D -> X]
    BY <1>1
  <2>3. \A u \in D : measure[u] < n => h[u] = g[u]
    BY <2>1 DEF SolvesBelow
  <2>4. ASSUME NEW v \in D, measure[v] < n + 1 PROVE h[v] = F[<<h, v>>]
    <3>1. \A u \in D : measure[u] < measure[v] => g[u] = h[u]
      BY <1>1, <2>3, <2>4
    <3>2. F[<<g, v>>] = F[<<h, v>>]
      BY <2>2, <3>1 DEF Local
    <3>3. QED
      BY <3>2
  <2> HIDE DEF h
  <2>5. SolvesBelow(D, measure, F, h, n + 1)
    BY <2>4 DEF SolvesBelow
  <2>6. QED
    BY <2>2, <2>5
<1> HIDE DEF S
<1>4. \A n \in Nat : n \in S
  BY <1>2, <1>3, Induction
<1>5. QED
  BY <1>4 DEF S

\* The recursion has a solution.
Solves(f, D, X, F) == f \in [D -> X] /\ \A v \in D : f[v] = F[<<f, v>>]

LEMMA Recursion ==
  ASSUME NEW D, NEW measure, NEW X, NEW F, X # {}, Local(D, measure, X, F)
  PROVE  \E f : Solves(f, D, X, F)
<1> DEFINE Solution(n) == CHOOSE g \in [D -> X] : SolvesBelow(D, measure, F, g, n)
           f == [v \in D |-> Solution(measure[v] + 1)[v]]
<1>1. measure \in [D -> Nat]
  BY DEF Local
<1>2. \A n \in Nat : Solution(n) \in [D -> X] /\ SolvesBelow(D, measure, F, Solution(n), n)
  BY SolutionsBelow
<1> HIDE DEF Solution
<1>3. \A v \in D : measure[v] + 1 \in Nat /\ measure[v] < measure[v] + 1
  BY <1>1
<1>4. f \in [D -> X]
  BY <1>2, <1>3
<1>5. ASSUME NEW v \in D PROVE f[v] = F[<<f, v>>]
  <2> DEFINE g == Solution(measure[v] + 1)
  <2>1. g \in [D -> X] /\ SolvesBelow(D, measure, F, g, measure[v] + 1)
    BY <1>2, <1>3
  <2>2. ASSUME NEW u \in D, measure[u] < measure[v] PROVE g[u] = f[u]
    <3> DEFINE h == Solution(measure[u] + 1)
    <3>1. h \in [D -> X] /\ SolvesBelow(D, measure, F, h, measure[u] + 1)
      BY <1>2, <1>3
    <3>2. SolvesBelow(D, measure, F, g, measure[u] + 1)
      BY <1>1, <2>1, <2>2 DEF SolvesBelow
    <3> HIDE DEF g, h
    <3>3. g[u] = h[u]
      BY <1>3, <2>1, <3>1, <3>2, SolutionsAgree
    <3>4. QED
      BY <3>3 DEF h
  <2> HIDE DEF g
  <2>3. g[v] = F[<<g, v>>]
    BY <1>3, <2>1 DEF SolvesBelow
  <2>4. F[<<g, v>>] = F[<<f, v>>]
    <3> HIDE DEF f
    <3>1. QED
      BY <1>4, <2>1, <2>2 DEF Local
  <2>5. QED
    BY <2>3, <2>4 DEF g
<1> HIDE DEF f
<1>6. QED
  BY <1>4, <1>5 DEF Solves

-----------------------------------------------------------------------------
(* Select.                                                                 *)

\* A function on 1..n is a list of that length.
LEMMA ListOfLength ==
  ASSUME NEW X, NEW n \in Nat, NEW f \in [1..n -> X]
  PROVE  f \in Seq(X) /\ Len(f) = n
OBVIOUS

LEMMA ListShape ==
  ASSUME NEW X, NEW s \in Seq(X)
  PROVE  /\ Len(s) \in Nat /\ DOMAIN s = 1..Len(s) /\ \A i \in DOMAIN s : s[i] \in X
         /\ s = <<>> <=> DOMAIN s = {}
         /\ s = <<>> <=> Len(s) = 0
<1>1. Len(s) \in Nat /\ DOMAIN s = 1..Len(s) /\ \A i \in DOMAIN s : s[i] \in X
  OBVIOUS
<1>2. s = <<>> <=> Len(s) = 0
  <2>1. s = <<>> => Len(s) = 0
    OBVIOUS
  <2>2. Len(s) = 0 => s = <<>>
    OBVIOUS
  <2>3. QED
    BY <2>1, <2>2
<1>3. Len(s) = 0 <=> 1..Len(s) = {}
  <2>1. Len(s) # 0 => 1 \in 1..Len(s)
    BY <1>1
  <2>2. Len(s) = 0 => 1..Len(s) = {}
    OBVIOUS
  <2>3. QED
    BY <2>1, <2>2
<1>4. QED
  BY <1>1, <1>2, <1>3

\* One more element is appended if its position is wanted.
Keeps(kept, X, vs, P, N) ==
  /\ kept \in [0..N -> Seq(X)]
  /\ kept[0] = <<>>
  /\ \A n \in 1..N : kept[n] = IF n \in P THEN Append(kept[n - 1], vs[n]) ELSE kept[n - 1]
  /\ Select(vs, P) = kept[N]

LEMMA SelectUnfolds ==
  ASSUME NEW X, NEW vs \in Seq(X), NEW P, NEW N, N = Len(vs)
  PROVE  \E kept : Keeps(kept, X, vs, P, N)
<1> DEFINE L == Seq(X)
           empty == <<>>
           next(n, s) == IF n \in P THEN Append(s, vs[n]) ELSE s
           round == [p \in (1..N) \X L |-> next(p[1], p[2])]
           Recursive(f) == f = [n \in 0..N |-> IF n = 0 THEN <<>>
                              ELSE IF n \in P THEN Append(f[n - 1], vs[n]) ELSE f[n - 1]]
           kept == CHOOSE f : Recursive(f)
<1>1. N \in Nat /\ empty \in L
  OBVIOUS
<1>2. \A n \in 1..N : \A s \in L : next(n, s) \in L
  OBVIOUS
<1>3. round \in [(1..N) \X L -> L] /\ \A n \in 1..N : \A s \in L : round[<<n, s>>] = next(n, s)
  <2> HIDE DEF next, L
  <2>1. QED
    BY <1>2
<1>4. Select(vs, P) = kept[N]
  BY DEF Select
<1>5. \E g : Recursive(g)
  <2>1. IsLoop(N, L, empty, round)
    <3> HIDE DEF round, L, empty
    <3>1. QED
      BY <1>1, <1>3 DEF IsLoop
  <2>2. PICK f : Runs(f, N, L, empty, round)
    <3> HIDE DEF round, L, empty
    <3>1. QED
      BY <1>1, <2>1, Loop
  <2> HIDE DEF L, round
  <2>3. f \in [0..N -> L] /\ f[0] = <<>> /\ \A n \in 1..N : f[n] = round[<<n, f[n - 1]>>]
    BY <2>2 DEF Runs
  <2>4. \A n \in 1..N : n - 1 \in 0..N
    BY <1>1
  <2>5. \A n \in 1..N : f[n - 1] \in L
    BY <2>3, <2>4
  <2>6. \A n \in 1..N : f[n] = next(n, f[n - 1])
    BY <1>3, <2>3, <2>5
  <2>7. \A n \in 0..N : n # 0 => n \in 1..N
    BY <1>1
  <2>8. \A n \in 0..N : f[n] = IF n = 0 THEN <<>> ELSE next(n, f[n - 1])
    BY <2>3, <2>6, <2>7
  <2>9. Recursive(f)
    BY <2>3, <2>8
  <2>10. QED
    BY <2>9
<1>6. Recursive(kept)
  BY <1>5
<1> HIDE DEF kept
<1>6a. \A n \in 0..N : kept[n] = IF n = 0 THEN <<>> ELSE next(n, kept[n - 1])
  BY <1>6
<1>7. kept[0] = <<>>
  BY <1>1, <1>6a
<1>8. \A n \in 1..N : kept[n] = next(n, kept[n - 1])
  <2>1. \A n \in 1..N : n \in 0..N /\ n # 0
    BY <1>1
  <2> HIDE DEF next
  <2>2. QED
    BY <1>6a, <2>1
<1>9. kept \in [0..N -> L]
  <2> DEFINE S == {n \in Nat : n <= N => kept[n] \in L}
  <2>1. 0 \in S
    BY <1>1, <1>7
  <2>2. ASSUME NEW n \in Nat, n \in S PROVE n + 1 \in S
    <3> SUFFICES ASSUME n + 1 <= N PROVE kept[n + 1] \in L
      OBVIOUS
    <3>1. n + 1 \in 1..N /\ (n + 1) - 1 = n /\ kept[n] \in L
      BY <1>1, <2>2
    <3> HIDE DEF next, L
    <3>2. QED
      BY <1>2, <1>8, <3>1
  <2> HIDE DEF S
  <2>3. \A n \in Nat : n \in S
    BY <2>1, <2>2, Induction
  <2> HIDE DEF L
  <2>4. \A n \in 0..N : kept[n] \in L
    BY <1>1, <2>3 DEF S
  <2>5. QED
    BY <1>6, <2>4
<1>10. QED
  BY <1>4, <1>7, <1>8, <1>9 DEF Keeps

\* Less is selected than there is, unless everything is.
Shorter(short, vs, P, n) ==
  /\ Len(short) <= n
  /\ (\E i \in 1..n : i \notin P) => Len(short) < n
  /\ (\A i \in 1..n : i \in P) => Len(short) = n /\ \A i \in 1..n : short[i] = vs[i]

LEMMA ShorterGrows ==
  ASSUME NEW X, NEW vs \in Seq(X), NEW P, NEW short \in Seq(X), NEW n \in Nat,
         n + 1 <= Len(vs), Shorter(short, vs, P, n)
  PROVE  /\ n + 1 \in P => Shorter(Append(short, vs[n + 1]), vs, P, n + 1)
         /\ n + 1 \notin P => Shorter(short, vs, P, n + 1)
<1>1. /\ Len(vs) \in Nat /\ n + 1 \in 1..Len(vs) /\ vs[n + 1] \in X /\ Len(short) \in Nat
      /\ 1..(n + 1) = (1..n) \cup {n + 1}
  OBVIOUS
<1>2. ASSUME n + 1 \in P PROVE Shorter(Append(short, vs[n + 1]), vs, P, n + 1)
  <2> DEFINE long == Append(short, vs[n + 1])
  <2>1. /\ Len(long) = Len(short) + 1 /\ long[Len(short) + 1] = vs[n + 1]
        /\ \A i \in 1..Len(short) : long[i] = short[i]
    BY <1>1
  <2> HIDE DEF long
  <2>2. Len(long) <= n + 1
    BY <1>1, <2>1 DEF Shorter
  <2>3. (\E i \in 1..(n + 1) : i \notin P) => Len(long) < n + 1
    BY <1>1, <1>2, <2>1 DEF Shorter
  <2>4. ASSUME \A i \in 1..(n + 1) : i \in P
        PROVE  Len(long) = n + 1 /\ \A i \in 1..(n + 1) : long[i] = vs[i]
    <3>1. Len(short) = n /\ \A i \in 1..n : short[i] = vs[i]
      BY <1>1, <2>4 DEF Shorter
    <3>2. QED
      BY <1>1, <2>1, <3>1
  <2>5. QED
    BY <2>2, <2>3, <2>4 DEF Shorter, long
<1>3. ASSUME n + 1 \notin P PROVE Shorter(short, vs, P, n + 1)
  BY <1>1, <1>3 DEF Shorter
<1>4. QED
  BY <1>2, <1>3

LEMMA SelectLength ==
  ASSUME NEW X, NEW vs \in Seq(X), NEW P
  PROVE  /\ Select(vs, P) \in Seq(X) /\ Shorter(Select(vs, P), vs, P, Len(vs))
         /\ DOMAIN vs \subseteq P => Select(vs, P) = vs
<1>0. PICK N : N = Len(vs)
  OBVIOUS
<1>1. PICK kept : Keeps(kept, X, vs, P, N)
  BY <1>0, SelectUnfolds
<1>2. /\ N \in Nat /\ kept \in [0..N -> Seq(X)] /\ kept[0] = <<>> /\ Select(vs, P) = kept[N]
      /\ \A n \in 1..N : kept[n] = IF n \in P THEN Append(kept[n - 1], vs[n]) ELSE kept[n - 1]
  BY <1>0, <1>1 DEF Keeps
<1> DEFINE S == {n \in Nat : n <= N => Shorter(kept[n], vs, P, n)}
<1>3. 0 \in S
  BY <1>2 DEF Shorter
<1>4. ASSUME NEW n \in Nat, n \in S PROVE n + 1 \in S
  <2> SUFFICES ASSUME n + 1 <= N PROVE Shorter(kept[n + 1], vs, P, n + 1)
    OBVIOUS
  <2>1. n + 1 \in 1..N /\ (n + 1) - 1 = n /\ n \in 0..N /\ n <= N
    BY <1>2
  <2>2. kept[n] \in Seq(X) /\ Shorter(kept[n], vs, P, n)
    BY <1>2, <1>4, <2>1
  <2>3. kept[n + 1] = IF n + 1 \in P THEN Append(kept[n], vs[n + 1]) ELSE kept[n]
    BY <1>2, <2>1
  <2>4. QED
    BY <1>0, <2>2, <2>3, ShorterGrows
<1> HIDE DEF S
<1>5. N \in S
  BY <1>2, <1>3, <1>4, Induction
<1>6. kept[N] \in Seq(X) /\ Shorter(kept[N], vs, P, N)
  BY <1>2, <1>5 DEF S
<1>7. ASSUME DOMAIN vs \subseteq P PROVE kept[N] = vs
  <2>1. DOMAIN vs = 1..N
    BY <1>0
  <2>2. Len(kept[N]) = Len(vs) /\ \A i \in 1..Len(vs) : kept[N][i] = vs[i]
    BY <1>0, <1>6, <1>7, <2>1 DEF Shorter
  <2>3. QED
    BY <1>6, <2>2
<1>8. QED
  BY <1>0, <1>2, <1>6, <1>7

\* The positions in P up to n, in order.
Chosen(P, n) == Select([i \in 1..n |-> i], P)

\* What is selected are the elements at the chosen positions, which are those
\* of P that the list has, in order.
LEMMA SelectChooses ==
  ASSUME NEW X, NEW vs \in Seq(X), NEW P
  PROVE  LET at == Chosen(P, Len(vs))
         IN  /\ at \in Seq(1..Len(vs))
             /\ {at[j] : j \in DOMAIN at} = P \cap (1..Len(vs))
             /\ \A i, j \in DOMAIN at : i < j => at[i] < at[j]
             /\ Select(vs, P) = [j \in DOMAIN at |-> vs[at[j]]]
<1> DEFINE N == Len(vs)
           ids == [i \in 1..N |-> i]
<1>1. N \in Nat /\ ids \in Seq(1..N) /\ Len(ids) = N
  OBVIOUS
<1>2. PICK kept : Keeps(kept, X, vs, P, N)
  BY SelectUnfolds
<1>3. PICK at :
        /\ at \in [0..N -> Seq(1..N)]
        /\ at[0] = <<>>
        /\ \A n \in 1..N : at[n] = IF n \in P THEN Append(at[n - 1], n) ELSE at[n - 1]
        /\ Chosen(P, N) = at[N]
  <2> HIDE DEF ids
  <2>1. PICK at : Keeps(at, 1..N, ids, P, N)
    BY <1>1, SelectUnfolds
  <2>2. \A n \in 1..N : ids[n] = n
    BY DEF ids
  <2>3. QED
    BY <1>1, <2>1, <2>2 DEF Chosen, ids, Keeps
<1> DEFINE Good(n) ==
             /\ {at[n][j] : j \in DOMAIN at[n]} = P \cap (1..n)
             /\ \A i, j \in DOMAIN at[n] : i < j => at[n][i] < at[n][j]
             /\ kept[n] = [j \in DOMAIN at[n] |-> vs[at[n][j]]]
           S == {n \in Nat : n <= N => Good(n)}
<1> HIDE DEF N, ids
<1>3a. /\ kept \in [0..N -> Seq(X)] /\ kept[0] = <<>> /\ Select(vs, P) = kept[N]
      /\ \A n \in 1..N : kept[n] = IF n \in P THEN Append(kept[n - 1], vs[n]) ELSE kept[n - 1]
  BY <1>2 DEF Keeps
<1>4. 0 \in S
  BY <1>1, <1>3a, <1>3
<1>5. ASSUME NEW n \in Nat, n \in S, n + 1 <= N PROVE Good(n + 1)
  <2>1. /\ n + 1 \in 1..N /\ (n + 1) - 1 = n /\ n \in 0..N
        /\ at[n] \in Seq(1..N) /\ kept[n] \in Seq(X) /\ Good(n)
    <3>1. n + 1 \in 1..N /\ (n + 1) - 1 = n /\ n \in 0..N /\ n <= N
      BY <1>1, <1>5
    <3> HIDE DEF Good
    <3>2. Good(n)
      BY <1>5, <3>1
    <3>3. QED
      BY <1>3, <1>3a, <3>1, <3>2
  <2>2. CASE n + 1 \notin P
    <3>1. at[n + 1] = at[n] /\ kept[n + 1] = kept[n]
      BY <1>3a, <1>3, <2>1, <2>2
    <3>2. P \cap (1..(n + 1)) = P \cap (1..n)
      BY <2>2
    <3>3. QED
      BY <2>1, <3>1, <3>2
  <2>3. CASE n + 1 \in P
    <3> DEFINE a == at[n]
               b == Append(a, n + 1)
    <3>1. at[n + 1] = b /\ kept[n + 1] = Append(kept[n], vs[n + 1])
      BY <1>3a, <1>3, <2>1, <2>3
    <3> HIDE DEF a
    <3>2. /\ a \in Seq(1..N) /\ Len(a) \in Nat /\ DOMAIN b = 1..(Len(a) + 1)
          /\ b[Len(a) + 1] = n + 1 /\ \A j \in 1..Len(a) : b[j] = a[j]
      BY <1>1, <2>1 DEF a
    <3>3. P \cap (1..(n + 1)) = (P \cap (1..n)) \cup {n + 1}
      BY <2>3
    <3>4. DOMAIN a = 1..Len(a) /\ DOMAIN b = (1..Len(a)) \cup {Len(a) + 1}
      BY <3>2
    <3>5. {b[j] : j \in DOMAIN b} = P \cap (1..(n + 1))
      <4>1. {b[j] : j \in DOMAIN b} = {b[j] : j \in 1..Len(a)} \cup {n + 1}
        <5> HIDE DEF b
        <5>1. QED
          BY <3>2, <3>4
      <4>2. {b[j] : j \in 1..Len(a)} = {a[j] : j \in DOMAIN a}
        <5> HIDE DEF b
        <5>1. QED
          BY <3>2, <3>4
      <4>3. QED
        BY <2>1, <3>3, <4>1, <4>2 DEF a
    <3>6. \A j \in DOMAIN a : a[j] \in 1..n
      BY <2>1 DEF a
    <3>7. \A i, j \in DOMAIN b : i < j => b[i] < b[j]
      BY <2>1, <3>2, <3>6 DEF a
    <3>8. kept[n + 1] = [j \in DOMAIN b |-> vs[b[j]]]
      <4>1. Len(kept[n]) = Len(a) /\ \A j \in 1..Len(a) : kept[n][j] = vs[a[j]]
        BY <2>1, <3>2 DEF a
      <4>2. vs[n + 1] \in X
        BY <2>1 DEF N
      <4>3. /\ Append(kept[n], vs[n + 1]) \in Seq(X)
            /\ Len(Append(kept[n], vs[n + 1])) = Len(a) + 1
            /\ Append(kept[n], vs[n + 1])[Len(a) + 1] = vs[n + 1]
            /\ \A j \in 1..Len(a) : Append(kept[n], vs[n + 1])[j] = kept[n][j]
        BY <2>1, <3>2, <4>1, <4>2
      <4>4. DOMAIN Append(kept[n], vs[n + 1]) = 1..(Len(a) + 1)
        BY <4>3
      <4> HIDE DEF b
      <4>5. \A j \in 1..(Len(a) + 1) : Append(kept[n], vs[n + 1])[j] = vs[b[j]]
        BY <3>2, <4>1, <4>3
      <4>6. Append(kept[n], vs[n + 1]) = [j \in DOMAIN b |-> vs[b[j]]]
        BY <3>2, <4>3, <4>4, <4>5
      <4>7. QED
        BY <3>1, <4>6
    <3>9. QED
      BY <3>1, <3>5, <3>7, <3>8
  <2>4. QED
    BY <2>2, <2>3
<1> HIDE DEF Good
<1>6. \A n \in Nat : n \in S
  <2>1. \A n \in Nat : n \in S => n + 1 \in S
    BY <1>5
  <2> HIDE DEF S
  <2>2. QED
    BY <1>4, <2>1, Induction
<1>7. Good(N)
  BY <1>1, <1>6
<1>8. at[N] \in Seq(1..N)
  BY <1>1, <1>3
<1>9. QED
  BY <1>3a, <1>3, <1>7, <1>8 DEF Good, N

-----------------------------------------------------------------------------
(* Two functions have the same values equally often: there is a bijection  *)
(* between their domains.                                                  *)

Renames(g, F, G) ==
  /\ g \in [DOMAIN F -> DOMAIN G]
  /\ \A x, y \in DOMAIN F : g[x] = g[y] => x = y
  /\ \A z \in DOMAIN G : \E x \in DOMAIN F : g[x] = z
  /\ \A x \in DOMAIN F : F[x] = G[g[x]]

Same(F, G) == \E g : Renames(g, F, G)

LEMMA SameReflexive ==
  ASSUME NEW F
  PROVE  Same(F, F)
<1>1. Renames([x \in DOMAIN F |-> x], F, F)
  BY DEF Renames
<1>2. QED
  BY <1>1 DEF Same

LEMMA SameSymmetric ==
  ASSUME NEW F, NEW G, Same(F, G)
  PROVE  Same(G, F)
<1>1. PICK g : Renames(g, F, G)
  BY DEF Same
<1> DEFINE h == [z \in DOMAIN G |-> CHOOSE x \in DOMAIN F : g[x] = z]
<1>2. \A z \in DOMAIN G : h[z] \in DOMAIN F /\ g[h[z]] = z
  BY <1>1 DEF Renames
<1>3. h \in [DOMAIN G -> DOMAIN F]
  BY <1>2
<1> HIDE DEF h
<1>4. \A x \in DOMAIN F : g[x] \in DOMAIN G /\ h[g[x]] = x
  BY <1>1, <1>2 DEF Renames
<1>5. Renames(h, G, F)
  BY <1>1, <1>2, <1>3, <1>4 DEF Renames
<1>6. QED
  BY <1>5 DEF Same

LEMMA SameTransitive ==
  ASSUME NEW F, NEW G, NEW H, Same(F, G), Same(G, H)
  PROVE  Same(F, H)
<1>1. PICK g : Renames(g, F, G)
  BY DEF Same
<1>2. PICK h : Renames(h, G, H)
  BY DEF Same
<1> DEFINE k == [x \in DOMAIN F |-> h[g[x]]]
<1>3. \A x \in DOMAIN F : g[x] \in DOMAIN G /\ k[x] = h[g[x]] /\ h[g[x]] \in DOMAIN H
  BY <1>1, <1>2 DEF Renames
<1>4. k \in [DOMAIN F -> DOMAIN H]
  BY <1>3
<1> HIDE DEF k
<1>5. \A x, y \in DOMAIN F : k[x] = k[y] => x = y
  BY <1>1, <1>2, <1>3 DEF Renames
<1>6. \A z \in DOMAIN H : \E x \in DOMAIN F : k[x] = z
  BY <1>1, <1>2, <1>3 DEF Renames
<1>7. \A x \in DOMAIN F : F[x] = H[k[x]]
  BY <1>1, <1>2, <1>3 DEF Renames
<1>8. QED
  BY <1>4, <1>5, <1>6, <1>7 DEF Renames, Same

\* Same functions have the same values, and a value for two arguments if the
\* other has.
LEMMA SameValues ==
  ASSUME NEW F, NEW G, Same(F, G)
  PROVE  /\ \A x \in DOMAIN F : \E z \in DOMAIN G : G[z] = F[x]
         /\ \A z \in DOMAIN G : \E x \in DOMAIN F : F[x] = G[z]
         /\ \A x, y \in DOMAIN F : x # y =>
              \E z, w \in DOMAIN G : z # w /\ G[z] = F[x] /\ G[w] = F[y]
<1>1. PICK g : Renames(g, F, G)
  BY DEF Same
<1>2. /\ \A x \in DOMAIN F : g[x] \in DOMAIN G /\ F[x] = G[g[x]]
      /\ \A x, y \in DOMAIN F : g[x] = g[y] => x = y
      /\ \A z \in DOMAIN G : \E x \in DOMAIN F : g[x] = z
  BY <1>1 DEF Renames
<1>3. QED
  BY <1>2

\* What is selected are the elements at the positions in P.
LEMMA SelectSame ==
  ASSUME NEW X, NEW vs \in Seq(X), NEW P, P \subseteq DOMAIN vs
  PROVE  Select(vs, P) \in Seq(X) /\ Same(Select(vs, P), [i \in P |-> vs[i]])
<1> DEFINE at == Chosen(P, Len(vs))
<1>1. /\ at \in Seq(1..Len(vs))
      /\ {at[j] : j \in DOMAIN at} = P \cap (1..Len(vs))
      /\ \A i, j \in DOMAIN at : i < j => at[i] < at[j]
      /\ Select(vs, P) = [j \in DOMAIN at |-> vs[at[j]]]
  BY SelectChooses
<1>2. DOMAIN vs = 1..Len(vs) /\ Len(vs) \in Nat /\ \A i \in 1..Len(vs) : vs[i] \in X
  OBVIOUS
<1> HIDE DEF at
<1>3. DOMAIN at = 1..Len(at) /\ Len(at) \in Nat /\ \A j \in DOMAIN at : at[j] \in 1..Len(vs)
  BY <1>1
<1>4. [j \in DOMAIN at |-> vs[at[j]]] \in Seq(X)
  BY <1>2, <1>3
<1>5. P \cap (1..Len(vs)) = P
  BY <1>2
<1>6. \A i, j \in DOMAIN at : at[i] = at[j] => i = j
  <2>1. \A i, j \in DOMAIN at : i < j \/ j < i \/ i = j
    BY <1>3
  <2>2. \A i, j \in DOMAIN at : i < j => at[i] # at[j]
    BY <1>1, <1>3
  <2>3. QED
    BY <2>1, <2>2
<1>7. Renames(at, [j \in DOMAIN at |-> vs[at[j]]], [i \in P |-> vs[i]])
  <2>1. \A j \in DOMAIN at : at[j] \in P
    BY <1>1, <1>5
  <2>2. \A i \in P : \E j \in DOMAIN at : at[j] = i
    BY <1>1, <1>5
  <2>3. at \in [DOMAIN at -> P]
    BY <1>1, <2>1
  <2>4. QED
    BY <1>6, <2>1, <2>2, <2>3 DEF Renames
<1>8. QED
  BY <1>1, <1>4, <1>7 DEF Same

-----------------------------------------------------------------------------
(* Concatenated.                                                           *)

Positions(ss, n) == UNION {{<<i, m>> : m \in DOMAIN ss[i]} : i \in 1..n}

\* The lists' elements, each with the list and the position it comes from.
Elements(ss, n) == [x \in Positions(ss, n) |-> ss[x[1]][x[2]]]

LEMMA PositionIn ==
  ASSUME NEW ss, NEW n, NEW x
  PROVE  x \in Positions(ss, n) <=> \E i \in 1..n : \E m \in DOMAIN ss[i] : x = <<i, m>>
BY DEF Positions

LEMMA ElementsGrow ==
  ASSUME NEW X, NEW n \in Nat, NEW ss, ss[n + 1] \in Seq(X),
         NEW vs \in Seq(X), Same(vs, Elements(ss, n))
  PROVE  Same(vs \o ss[n + 1], Elements(ss, n + 1))
<1>1. PICK g : Renames(g, vs, Elements(ss, n))
  BY DEF Same
<1> DEFINE last == ss[n + 1]
           both == vs \o last
           h == [j \in DOMAIN both |-> IF j <= Len(vs) THEN g[j] ELSE <<n + 1, j - Len(vs)>>]
<1>2. /\ Len(vs) \in Nat /\ DOMAIN vs = 1..Len(vs)
      /\ Len(last) \in Nat /\ DOMAIN last = 1..Len(last)
      /\ DOMAIN both = 1..(Len(vs) + Len(last))
      /\ \A j \in 1..Len(vs) : both[j] = vs[j]
      /\ \A m \in 1..Len(last) : both[Len(vs) + m] = last[m]
  OBVIOUS
<1> HIDE DEF both, last
<1>3. \A x : x \in Positions(ss, n + 1) <=>
               x \in Positions(ss, n) \/ \E m \in 1..Len(last) : x = <<n + 1, m>>
  <2>1. 1..(n + 1) = (1..n) \cup {n + 1}
    OBVIOUS
  <2>2. \A x : x \in Positions(ss, n + 1) <=>
               x \in Positions(ss, n) \/ \E m \in DOMAIN ss[n + 1] : x = <<n + 1, m>>
    BY <2>1, PositionIn
  <2>3. QED
    BY <1>2, <2>2 DEF last
<1>4. \A m : <<n + 1, m>> \notin Positions(ss, n)
  <2>1. n + 1 \notin 1..n
    OBVIOUS
  <2>2. QED
    BY <2>1, PositionIn
<1>5. \A j \in 1..Len(vs) : j \in DOMAIN both /\ h[j] = g[j] /\ g[j] \in Positions(ss, n)
  <2>1. \A j \in 1..Len(vs) : j \in DOMAIN both /\ j <= Len(vs)
    BY <1>2
  <2>2. QED
    BY <1>1, <1>2, <2>1 DEF Renames, Elements
<1>6. \A m \in 1..Len(last) :
        Len(vs) + m \in DOMAIN both /\ h[Len(vs) + m] = <<n + 1, m>>
  <2>1. \A m \in 1..Len(last) :
          Len(vs) + m \in DOMAIN both /\ ~(Len(vs) + m <= Len(vs)) /\ (Len(vs) + m) - Len(vs) = m
    BY <1>2
  <2>2. QED
    BY <2>1
<1>7. \A j \in DOMAIN both : j \in 1..Len(vs) \/ \E m \in 1..Len(last) : j = Len(vs) + m
  <2> SUFFICES ASSUME NEW j \in DOMAIN both, j \notin 1..Len(vs)
               PROVE  \E m \in 1..Len(last) : j = Len(vs) + m
    OBVIOUS
  <2>1. j - Len(vs) \in 1..Len(last) /\ j = Len(vs) + (j - Len(vs))
    BY <1>2
  <2>2. QED
    BY <2>1
<1>8. DOMAIN h = DOMAIN both /\ h = [j \in DOMAIN both |-> h[j]]
  OBVIOUS
<1> HIDE DEF h
<1>9. \A j \in DOMAIN both : h[j] \in Positions(ss, n + 1)
  BY <1>3, <1>5, <1>6, <1>7
<1>10. \A i, j \in DOMAIN both : h[i] = h[j] => i = j
  <2> SUFFICES ASSUME NEW i \in DOMAIN both, NEW j \in DOMAIN both, h[i] = h[j]
               PROVE  i = j
    OBVIOUS
  <2>1. CASE i \in 1..Len(vs) /\ j \in 1..Len(vs)
    BY <1>1, <1>2, <1>5, <2>1 DEF Renames
  <2>2. CASE i \in 1..Len(vs) /\ j \notin 1..Len(vs)
    BY <1>4, <1>5, <1>6, <1>7, <2>2
  <2>3. CASE i \notin 1..Len(vs) /\ j \in 1..Len(vs)
    BY <1>4, <1>5, <1>6, <1>7, <2>3
  <2>4. CASE i \notin 1..Len(vs) /\ j \notin 1..Len(vs)
    BY <1>6, <1>7, <2>4
  <2>5. QED
    BY <2>1, <2>2, <2>3, <2>4
<1>11. \A z \in Positions(ss, n + 1) : \E j \in DOMAIN both : h[j] = z
  <2> SUFFICES ASSUME NEW z \in Positions(ss, n + 1) PROVE \E j \in DOMAIN both : h[j] = z
    OBVIOUS
  <2>1. CASE z \in Positions(ss, n)
    BY <1>1, <1>2, <1>5, <2>1 DEF Renames, Elements
  <2>2. CASE \E m \in 1..Len(last) : z = <<n + 1, m>>
    BY <1>6, <2>2
  <2>3. QED
    BY <1>3, <2>1, <2>2
<1>12. \A j \in DOMAIN both : both[j] = ss[h[j][1]][h[j][2]]
  <2> SUFFICES ASSUME NEW j \in DOMAIN both PROVE both[j] = ss[h[j][1]][h[j][2]]
    OBVIOUS
  <2>1. CASE j \in 1..Len(vs)
    <3>1. vs[j] = Elements(ss, n)[g[j]]
      BY <1>1, <1>2, <2>1 DEF Renames
    <3>2. QED
      BY <1>2, <1>5, <2>1, <3>1 DEF Elements
  <2>2. CASE \E m \in 1..Len(last) : j = Len(vs) + m
    <3>1. PICK m \in 1..Len(last) : j = Len(vs) + m
      BY <2>2
    <3>2. both[j] = last[m] /\ h[j] = <<n + 1, m>>
      BY <1>2, <1>6, <3>1
    <3>3. QED
      BY <3>2 DEF last
  <2>3. QED
    BY <1>7, <2>1, <2>2
<1>13. Renames(h, both, Elements(ss, n + 1))
  <2>1. h \in [DOMAIN both -> Positions(ss, n + 1)]
    BY <1>8, <1>9
  <2>2. QED
    BY <1>9, <1>10, <1>11, <1>12, <2>1 DEF Renames, Elements
<1>14. QED
  BY <1>13 DEF Same, both, last

LEMMA ConcatenatedUnfolds ==
  ASSUME NEW X, NEW ss \in Seq(Seq(X)), NEW N, N = Len(ss)
  PROVE  \E joined :
           /\ joined[0] = <<>>
           /\ \A n \in 1..N : joined[n] = joined[n - 1] \o ss[n]
           /\ Concatenated(ss) = joined[N]
<1> DEFINE L == Seq(X)
           empty == <<>>
           next(n, s) == s \o ss[n]
           round == [p \in (1..N) \X L |-> next(p[1], p[2])]
           Recursive(f) == f = [n \in 0..N |-> IF n = 0 THEN <<>> ELSE f[n - 1] \o ss[n]]
           joined == CHOOSE f : Recursive(f)
<1>1. N \in Nat /\ empty \in L
  OBVIOUS
<1>2. \A n \in 1..N : \A s \in L : next(n, s) \in L
  OBVIOUS
<1>3. round \in [(1..N) \X L -> L] /\ \A n \in 1..N : \A s \in L : round[<<n, s>>] = next(n, s)
  <2> HIDE DEF next, L
  <2>1. QED
    BY <1>2
<1>4. Concatenated(ss) = joined[N]
  BY DEF Concatenated
<1>5. \E g : Recursive(g)
  <2>1. IsLoop(N, L, empty, round)
    <3> HIDE DEF round, L, empty
    <3>1. QED
      BY <1>1, <1>3 DEF IsLoop
  <2>2. PICK f : Runs(f, N, L, empty, round)
    <3> HIDE DEF round, L, empty
    <3>1. QED
      BY <1>1, <2>1, Loop
  <2> HIDE DEF L, round
  <2>3. f \in [0..N -> L] /\ f[0] = <<>> /\ \A n \in 1..N : f[n] = round[<<n, f[n - 1]>>]
    BY <2>2 DEF Runs
  <2>4. \A n \in 1..N : n - 1 \in 0..N
    BY <1>1
  <2>5. \A n \in 1..N : f[n - 1] \in L
    BY <2>3, <2>4
  <2>6. \A n \in 1..N : f[n] = next(n, f[n - 1])
    BY <1>3, <2>3, <2>5
  <2>7. \A n \in 0..N : n # 0 => n \in 1..N
    BY <1>1
  <2>8. \A n \in 0..N : f[n] = IF n = 0 THEN <<>> ELSE next(n, f[n - 1])
    BY <2>3, <2>6, <2>7
  <2>9. Recursive(f)
    BY <2>3, <2>8
  <2>10. QED
    BY <2>9
<1>6. Recursive(joined)
  BY <1>5
<1> HIDE DEF joined
<1>7. \A n \in 0..N : joined[n] = IF n = 0 THEN <<>> ELSE next(n, joined[n - 1])
  BY <1>6
<1>8. joined[0] = <<>>
  BY <1>1, <1>7
<1>9. \A n \in 1..N : joined[n] = next(n, joined[n - 1])
  <2>1. \A n \in 1..N : n \in 0..N /\ n # 0
    BY <1>1
  <2> HIDE DEF next
  <2>2. QED
    BY <1>7, <2>1
<1>10. QED
  BY <1>4, <1>8, <1>9

\* Concatenation has every element of every list, as often as it occurs.
LEMMA ConcatenatedSame ==
  ASSUME NEW X, NEW ss \in Seq(Seq(X))
  PROVE  Concatenated(ss) \in Seq(X) /\ Same(Concatenated(ss), Elements(ss, Len(ss)))
<1> DEFINE N == Len(ss)
<1>1. N \in Nat /\ \A n \in 1..N : ss[n] \in Seq(X)
  OBVIOUS
<1>2. PICK joined :
        /\ joined[0] = <<>>
        /\ \A n \in 1..N : joined[n] = joined[n - 1] \o ss[n]
        /\ Concatenated(ss) = joined[N]
  BY ConcatenatedUnfolds
<1> DEFINE Good(n) == joined[n] \in Seq(X) /\ Same(joined[n], Elements(ss, n))
           S == {n \in Nat : n <= N => Good(n)}
<1> HIDE DEF N
<1>3. 0 \in S
  <2>1. \A x : x \notin Positions(ss, 0)
    BY PositionIn
  <2>2. DOMAIN Elements(ss, 0) = {}
    BY <2>1 DEF Elements
  <2>3. <<>> \in Seq(X) /\ DOMAIN <<>> = {}
    OBVIOUS
  <2>4. Renames(<<>>, <<>>, Elements(ss, 0))
    BY <2>2, <2>3 DEF Renames
  <2>5. Good(0)
    BY <1>2, <2>3, <2>4 DEF Same
  <2>6. QED
    BY <2>5
<1>4. ASSUME NEW n \in Nat, n \in S PROVE n + 1 \in S
  <2> SUFFICES ASSUME n + 1 <= N PROVE Good(n + 1)
    OBVIOUS
  <2>1. n + 1 \in 1..N /\ (n + 1) - 1 = n /\ n <= N
    BY <1>1
  <2>2. joined[n + 1] = joined[n] \o ss[n + 1] /\ ss[n + 1] \in Seq(X)
    BY <1>1, <1>2, <2>1
  <2>3. joined[n] \in Seq(X) /\ Same(joined[n], Elements(ss, n))
    BY <1>4, <2>1
  <2>4. Same(joined[n] \o ss[n + 1], Elements(ss, n + 1))
    BY <2>2, <2>3, ElementsGrow
  <2>5. joined[n] \o ss[n + 1] \in Seq(X)
    BY <2>2, <2>3
  <2>6. QED
    BY <2>2, <2>4, <2>5
<1> HIDE DEF S
<1>5. N \in S
  BY <1>1, <1>3, <1>4, Induction
<1>6. QED
  BY <1>1, <1>2, <1>5 DEF S, N
===============================================================================
