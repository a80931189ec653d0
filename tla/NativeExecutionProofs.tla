----------------------- MODULE NativeExecutionProofs -----------------------
(***************************************************************************)
(* For any set of jobs, any bounds and any schedule of frames, exchanges   *)
(* and faults.  The invariants are those of NativeExecutionInvariants.     *)
(***************************************************************************)
EXTENDS NativeExecutionInvariants, FiniteSetTheorems, TLAPS

-----------------------------------------------------------------------------
(* Numbers, and loops that apply one step after the other.                 *)

(* Induction: a set that holds 0 and the successor of each of its numbers
   holds them all.  A counterexample n would make "one less" an injection
   of the finite set of counterexamples up to n into itself that misses n. *)
LEMMA SetInduction ==
  ASSUME NEW S, 0 \in S, \A n \in Nat : n \in S => n + 1 \in S
  PROVE  Nat \subseteq S
<1> SUFFICES ASSUME NEW n \in Nat, n \notin S PROVE FALSE
  OBVIOUS
<1> DEFINE U == {m \in 0..n : m \notin S}
           f == [u \in U |-> u - 1]
<1>1. IsFiniteSet(U)
  <2>1. IsFiniteSet(0..n) BY FS_Interval
  <2>2. U \in SUBSET (0..n) OBVIOUS
  <2> QED BY <2>1, <2>2, FS_Subset
<1>2. \A u \in U : u - 1 \in U
  <2> SUFFICES ASSUME NEW u \in U PROVE u - 1 \in U
    OBVIOUS
  <2>1. u \in Nat /\ u <= n /\ u # 0 OBVIOUS
  <2>2. u - 1 \in Nat /\ (u - 1) + 1 = u BY <2>1
  <2>3. u - 1 \notin S BY <2>2
  <2> QED BY <2>1, <2>2, <2>3
<1>3. f \in Injection(U, U)
  <2>1. f \in [U -> U] BY <1>2
  <2>2. \A a, b \in U : f[a] = f[b] => a = b
    <3> SUFFICES ASSUME NEW a \in U, NEW b \in U, f[a] = f[b] PROVE a = b
      OBVIOUS
    <3>1. a \in Int /\ b \in Int OBVIOUS
    <3>2. f[a] = a - 1 /\ f[b] = b - 1 OBVIOUS
    <3> QED BY <3>1, <3>2
  <2> QED BY <2>1, <2>2 DEF Injection, IsInjective
<1>4. f \in Surjection(U, U) BY <1>1, <1>3, FS_Injection
<1>5. n \in U OBVIOUS
<1>6. PICK u \in U : f[u] = n BY <1>4, <1>5 DEF Surjection
<1> QED BY <1>6

(* A set of natural numbers has a least one. *)
LEMMA Smallest ==
  ASSUME NEW S, S \subseteq Nat, S # {}
  PROVE  \E i \in S : \A j \in S : i <= j
<1> SUFFICES ASSUME \A i \in S : \E j \in S : j < i PROVE FALSE
  OBVIOUS
<1> DEFINE T == {m \in Nat : \A i \in 0..m : i \notin S}
<1>1. 0 \in T
  <2>1. 0..0 = {0} OBVIOUS
  <2>2. 0 \notin S OBVIOUS
  <2> QED BY <2>1, <2>2
<1>2. \A m \in Nat : m \in T => m + 1 \in T
  <2> SUFFICES ASSUME NEW m \in Nat, m \in T, m + 1 \in S PROVE FALSE
    OBVIOUS
  <2>1. PICK j \in S : j < m + 1 OBVIOUS
  <2>2. j \in 0..m BY <2>1
  <2> QED BY <2>2
<1> HIDE DEF T
<1>3. Nat \subseteq T BY <1>1, <1>2, SetInduction
<1>4. PICK i \in S : TRUE OBVIOUS
<1>5. i \in Nat /\ i \in 0..i BY <1>4
<1> QED BY <1>3, <1>5 DEF T

(* The same, for the numbers up to n. *)
LEMMA BoundedInduction ==
  ASSUME NEW n \in Nat, NEW S, 0 \in S,
         \A i \in 0..n : i < n /\ i \in S => i + 1 \in S
  PROVE  0..n \subseteq S
<1> DEFINE T == {m \in Nat : m <= n => m \in S}
<1>1. 0 \in T OBVIOUS
<1>2. \A m \in Nat : m \in T => m + 1 \in T OBVIOUS
<1> HIDE DEF T
<1>3. Nat \subseteq T BY <1>1, <1>2, SetInduction
<1> QED BY <1>3 DEF T

(* A loop of n passes, each a function on X, has a run that stays in X. *)
RunOf(f, X, n, x, step) ==
  f \in [0..n -> X] /\ f[0] = x /\ \A i \in 1..n : f[i] = step[i][f[i - 1]]

(* Such a run exists, by induction on the number of passes. *)
LEMMA Iterate ==
  ASSUME NEW X, NEW n \in Nat, NEW x \in X, NEW step \in [1..n -> [X -> X]]
  PROVE  \E f : RunOf(f, X, n, x, step)
<1> DEFINE IsRun(f, m) == f[0] = x /\ \A i \in 1..m : f[i] = step[i][f[i - 1]]
           S == {m \in 0..n : \E f \in [0..m -> X] : IsRun(f, m)}
<1>1. 0 \in S
  <2> DEFINE g == [i \in 0..0 |-> x]
  <2>1. g \in [0..0 -> X] OBVIOUS
  <2>2. IsRun(g, 0) OBVIOUS
  <2> HIDE DEF g, IsRun
  <2>3. \E f \in [0..0 -> X] : IsRun(f, 0) BY <2>1, <2>2
  <2> QED BY <2>3
<1>2. \A m \in 0..n : m < n /\ m \in S => m + 1 \in S
  <2> SUFFICES ASSUME NEW m \in 0..n, m < n, NEW f \in [0..m -> X], IsRun(f, m)
               PROVE  m + 1 \in S
    OBVIOUS
  <2> DEFINE y == step[m + 1][f[m]]
             g == [i \in 0..(m + 1) |-> IF i <= m THEN f[i] ELSE y]
  <2>1. y \in X
    <3>1. m + 1 \in 1..n /\ f[m] \in X OBVIOUS
    <3> QED BY <3>1
  <2>2. g \in [0..(m + 1) -> X] BY <2>1
  <2>3. g[0] = x OBVIOUS
  <2>4. ASSUME NEW i \in 1..(m + 1) PROVE g[i] = step[i][g[i - 1]]
    <3>1. CASE i <= m
      <4>1. i \in 1..m /\ i - 1 \in 0..m /\ i - 1 <= m BY <3>1
      <4> QED BY <4>1
    <3>2. CASE i = m + 1
      <4>1. i - 1 = m /\ g[i] = y /\ g[m] = f[m] BY <3>2
      <4> QED BY <4>1, <3>2
    <3> QED BY <3>1, <3>2
  <2> HIDE DEF g
  <2>5. IsRun(g, m + 1) BY <2>3, <2>4
  <2> QED BY <2>2, <2>5
<1> HIDE DEF S
<1>3. 0..n \subseteq S BY <1>1, <1>2, BoundedInduction
<1>4. n \in S BY <1>3
<1> QED BY <1>4 DEF S, RunOf

(* A finite set that is strictly and totally ordered by a relation has a
   first element: the one with the fewest before it. *)
Orders(R, S) ==
  /\ \A a, b, c \in S : <<a, b>> \in R /\ <<b, c>> \in R => <<a, c>> \in R
  /\ \A a, b \in S : a = b \/ <<a, b>> \in R \/ <<b, a>> \in R
  /\ \A a \in S : <<a, a>> \notin R

IsFirst(m, R, S) == m \in S /\ \A k \in S : k = m \/ <<m, k>> \in R

(* A finite set with a total order has a first element.                    *)
LEMMA First ==
  ASSUME NEW S, IsFiniteSet(S), S # {}, NEW R, Orders(R, S)
  PROVE  \E m : IsFirst(m, R, S)
<1> USE DEF Orders
<1> DEFINE Before(m) == {k \in S : <<k, m>> \in R}
           size == [m \in S |-> Cardinality(Before(m))]
           Sizes == {size[m] : m \in S}
<1>1. ASSUME NEW m \in S
      PROVE  IsFiniteSet(Before(m)) /\ Cardinality(Before(m)) \in Nat /\ size[m] = Cardinality(Before(m))
  <2>1. Before(m) \in SUBSET S OBVIOUS
  <2> HIDE DEF Before
  <2>2. IsFiniteSet(Before(m)) BY <2>1, FS_Subset
  <2> QED BY <2>2, FS_CardinalityType
<1>2. Sizes \subseteq Nat /\ Sizes # {}
  <2>1. \A m \in S : size[m] \in Nat
    <3> HIDE DEF size, Before
    <3> QED BY <1>1
  <2> HIDE DEF size
  <2> QED BY <2>1
<1>3. PICK i \in Sizes : \A j \in Sizes : i <= j
  <2> HIDE DEF Sizes
  <2> QED BY <1>2, Smallest
<1>4. PICK m \in S : i = size[m] OBVIOUS
<1>5. ASSUME NEW k \in S, <<k, m>> \in R PROVE FALSE
  <2>1. Before(k) \in SUBSET Before(m) /\ k \in Before(m) /\ k \notin Before(k) BY <1>5
  <2>2. Cardinality(Before(k)) <= Cardinality(Before(m))
        /\ Cardinality(Before(k)) # Cardinality(Before(m))
    <3> HIDE DEF Before
    <3> QED BY <1>1, <2>1, FS_Subset
  <2>3. Cardinality(Before(m)) <= Cardinality(Before(k))
    <3>1. size[k] \in Sizes OBVIOUS
    <3> HIDE DEF size, Sizes, Before
    <3> QED BY <3>1, <1>1, <1>3, <1>4
  <2>4. Cardinality(Before(k)) \in Nat /\ Cardinality(Before(m)) \in Nat BY <1>1
  <2> HIDE DEF Before
  <2> QED BY <2>2, <2>3, <2>4
<1> QED BY <1>5 DEF IsFirst

(* A loop keeps what each of its passes keeps. *)
LEMMA LoopInduction ==
  ASSUME NEW X, NEW n \in Nat, NEW g, g[0] \in X,
         \A i \in 1..n : g[i - 1] \in X => g[i] \in X
  PROVE  \A i \in 0..n : g[i] \in X
<1> DEFINE S == {i \in 0..n : g[i] \in X}
<1>1. 0 \in S OBVIOUS
<1>2. ASSUME NEW i \in 0..n, i < n, i \in S PROVE i + 1 \in S
  <2>1. i + 1 \in 1..n /\ i + 1 \in 0..n /\ (i + 1) - 1 = i BY <1>2
  <2>2. g[i] \in X BY <1>2
  <2> QED BY <2>1, <2>2
<1> HIDE DEF S
<1>3. 0..n \subseteq S BY <1>1, <1>2, BoundedInduction
<1> QED BY <1>3 DEF S

-----------------------------------------------------------------------------
(* Filtered sequences.                                                     *)

(* A filtered sequence is a sequence of what the filter lets through. *)
Filtered(u, s, S, T) ==
  /\ u \in Seq(T)
  /\ \A x : x \in S /\ (\E i \in 1..Len(s) : s[i] = x) => \E i \in 1..Len(u) : u[i] = x

(* What is kept of a sequence is of its type, and in it.                   *)
LEMMA AmongType ==
  ASSUME NEW T, NEW s \in Seq(T), NEW S
  PROVE  Filtered(Among(s, S), s, S, T) /\ Among(s, S) \in Seq(T \cap S)
<1> DEFINE n == Len(s)
           Pass(u, i) == IF s[i] \in S THEN Append(u, s[i]) ELSE u
           X == Seq(T \cap S)
           step == [i \in 1..n |-> [u \in X |-> Pass(u, i)]]
           R(g) == [i \in 0..n |-> IF i = 0 THEN <<>>
                                   ELSE IF s[i] \in S THEN Append(g[i - 1], s[i]) ELSE g[i - 1]]
           g == CHOOSE h : h = R(h)
<1>1. n \in Nat /\ \A i \in 1..n : s[i] \in T OBVIOUS
<1>2. <<>> \in X OBVIOUS
<1>3. ASSUME NEW i \in 1..n, NEW u \in X PROVE Pass(u, i) \in X
  BY <1>1
<1>4. step \in [1..n -> [X -> X]]
  <2> HIDE DEF X, Pass, n
  <2> QED BY <1>3
<1>5. PICK f : RunOf(f, X, n, <<>>, step)
  <2> HIDE DEF step, n, X
  <2> QED BY <1>1, <1>2, <1>4, Iterate
<1>6. f = R(f)
  <2>1. f \in [0..n -> X] /\ f[0] = <<>> /\ \A i \in 1..n : f[i] = step[i][f[i - 1]]
    BY <1>5 DEF RunOf
  <2>2. ASSUME NEW i \in 1..n PROVE f[i] = Pass(f[i - 1], i)
    <3>1. i - 1 \in 0..n BY <1>1
    <3>2. f[i - 1] \in X BY <2>1, <3>1
    <3> HIDE DEF X, Pass, n
    <3> QED BY <2>1, <3>2
  <2>3. ASSUME NEW i \in 0..n
        PROVE  f[i] = IF i = 0 THEN <<>>
                      ELSE IF s[i] \in S THEN Append(f[i - 1], s[i]) ELSE f[i - 1]
    <3>1. i = 0 \/ i \in 1..n BY <1>1
    <3> QED BY <2>1, <2>2, <3>1
  <2> HIDE DEF n, X
  <2> QED BY <2>1, <2>3
<1>7. g = R(g)
  <2> HIDE DEF R
  <2> QED BY <1>6
<1> HIDE DEF g
<1>8. \A i \in 0..n : g[i] = IF i = 0 THEN <<>>
                             ELSE IF s[i] \in S THEN Append(g[i - 1], s[i]) ELSE g[i - 1]
  <2> HIDE DEF n
  <2> QED BY <1>7
<1>9. g[0] = <<>> /\ \A i \in 1..n : g[i] = Pass(g[i - 1], i)
  <2>1. 0 \in 0..n /\ \A i \in 1..n : i \in 0..n /\ i # 0 BY <1>1
  <2> HIDE DEF n
  <2> QED BY <1>8, <2>1
<1>10. \A i \in 0..n : g[i] \in X
  <2>1. \A i \in 1..n : g[i - 1] \in X => g[i] \in X
    <3> HIDE DEF Pass, X, n
    <3> QED BY <1>9, <1>3
  <2> HIDE DEF Pass, X, n
  <2> QED BY <1>1, <1>2, <1>9, <2>1, LoopInduction
<1>11. Among(s, S) = g[n] BY DEF Among, g
<1> DEFINE Has(u, x) == \E k \in 1..Len(u) : u[k] = x
           Y(x, j) == {u \in X : Has(u, x)}
<1>12. ASSUME NEW x \in S, NEW j \in 1..n, s[j] = x PROVE Has(g[n], x)
  <2> DEFINE h == [i \in 0..(n - j) |-> g[j + i]]
  <2>0. n - j \in Nat /\ j \in Nat BY <1>1
  <2>1. Has(h[0], x)
    <3>1. j \in 0..n /\ j - 1 \in 0..n /\ g[j - 1] \in Seq(T \cap S) BY <1>1, <1>10
    <3>2. g[j] = Append(g[j - 1], x) BY <1>9, <1>12
    <3>3. Len(g[j]) \in 1..Len(g[j]) /\ g[j][Len(g[j])] = x
      <4>1. x \in T \cap S BY <1>1, <1>12
      <4> QED BY <3>1, <3>2, <4>1
    <3>4. h[0] = g[j] BY <1>1
    <3> QED BY <3>3, <3>4
  <2>2. ASSUME NEW i \in 1..(n - j), Has(h[i - 1], x) PROVE Has(h[i], x)
    <3>1. j + i \in 1..n /\ i - 1 \in 0..(n - j) /\ i \in 0..(n - j) /\ j + (i - 1) = (j + i) - 1
          /\ (j + i) - 1 \in 0..n
      BY <1>1
    <3>2. h[i] = Pass(h[i - 1], j + i) BY <3>1, <1>9
    <3>3. h[i - 1] \in Seq(T \cap S) BY <3>1, <1>10
    <3> HIDE DEF h
    <3>4. CASE s[j + i] \in S
      <4>1. PICK k \in 1..Len(h[i - 1]) : h[i - 1][k] = x BY <2>2
      <4>2. s[j + i] \in T \cap S /\ h[i] = Append(h[i - 1], s[j + i]) BY <3>1, <3>2, <3>4, <1>1
      <4>3. k \in 1..Len(h[i]) /\ h[i][k] = x BY <3>3, <4>1, <4>2
      <4> QED BY <4>3
    <3>5. CASE s[j + i] \notin S BY <3>2, <3>5, <2>2
    <3> QED BY <3>4, <3>5
  <2>3. \A i \in 0..(n - j) : h[i] \in {u \in X : Has(u, x)}
    <3> DEFINE Z == {u \in X : Has(u, x)}
    <3>1. h[0] \in Z
      <4>1. h[0] = g[j] /\ j \in 0..n BY <1>1
      <4> HIDE DEF h, n, Has, X
      <4> QED BY <4>1, <2>1, <1>10
    <3>2. \A i \in 1..(n - j) : h[i - 1] \in Z => h[i] \in Z
      <4> SUFFICES ASSUME NEW i \in 1..(n - j), h[i - 1] \in Z PROVE h[i] \in Z
        OBVIOUS
      <4>1. i \in 0..(n - j) /\ j + i \in 0..n BY <1>1
      <4>2. h[i] = g[j + i] BY <4>1
      <4> HIDE DEF h, n, Has, X
      <4> QED BY <4>1, <4>2, <2>2, <1>10
    <3> HIDE DEF Z, h, n
    <3>3. \A i \in 0..(n - j) : h[i] \in Z BY <2>0, <3>1, <3>2, LoopInduction
    <3> QED BY <3>3 DEF Z
  <2>4. h[n - j] = g[n] /\ n - j \in 0..(n - j) BY <2>0
  <2> HIDE DEF h, n, Has, X
  <2> QED BY <2>3, <2>4
<1> QED
  <2>1. n \in 0..n BY <1>1
  <2>2. g[n] \in Seq(T \cap S) BY <2>1, <1>10
  <2>3. g[n] \in Seq(T) BY <2>2
  <2> QED BY <1>11, <1>12, <2>2, <2>3 DEF Filtered

-----------------------------------------------------------------------------
(* A sound store.                                                          *)

(* The entries of a store are entries. *)
LEMMA EntryType ==
  ASSUME NEW t \in Stores
  PROVE  /\ Known(t) \subseteq Jobs
         /\ \A j \in Known(t) : t.map[j] \in Entries
<1>1. PICK S \in SUBSET Jobs : t.map \in [S -> Entries] BY DEF Stores
<1> QED BY <1>1 DEF Known

(* A store with other entries for jobs is a store. *)
LEMMA MapType ==
  ASSUME NEW S \in SUBSET Jobs, NEW m, m = [x \in S |-> m[x]], \A x \in S : m[x] \in Entries
  PROVE  m \in UNION {[D -> Entries] : D \in SUBSET Jobs}
<1>1. m \in [S -> Entries] OBVIOUS
<1> QED BY <1>1

(* The entries of a store hold finitely many frames. *)
LEMMA FramesFinite ==
  ASSUME NEW t, Formed(t), NEW S \in SUBSET Known(t)
  PROVE  IsFiniteSet(Frames(t, S)) /\ Cardinality(Frames(t, S)) \in Nat
<1> DEFINE F == [j \in S |-> {j} \X Images(t.map[j])]
           Z == {{j} \X Images(t.map[j]) : j \in S}
<1>1. IsFiniteSet(S) BY FS_Subset DEF Formed
<1>2. F \in Surjection(S, Z) BY DEF Surjection
<1>3. IsFiniteSet(Z)
  <2> HIDE DEF F, Z
  <2> QED BY <1>1, <1>2, FS_Surjection
<1>4. ASSUME NEW j \in S PROVE IsFiniteSet({j} \X Images(t.map[j]))
  <2>1. IsFiniteSet(t.map[j].ring) BY DEF Formed
  <2>2. IsFiniteSet({Still}) /\ IsFiniteSet({j}) BY FS_Singleton
  <2>3. IsFiniteSet({}) BY FS_EmptySet
  <2>4. IsFiniteSet(Images(t.map[j])) BY <2>1, <2>2, <2>3 DEF Images
  <2> QED BY <2>2, <2>4, FS_Product
<1>5. \A z \in Z : IsFiniteSet(z) BY <1>4
<1> HIDE DEF Z
<1>6. IsFiniteSet(UNION Z) BY <1>3, <1>5, FS_UNION
<1> QED BY <1>6, FS_CardinalityType DEF Frames, Z

-----------------------------------------------------------------------------
(* What is shown of one run.                                               *)

(* What leaves a run as it is, before or after a turn of it, adds nothing. *)
LEMMA TurnsAfter ==
  ASSUME NEW t, NEW u, NEW w, NEW j, NEW n
  PROVE  /\ Turns(u, t, j, n) /\ Leaves(w, u, j) => Turns(w, t, j, n)
         /\ Leaves(u, t, j) /\ Turns(w, u, j, n) => Turns(w, t, j, n)
         /\ Finishes(u, j) /\ Leaves(w, u, j) => Finishes(w, j)
BY DEF Turns, Leaves, Finishes

(* The same for one job and the others.                                    *)
LEMMA ShowsAfter ==
  ASSUME NEW t, NEW u, NEW w, NEW j, NEW n
  PROVE  /\ Shows(u, t, j, n) /\ Spares(w, u) => Shows(w, t, j, n)
         /\ Spares(u, t) /\ Shows(w, u, j, n) => Shows(w, t, j, n)
         /\ Finishes(u, j) /\ Spares(w, u) => Finishes(w, j)
         /\ Spares(u, t) /\ Spares(w, u) => Spares(w, t)
<1>1. \A k : Leaves(u, t, k) /\ Leaves(w, u, k) => Leaves(w, t, k) BY TurnsAfter DEF Leaves
<1> QED BY <1>1, TurnsAfter DEF Shows, Spares

(* What shows j as it was leaves everything as it was.                     *)
LEMMA ShowsTheSame ==
  ASSUME NEW t, NEW j
  PROVE  /\ Spares(t, t)
         /\ \A u : Shows(u, t, j, Node(t, j)) <=> Spares(u, t)
BY DEF Shows, Leaves, Spares, Turns

-----------------------------------------------------------------------------
(* The preview budget.                                                     *)

(* A store that holds less of what ended than one that fits, fits.         *)
LEMMA MilderFits ==
  ASSUME NEW t, Formed(t), Fits(t), NEW u, Formed(u), Milder(u, t)
  PROVE  Fits(u)
<1> DEFINE B == Budgeted(t)
           C == Budgeted(u)
<1>1. B \subseteq Known(t) /\ C \subseteq Known(u) /\ C \subseteq B
  BY DEF Budgeted, Milder
<1>2. IsFiniteSet(B) /\ IsFiniteSet(C)
  <2>1. IsFiniteSet(Known(t)) /\ IsFiniteSet(Known(u)) BY DEF Formed
  <2> HIDE DEF B, C
  <2> QED BY <1>1, <2>1, FS_Subset
<1>3. Frames(u, C) \in SUBSET Frames(t, B) BY <1>1 DEF Frames, Milder
<1>4. /\ IsFiniteSet(Frames(t, B)) /\ IsFiniteSet(Frames(u, C))
      /\ Cardinality(Frames(t, B)) \in Nat /\ Cardinality(Frames(u, C)) \in Nat
  <2> HIDE DEF B, C
  <2> QED BY <1>1, FramesFinite
<1>5. Cardinality(Frames(u, C)) <= Cardinality(Frames(t, B))
  <2> HIDE DEF B, C
  <2> QED BY <1>3, <1>4, FS_Subset
<1>6. CASE Cardinality(Frames(t, B)) <= PreviewBudget
  BY <1>4, <1>5, <1>6, StoreAssumption DEF Fits
<1>7. CASE Cardinality(B) = 1
  <2>1. PICK x : B = {x}
    <3> HIDE DEF B
    <3> QED BY <1>2, <1>7, FS_Singleton
  <2>2. C = {} \/ C = {x} BY <2>1, <1>1
  <2>3. CASE C = {}
    <3>1. Frames(u, C) = {} BY <2>3 DEF Frames
    <3>2. Cardinality(Frames(u, C)) = 0
      <4> HIDE DEF C
      <4> QED BY <3>1, FS_EmptySet
    <3> QED BY <3>2, StoreAssumption DEF Fits
  <2>4. CASE C = {x}
    <3>1. Cardinality(C) = 1
      <4> HIDE DEF C
      <4> QED BY <2>4, FS_Singleton
    <3> QED BY <3>1 DEF Fits
  <2> QED BY <2>2, <2>3, <2>4
<1> QED BY <1>6, <1>7 DEF Fits

(* The entries under the budget are strictly and totally ordered. *)
LEMMA PositionOf ==
  ASSUME NEW t, Formed(t), NEW j \in Known(t)
  PROVE  Position(t, j) \in 1..Len(t.order) /\ t.order[Position(t, j)] = j
<1>1. DOMAIN t.order = 1..Len(t.order) BY DEF Formed, Stores
<1> QED BY <1>1 DEF Formed, Listed, Position

(* The order in which entries are kept.                                    *)
LEMMA NewerOrders ==
  ASSUME NEW t, Formed(t)
  PROVE  /\ \A a, b, c \in Known(t) : Newer(t, a, b) /\ Newer(t, b, c) => Newer(t, a, c)
         /\ \A a, b \in Known(t) : a = b \/ Newer(t, a, b) \/ Newer(t, b, a)
         /\ \A a \in Known(t) : ~Newer(t, a, a)
<1>1. \A a \in Known(t) : Age(t.map[a]) \in Nat
  <2>1. t \in Stores BY DEF Formed
  <2> QED BY <2>1, EntryType DEF Age, Entries
<1>2. \A a \in Known(t) : Position(t, a) \in Nat /\ t.order[Position(t, a)] = a
  <2>1. Len(t.order) \in Nat BY DEF Formed, Stores
  <2> QED BY <2>1, PositionOf
<1>3. \A a, b \in Known(t) : Position(t, a) = Position(t, b) => a = b BY <1>2
<1> QED BY <1>1, <1>2, <1>3 DEF Newer

(* The order in which entries are given up.                                *)
LEMMA OlderOrders ==
  ASSUME NEW t, Formed(t)
  PROVE  /\ \A a, b, c \in Known(t) : Older(t, a, b) /\ Older(t, b, c) => Older(t, a, c)
         /\ \A a, b \in Known(t) : a = b \/ Older(t, a, b) \/ Older(t, b, a)
         /\ \A a \in Known(t) : ~Older(t, a, a)
<1>1. \A a \in Known(t) : t.map[a].queuedAt \in Nat
  <2>1. t \in Stores BY DEF Formed
  <2> QED BY <2>1, EntryType DEF Entries
<1>2. \A a \in Known(t) : Position(t, a) \in Nat /\ t.order[Position(t, a)] = a
  <2>1. Len(t.order) \in Nat BY DEF Formed, Stores
  <2> QED BY <2>1, PositionOf
<1>3. \A a, b \in Known(t) : Position(t, a) = Position(t, b) => a = b BY <1>2
<1> QED BY <1>1, <1>2, <1>3 DEF Older

(* What the budget leaves are the newest entries, down to the oldest that
   keeps its frames: either that is the newest of all, or with those of
   all newer ones its frames fit. *)
LEMMA KeptFrames ==
  ASSUME NEW t, Formed(t), NEW K, K = Budgeted(t) \ Stripped(t)
  PROVE  Cardinality(Frames(t, K)) <= PreviewBudget \/ Cardinality(K) = 1
<1>1. K \subseteq Budgeted(t) /\ Budgeted(t) \subseteq Known(t) /\ IsFiniteSet(K)
  <2>1. K \subseteq Budgeted(t) /\ Budgeted(t) \subseteq Known(t) BY DEF Budgeted
  <2>2. K \in SUBSET Known(t) BY <2>1
  <2> QED BY <2>1, <2>2, FS_Subset DEF Formed
<1>2. CASE K = {}
  <2>1. Frames(t, K) = {} BY <1>2 DEF Frames
  <2> QED BY <2>1, FS_EmptySet, StoreAssumption
<1>3. CASE K # {}
  <2> DEFINE R == {p \in K \X K : Newer(t, p[2], p[1])}
  <2>1. PICK m \in K : \A k \in K : k = m \/ <<m, k>> \in R
    <3>1. \A a, b \in K : <<a, b>> \in R <=> Newer(t, b, a) OBVIOUS
    <3>2. Orders(R, K)
      <4>1. \A a \in K : a \in Known(t) BY <1>1
      <4> HIDE DEF R
      <4> QED BY <3>1, <4>1, NewerOrders DEF Orders
    <3> HIDE DEF R
    <3>3. \E m : IsFirst(m, R, K) BY <1>1, <1>3, <3>2, First
    <3> QED BY <3>3 DEF IsFirst
  <2>2. K \subseteq DownTo(t, m) BY <1>1, <2>1 DEF DownTo
  <2>3. m \in Budgeted(t) /\ m \notin Stripped(t) BY <1>1
  <2>4. CASE DownTo(t, m) = {m}
    <3>1. K = {m} BY <2>2, <2>4
    <3> QED BY <3>1, FS_Singleton
  <2>5. CASE ~(Cardinality(Frames(t, DownTo(t, m))) > PreviewBudget)
    <3>1. DownTo(t, m) \in SUBSET Known(t) /\ K \in SUBSET Known(t) BY <1>1 DEF DownTo
    <3>2. Frames(t, K) \in SUBSET Frames(t, DownTo(t, m)) BY <2>2 DEF Frames
    <3>3. /\ IsFiniteSet(Frames(t, DownTo(t, m)))
          /\ Cardinality(Frames(t, DownTo(t, m))) \in Nat /\ Cardinality(Frames(t, K)) \in Nat
      BY <3>1, FramesFinite
    <3>4. Cardinality(Frames(t, K)) <= Cardinality(Frames(t, DownTo(t, m)))
      BY <3>2, <3>3, FS_Subset
    <3> QED BY <2>5, <3>3, <3>4, StoreAssumption
  <2> QED BY <2>3, <2>4, <2>5 DEF Stripped
<1> QED BY <1>2, <1>3

(* With fewer previews the caps and the truth of the ends stay.            *)
LEMMA QuieterKeeps ==
  ASSUME NEW t, NEW u, Quieter(u, t)
  PROVE  /\ Capped(t) => Capped(u)
         /\ \A V : Truthful(t, V) => Truthful(u, V)
<1>1. Evictable(u) \subseteq Evictable(t) BY DEF Quieter, Evictable
<1>2. Capped(t) => Capped(u) BY <1>1 DEF Quieter, Capped
<1>3. \A V : Truthful(t, V) => Truthful(u, V) BY DEF Quieter, Truthful
<1> QED BY <1>2, <1>3

(* The budget is met once it was enforced, and nothing but frames goes. *)
LEMMA Enforced ==
  ASSUME NEW t, Formed(t)
  PROVE  LET u == EnforcePreviewBudget(t)
         IN  /\ Formed(u) /\ Fits(u) /\ Quieter(u, t) /\ u.lost = t.lost
             /\ Spares(u, t)
<1> DEFINE S == Stripped(t)
           m == [j \in Known(t) |->
                  IF j \in S THEN [t.map[j] EXCEPT !.still = FALSE, !.ring = {}] ELSE t.map[j]]
           u == [t EXCEPT !.map = m]
<1>1. t \in Stores /\ Known(t) \subseteq Jobs /\ \A j \in Known(t) : t.map[j] \in Entries
  BY EntryType DEF Formed
<1>2. EnforcePreviewBudget(t) = u BY Zenon DEF EnforcePreviewBudget, Known
<1>3. ASSUME NEW j \in Known(t)
      PROVE  /\ m[j] \in Entries
             /\ m[j].status = t.map[j].status /\ m[j].logs = t.map[j].logs
             /\ m[j].node = t.map[j].node
             /\ m[j].heard = t.map[j].heard /\ m[j].dropped = t.map[j].dropped
             /\ j \in S => Images(m[j]) = {} /\ ~HasPreviews(m[j]) /\ m[j].ring = {}
             /\ j \notin S => m[j] = t.map[j]
  <2>1. t.map[j] \in Entries BY <1>1
  <2>2. m[j] = IF j \in S THEN [t.map[j] EXCEPT !.still = FALSE, !.ring = {}] ELSE t.map[j]
    OBVIOUS
  <2> HIDE DEF m, S
  <2> QED BY <2>1, <2>2 DEF Entries, Images, HasPreviews
<1>4. m \in UNION {[D -> Entries] : D \in SUBSET Jobs} /\ DOMAIN m = Known(t)
  <2>1. m = [x \in Known(t) |-> m[x]] /\ DOMAIN m = Known(t) OBVIOUS
  <2> HIDE DEF m
  <2> QED BY <1>1, <1>3, <2>1, MapType
<1> HIDE DEF m
<1>5. /\ u \in Stores /\ u.map = m /\ u.order = t.order /\ u.lost = t.lost
      /\ u.pins = t.pins /\ u.unconfirmed = t.unconfirmed
      /\ u.gone = t.gone /\ u.evicted = t.evicted
  BY <1>1, <1>4 DEF Stores
<1> HIDE DEF u
<1>6. Known(u) = Known(t) BY <1>4, <1>5 DEF Known
<1>7. Formed(u)
  <2>1. Listed(u) BY <1>5, <1>6 DEF Formed, Listed
  <2>2. ASSUME NEW j \in Known(t) PROVE IsFiniteSet(m[j].ring) /\ Booked(m[j])
    <3>1. Booked(t.map[j]) /\ IsFiniteSet(t.map[j].ring) BY DEF Formed
    <3>2. Booked(m[j]) BY <3>1, <1>3 DEF Booked, Ascending, Newest
    <3>3. IsFiniteSet({}) BY FS_EmptySet
    <3> QED BY <1>3, <3>1, <3>2, <3>3
  <2> QED BY <1>5, <1>6, <2>1, <2>2 DEF Formed
<1>8. Quieter(u, t) BY <1>3, <1>5, <1>6 DEF Quieter, IsAuthoritativeTerminal
<1>9. Budgeted(u) = Budgeted(t) \ S
  <2>1. ASSUME NEW j \in Known(t) PROVE j \in Budgeted(u) <=> j \in Budgeted(t) \ S
    <3>1. j \in S => ~HasPreviews(u.map[j]) BY <1>3, <1>5
    <3>2. j \notin S => u.map[j] = t.map[j] BY <1>3, <1>5
    <3>3. u.unconfirmed = t.unconfirmed BY <1>5
    <3> HIDE DEF S
    <3> QED BY <3>1, <3>2, <3>3, <1>6 DEF Budgeted
  <2>2. Budgeted(u) \subseteq Known(t) /\ Budgeted(t) \subseteq Known(t) BY <1>6 DEF Budgeted
  <2> QED BY <2>1, <2>2
<1>10. Frames(u, Budgeted(u)) = Frames(t, Budgeted(u))
  <2>1. \A j \in Budgeted(u) : u.map[j] = t.map[j]
    <3>1. \A j \in Budgeted(u) : j \in Known(t) /\ j \notin S BY <1>9 DEF Budgeted
    <3> QED BY <3>1, <1>3, <1>5
  <2> QED BY <2>1 DEF Frames
<1>11. Fits(u)
  <2>1. \/ Cardinality(Frames(t, Budgeted(u))) <= PreviewBudget
        \/ Cardinality(Budgeted(u)) = 1
    BY <1>9, KeptFrames
  <2> QED BY <1>10, <2>1 DEF Fits
<1>12. Spares(u, t)
  <2>1. \A k \in Known(t) : IsAuthoritativeTerminal(u, k) <=> IsAuthoritativeTerminal(t, k)
    BY <1>3, <1>5 DEF IsAuthoritativeTerminal
  <2>2. \A k : Node(u, k) = Node(t, k) BY <1>3, <1>5, <1>6 DEF Node
  <2>3. \A k : Final(u, k) <=> Final(t, k) BY <1>6, <2>1 DEF Final
  <2>4. \A k : Told(u, k) = Told(t, k) BY <1>3, <1>5, <1>6 DEF Told
  <2> QED BY <1>5, <2>2, <2>3, <2>4 DEF Spares, Leaves, Turns
<1> QED BY <1>2, <1>5, <1>7, <1>8, <1>11, <1>12

-----------------------------------------------------------------------------
(* The entry cap.                                                          *)

(* With fewer entries as well.                                             *)
LEMMA FewerKeeps ==
  ASSUME NEW t, NEW u, Fewer(u, t)
  PROVE  /\ Milder(u, t) /\ Evictable(u) = Evictable(t) \cap Known(u)
         /\ \A V : Truthful(t, V) => Truthful(u, V)
<1>1. \A k \in Known(u) : IsAuthoritativeTerminal(u, k) <=> IsAuthoritativeTerminal(t, k)
  BY DEF Fewer, IsAuthoritativeTerminal
<1>2. Milder(u, t)
  <2>1. \A k \in Budgeted(u) : k \in Budgeted(t) /\ u.map[k] = t.map[k]
    BY DEF Fewer, Budgeted
  <2> QED BY <2>1 DEF Milder
<1>3. Evictable(u) = Evictable(t) \cap Known(u) BY <1>1 DEF Fewer, Evictable
<1>4. \A V : Truthful(t, V) => Truthful(u, V) BY <1>1 DEF Fewer, Truthful
<1> QED BY <1>2, <1>3, <1>4

(* What was not evicted is shown as before.                                *)
LEMMA FewerLeaves ==
  ASSUME NEW t, NEW u, Fewer(u, t)
  PROVE  Spares(u, t)
<1> SUFFICES ASSUME NEW k PROVE Leaves(u, t, k)
  BY DEF Spares
<1>1. CASE k \in u.gone BY <1>1 DEF Leaves, Turns
<1>2. CASE k \notin u.gone
  <2>1. k \notin t.gone /\ (k \in Known(u) <=> k \in Known(t)) BY <1>2 DEF Fewer
  <2>2. k \in ToSet(u.evicted) => k \in ToSet(t.evicted) BY <1>2 DEF Fewer
  <2>3. Node(u, k) = Node(t, k) /\ (Final(t, k) => Final(u, k))
    BY <2>1 DEF Fewer, Node, Final, IsAuthoritativeTerminal
  <2>4. Told(u, k) = Told(t, k) BY <2>1 DEF Fewer, Told
  <2> QED BY <2>1, <2>2, <2>3, <2>4 DEF Leaves, Turns
<1> QED BY <1>1, <1>2

(* The list of tombstones stays one, with j the only one that is new. *)
LEMMA TombstoneType ==
  ASSUME NEW q \in Seq(Jobs), NEW j \in Jobs
  PROVE  Tombstone(q, j) \in Seq(Jobs) /\ ToSet(Tombstone(q, j)) \subseteq ToSet(q) \cup {j}
<1> DEFINE all == IF j \in ToSet(q) THEN q ELSE Append(q, j)
<1>1. all \in Seq(Jobs) /\ ToSet(all) \subseteq ToSet(q) \cup {j}
  <2>1. CASE j \in ToSet(q) BY <2>1
  <2>2. CASE j \notin ToSet(q)
    <3>1. all = Append(q, j) BY <2>2
    <3>2. all \in Seq(Jobs) /\ Len(all) = Len(q) + 1 /\ all[Len(q) + 1] = j
          /\ \A i \in 1..Len(q) : all[i] = q[i]
      BY <3>1
    <3> HIDE DEF all
    <3>3. \A i \in 1..Len(all) : all[i] = j \/ \E k \in 1..Len(q) : all[i] = q[k]
      BY <3>2
    <3> QED BY <3>2, <3>3 DEF ToSet
  <2> QED BY <2>1, <2>2
<1>2. Tombstone(q, j) = IF Len(all) <= EntryCap * 2 THEN all ELSE Tail(all)
  BY DEF Tombstone
<1>3. Len(all) \in Nat /\ EntryCap * 2 \in Nat /\ EntryCap * 2 > 0
  BY <1>1, StoreAssumption
<1> HIDE DEF all
<1>4. CASE Len(all) <= EntryCap * 2 BY <1>1, <1>2, <1>4
<1>5. CASE ~(Len(all) <= EntryCap * 2)
  <2>1. all # <<>> BY <1>3, <1>5
  <2>2. Tail(all) \in Seq(Jobs) BY <1>1, <2>1
  <2>3. ToSet(Tail(all)) \subseteq ToSet(all)
    <3>1. Len(Tail(all)) = Len(all) - 1 /\ \A i \in 1..Len(Tail(all)) : Tail(all)[i] = all[i + 1]
      BY <1>1, <2>1
    <3>2. \A i \in 1..Len(Tail(all)) : i + 1 \in 1..Len(all) BY <1>3, <3>1
    <3> QED BY <1>1, <2>2, <3>1, <3>2 DEF ToSet
  <2> QED BY <1>1, <1>2, <1>5, <2>2, <2>3
<1> QED BY <1>4, <1>5

(* Evicting one entry leaves the rest as it was. *)
LEMMA Evicted ==
  ASSUME NEW t, Formed(t), NEW j \in Known(t)
  PROVE  LET u == Evict(t, j)
         IN  Formed(u) /\ Fewer(u, t) /\ Known(u) = Known(t) \ {j}
<1> DEFINE D == Known(t) \ {j}
           m == [x \in D |-> t.map[x]]
           o == Among(t.order, D)
           u == [t EXCEPT !.map = m, !.order = o, !.unconfirmed = @ \ {j}, !.lost = @ \ {j},
                          !.gone = @ \union {j}, !.evicted = Tombstone(@, j)]
<1>1. t \in Stores /\ Known(t) \subseteq Jobs /\ \A k \in Known(t) : t.map[k] \in Entries
  BY EntryType DEF Formed
<1>2. Evict(t, j) = u BY Zenon DEF Evict
<1>3. m \in UNION {[S -> Entries] : S \in SUBSET Jobs} /\ DOMAIN m = D
      /\ \A k \in D : m[k] = t.map[k]
  <2>1. D \in SUBSET Jobs BY <1>1
  <2>2. DOMAIN m = D /\ \A k \in D : m[k] = t.map[k] OBVIOUS
  <2>3. m = [x \in D |-> m[x]] /\ \A x \in D : m[x] \in Entries BY <1>1
  <2> HIDE DEF m
  <2>4. m \in UNION {[S -> Entries] : S \in SUBSET Jobs} BY <2>1, <2>3, MapType
  <2> QED BY <2>2, <2>4
<1>4. t.order \in Seq(Jobs) /\ t.evicted \in Seq(Jobs) BY <1>1 DEF Stores
<1>5. Filtered(o, t.order, D, Jobs) BY <1>4, AmongType
<1>6. /\ o \in Seq(Jobs) /\ Tombstone(t.evicted, j) \in Seq(Jobs)
      /\ ToSet(Tombstone(t.evicted, j)) \subseteq ToSet(t.evicted) \cup {j}
  BY <1>1, <1>4, <1>5, TombstoneType DEF Filtered
<1> HIDE DEF m, o
<1>7. /\ u \in Stores /\ u.map = m /\ u.order = o /\ u.lost = t.lost \ {j}
      /\ u.pins = t.pins /\ u.unconfirmed = t.unconfirmed \ {j}
      /\ u.gone = t.gone \cup {j} /\ u.evicted = Tombstone(t.evicted, j)
  <2> DEFINE v == Tombstone(t.evicted, j)
             w == [t EXCEPT !.map = m, !.order = o, !.unconfirmed = @ \ {j}, !.lost = @ \ {j},
                            !.gone = @ \union {j}, !.evicted = v]
  <2>1. v \in Seq(Jobs) BY <1>6
  <2>2. u = w OBVIOUS
  <2>3. j \in Jobs BY <1>1
  <2>4. v = Tombstone(t.evicted, j) OBVIOUS
  <2> HIDE DEF v, u, D
  <2>5. /\ u \in Stores /\ u.map = m /\ u.order = o /\ u.lost = t.lost \ {j}
        /\ u.pins = t.pins /\ u.unconfirmed = t.unconfirmed \ {j}
        /\ u.gone = t.gone \cup {j} /\ u.evicted = v
    BY <1>1, <1>3, <1>6, <2>1, <2>2, <2>3 DEF Stores
  <2> QED BY <2>4, <2>5
<1> HIDE DEF u
<1>8. Known(u) = D BY <1>3, <1>7 DEF Known
<1>9. Fewer(u, t) BY <1>3, <1>6, <1>7, <1>8 DEF Fewer
<1>10. Formed(u)
  <2>1. IsFiniteSet(Known(u)) BY <1>8, FS_RemoveElement DEF Formed
  <2>2. Listed(u)
    <3>1. \A x \in D : \E i \in 1..Len(t.order) : t.order[i] = x BY DEF Formed, Listed
    <3> HIDE DEF D
    <3> QED BY <1>5, <1>7, <1>8, <3>1 DEF Listed, Filtered
  <2>3. \A k \in Known(u) : IsFiniteSet(u.map[k].ring) /\ Booked(u.map[k])
    <3>1. \A k \in Known(u) : k \in Known(t) /\ u.map[k] = t.map[k] BY <1>9 DEF Fewer
    <3> QED BY <3>1 DEF Formed
  <2> QED BY <1>7, <2>1, <2>2, <2>3 DEF Formed
<1> QED BY <1>2, <1>8, <1>9, <1>10

(* Where something is evictable, something is the oldest. *)
LEMMA OldestEvictable ==
  ASSUME NEW t, Formed(t), Evictable(t) # {}
  PROVE  Oldest(t) \in Evictable(t)
<1> DEFINE S == Evictable(t)
           R == {p \in S \X S : Older(t, p[1], p[2])}
<1>1. S \subseteq Known(t) /\ IsFiniteSet(S)
  <2>1. S \in SUBSET Known(t) BY DEF Evictable
  <2> HIDE DEF S
  <2> QED BY <2>1, FS_Subset DEF Formed
<1>2. \A a, b \in S : <<a, b>> \in R <=> Older(t, a, b) OBVIOUS
<1>3. Orders(R, S)
  <2> HIDE DEF R, S
  <2> QED BY <1>1, <1>2, OlderOrders DEF Orders
<1>4. \E m : IsFirst(m, R, S)
  <2>1. S # {} OBVIOUS
  <2> HIDE DEF R, S
  <2> QED BY <1>1, <1>3, <2>1, First
<1>5. \E m \in S : \A k \in S : k = m \/ Older(t, m, k)
  <2> HIDE DEF R, S
  <2> QED BY <1>2, <1>4 DEF IsFirst
<1> QED BY <1>5 DEF Oldest

(* One more eviction, if there is one to make. *)
EvictNext(t) == IF Evictable(t) = {} THEN t ELSE Evict(t, Oldest(t))

(* The stores eviction reaches from t. *)
Thinned(t) == {w \in Stores : Formed(w) /\ Fewer(w, t)}

(* One step of eviction takes one entry, or there is none to take.         *)
LEMMA EvictNextThins ==
  ASSUME NEW t, Formed(t), NEW w \in Thinned(t)
  PROVE  LET u == EvictNext(w)
         IN  /\ u \in Thinned(t)
             /\ \/ Evictable(u) = {}
                \/ Cardinality(Known(u)) = Cardinality(Known(w)) - 1
<1>1. Formed(w) /\ Fewer(w, t) BY DEF Thinned
<1>2. CASE Evictable(w) = {} BY <1>2 DEF EvictNext
<1>3. CASE Evictable(w) # {}
  <2> DEFINE j == Oldest(w)
             u == Evict(w, j)
  <2>1. j \in Known(w) BY <1>1, <1>3, OldestEvictable DEF Evictable
  <2>2. EvictNext(w) = u BY <1>3 DEF EvictNext
  <2> HIDE DEF j
  <2>3. Formed(u) /\ Fewer(u, w) /\ Known(u) = Known(w) \ {j} BY <1>1, <2>1, Evicted
  <2> HIDE DEF u
  <2>4. Fewer(u, t) BY <1>1, <2>3 DEF Fewer
  <2>5. Cardinality(Known(u)) = Cardinality(Known(w)) - 1
    BY <1>1, <2>1, <2>3, FS_RemoveElement DEF Formed
  <2>6. u \in Thinned(t) BY <2>3, <2>4 DEF Thinned, Formed
  <2> QED BY <2>2, <2>5, <2>6
<1> QED BY <1>2, <1>3

(* After all evictions the entries fit the cap or are protected. *)
LEMMA EvictedToCap ==
  ASSUME NEW t, Formed(t)
  PROVE  LET u == EvictExecutionEntries(t)
         IN  Formed(u) /\ Fewer(u, t) /\ Capped(u)
<1> DEFINE n == Cardinality(Known(t)) - EntryCap
           X == Thinned(t)
           step == [i \in 1..n |-> [w \in X |-> EvictNext(w)]]
           R(g) == [i \in 0..n |-> IF i = 0 THEN t
                                   ELSE IF Evictable(g[i - 1]) = {} THEN g[i - 1]
                                   ELSE Evict(g[i - 1], Oldest(g[i - 1]))]
           g == CHOOSE h : h = R(h)
<1>1. n \in Int /\ Cardinality(Known(t)) \in Nat /\ EntryCap \in Nat
  BY FS_CardinalityType, StoreAssumption DEF Formed
<1>2. Fewer(t, t) BY DEF Fewer
<1>3. CASE n <= 0
  <2>1. EvictExecutionEntries(t) = t BY <1>3 DEF EvictExecutionEntries
  <2>2. Capped(t) BY <1>1, <1>3 DEF Capped
  <2> QED BY <1>2, <2>1, <2>2
<1>4. CASE ~(n <= 0)
  <2>1. n \in Nat BY <1>1, <1>4
  <2>2. t \in X BY <1>2 DEF Formed, Thinned
  <2>3. step \in [1..n -> [X -> X]]
    <3>1. \A w \in X : EvictNext(w) \in X BY EvictNextThins
    <3> HIDE DEF X, n
    <3> QED BY <3>1
  <2>4. PICK f : RunOf(f, X, n, t, step)
    <3> HIDE DEF step, n, X
    <3> QED BY <2>1, <2>2, <2>3, Iterate
  <2>5. f = R(f)
    <3>1. f \in [0..n -> X] /\ f[0] = t /\ \A i \in 1..n : f[i] = step[i][f[i - 1]]
      BY <2>4 DEF RunOf
    <3>2. ASSUME NEW i \in 1..n PROVE f[i] = EvictNext(f[i - 1])
      <4>1. i - 1 \in 0..n BY <2>1
      <4>2. f[i - 1] \in X BY <3>1, <4>1
      <4> HIDE DEF X, n
      <4> QED BY <3>1, <4>2
    <3>3. ASSUME NEW i \in 0..n
          PROVE  f[i] = IF i = 0 THEN t
                        ELSE IF Evictable(f[i - 1]) = {} THEN f[i - 1]
                        ELSE Evict(f[i - 1], Oldest(f[i - 1]))
      <4>1. i = 0 \/ i \in 1..n BY <2>1
      <4> HIDE DEF n
      <4> QED BY <3>1, <3>2, <4>1 DEF EvictNext
    <3> HIDE DEF n, X
    <3> QED BY <3>1, <3>3
  <2>6. g = R(g)
    <3> HIDE DEF R
    <3> QED BY <2>5
  <2> HIDE DEF g
  <2>7. g[0] = t /\ \A i \in 1..n : g[i] = EvictNext(g[i - 1])
    <3>1. \A i \in 0..n : g[i] = IF i = 0 THEN t
                                 ELSE IF Evictable(g[i - 1]) = {} THEN g[i - 1]
                                 ELSE Evict(g[i - 1], Oldest(g[i - 1]))
      <4> HIDE DEF n
      <4> QED BY <2>6
    <3>2. 0 \in 0..n /\ \A i \in 1..n : i \in 0..n /\ i # 0 BY <2>1
    <3> HIDE DEF n
    <3> QED BY <3>1, <3>2 DEF EvictNext
  <2> DEFINE S == {i \in 0..n : /\ g[i] \in X
                                /\ \/ Evictable(g[i]) = {}
                                   \/ Cardinality(Known(g[i])) = Cardinality(Known(t)) - i}
  <2>8. 0 \in S BY <1>1, <2>1, <2>2, <2>7
  <2>9. ASSUME NEW i \in 0..n, i < n, i \in S PROVE i + 1 \in S
    <3>1. i + 1 \in 1..n /\ i + 1 \in 0..n /\ (i + 1) - 1 = i /\ i \in Int BY <2>1, <2>9
    <3>2. g[i + 1] = EvictNext(g[i]) /\ g[i] \in X BY <2>7, <2>9, <3>1
    <3>3. /\ g[i + 1] \in X
          /\ \/ Evictable(g[i + 1]) = {}
             \/ Cardinality(Known(g[i + 1])) = Cardinality(Known(g[i])) - 1
      BY <3>2, EvictNextThins
    <3>4. CASE Evictable(g[i]) = {}
      <4>1. g[i + 1] = g[i] BY <3>2, <3>4 DEF EvictNext
      <4> QED BY <3>1, <3>3, <3>4, <4>1
    <3>5. CASE Cardinality(Known(g[i])) = Cardinality(Known(t)) - i
      <4>1. (Cardinality(Known(t)) - i) - 1 = Cardinality(Known(t)) - (i + 1) BY <1>1, <3>1
      <4> QED BY <3>1, <3>3, <3>5, <4>1
    <3> QED BY <2>9, <3>4, <3>5
  <2>10. n \in S
    <3> HIDE DEF S, n
    <3>1. 0..n \subseteq S BY <2>1, <2>8, <2>9, BoundedInduction
    <3> QED BY <2>1, <3>1
  <2>11. EvictExecutionEntries(t) = g[n] BY <1>4 DEF EvictExecutionEntries, g
  <2>12. Formed(g[n]) /\ Fewer(g[n], t) BY <2>10 DEF Thinned
  <2>13. Capped(g[n])
    <3>1. \/ Evictable(g[n]) = {}
          \/ Cardinality(Known(g[n])) = Cardinality(Known(t)) - n
      BY <2>10
    <3>2. Cardinality(Known(t)) - n = EntryCap BY <1>1
    <3> HIDE DEF n
    <3> QED BY <1>1, <3>1, <3>2 DEF Capped
  <2> QED BY <2>11, <2>12, <2>13
<1> QED BY <1>1, <1>3, <1>4

(* Eviction keeps a store sound and meets the cap. *)
LEMMA EvictionKeeps ==
  ASSUME NEW t, NEW V, Sound(t, V)
  PROVE  LET u == EvictExecutionEntries(t)
         IN  Sound(u, V) /\ Capped(u) /\ Fewer(u, t)
<1> DEFINE u == EvictExecutionEntries(t)
<1>1. Formed(u) /\ Fewer(u, t) /\ Capped(u) BY EvictedToCap DEF Sound
<1> HIDE DEF u
<1>2. Milder(u, t) /\ Truthful(u, V) BY <1>1, FewerKeeps DEF Sound
<1>3. Fits(u) BY <1>1, <1>2, MilderFits DEF Sound
<1> QED BY <1>1, <1>2, <1>3 DEF u, Sound

-----------------------------------------------------------------------------
(* Changing one entry.                                                     *)

(* Putting an entry into a store. *)
Whole(e) == e \in Entries /\ IsFiniteSet(e.ring) /\ Booked(e)

Placed(u, t, j, e) ==
  /\ Known(u) = Known(t) \cup {j} /\ u.map[j] = e
  /\ \A k \in Known(t) : k # j => u.map[k] = t.map[k]
  /\ u.pins = t.pins /\ u.gone = t.gone /\ u.evicted = t.evicted

(* What is placed is shown, and the rest stays as it is.                   *)
LEMMA PlacedShows ==
  ASSUME NEW t, NEW j, NEW e, NEW u, Placed(u, t, j, e),
         \A k \in Known(t) : k # j /\ k \in u.lost => k \in t.lost,
         Final(t, j) => e.status \in Terminal /\ j \notin u.lost,
         Told(t, j) \subseteq e.heard
  PROVE  /\ Shows(u, t, j, e.node)
         /\ e.status \in Terminal /\ j \notin u.lost => Final(u, j)
<1>1. u.gone = t.gone /\ u.evicted = t.evicted BY DEF Placed
<1>4. \A k : Told(t, k) \subseteq Told(u, k) BY DEF Placed, Told
<1>2. Node(u, j) = e.node /\ (e.status \in Terminal /\ j \notin u.lost => Final(u, j))
  BY DEF Placed, Node, Final, IsAuthoritativeTerminal
<1>3. ASSUME NEW k, k # j PROVE Node(u, k) = Node(t, k) /\ (Final(t, k) => Final(u, k))
  BY <1>3 DEF Placed, Node, Final, IsAuthoritativeTerminal
<1> QED BY <1>1, <1>2, <1>3, <1>4 DEF Shows, Leaves, Turns

(* Put sets one entry and appends its key to the order if it is new.       *)
LEMMA PutPlaces ==
  ASSUME NEW t, Formed(t), NEW j \in Jobs, NEW e, Whole(e)
  PROVE  LET u == Put(t, j, e)
         IN  /\ Formed(u) /\ Placed(u, t, j, e)
             /\ u.lost = t.lost /\ u.unconfirmed = t.unconfirmed /\ u.evicted = t.evicted
<1> DEFINE D == Known(t) \cup {j}
           m == [x \in D |-> IF x = j THEN e ELSE t.map[x]]
           o == IF j \in Known(t) THEN t.order ELSE Append(t.order, j)
           u == [t EXCEPT !.map = m, !.order = o]
<1>1. t \in Stores /\ Known(t) \subseteq Jobs /\ \A k \in Known(t) : t.map[k] \in Entries
  BY EntryType DEF Formed
<1>2. Put(t, j, e) = u BY Zenon DEF Put
<1>3. /\ m \in UNION {[S -> Entries] : S \in SUBSET Jobs} /\ DOMAIN m = D
      /\ m[j] = e /\ \A k \in Known(t) : k # j => m[k] = t.map[k]
  <2>1. D \in SUBSET Jobs BY <1>1
  <2>2. DOMAIN m = D /\ m[j] = e /\ \A k \in Known(t) : k # j => m[k] = t.map[k] OBVIOUS
  <2>3. m = [x \in D |-> m[x]] /\ \A x \in D : m[x] \in Entries BY <1>1 DEF Whole
  <2> HIDE DEF m
  <2>4. m \in UNION {[S -> Entries] : S \in SUBSET Jobs} BY <2>1, <2>3, MapType
  <2> QED BY <2>2, <2>4
<1>4. t.order \in Seq(Jobs) BY <1>1 DEF Stores
<1>5. /\ o \in Seq(Jobs)
      /\ \A x \in D : \E i \in 1..Len(o) : o[i] = x
  <2>1. CASE j \in Known(t)
    <3>1. o = t.order BY <2>1
    <3>2. \A x \in D : x \in Known(t) BY <2>1
    <3> HIDE DEF o, D
    <3> QED BY <1>4, <3>1, <3>2 DEF Formed, Listed
  <2>2. CASE j \notin Known(t)
    <3>1. o = Append(t.order, j) BY <2>2
    <3>2. /\ o \in Seq(Jobs) /\ Len(o) = Len(t.order) + 1 /\ o[Len(o)] = j
          /\ Len(o) \in 1..Len(o)
          /\ \A i \in 1..Len(t.order) : o[i] = t.order[i] /\ i \in 1..Len(o)
      BY <1>4, <3>1
    <3>3. \A x \in Known(t) : \E i \in 1..Len(t.order) : t.order[i] = x
      BY DEF Formed, Listed
    <3> HIDE DEF o
    <3> QED BY <3>2, <3>3
  <2> QED BY <2>1, <2>2
<1> HIDE DEF m, o
<1>6. /\ u \in Stores /\ u.map = m /\ u.order = o /\ u.lost = t.lost /\ u.pins = t.pins
      /\ u.unconfirmed = t.unconfirmed /\ u.evicted = t.evicted /\ u.gone = t.gone
  BY <1>1, <1>3, <1>5 DEF Stores
<1> HIDE DEF u
<1>7. Known(u) = D BY <1>3, <1>6 DEF Known
<1>8. Placed(u, t, j, e) BY <1>3, <1>6, <1>7 DEF Placed
<1>9. Formed(u)
  <2>1. IsFiniteSet(Known(u)) BY <1>7, FS_AddElement DEF Formed
  <2>2. Listed(u) BY <1>5, <1>6, <1>7 DEF Listed
  <2>3. \A k \in Known(u) : IsFiniteSet(u.map[k].ring) /\ Booked(u.map[k])
    BY <1>7, <1>8 DEF Placed, Whole, Formed
  <2> QED BY <1>6, <2>1, <2>2, <2>3 DEF Formed
<1> QED BY <1>2, <1>6, <1>8, <1>9

(* Changing what a store notes about its entries. *)
Noting(t, L, U, E) == [t EXCEPT !.lost = L, !.unconfirmed = U, !.evicted = E]

(* The three sets beside the entries change without them.                  *)
LEMMA NotingKeepsForm ==
  ASSUME NEW t, Formed(t), NEW L \in SUBSET Jobs, NEW U \in SUBSET Jobs, NEW E \in Seq(Jobs)
  PROVE  LET u == Noting(t, L, U, E)
         IN  /\ Formed(u) /\ Known(u) = Known(t) /\ u.map = t.map /\ u.pins = t.pins
             /\ u.lost = L /\ u.unconfirmed = U /\ u.evicted = E /\ u.gone = t.gone
<1> DEFINE u == Noting(t, L, U, E)
<1>1. /\ u \in Stores /\ u.map = t.map /\ u.order = t.order /\ u.pins = t.pins
      /\ u.lost = L /\ u.unconfirmed = U /\ u.evicted = E /\ u.gone = t.gone
  BY DEF Formed, Stores, Noting
<1> HIDE DEF u
<1>2. Known(u) = Known(t) BY <1>1 DEF Known
<1>3. Formed(u) BY <1>1, <1>2 DEF Formed, Listed
<1> QED BY <1>1, <1>2, <1>3 DEF u

(* Only the record of logs counts for the books of an entry. *)
LEMMA SameBooked ==
  ASSUME NEW e, Booked(e), NEW f, f.logs = e.logs, f.heard = e.heard, f.dropped = e.dropped
  PROVE  Booked(f)
BY DEF Booked, Ascending, Newest

(* An entry is changed without coming to its end and without more frames
   under the budget. *)
Revises(u, t, j, e) ==
  /\ Placed(u, t, j, e) /\ u.unconfirmed \subseteq t.unconfirmed
  /\ u.lost \subseteq t.lost /\ \A k \in Known(t) : k # j => (k \in u.lost <=> k \in t.lost)
  /\ e.status \in Terminal /\ j \notin u.lost =>
       e.status = t.map[j].status /\ j \notin t.lost
  /\ (e.status \in Terminal \/ j \in u.unconfirmed) /\ HasPreviews(e) =>
       /\ t.map[j].status \in Terminal \/ j \in t.unconfirmed
       /\ HasPreviews(t.map[j]) /\ Images(e) \subseteq Images(t.map[j])

(* The update of an entry that was there keeps the store sound.            *)
LEMMA RevisionKeeps ==
  ASSUME NEW t, NEW V, Sound(t, V), NEW j \in Known(t), NEW e, NEW u, Formed(u), Revises(u, t, j, e)
  PROVE  Keeps(u, t, V)
<1>1. Quieter(u, t) BY DEF Revises, Placed, Quieter, IsAuthoritativeTerminal
<1>2. Milder(u, t)
  <2>1. ASSUME NEW k \in Budgeted(u)
        PROVE  k \in Budgeted(t) /\ Images(u.map[k]) \subseteq Images(t.map[k])
    <3>1. k \in Known(t) BY DEF Budgeted, Revises, Placed
    <3>2. CASE k = j BY <3>1, <3>2 DEF Budgeted, Revises, Placed
    <3>3. CASE k # j
      <4>1. u.map[k] = t.map[k] BY <3>1, <3>3 DEF Revises, Placed
      <4> QED BY <3>1, <4>1 DEF Budgeted, Revises
    <3> QED BY <3>2, <3>3
  <2> QED BY <2>1 DEF Milder
<1>3. Fits(u) BY <1>2, MilderFits DEF Sound
<1>4. Truthful(u, V) /\ (Capped(t) => Capped(u)) BY <1>1, QuieterKeeps DEF Sound
<1> QED BY <1>3, <1>4 DEF Keeps, Sound, Revises

(* The changes of the notes that occur. *)
LEMMA NotingForms ==
  ASSUME NEW t \in Stores, NEW L, NEW U, NEW E
  PROVE  /\ [t EXCEPT !.lost = L] = Noting(t, L, t.unconfirmed, t.evicted)
         /\ [t EXCEPT !.unconfirmed = U] = Noting(t, t.lost, U, t.evicted)
         /\ [t EXCEPT !.evicted = E, !.unconfirmed = U] = Noting(t, t.lost, U, E)
         /\ [t EXCEPT !.evicted = E, !.unconfirmed = U, !.lost = L] = Noting(t, L, U, E)
         /\ [Noting(t, t.lost, U, E) EXCEPT !.lost = L] = Noting(t, L, U, E)
<1>1. [t EXCEPT !.lost = L] = Noting(t, L, t.unconfirmed, t.evicted) BY DEF Stores, Noting
<1>2. [t EXCEPT !.unconfirmed = U] = Noting(t, t.lost, U, t.evicted) BY DEF Stores, Noting
<1>3. [t EXCEPT !.evicted = E, !.unconfirmed = U] = Noting(t, t.lost, U, E)
  BY DEF Stores, Noting
<1>4. [t EXCEPT !.evicted = E, !.unconfirmed = U, !.lost = L] = Noting(t, L, U, E)
  BY DEF Stores, Noting
<1>5. [Noting(t, t.lost, U, E) EXCEPT !.lost = L] = Noting(t, L, U, E)
  BY DEF Stores, Noting
<1> QED BY <1>1, <1>2, <1>3, <1>4, <1>5

(* The notes of a store are sets and sequences of jobs. *)
LEMMA NoteTypes ==
  ASSUME NEW t, Formed(t), NEW S
  PROVE  /\ t \in Stores /\ t.lost \in SUBSET Jobs /\ t.unconfirmed \in SUBSET Jobs
         /\ t.evicted \in Seq(Jobs) /\ Among(t.evicted, S) \in Seq(Jobs)
         /\ Known(t) \subseteq Jobs /\ \A k \in Known(t) : Whole(t.map[k])
<1>1. t \in Stores BY DEF Formed
<1>2. t.lost \in SUBSET Jobs /\ t.unconfirmed \in SUBSET Jobs /\ t.evicted \in Seq(Jobs)
  BY <1>1 DEF Stores
<1>3. Among(t.evicted, S) \in Seq(Jobs) BY <1>2, AmongType DEF Filtered
<1>4. Known(t) \subseteq Jobs /\ \A k \in Known(t) : Whole(t.map[k])
  BY <1>1, EntryType DEF Formed, Whole
<1> QED BY <1>1, <1>2, <1>3, <1>4

(* A store with an entry and other losses. *)
LEMMA PutWithLosses ==
  ASSUME NEW t, Formed(t), NEW j \in Jobs, NEW e, Whole(e), NEW L \in SUBSET Jobs
  PROVE  LET u == [Put(t, j, e) EXCEPT !.lost = L]
         IN  /\ Formed(u) /\ Placed(u, t, j, e)
             /\ u.lost = L /\ u.unconfirmed = t.unconfirmed /\ u.evicted = t.evicted
<1> DEFINE w == Put(t, j, e)
           v == Noting(w, L, w.unconfirmed, w.evicted)
<1>1. /\ Formed(w) /\ Placed(w, t, j, e)
      /\ w.lost = t.lost /\ w.unconfirmed = t.unconfirmed /\ w.evicted = t.evicted
  BY PutPlaces
<1> HIDE DEF w
<1>2. w \in Stores /\ w.unconfirmed \in SUBSET Jobs /\ w.evicted \in Seq(Jobs)
  BY <1>1, NoteTypes
<1>3. [w EXCEPT !.lost = L] = v BY <1>2, NotingForms
<1>4. /\ Formed(v) /\ Known(v) = Known(w) /\ v.map = w.map /\ v.pins = w.pins
      /\ v.lost = L /\ v.unconfirmed = w.unconfirmed /\ v.evicted = w.evicted
      /\ v.gone = w.gone
  BY <1>1, <1>2, NotingKeepsForm
<1> HIDE DEF v
<1>5. Placed(v, t, j, e) BY <1>1, <1>4 DEF Placed
<1> QED BY <1>1, <1>3, <1>4, <1>5 DEF w

(* News of an entry, which disproves a verdict of loss, keeps the store
   sound unless it makes an end final. *)
LEMMA RunningKeeps ==
  ASSUME NEW t, NEW V, Sound(t, V), NEW j \in Known(t), NEW e, Whole(e),
         e.status \in Terminal => e.status = t.map[j].status,
         e.still = t.map[j].still, e.ring = t.map[j].ring, e.heard = t.map[j].heard
  PROVE  /\ Keeps(Running(t, j, e), t, V)
         /\ (Final(t, j) => e.status \in Terminal) => Shows(Running(t, j, e), t, j, e.node)
<1> DEFINE f == [e EXCEPT !.status = "running", !.endedAt = NoTime, !.lostNote = FALSE]
           L == t.lost \ {j}
<1>1. Formed(t) /\ j \in Jobs /\ L \in SUBSET Jobs BY NoteTypes DEF Sound
<1>4. Told(t, j) = e.heard BY DEF Told
<1>2. CASE j \in t.lost
  <2> DEFINE u == [Put(t, j, f) EXCEPT !.lost = L]
  <2>1. /\ f \in Entries /\ f.status = "running" /\ f.ring = e.ring /\ f.still = e.still
        /\ f.logs = e.logs /\ f.heard = e.heard /\ f.dropped = e.dropped /\ f.node = e.node
    BY DEF Whole, Entries, Statuses, NoTime
  <2> HIDE DEF f
  <2>2. Whole(f)
    <3>1. Booked(f) BY <2>1, SameBooked DEF Whole
    <3> QED BY <2>1, <3>1 DEF Whole
  <2>3. Formed(u) /\ Placed(u, t, j, f) /\ u.lost = L /\ u.unconfirmed = t.unconfirmed
    <3> HIDE DEF L
    <3> QED BY <1>1, <2>2, PutWithLosses
  <2>4. Running(t, j, e) = u
    <3>1. Running(t, j, e) = [Put(t, j, f) EXCEPT !.lost = @ \ {j}]
      BY Zenon, <1>2 DEF Running, f
    <3>2. Put(t, j, f).lost = t.lost BY <1>1, <2>2, PutPlaces
    <3> QED BY <3>1, <3>2
  <2> HIDE DEF u
  <2>5. ~(f.status \in Terminal) BY <2>1 DEF Terminal
  <2>6. HasPreviews(f) => HasPreviews(t.map[j]) BY <2>1 DEF HasPreviews
  <2>7. Images(f) = Images(t.map[j]) BY <2>1 DEF Images
  <2>8. Revises(u, t, j, f) BY <2>3, <2>5, <2>6, <2>7 DEF Revises
  <2>9. Shows(u, t, j, e.node)
    <3>1. ~Final(t, j) BY <1>2 DEF Final, IsAuthoritativeTerminal
    <3>2. \A k \in Known(t) : k # j /\ k \in u.lost => k \in t.lost BY <2>3
    <3> QED BY <1>4, <2>1, <2>3, <3>1, <3>2, PlacedShows
  <2> QED BY <2>3, <2>4, <2>8, <2>9, RevisionKeeps
<1>3. CASE j \notin t.lost
  <2> DEFINE u == Put(t, j, e)
  <2>1. Running(t, j, e) = u BY <1>3 DEF Running
  <2>2. Formed(u) /\ Placed(u, t, j, e) /\ u.lost = t.lost /\ u.unconfirmed = t.unconfirmed
    BY <1>1, PutPlaces
  <2> HIDE DEF u
  <2>3. HasPreviews(e) => HasPreviews(t.map[j]) BY DEF HasPreviews
  <2>4. Images(e) = Images(t.map[j]) BY DEF Images
  <2>5. Revises(u, t, j, e) BY <1>3, <2>2, <2>3, <2>4 DEF Revises
  <2>6. ASSUME Final(t, j) => e.status \in Terminal PROVE Shows(u, t, j, e.node)
    BY <1>3, <1>4, <2>2, <2>6, PlacedShows
  <2> QED BY <2>1, <2>2, <2>5, <2>6, RevisionKeeps
<1> QED BY <1>2, <1>3

-----------------------------------------------------------------------------
(* The events of an execution.                                             *)

(* Nothing happens. *)
LEMMA StayKeeps ==
  ASSUME NEW t, NEW V, Sound(t, V)
  PROVE  Keeps(t, t, V)
BY DEF Keeps

(* The frame that a run has started.                                       *)
LEMMA StartedKeeps ==
  ASSUME NEW t, NEW V, Sound(t, V), NEW j \in Known(t)
  PROVE  Keeps(ApplyStarted(t, j), t, V) /\ Spares(ApplyStarted(t, j), t)
<1> DEFINE e == t.map[j]
           f == [e EXCEPT !.status = "running"]
<1>1. Whole(e) BY NoteTypes DEF Sound
<1>2. /\ f \in Entries /\ f.status = "running" /\ f.ring = e.ring /\ f.still = e.still
      /\ f.logs = e.logs /\ f.heard = e.heard /\ f.dropped = e.dropped /\ f.node = e.node
  BY <1>1 DEF Whole, Entries, Statuses
<1> DEFINE u == Running(t, j, f)
<1>3. ApplyStarted(t, j) = IF IsAuthoritativeTerminal(t, j) THEN t ELSE u
  BY Zenon DEF ApplyStarted
<1> HIDE DEF f
<1>4. Whole(f)
  <2>1. Booked(f) BY <1>1, <1>2, SameBooked DEF Whole
  <2> QED BY <1>1, <1>2, <2>1 DEF Whole
<1>5. ~(f.status \in Terminal) BY <1>2 DEF Terminal
<1>6. Keeps(u, t, V) /\ (~Final(t, j) => Shows(u, t, j, f.node))
  BY <1>2, <1>4, <1>5, RunningKeeps
<1> HIDE DEF u
<1>7. CASE IsAuthoritativeTerminal(t, j) BY <1>3, <1>7, StayKeeps, ShowsTheSame
<1>8. CASE ~IsAuthoritativeTerminal(t, j)
  <2>1. ~Final(t, j) /\ f.node = Node(t, j) BY <1>2, <1>8 DEF Final, Node
  <2>2. Spares(u, t) BY <1>6, <2>1, ShowsTheSame
  <2> QED BY <1>3, <1>6, <1>8, <2>2
<1> QED BY <1>7, <1>8

(* The frame, or the snapshot, of node states.                             *)
LEMMA NodeStatesKeep ==
  ASSUME NEW t, NEW V, Sound(t, V), NEW j \in Known(t), NEW node \in Nodes, NEW snapshot \in BOOLEAN
  PROVE  LET n == IF snapshot THEN MergeSnapshotNode(Node(t, j), node) ELSE node
             u == ApplyNodeStates(t, j, node, snapshot)
         IN  Keeps(u, t, V) /\ Shows(u, t, j, n)
<1> DEFINE e == t.map[j]
           n == IF snapshot THEN MergeSnapshotNode(e.node, node) ELSE node
           s == Lifted(e.status)
           f == [e EXCEPT !.node = n, !.status = s]
<1>1. Whole(e) BY NoteTypes DEF Sound
<1>2. n \in Nodes BY <1>1 DEF Whole, Entries, MergeSnapshotNode
<1>3. s \in Statuses /\ (s \in Terminal => s = e.status)
  BY <1>1 DEF Whole, Entries, Lifted, Statuses, Terminal
<1>4. ApplyNodeStates(t, j, node, snapshot) = Running(t, j, f) BY DEF ApplyNodeStates
<1>5. n = IF snapshot THEN MergeSnapshotNode(Node(t, j), node) ELSE node BY DEF Node
<1>6. Final(t, j) => s \in Terminal BY DEF Final, IsAuthoritativeTerminal, Lifted, Terminal
<1> HIDE DEF n, s
<1>7. /\ f \in Entries /\ f.status = s /\ f.ring = e.ring /\ f.still = e.still
      /\ f.logs = e.logs /\ f.heard = e.heard /\ f.dropped = e.dropped /\ f.node = n
  BY <1>1, <1>2, <1>3 DEF Whole, Entries
<1> HIDE DEF f
<1>8. Whole(f)
  <2>1. Booked(f) BY <1>1, <1>7, SameBooked DEF Whole
  <2> QED BY <1>1, <1>7, <2>1 DEF Whole
<1>9. Keeps(Running(t, j, f), t, V) /\ Shows(Running(t, j, f), t, j, n)
  BY <1>3, <1>6, <1>7, <1>8, RunningKeeps
<1> QED BY <1>4, <1>5, <1>9

(* A frame that comes under the budget has it enforced. *)
LEMMA PreviewKeeps ==
  ASSUME NEW t, NEW V, Sound(t, V), NEW j \in Known(t), NEW slot \in Slots \cup {Still}
  PROVE  Keeps(ApplyPreview(t, j, slot), t, V) /\ Spares(ApplyPreview(t, j, slot), t)
<1> DEFINE e == t.map[j]
           ended == e.status \in Terminal
           r == IF slot # Still /\ ~ended THEN e.ring \union {slot} ELSE {}
           f == [e EXCEPT !.still = TRUE, !.ring = r]
           u == Put(t, j, f)
<1>1. Whole(e) /\ Formed(t) /\ j \in Jobs BY NoteTypes DEF Sound
<1>2. r \in SUBSET Slots /\ IsFiniteSet(r)
  <2>1. e.ring \in SUBSET Slots /\ IsFiniteSet(e.ring) BY <1>1 DEF Whole, Entries
  <2>2. IsFiniteSet(e.ring \union {slot}) /\ IsFiniteSet({})
    <3> HIDE DEF e
    <3> QED BY <2>1, FS_AddElement, FS_EmptySet
  <2> HIDE DEF e
  <2> QED BY <2>1, <2>2
<1>3. ApplyPreview(t, j, slot)
        = IF ended \/ j \in t.unconfirmed THEN EnforcePreviewBudget(u) ELSE u
  BY DEF ApplyPreview
<1> HIDE DEF r
<1>4. /\ f \in Entries /\ f.status = e.status /\ f.ring = r
      /\ f.logs = e.logs /\ f.heard = e.heard /\ f.dropped = e.dropped /\ f.node = e.node
  BY <1>1, <1>2 DEF Whole, Entries
<1> HIDE DEF f
<1>5. Whole(f)
  <2>1. Booked(f) BY <1>1, <1>4, SameBooked DEF Whole
  <2> QED BY <1>2, <1>4, <2>1 DEF Whole
<1>6. Formed(u) /\ Placed(u, t, j, f) /\ u.lost = t.lost /\ u.unconfirmed = t.unconfirmed
  BY <1>1, <1>5, PutPlaces
<1> HIDE DEF u
<1>9. Spares(u, t)
  <2>1. Final(t, j) => f.status \in Terminal /\ j \notin u.lost
    BY <1>4, <1>6 DEF Final, IsAuthoritativeTerminal
  <2>3. Told(t, j) \subseteq f.heard BY <1>4 DEF Told
  <2>2. Shows(u, t, j, f.node) BY <1>6, <2>1, <2>3, PlacedShows
  <2> QED BY <1>4, <2>2, ShowsTheSame DEF Node
<1>7. CASE ended \/ j \in t.unconfirmed
  <2> DEFINE w == EnforcePreviewBudget(u)
  <2>1. Formed(w) /\ Fits(w) /\ Quieter(w, u) /\ w.lost = u.lost /\ Spares(w, u)
    BY <1>6, Enforced
  <2>2. Quieter(u, t) BY <1>4, <1>6 DEF Quieter, Placed, IsAuthoritativeTerminal
  <2> HIDE DEF w
  <2>6. Spares(w, t) BY <1>9, <2>1, ShowsAfter
  <2>3. Truthful(u, V) /\ (Capped(t) => Capped(u)) BY <2>2, QuieterKeeps DEF Sound
  <2>4. Truthful(w, V) /\ (Capped(u) => Capped(w)) BY <2>1, <2>3, QuieterKeeps
  <2>5. Keeps(w, t, V) BY <1>6, <2>1, <2>3, <2>4 DEF Keeps, Sound
  <2> QED BY <1>3, <1>7, <2>5, <2>6 DEF w
<1>8. CASE ~(ended \/ j \in t.unconfirmed)
  <2>1. Revises(u, t, j, f) BY <1>4, <1>6, <1>8 DEF Revises
  <2> QED BY <1>3, <1>6, <1>8, <1>9, <2>1, RevisionKeeps
<1> QED BY <1>7, <1>8

(* The end of an entry: its frames come under the budget, it may be
   evicted, and it is what V says. *)
LEMMA EndKeeps ==
  ASSUME NEW t, NEW V, Sound(t, V), NEW j \in Known(t), NEW status \in Terminal, <<j, status>> \in V,
         NEW now \in Nat
  PROVE  LET u == End(t, j, status, now)
         IN  Keeps(u, t, V) /\ Spares(u, t) /\ Finishes(u, j)
<1> DEFINE e == t.map[j]
           b == IF j \in t.lost THEN FALSE ELSE e.lostNote
           f == [e EXCEPT !.status = status, !.endedAt = now, !.ring = {}, !.lostNote = b]
           L == t.lost \ {j}
           u == [Put(t, j, f) EXCEPT !.lost = L]
           w == EnforcePreviewBudget(u)
           x == EvictExecutionEntries(w)
<1>1. Whole(e) /\ Formed(t) /\ j \in Jobs /\ L \in SUBSET Jobs BY NoteTypes DEF Sound
<1>2. b \in BOOLEAN BY <1>1 DEF Whole, Entries
<1> HIDE DEF b
<1>3. /\ f \in Entries /\ f.status = status /\ f.ring = {}
      /\ f.logs = e.logs /\ f.heard = e.heard /\ f.dropped = e.dropped /\ f.node = e.node
  BY <1>1, <1>2 DEF Whole, Entries, Statuses
<1>4. End(t, j, status, now) = IF IsAuthoritativeTerminal(t, j) THEN t ELSE x
  <2>1. End(t, j, status, now)
          = IF IsAuthoritativeTerminal(t, j) THEN t
            ELSE EvictExecutionEntries(EnforcePreviewBudget(
                   [Put(t, j, f) EXCEPT !.lost = @ \ {j}]))
    BY Zenon DEF End, f, b
  <2>2. Put(t, j, f).lost = t.lost
    <3>1. Whole(f)
      <4>1. Booked(f) BY <1>1, <1>3, SameBooked DEF Whole
      <4> HIDE DEF f
      <4> QED BY <1>3, <4>1, FS_EmptySet DEF Whole
    <3> QED BY <1>1, <3>1, PutPlaces
  <2> QED BY <2>1, <2>2
<1> HIDE DEF f
<1>5. Whole(f)
  <2>1. Booked(f) BY <1>1, <1>3, SameBooked DEF Whole
  <2> QED BY <1>3, <2>1, FS_EmptySet DEF Whole
<1>6. Formed(u) /\ Placed(u, t, j, f) /\ u.lost = L /\ u.unconfirmed = t.unconfirmed
  <2> HIDE DEF L
  <2> QED BY <1>1, <1>5, PutWithLosses
<1> HIDE DEF u
<1>7. /\ Formed(w) /\ Fits(w) /\ Quieter(w, u) /\ w.lost = u.lost
      /\ Spares(w, u)
  BY <1>6, Enforced
<1>8. Truthful(u, V)
  <2>1. ASSUME NEW k \in Known(u), IsAuthoritativeTerminal(u, k) PROVE <<k, u.map[k].status>> \in V
    <3>1. k \in Known(t) BY <1>6 DEF Placed
    <3>2. CASE k = j BY <3>2, <1>3, <1>6 DEF Placed
    <3>3. CASE k # j
      <4>1. u.map[k] = t.map[k] BY <3>1, <3>3, <1>6 DEF Placed
      <4>2. IsAuthoritativeTerminal(t, k) BY <2>1, <3>3, <4>1, <1>6 DEF IsAuthoritativeTerminal
      <4> QED BY <3>1, <4>1, <4>2 DEF Sound, Truthful
    <3> QED BY <3>2, <3>3
  <2> QED BY <2>1 DEF Truthful
<1> HIDE DEF w
<1>9. Sound(w, V) BY <1>7, <1>8, QuieterKeeps DEF Sound
<1>10. Sound(x, V) /\ Capped(x) /\ Fewer(x, w) BY <1>9, EvictionKeeps
<1> HIDE DEF x
<1>11. x.lost \subseteq t.lost BY <1>6, <1>7, <1>10 DEF Fewer
<1>12. Keeps(x, t, V) BY <1>10, <1>11 DEF Keeps
<1>13. CASE IsAuthoritativeTerminal(t, j)
  <2>1. Finishes(t, j) BY <1>13 DEF Finishes, Final
  <2> QED BY <1>4, <1>13, <2>1, StayKeeps, ShowsTheSame
<1>14. CASE ~IsAuthoritativeTerminal(t, j)
  <2>1. Shows(u, t, j, f.node) /\ Final(u, j)
    <3>1. ~Final(t, j) BY <1>14 DEF Final
    <3>2. f.status \in Terminal /\ j \notin u.lost BY <1>3, <1>6
    <3>3. \A k \in Known(t) : k # j /\ k \in u.lost => k \in t.lost BY <1>6
    <3>4. Told(t, j) \subseteq f.heard BY <1>3 DEF Told
    <3> QED BY <1>6, <3>1, <3>2, <3>3, <3>4, PlacedShows
  <2>2. Spares(u, t) /\ Finishes(u, j)
    <3>1. f.node = Node(t, j) BY <1>3 DEF Node
    <3> QED BY <2>1, <3>1, ShowsTheSame DEF Finishes
  <2>3. Spares(x, w) BY <1>10, FewerLeaves
  <2>4. Spares(x, u) BY <1>7, <2>3, ShowsAfter
  <2>5. Spares(x, t) /\ Finishes(x, j) BY <2>2, <2>4, ShowsAfter
  <2> QED BY <1>4, <1>12, <1>14, <2>5
<1> QED BY <1>13, <1>14

-----------------------------------------------------------------------------
(* The logs of an execution.                                               *)

(* In a buffer in ascending order every record has its place. *)
LEMMA IndexOf ==
  ASSUME NEW q \in Seq(Nat), \A a, b \in DOMAIN q : a < b => q[a] < q[b], NEW x \in Nat
  PROVE  LET k == InsertionIndex(q, x)
         IN  k \in 0..Len(q) /\ \A i \in DOMAIN q : q[i] < x <=> i <= k
<1> DEFINE S == {i \in 1..Len(q) : ~(q[i] < x)}
<1>1. Len(q) \in Nat /\ DOMAIN q = 1..Len(q) /\ \A i \in 1..Len(q) : q[i] \in Nat OBVIOUS
<1>2. \E k \in 0..Len(q) : \A i \in DOMAIN q : q[i] < x <=> i <= k
  <2>1. CASE S = {}
    <3>1. \A i \in DOMAIN q : q[i] < x <=> i <= Len(q) BY <1>1, <2>1
    <3>2. Len(q) \in 0..Len(q) BY <1>1
    <3> HIDE DEF S
    <3> QED BY <3>1, <3>2
  <2>2. CASE S # {}
    <3>1. S \subseteq Nat OBVIOUS
    <3>2. PICK m \in S : \A i \in S : m <= i
      <4> HIDE DEF S
      <4> QED BY <2>2, <3>1, Smallest
    <3>3. m \in 1..Len(q) /\ ~(q[m] < x) /\ q[m] \in Nat BY <1>1
    <3>4. ASSUME NEW i \in DOMAIN q PROVE q[i] < x <=> i <= m - 1
      <4>1. CASE i < m
        <5>1. i \notin S /\ i \in 1..Len(q)
          <6> HIDE DEF S
          <6> QED BY <1>1, <3>1, <3>2, <4>1
        <5> QED BY <3>3, <4>1, <5>1
      <4>2. CASE i = m BY <3>3, <4>2
      <4>3. CASE m < i
        <5>1. q[m] < q[i] /\ q[i] \in Nat BY <1>1, <3>3, <4>3
        <5>2. ~(q[i] < x) BY <3>3, <5>1
        <5> QED BY <3>3, <4>3, <5>2
      <4> QED BY <1>1, <3>3, <4>1, <4>2, <4>3
    <3>5. m - 1 \in 0..Len(q) BY <3>3
    <3> QED BY <3>4, <3>5
  <2> QED BY <2>1, <2>2
<1> QED BY <1>2 DEF InsertionIndex

(* What the buffer is with the record put in its place. *)
WithAt(p, q, k, x) ==
  /\ p \in Seq(Nat) /\ Len(p) = Len(q) + 1
  /\ \A i \in 1..Len(q) + 1 :
       p[i] = IF i <= k THEN q[i] ELSE IF i = k + 1 THEN x ELSE q[i - 1]

(* InsertAt, position by position.                                         *)
LEMMA InsertAtType ==
  ASSUME NEW q \in Seq(Nat), NEW k \in 0..Len(q), NEW x \in Nat,
         NEW p, p = InsertAt(q, k + 1, x)
  PROVE  WithAt(p, q, k, x)
<1> DEFINE a == SubSeq(q, 1, k)
           b == SubSeq(q, k + 1, Len(q))
           c == a \o <<x>>
<1>1. Len(q) \in Nat /\ k \in Nat /\ k <= Len(q) OBVIOUS
<1>2. InsertAt(q, k + 1, x) = c \o b
  <2>1. (k + 1) - 1 = k BY <1>1
  <2> QED BY <2>1 DEF InsertAt
<1>3. a \in Seq(Nat) /\ Len(a) = k /\ \A i \in 1..k : a[i] = q[i] BY <1>1
<1>4. b \in Seq(Nat) /\ Len(b) = Len(q) - k /\ \A i \in 1..(Len(q) - k) : b[i] = q[k + i]
  <2>1. Len(b) = Len(q) - k BY <1>1
  <2>2. b \in Seq(Nat)
    <3>1. k + 1 \in Int /\ \A i \in k + 1..Len(q) : q[i] \in Nat BY <1>1
    <3> QED BY <1>1, <3>1
  <2>3. \A i \in 1..(Len(q) - k) : b[i] = q[k + i] BY <1>1
  <2> QED BY <2>1, <2>2, <2>3
<1> HIDE DEF a, b
<1>5. /\ c \in Seq(Nat) /\ Len(c) = k + 1
      /\ \A i \in 1..k + 1 : c[i] = IF i <= k THEN q[i] ELSE x
  BY <1>1, <1>3
<1> HIDE DEF c
<1>6. /\ c \o b \in Seq(Nat) /\ Len(c \o b) = Len(q) + 1
      /\ \A i \in 1..Len(q) + 1 : (c \o b)[i] = IF i <= k + 1 THEN c[i] ELSE b[i - (k + 1)]
  <2>1. c \in Seq(Nat) /\ b \in Seq(Nat) BY <1>4, <1>5
  <2>2. Len(c) = k + 1 /\ Len(b) = Len(q) - k BY <1>4, <1>5
  <2>3. c \o b \in Seq(Nat) BY <2>1
  <2>4. Len(c \o b) = Len(c) + Len(b) BY <2>1
  <2>6. Len(c) + Len(b) = Len(q) + 1 BY <1>1, <2>2
  <2>5. \A i \in 1..(Len(c) + Len(b)) : (c \o b)[i] = IF i <= Len(c) THEN c[i] ELSE b[i - Len(c)]
    BY <2>1
  <2> QED BY <2>2, <2>3, <2>4, <2>5, <2>6
<1>7. ASSUME NEW i \in 1..Len(q) + 1
      PROVE  (c \o b)[i] = IF i <= k THEN q[i] ELSE IF i = k + 1 THEN x ELSE q[i - 1]
  <2>1. CASE i <= k + 1
    <3>1. i \in 1..k + 1 BY <1>1, <2>1
    <3>2. (c \o b)[i] = IF i <= k THEN q[i] ELSE x BY <1>5, <1>6, <2>1, <3>1
    <3> QED BY <1>1, <2>1, <3>1, <3>2
  <2>2. CASE ~(i <= k + 1)
    <3>1. i - (k + 1) \in 1..(Len(q) - k) /\ k + (i - (k + 1)) = i - 1 BY <1>1, <2>2
    <3>2. (c \o b)[i] = q[i - 1] BY <1>4, <1>6, <2>2, <3>1
    <3> QED BY <1>1, <2>2, <3>2
  <2> QED BY <2>1, <2>2
<1>8. p = c \o b BY <1>2
<1>9. /\ p \in Seq(Nat) /\ Len(p) = Len(q) + 1
      /\ \A i \in 1..Len(q) + 1 :
           p[i] = IF i <= k THEN q[i] ELSE IF i = k + 1 THEN x ELSE q[i - 1]
  <2> DEFINE z == c \o b
  <2>1. z \in Seq(Nat) /\ Len(z) = Len(q) + 1 BY <1>6
  <2>2. \A i \in 1..Len(q) + 1 :
          z[i] = IF i <= k THEN q[i] ELSE IF i = k + 1 THEN x ELSE q[i - 1]
    BY <1>7
  <2>3. p = z BY <1>8
  <2> HIDE DEF z
  <2> QED BY <2>1, <2>2, <2>3
<1> QED BY <1>9 DEF WithAt

(* What is left of a sequence without its first o elements. *)
Without(r, p, o, T) ==
  /\ r \in Seq(T) /\ Len(r) = Len(p) - o
  /\ \A i \in 1..(Len(p) - o) : r[i] = p[i + o] /\ i + o \in 1..Len(p)

(* The end of a sequence, position by position.                            *)
LEMMA LastOf ==
  ASSUME NEW T, NEW p \in Seq(T), NEW o \in Nat, o <= Len(p),
         NEW r, r = SubSeq(p, o + 1, Len(p))
  PROVE  Without(r, p, o, T)
<1>1. Len(p) \in Nat OBVIOUS
<1>2. Len(r) = Len(p) - o BY <1>1
<1>3. r \in Seq(T)
  <2>1. o + 1 \in Int /\ \A i \in o + 1..Len(p) : p[i] \in T BY <1>1
  <2> QED BY <1>1, <2>1
<1>4. \A i \in 1..(Len(p) - o) : r[i] = p[i + o] /\ i + o \in 1..Len(p) BY <1>1
<1> QED BY <1>2, <1>3, <1>4 DEF Without

(* An insertion leaves the newest records, in order, and counts the one
   that made room. *)
LEMMA InsertedBooked ==
  ASSUME NEW e, Whole(e), NEW x \in Nat, x \notin ToSet(e.logs),
         ~(InsertionIndex(e.logs, x) = 0 /\ Len(e.logs) >= LogCap),
         NEW told, told = [e EXCEPT !.heard = @ \union {x}]
  PROVE  /\ Whole(Inserted(told, x))
         /\ Inserted(told, x).status = e.status
         /\ Inserted(told, x).ring = e.ring /\ Inserted(told, x).still = e.still
         /\ Inserted(told, x).node = e.node
         /\ Inserted(told, x).heard = e.heard \union {x}
<1> DEFINE q == e.logs
           n == Len(q)
           k == InsertionIndex(q, x)
           p == InsertAt(q, k + 1, x)
           o == IF n + 1 > LogCap THEN (n + 1) - LogCap ELSE 0
           r == SubSeq(p, o + 1, n + 1)
           f == Inserted(told, x)
           H == e.heard \union {x}
<1>1. /\ q \in Seq(Nat) /\ n \in Nat /\ DOMAIN q = 1..n /\ e.dropped \in Nat
      /\ e.heard \in SUBSET Nat /\ LogCap \in Nat /\ LogCap > 0
  BY StoreAssumption DEF Whole, Entries
<1>2. /\ IsFiniteSet(e.heard) /\ ToSet(q) \subseteq e.heard /\ n <= LogCap
      /\ \A a, b \in 1..n : a < b => q[a] < q[b]
      /\ \A y \in e.heard \ ToSet(q) : n = LogCap /\ \A i \in 1..n : y < q[i]
      /\ e.dropped + n <= Cardinality(e.heard)
  BY <1>1 DEF Whole, Booked, Ascending, Newest
<1>3. k \in 0..n /\ \A i \in 1..n : q[i] < x <=> i <= k
  <2>1. \A a, b \in DOMAIN q : a < b => q[a] < q[b] BY <1>1, <1>2
  <2> QED BY <1>1, <2>1, IndexOf
<1>4. ~(k = 0 /\ n >= LogCap) OBVIOUS
<1>5. \A i \in 1..n : q[i] \in Nat /\ q[i] # x
  <2>1. \A i \in 1..n : q[i] \in ToSet(q) BY <1>1 DEF ToSet
  <2> QED BY <1>1, <2>1
<1> HIDE DEF k
<1>6. /\ p \in Seq(Nat) /\ Len(p) = n + 1
      /\ \A i \in 1..n + 1 : p[i] = IF i <= k THEN q[i] ELSE IF i = k + 1 THEN x ELSE q[i - 1]
  <2> HIDE DEF q
  <2>1. q \in Seq(Nat) /\ k \in 0..Len(q) /\ x \in Nat BY <1>1, <1>3 DEF n
  <2>2. p = InsertAt(q, k + 1, x) OBVIOUS
  <2> HIDE DEF p
  <2>3. WithAt(p, q, k, x) BY <2>1, <2>2, InsertAtType
  <2> QED BY <2>3 DEF n, WithAt
<1>7. told \in Entries /\ told.logs = q /\ told.dropped = e.dropped /\ told.heard = H
      /\ told.ring = e.ring /\ told.still = e.still /\ told.status = e.status
      /\ told.node = e.node
  BY DEF Whole, Entries
<1>8. o \in Nat /\ (n < LogCap => o = 0) /\ (n = LogCap => o = 1) /\ (n + 1) - o <= LogCap
  BY <1>1, <1>2
<1>9. f = [told EXCEPT !.logs = r, !.dropped = told.dropped + o]
  <2>1. Len(p) = n + 1 BY <1>6
  <2> DEFINE s == InsertAt(told.logs, InsertionIndex(told.logs, x) + 1, x)
             O == IF Len(s) > LogCap THEN Len(s) - LogCap ELSE 0
  <2>2. Inserted(told, x) = [told EXCEPT !.logs = SubSeq(s, O + 1, Len(s)), !.dropped = told.dropped + O]
    BY DEF Inserted
  <2>6. told.logs = q BY <1>7
  <2>3. s = p
    <3> HIDE DEF q
    <3> QED BY <2>6, Zenon DEF k
  <2> HIDE DEF s, p
  <2>4. O = o /\ Len(s) = n + 1
    <3>1. Len(s) = n + 1 BY <2>1, <2>3
    <3> HIDE DEF n
    <3> QED BY <3>1, Zenon
  <2> HIDE DEF O, o
  <2>5. SubSeq(s, O + 1, Len(s)) = r BY <2>3, <2>4
  <2> HIDE DEF r
  <2> QED BY <2>2, <2>4, <2>5
<1> HIDE DEF p, o, f
<1>10. /\ r \in Seq(Nat) /\ Len(r) = (n + 1) - o
       /\ \A i \in 1..((n + 1) - o) : r[i] = p[i + o] /\ i + o \in 1..n + 1
  <2>1. o <= n + 1 BY <1>1, <1>2, <1>8
  <2>2. o \in Nat /\ Len(p) = n + 1 /\ p \in Seq(Nat) BY <1>6, <1>8
  <2>3. r = SubSeq(p, o + 1, Len(p)) BY <2>2
  <2>4. o <= Len(p) BY <2>1, <2>2
  <2> HIDE DEF r, n
  <2>5. Without(r, p, o, Nat) BY <2>2, <2>3, <2>4, LastOf
  <2> DEFINE m == n + 1
  <2>6. Len(p) = m BY <2>2
  <2>7. r \in Seq(Nat) /\ Len(r) = m - o BY <2>5, <2>6, Zenon DEF Without
  <2>8. \A i \in 1..(m - o) : r[i] = p[i + o] /\ i + o \in 1..m BY <2>5, <2>6, Zenon DEF Without
  <2> QED BY <2>7, <2>8
<1> HIDE DEF r
<1>11. /\ f \in Entries /\ f.logs = r /\ f.dropped = e.dropped + o /\ f.heard = H
       /\ f.ring = e.ring /\ f.still = e.still /\ f.status = e.status /\ f.node = e.node
  <2>1. e.dropped + o \in Nat BY <1>1, <1>8
  <2> QED BY <1>7, <1>9, <1>10, <2>1 DEF Entries
<1>12. \A a, b \in 1..n + 1 : a < b => p[a] < p[b]
  <2> SUFFICES ASSUME NEW a \in 1..n + 1, NEW b \in 1..n + 1, a < b PROVE p[a] < p[b]
    OBVIOUS
  <2>1. /\ p[a] = IF a <= k THEN q[a] ELSE IF a = k + 1 THEN x ELSE q[a - 1]
        /\ p[b] = IF b <= k THEN q[b] ELSE IF b = k + 1 THEN x ELSE q[b - 1]
    BY <1>6
  <2>2. k \in Nat /\ k <= n /\ a \in Nat /\ b \in Nat BY <1>1, <1>3
  <2>3. CASE b <= k
    <3>1. a \in 1..n /\ b \in 1..n /\ a <= k BY <2>2, <2>3
    <3> QED BY <1>2, <2>1, <2>3, <3>1
  <2>4. CASE b = k + 1
    <3>1. a \in 1..n /\ a <= k BY <2>2, <2>4
    <3> QED BY <1>3, <2>1, <2>2, <2>4, <3>1
  <2>5. CASE b > k + 1
    <3>1. b - 1 \in 1..n /\ ~(b - 1 <= k) /\ ~(b <= k) /\ b # k + 1 BY <2>2, <2>5
    <3>2. x < q[b - 1] BY <1>3, <1>5, <3>1
    <3>3. CASE a <= k
      <4>1. a \in 1..n /\ a < b - 1 BY <2>2, <2>5, <3>3
      <4> QED BY <1>2, <2>1, <3>1, <3>3, <4>1
    <3>4. CASE a = k + 1 BY <2>1, <2>2, <3>1, <3>2, <3>4
    <3>5. CASE a > k + 1
      <4>1. a - 1 \in 1..n /\ a - 1 < b - 1 /\ ~(a <= k) /\ a # k + 1 BY <2>2, <3>5
      <4> QED BY <1>2, <2>1, <3>1, <4>1
    <3> QED BY <2>2, <3>3, <3>4, <3>5
  <2> QED BY <2>2, <2>3, <2>4, <2>5
<1>13. \A y : (\E i \in 1..n + 1 : p[i] = y) <=> y = x \/ \E i \in 1..n : q[i] = y
  <2>0. k \in Nat /\ k <= n BY <1>1, <1>3
  <2>1. ASSUME NEW i \in 1..n + 1 PROVE p[i] = x \/ \E m \in 1..n : q[m] = p[i]
    <3>1. i <= k => i \in 1..n BY <2>0
    <3>2. i > k + 1 => i - 1 \in 1..n BY <2>0
    <3>3. i <= k \/ i = k + 1 \/ i > k + 1 BY <2>0
    <3> QED BY <1>6, <2>0, <3>1, <3>2, <3>3
  <2>2. k + 1 \in 1..n + 1 /\ p[k + 1] = x
    <3>1. k + 1 \in 1..n + 1 /\ ~(k + 1 <= k) BY <1>1, <2>0
    <3> QED BY <1>6, <3>1
  <2>3. ASSUME NEW m \in 1..n PROVE \E i \in 1..n + 1 : p[i] = q[m]
    <3>1. CASE m <= k
      <4>1. m \in 1..n + 1 BY <1>1
      <4> QED BY <1>6, <3>1, <4>1
    <3>2. CASE ~(m <= k)
      <4>1. m + 1 \in 1..n + 1 /\ ~(m + 1 <= k) /\ m + 1 # k + 1 /\ (m + 1) - 1 = m
        BY <1>1, <2>0, <3>2
      <4> QED BY <1>6, <4>1
    <3> QED BY <3>1, <3>2
  <2> QED BY <2>1, <2>2, <2>3
<1>14. ToSet(q) = {q[i] : i \in 1..n} /\ ToSet(r) = {r[i] : i \in 1..((n + 1) - o)}
  <2>1. DOMAIN r = 1..((n + 1) - o) BY <1>10
  <2> QED BY <1>1, <2>1 DEF ToSet
<1>15. x \in e.heard => n = LogCap /\ k = 0
  <2> SUFFICES ASSUME x \in e.heard PROVE n = LogCap /\ k = 0
    OBVIOUS
  <2>1. n = LogCap /\ \A i \in 1..n : x < q[i] BY <1>2
  <2>2. k = 0
    <3> SUFFICES ASSUME k # 0 PROVE FALSE
      OBVIOUS
    <3>1. 1 \in 1..n /\ 1 <= k BY <1>1, <1>3
    <3>2. q[1] < x /\ x < q[1] /\ q[1] \in Nat BY <1>3, <1>5, <2>1, <3>1
    <3> QED BY <3>2
  <2> QED BY <2>1, <2>2
<1>16. x \notin e.heard BY <1>1, <1>4, <1>15
<1>17. /\ IsFiniteSet(H) /\ Cardinality(H) = Cardinality(e.heard) + 1
       /\ Cardinality(e.heard) \in Nat
  BY <1>2, <1>16, FS_AddElement, FS_CardinalityType
<1>18. Booked(f)
  <2>1. ToSet(r) \subseteq H
    <3>1. ASSUME NEW i \in 1..((n + 1) - o) PROVE r[i] \in H
      <4>1. r[i] = p[i + o] /\ i + o \in 1..n + 1 BY <1>10
      <4>2. p[i + o] = x \/ \E m \in 1..n : q[m] = p[i + o] BY <4>1, <1>13
      <4>3. \A m \in 1..n : q[m] \in e.heard BY <1>2, <1>14
      <4> QED BY <4>1, <4>2, <4>3
    <3> QED BY <1>14, <3>1
  <2>2. Ascending(f)
    <3>1. DOMAIN r = 1..((n + 1) - o) BY <1>10
    <3>2. ASSUME NEW a \in 1..((n + 1) - o), NEW b \in 1..((n + 1) - o), a < b PROVE r[a] < r[b]
      <4>1. /\ r[a] = p[a + o] /\ a + o \in 1..n + 1
            /\ r[b] = p[b + o] /\ b + o \in 1..n + 1
        BY <1>10
      <4>2. a + o < b + o BY <1>8, <3>2
      <4> QED BY <1>12, <4>1, <4>2
    <3> QED BY <1>11, <3>1, <3>2 DEF Ascending
  <2>3. Newest(f)
    <3> SUFFICES ASSUME NEW y \in H \ ToSet(r)
                 PROVE  (n + 1) - o = LogCap /\ \A i \in 1..((n + 1) - o) : y < r[i]
      <4>1. DOMAIN r = 1..((n + 1) - o) BY <1>10
      <4> QED BY <1>10, <1>11, <4>1 DEF Newest
    <3>1. CASE n < LogCap
      <4>1. o = 0 BY <1>8, <3>1
      <4>2. y = x \/ y \in ToSet(q) BY <1>2, <3>1, <1>1
      <4>3. \E i \in 1..n + 1 : p[i] = y BY <4>2, <1>13, <1>14
      <4>4. \A i \in 1..n + 1 : r[i] = p[i] /\ i \in 1..((n + 1) - o) BY <1>1, <1>10, <4>1
      <4>5. y \in ToSet(r) BY <4>3, <4>4, <1>14
      <4> QED BY <4>5
    <3>2. CASE n = LogCap
      <4>1. o = 1 /\ (n + 1) - o = LogCap /\ k \in Nat /\ k >= 1 /\ 1 \in 1..n /\ 1 \in 1..n + 1
        BY <1>1, <1>3, <1>4, <1>8, <3>2
      <4>2. p[1] = q[1] BY <1>6, <4>1
      <4>3. y \in Nat /\ p[1] \in Nat BY <1>1, <1>5, <4>1, <4>2
      <4>4. y <= p[1]
        <5>1. CASE \E i \in 1..n + 1 : p[i] = y
          <6>1. PICK i \in 1..n + 1 : p[i] = y BY <5>1
          <6>2. i = 1
            <7> SUFFICES ASSUME i # 1 PROVE FALSE
              OBVIOUS
            <7>1. i - 1 \in 1..((n + 1) - o) /\ (i - 1) + o = i BY <1>1, <4>1
            <7>2. r[i - 1] = y BY <1>10, <6>1, <7>1
            <7> QED BY <1>14, <7>1, <7>2
          <6> QED BY <4>3, <6>1, <6>2
        <5>2. CASE ~\E i \in 1..n + 1 : p[i] = y
          <6>1. y # x /\ y \notin ToSet(q) BY <5>2, <1>13, <1>14
          <6>2. y < q[1] BY <1>2, <4>1, <6>1
          <6> QED BY <4>2, <4>3, <6>2
        <5> QED BY <5>1, <5>2
      <4>5. ASSUME NEW i \in 1..((n + 1) - o) PROVE y < r[i]
        <5>1. r[i] = p[i + o] /\ i + o \in 1..n + 1 /\ 1 < i + o BY <1>10, <4>1
        <5>2. p[1] < p[i + o] BY <1>12, <4>1, <5>1
        <5>3. p[i + o] \in Nat BY <1>6, <5>1
        <5> QED BY <4>3, <4>4, <5>1, <5>2, <5>3
      <4> QED BY <4>1, <4>5
    <3> QED BY <1>1, <1>2, <3>1, <3>2
  <2>4. f.dropped + Len(f.logs) <= Cardinality(f.heard)
    <3>1. f.dropped = e.dropped + o /\ Len(f.logs) = (n + 1) - o /\ f.heard = H BY <1>10, <1>11
    <3>2. Len(f.logs) \in Nat /\ e.dropped + n <= Cardinality(e.heard) BY <1>1, <1>2, <1>8, <3>1
    <3> HIDE DEF n, H
    <3> QED BY <1>1, <1>8, <1>17, <3>1, <3>2
  <2>5. Len(f.logs) <= LogCap BY <1>8, <1>10, <1>11
  <2> QED BY <1>11, <1>17, <2>1, <2>2, <2>3, <2>4, <2>5 DEF Booked
<1> QED BY <1>11, <1>18 DEF f, Whole

(* A record that reaches an entry is kept, or older than all the full
   buffer holds, or known. *)
LEMMA LogKeeps ==
  ASSUME NEW t, NEW V, Sound(t, V), NEW j \in Known(t), NEW x \in Nat
  PROVE  LET u == ApplyLog(t, j, x)
         IN  Keeps(u, t, V) /\ Spares(u, t) /\ x \in Told(u, j)
<1> DEFINE e == t.map[j]
           told == [e EXCEPT !.heard = @ \union {x}]
           stays == \/ x \in ToSet(e.logs)
                    \/ InsertionIndex(e.logs, x) = 0 /\ Len(e.logs) >= LogCap
           f == IF stays THEN told ELSE Inserted(told, x)
           u == Put(t, j, f)
<1>1. Whole(e) /\ Formed(t) /\ j \in Jobs BY NoteTypes DEF Sound
<1>2. /\ told \in Entries /\ told.logs = e.logs /\ told.dropped = e.dropped
      /\ told.heard = e.heard \union {x}
      /\ told.ring = e.ring /\ told.still = e.still /\ told.status = e.status
      /\ told.node = e.node
  BY <1>1 DEF Whole, Entries
<1>3. ApplyLog(t, j, x) = u
  <2> DEFINE g == IF \/ x \in ToSet(told.logs)
                     \/ InsertionIndex(told.logs, x) = 0 /\ Len(told.logs) >= LogCap
                  THEN told ELSE Inserted(told, x)
  <2>1. ApplyLog(t, j, x) = Put(t, j, g) BY Zenon DEF ApplyLog
  <2>2. told.logs = e.logs BY <1>2
  <2> HIDE DEF told, e
  <2>3. g = f BY <2>2, Zenon
  <2> HIDE DEF f, g
  <2> QED BY <2>1, <2>3
<1>4. /\ Whole(f) /\ f.status = e.status /\ f.ring = e.ring /\ f.still = e.still
      /\ f.node = e.node /\ f.heard = e.heard \union {x}
  <2>1. CASE stays
    <3>1. Booked(told)
      <4>1. /\ e.logs \in Seq(Nat) /\ DOMAIN e.logs = 1..Len(e.logs) /\ Len(e.logs) \in Nat
            /\ LogCap \in Nat /\ e.dropped \in Nat
            /\ Booked(e) /\ IsFiniteSet(e.heard) /\ IsFiniteSet(e.heard \union {x})
        <5>1. e \in Entries /\ Booked(e) BY <1>1 DEF Whole
        <5>2. IsFiniteSet(e.heard) BY <5>1 DEF Booked
        <5>3. IsFiniteSet(e.heard \union {x}) BY <5>2, FS_AddElement
        <5>4. e.logs \in Seq(Nat) /\ e.dropped \in Nat BY <5>1 DEF Entries
        <5>5. LogCap \in Nat BY StoreAssumption
        <5> QED BY <5>1, <5>2, <5>3, <5>4, <5>5
      <4>2. Cardinality(e.heard) <= Cardinality(e.heard \union {x})
            /\ Cardinality(e.heard) \in Nat /\ Cardinality(e.heard \union {x}) \in Nat
        BY <4>1, FS_Subset, FS_CardinalityType
      <4>3. e.dropped + Len(e.logs) <= Cardinality(e.heard \union {x})
        <5>1. e.dropped + Len(e.logs) <= Cardinality(e.heard) BY <4>1 DEF Booked
        <5> QED BY <4>1, <4>2, <5>1
      <4>4. ASSUME x \notin ToSet(e.logs)
            PROVE  Len(e.logs) = LogCap /\ \A i \in DOMAIN e.logs : x < e.logs[i]
        <5>1. InsertionIndex(e.logs, x) = 0 /\ Len(e.logs) >= LogCap BY <2>1, <4>4
        <5>2. \A i \in DOMAIN e.logs : e.logs[i] < x <=> i <= 0
          <6>1. \A a, b \in DOMAIN e.logs : a < b => e.logs[a] < e.logs[b]
            BY <4>1 DEF Booked, Ascending
          <6> QED BY <4>1, <5>1, <6>1, IndexOf
        <5>3. \A i \in DOMAIN e.logs : e.logs[i] # x /\ e.logs[i] \in Nat BY <4>1, <4>4 DEF ToSet
        <5>4. \A i \in DOMAIN e.logs : x < e.logs[i] BY <4>1, <5>2, <5>3
        <5> QED BY <4>1, <5>1, <5>4 DEF Booked
      <4>5. Newest(told)
        <5>1. \A n \in e.heard \ ToSet(e.logs) :
                Len(e.logs) = LogCap /\ \A i \in DOMAIN e.logs : n < e.logs[i]
          BY <4>1 DEF Booked, Newest
        <5> HIDE DEF told, e
        <5> QED BY <1>2, <4>4, <5>1 DEF Newest
      <4>6. Ascending(told) BY <1>2, <4>1 DEF Booked, Ascending
      <4> HIDE DEF told
      <4> QED BY <1>2, <4>1, <4>3, <4>5, <4>6 DEF Booked
    <3>2. Whole(told) BY <1>1, <1>2, <3>1 DEF Whole
    <3> QED BY <1>2, <2>1, <3>2
  <2>2. CASE ~stays
    <3> DEFINE g == Inserted(told, x)
    <3>1. told = [e EXCEPT !.heard = @ \union {x}] OBVIOUS
    <3>2. f = g BY <2>2
    <3> HIDE DEF told, e, f
    <3>3. /\ Whole(g) /\ g.status = e.status /\ g.ring = e.ring /\ g.still = e.still
          /\ g.node = e.node /\ g.heard = e.heard \union {x}
      <4>1. x \notin ToSet(e.logs) /\ ~(InsertionIndex(e.logs, x) = 0 /\ Len(e.logs) >= LogCap)
        BY <2>2
      <4>2. Whole(e) BY <1>1
      <4> HIDE DEF stays
      <4> QED BY <3>1, <4>1, <4>2, InsertedBooked
    <3> HIDE DEF g
    <3> QED BY <3>2, <3>3
  <2> QED BY <2>1, <2>2
<1> HIDE DEF f
<1>5. Formed(u) /\ Placed(u, t, j, f) /\ u.lost = t.lost /\ u.unconfirmed = t.unconfirmed
  BY <1>1, <1>4, PutPlaces
<1> HIDE DEF u
<1>6. HasPreviews(f) => HasPreviews(e) BY <1>4 DEF HasPreviews
<1>7. Images(f) = Images(e) BY <1>4 DEF Images
<1>8. Revises(u, t, j, f) BY <1>4, <1>5, <1>6, <1>7 DEF Revises
<1>9. Spares(u, t)
  <2>1. Final(t, j) => f.status \in Terminal /\ j \notin u.lost
    BY <1>4, <1>5 DEF Final, IsAuthoritativeTerminal
  <2>3. Told(t, j) \subseteq f.heard BY <1>4 DEF Told
  <2>2. Shows(u, t, j, f.node) BY <1>5, <2>1, <2>3, PlacedShows
  <2> QED BY <1>4, <2>2, ShowsTheSame DEF Node
<1>10. x \in Told(u, j) BY <1>4, <1>5 DEF Placed, Told
<1> QED BY <1>3, <1>5, <1>8, <1>9, <1>10, RevisionKeeps

-----------------------------------------------------------------------------
(* The operations of the store.                                            *)

(* An operation after another one. *)
LEMMA KeepsTwice ==
  ASSUME NEW t, NEW u, NEW w, NEW V, Keeps(u, t, V), Keeps(w, u, V)
  PROVE  Keeps(w, t, V)
BY DEF Keeps

(* An event of a known job that, if it is an end, is what V says. *)
Tells(ev, V) ==
  /\ ev.job \in Jobs
  /\ \/ ev.kind = "started"
     \/ ev.kind = "nodeStates" /\ ev.node \in Nodes /\ ev.snapshot \in BOOLEAN
     \/ ev.kind = "preview" /\ ev.slot \in Slots \cup {Still}
     \/ ev.kind = "log" /\ ev.seq \in Nat
     \/ ev.kind \in Terminal /\ <<ev.job, ev.kind>> \in V

(* A failed run fails its node first. *)
LEMMA ErrorKeeps ==
  ASSUME NEW t, NEW V, Sound(t, V), NEW j \in Known(t), <<j, "error">> \in V, NEW now \in Nat
  PROVE  LET u == End(Put(t, j, [t.map[j] EXCEPT !.node = "error"]), j, "error", now)
         IN  Keeps(u, t, V) /\ Shows(u, t, j, "error") /\ Finishes(u, j)
<1> DEFINE e == t.map[j]
           f == [e EXCEPT !.node = "error"]
           u == Put(t, j, f)
<1>1. Whole(e) /\ Formed(t) /\ j \in Jobs BY NoteTypes DEF Sound
<1>2. /\ f \in Entries /\ f.status = e.status /\ f.ring = e.ring /\ f.still = e.still
      /\ f.logs = e.logs /\ f.heard = e.heard /\ f.dropped = e.dropped /\ f.node = "error"
  BY <1>1 DEF Whole, Entries, Nodes, NodeEnds
<1> HIDE DEF f
<1>3. Whole(f)
  <2>1. Booked(f) BY <1>1, <1>2, SameBooked DEF Whole
  <2> QED BY <1>1, <1>2, <2>1 DEF Whole
<1>4. Formed(u) /\ Placed(u, t, j, f) /\ u.lost = t.lost /\ u.unconfirmed = t.unconfirmed
  BY <1>1, <1>3, PutPlaces
<1> HIDE DEF u
<1>5. HasPreviews(f) => HasPreviews(e) BY <1>2 DEF HasPreviews
<1>6. Images(f) = Images(e) BY <1>2 DEF Images
<1>7. Revises(u, t, j, f) BY <1>2, <1>4, <1>5, <1>6 DEF Revises
<1>8. Keeps(u, t, V) BY <1>4, <1>7, RevisionKeeps
<1>9. j \in Known(u) /\ Sound(u, V) BY <1>4, <1>8 DEF Placed, Keeps
<1> DEFINE w == End(u, j, "error", now)
<1>10. Keeps(w, u, V) /\ Spares(w, u) /\ Finishes(w, j) BY <1>9, EndKeeps DEF Terminal
<1> HIDE DEF w
<1>11. Shows(u, t, j, "error")
  <2>1. Final(t, j) => f.status \in Terminal /\ j \notin u.lost
    BY <1>2, <1>4 DEF Final, IsAuthoritativeTerminal
  <2>2. Told(t, j) \subseteq f.heard BY <1>2 DEF Told
  <2> QED BY <1>2, <1>4, <2>1, <2>2, PlacedShows
<1>12. Keeps(w, t, V) /\ Shows(w, t, j, "error")
  BY <1>8, <1>10, <1>11, KeepsTwice, ShowsAfter
<1> QED BY <1>10, <1>12 DEF f, u, w

(* What an event says of the node of its run: all but node states leave it
   as it is, a failure where the node has failed. *)
Heard(t, ev) ==
  IF ev.kind # "nodeStates" THEN Node(t, ev.job)
  ELSE IF ev.snapshot THEN MergeSnapshotNode(Node(t, ev.job), ev.node) ELSE ev.node

Hears(u, t, ev) ==
  /\ \A k : k # ev.job => Leaves(u, t, k)
  /\ (ev.kind = "error" => Node(t, ev.job) = "error" \/ ev.job \in t.gone) =>
       Turns(u, t, ev.job, Heard(t, ev))
  /\ ev.kind \in Terminal => Finishes(u, ev.job)
  /\ ev.kind = "log" => Got(u, ev.job, ev.seq)

(* Before and after an event, what spares the runs adds nothing to it.     *)
LEMMA HearsAfter ==
  ASSUME NEW t, NEW u, NEW w, NEW x, NEW ev, Spares(u, t), Hears(w, u, ev), Spares(x, w)
  PROVE  Hears(x, t, ev)
<1> DEFINE j == ev.job
<1>1. \A k : k # j => Leaves(x, t, k)
  <2>1. ASSUME NEW k, k # j PROVE Leaves(x, t, k)
    <3>1. Leaves(u, t, k) /\ Leaves(w, u, k) /\ Leaves(x, w, k) BY <2>1 DEF Spares, Hears
    <3> QED BY <3>1, TurnsAfter DEF Leaves
  <2> QED BY <2>1
<1>2. ASSUME ev.kind = "error" => Node(t, j) = "error" \/ j \in t.gone
      PROVE  Turns(x, t, j, Heard(t, ev))
  <2>1. Leaves(u, t, j) /\ Leaves(x, w, j) BY DEF Spares
  <2>2. j \in u.gone \/ Node(u, j) = Node(t, j) BY <2>1 DEF Leaves, Turns
  <2>3. ev.kind = "error" => Node(u, j) = "error" \/ j \in u.gone
    BY <1>2, <2>1, <2>2 DEF Leaves, Turns
  <2>4. Turns(w, u, j, Heard(u, ev)) BY <2>3 DEF Hears
  <2>5. Turns(x, u, j, Heard(u, ev)) BY <2>1, <2>4, TurnsAfter
  <2>6. CASE j \in u.gone BY <2>5, <2>6 DEF Turns
  <2>7. CASE Node(u, j) = Node(t, j)
    <3>1. Heard(u, ev) = Heard(t, ev) BY <2>7 DEF Heard
    <3> QED BY <2>1, <2>5, <3>1, TurnsAfter
  <2> QED BY <2>2, <2>6, <2>7
<1>3. ev.kind \in Terminal => Finishes(x, j) BY TurnsAfter DEF Hears, Spares
<1>4. ev.kind = "log" => Got(x, j, ev.seq) BY DEF Hears, Spares, Leaves, Turns, Got
<1> QED BY <1>1, <1>2, <1>3, <1>4 DEF Hears

(* What an event does to the entry it names. *)
LEMMA EventKeeps ==
  ASSUME NEW t, NEW V, Sound(t, V), NEW ev, Tells(ev, V), ev.job \in Known(t), NEW now \in Nat
  PROVE  Keeps(ApplyToState(t, ev, now), t, V) /\ Hears(ApplyToState(t, ev, now), t, ev)
<1> DEFINE j == ev.job
<1>0. ASSUME NEW u, Spares(u, t), ev.kind # "nodeStates", ev.kind \in Terminal => Finishes(u, j),
             ev.kind = "log" => ev.seq \in Told(u, j)
      PROVE  Hears(u, t, ev)
  BY <1>0 DEF Hears, Heard, Spares, Leaves, Got
<1>1. CASE ev.kind = "started"
  <2>1. ApplyToState(t, ev, now) = ApplyStarted(t, j) BY <1>1 DEF ApplyToState
  <2>2. Keeps(ApplyStarted(t, j), t, V) /\ Spares(ApplyStarted(t, j), t) BY StartedKeeps
  <2> QED BY <1>0, <1>1, <2>1, <2>2 DEF Terminal
<1>2. CASE ev.kind = "nodeStates"
  <2>1. ApplyToState(t, ev, now) = ApplyNodeStates(t, j, ev.node, ev.snapshot)
    BY <1>2 DEF ApplyToState
  <2>2. ev.node \in Nodes /\ ev.snapshot \in BOOLEAN BY <1>2 DEF Tells, Terminal
  <2> DEFINE u == ApplyNodeStates(t, j, ev.node, ev.snapshot)
             n == IF ev.snapshot THEN MergeSnapshotNode(Node(t, j), ev.node) ELSE ev.node
  <2>3. Keeps(u, t, V) /\ Shows(u, t, j, n) BY <2>2, NodeStatesKeep
  <2>4. Heard(t, ev) = n BY <1>2 DEF Heard
  <2> HIDE DEF u, n
  <2>5. Hears(u, t, ev) BY <1>2, <2>3, <2>4 DEF Hears, Shows, Terminal
  <2> QED BY <2>1, <2>3, <2>5 DEF u
<1>3. CASE ev.kind = "preview"
  <2>1. ApplyToState(t, ev, now) = ApplyPreview(t, j, ev.slot) BY <1>3 DEF ApplyToState
  <2>2. ev.slot \in Slots \cup {Still} BY <1>3 DEF Tells, Terminal
  <2>3. Keeps(ApplyPreview(t, j, ev.slot), t, V) /\ Spares(ApplyPreview(t, j, ev.slot), t)
    BY <2>2, PreviewKeeps
  <2> QED BY <1>0, <1>3, <2>1, <2>3 DEF Terminal
<1>4. CASE ev.kind = "log"
  <2>1. ApplyToState(t, ev, now) = ApplyLog(t, j, ev.seq) BY <1>4 DEF ApplyToState
  <2>2. ev.seq \in Nat BY <1>4 DEF Tells, Terminal
  <2>3. /\ Keeps(ApplyLog(t, j, ev.seq), t, V) /\ Spares(ApplyLog(t, j, ev.seq), t)
        /\ ev.seq \in Told(ApplyLog(t, j, ev.seq), j)
    BY <2>2, LogKeeps
  <2> QED BY <1>0, <1>4, <2>1, <2>3 DEF Terminal
<1>5. CASE ev.kind = "completed"
  <2>1. ApplyToState(t, ev, now) = End(t, j, "completed", now) BY <1>5 DEF ApplyToState
  <2>2. <<j, "completed">> \in V BY <1>5 DEF Tells
  <2> DEFINE u == End(t, j, "completed", now)
  <2>3. Keeps(u, t, V) /\ Spares(u, t) /\ Finishes(u, j) BY <2>2, EndKeeps DEF Terminal
  <2> HIDE DEF u
  <2> QED BY <1>0, <1>5, <2>1, <2>3 DEF u
<1>6. CASE ev.kind = "interrupted"
  <2>1. ApplyToState(t, ev, now) = End(t, j, "interrupted", now) BY <1>6 DEF ApplyToState
  <2>2. <<j, "interrupted">> \in V BY <1>6 DEF Tells
  <2> DEFINE u == End(t, j, "interrupted", now)
  <2>3. Keeps(u, t, V) /\ Spares(u, t) /\ Finishes(u, j) BY <2>2, EndKeeps DEF Terminal
  <2> HIDE DEF u
  <2> QED BY <1>0, <1>6, <2>1, <2>3 DEF u
<1>7. CASE ev.kind = "error"
  <2> DEFINE w == End(Put(t, j, [t.map[j] EXCEPT !.node = "error"]), j, "error", now)
  <2>1. ApplyToState(t, ev, now) = IF IsAuthoritativeTerminal(t, j) THEN t ELSE w
    BY <1>7 DEF ApplyToState
  <2>2. <<j, "error">> \in V BY <1>7 DEF Tells
  <2>3. Keeps(w, t, V) /\ Shows(w, t, j, "error") /\ Finishes(w, j) BY <2>2, ErrorKeeps
  <2> HIDE DEF w
  <2>4. Hears(w, t, ev)
    <3>1. ASSUME Node(t, j) = "error" \/ j \in t.gone PROVE Turns(w, t, j, Heard(t, ev))
      BY <1>7, <2>3, <3>1 DEF Heard, Shows, Turns
    <3> QED BY <1>7, <2>3, <3>1 DEF Hears, Shows
  <2>5. IsAuthoritativeTerminal(t, j) => Hears(t, t, ev)
    <3>1. IsAuthoritativeTerminal(t, j) => Finishes(t, j) BY DEF Finishes, Final
    <3> QED BY <1>0, <1>7, <3>1, ShowsTheSame
  <2> QED BY <2>1, <2>3, <2>4, <2>5, StayKeeps
<1> QED BY <1>1, <1>2, <1>3, <1>4, <1>5, <1>6, <1>7 DEF Tells, Terminal

(* A fresh entry holds nothing. *)
LEMMA NewEntryWhole ==
  ASSUME NEW now \in Nat
  PROVE  /\ Whole(NewEntry(now)) /\ ~HasPreviews(NewEntry(now))
         /\ NewEntry(now).status = "queued" /\ NewEntry(now).node = "none"
<1> DEFINE e == NewEntry(now)
<1>1. /\ e \in Entries /\ e.status = "queued" /\ e.ring = {} /\ e.still = FALSE
      /\ e.node = "none"
      /\ e.logs = <<>> /\ e.heard = {} /\ e.dropped = 0
  BY DEF NewEntry, Entries, Statuses, Nodes, NoTime
<1> HIDE DEF e
<1>2. IsFiniteSet({}) /\ Cardinality({}) = 0 BY FS_EmptySet
<1>3. Len(<<>>) = 0 /\ DOMAIN <<>> = {} OBVIOUS
<1>4. ToSet(<<>>) = {} BY DEF ToSet
<1>5. Booked(e) BY <1>1, <1>2, <1>3, <1>4, StoreAssumption DEF Booked, Ascending, Newest
<1>6. Whole(e) /\ ~HasPreviews(e) BY <1>1, <1>2, <1>5 DEF Whole, HasPreviews
<1> QED BY <1>1, <1>6 DEF e

(* A store stays sound with a new entry that holds no frames and, if it
   has ended, is what V says. *)
Fresh(e, j, V) ==
  Whole(e) /\ ~HasPreviews(e) /\ (e.status \in Terminal => <<j, e.status>> \in V)
Agrees(t, L, U) ==
  /\ L \in SUBSET Jobs /\ \A k \in Known(t) : k \in L <=> k \in t.lost
  /\ U \in SUBSET Jobs /\ \A k \in Known(t) : k \in U => k \in t.unconfirmed

(* With other notes, and no tombstone more, everything is shown as before. *)
LEMMA NotingSpares ==
  ASSUME NEW t, Formed(t), NEW L, NEW U, Agrees(t, L, U), NEW E \in Seq(Jobs),
         ToSet(E) \subseteq ToSet(t.evicted)
  PROVE  Spares(Noting(t, L, U, E), t)
<1> DEFINE u == Noting(t, L, U, E)
<1>1. /\ Known(u) = Known(t) /\ u.map = t.map /\ u.lost = L /\ u.evicted = E /\ u.gone = t.gone
  BY NotingKeepsForm DEF Agrees
<1> HIDE DEF u
<1>2. \A k \in Known(t) : k \in u.lost <=> k \in t.lost BY <1>1 DEF Agrees
<1>3. \A k : Node(u, k) = Node(t, k) /\ (Final(u, k) <=> Final(t, k))
  BY <1>1, <1>2 DEF Node, Final, IsAuthoritativeTerminal
<1>5. \A k : Told(u, k) = Told(t, k) BY <1>1 DEF Told
<1>4. \A k : Turns(u, t, k, Node(t, k)) BY <1>1, <1>3, <1>5 DEF Turns
<1> QED BY <1>4 DEF Spares, Leaves, u

(* Tombstones are only taken away by a filter.                             *)
LEMMA AmongWithin ==
  ASSUME NEW q \in Seq(Jobs), NEW S
  PROVE  ToSet(Among(q, S)) \subseteq ToSet(q)
<1> DEFINE o == Among(q, S)
<1>1. q \in Seq(ToSet(q)) BY DEF ToSet
<1>2. Filtered(o, q, S, ToSet(q)) BY <1>1, AmongType
<1> HIDE DEF o
<1>3. o \in Seq(ToSet(q)) BY <1>2 DEF Filtered
<1>4. \A i \in DOMAIN o : o[i] \in ToSet(q) BY <1>3
<1>5. ToSet(o) = {o[i] : i \in DOMAIN o} BY DEF ToSet
<1> QED BY <1>4, <1>5 DEF o

(* The addition of an entry keeps the store sound.                         *)
LEMMA AddedSound ==
  ASSUME NEW t, NEW V, Sound(t, V), NEW j \in Jobs, j \notin Known(t), NEW e, Fresh(e, j, V),
         NEW L, NEW U, Agrees(t, L, U), NEW E \in Seq(Jobs),
         NEW u, u = Put(Noting(t, L, U, E), j, e)
  PROVE  /\ Sound(u, V) /\ j \in Known(u) /\ u.lost = L
         /\ ToSet(E) \subseteq ToSet(t.evicted) => Shows(u, t, j, e.node)
         /\ e.status \in Terminal /\ j \notin L => Finishes(u, j)
<1> DEFINE w == Noting(t, L, U, E)
<1>0. /\ Whole(e) /\ ~HasPreviews(e) /\ (e.status \in Terminal => <<j, e.status>> \in V)
      /\ L \in SUBSET Jobs /\ \A k \in Known(t) : k \in L <=> k \in t.lost
      /\ U \in SUBSET Jobs /\ \A k \in Known(t) : k \in U => k \in t.unconfirmed
      /\ u = Put(w, j, e)
  BY DEF Fresh, Agrees
<1>1. /\ Formed(w) /\ Known(w) = Known(t) /\ w.map = t.map
      /\ w.lost = L /\ w.unconfirmed = U
  BY <1>0, NotingKeepsForm DEF Sound
<1>8. ToSet(E) \subseteq ToSet(t.evicted) => Spares(w, t)
  BY NotingSpares DEF Sound
<1> HIDE DEF w
<1>2. /\ Formed(u) /\ Placed(u, w, j, e) /\ u.lost = L /\ u.unconfirmed = U
  BY <1>0, <1>1, PutPlaces
<1>3. /\ Known(u) = Known(t) \cup {j} /\ u.map[j] = e
      /\ \A k \in Known(t) : k # j /\ u.map[k] = t.map[k]
  BY <1>1, <1>2 DEF Placed
<1>4. Milder(u, t)
  <2>1. ASSUME NEW k \in Budgeted(u) PROVE k \in Budgeted(t) /\ u.map[k] = t.map[k]
    <3>1. k \in Known(u) /\ HasPreviews(u.map[k]) BY DEF Budgeted
    <3>2. k \in Known(t) BY <1>0, <1>3, <3>1
    <3> QED BY <1>0, <1>2, <1>3, <3>1, <3>2 DEF Budgeted
  <2> QED BY <2>1 DEF Milder
<1>5. Fits(u) BY <1>2, <1>4, MilderFits DEF Sound
<1>6. Truthful(u, V)
  <2>1. ASSUME NEW k \in Known(u), IsAuthoritativeTerminal(u, k) PROVE <<k, u.map[k].status>> \in V
    <3>1. CASE k = j BY <1>0, <1>3, <2>1, <3>1 DEF IsAuthoritativeTerminal
    <3>2. CASE k # j
      <4>1. k \in Known(t) /\ u.map[k] = t.map[k] BY <1>3, <3>2
      <4>2. IsAuthoritativeTerminal(t, k) BY <1>0, <1>2, <2>1, <4>1 DEF IsAuthoritativeTerminal
      <4> QED BY <4>1, <4>2 DEF Sound, Truthful
    <3> QED BY <3>1, <3>2
  <2> QED BY <2>1 DEF Truthful
<1>7. Sound(u, V) /\ j \in Known(u) /\ u.lost = L BY <1>2, <1>3, <1>5, <1>6 DEF Sound
<1>9. Shows(u, w, j, e.node) /\ (e.status \in Terminal /\ j \notin L => Finishes(u, j))
  <2>1. \A k \in Known(w) : k # j /\ k \in u.lost => k \in w.lost BY <1>1, <1>2
  <2>2. ~Final(w, j) /\ Told(w, j) = {} BY <1>1 DEF Final, Told
  <2> QED BY <1>2, <2>1, <2>2, PlacedShows DEF Finishes
<1>10. ToSet(E) \subseteq ToSet(t.evicted) => Shows(u, t, j, e.node) BY <1>8, <1>9, ShowsAfter
<1> QED BY <1>7, <1>9, <1>10

(* What evicting afterwards makes of a sound store. *)
LEMMA EvictedKeeps ==
  ASSUME NEW t, NEW V, NEW u, Sound(u, V), u.lost \subseteq t.lost
  PROVE  Keeps(EvictExecutionEntries(u), t, V) /\ Spares(EvictExecutionEntries(u), u)
<1> DEFINE w == EvictExecutionEntries(u)
<1>1. Sound(w, V) /\ Capped(w) /\ Fewer(w, u) BY EvictionKeeps
<1> HIDE DEF w
<1>2. w.lost \subseteq t.lost BY <1>1 DEF Fewer
<1>3. Keeps(w, t, V) BY <1>1, <1>2 DEF Keeps
<1>4. Spares(w, u) BY <1>1, FewerLeaves
<1> QED BY <1>3, <1>4 DEF w

(* Fewer notes, the same losses. *)
LEMMA VouchedKeeps ==
  ASSUME NEW t, NEW V, Sound(t, V), NEW U \in SUBSET Jobs, U \subseteq t.unconfirmed,
         NEW E \in Seq(Jobs)
  PROVE  LET u == Noting(t, t.lost, U, E)
         IN  /\ Keeps(u, t, V) /\ Known(u) = Known(t)
             /\ ToSet(E) \subseteq ToSet(t.evicted) => Spares(u, t)
<1> DEFINE u == Noting(t, t.lost, U, E)
<1>1. t.lost \in SUBSET Jobs BY NoteTypes DEF Sound
<1>8. ToSet(E) \subseteq ToSet(t.evicted) => Spares(u, t)
  <2>1. Agrees(t, t.lost, U) BY <1>1 DEF Agrees
  <2> QED BY <2>1, NotingSpares DEF Sound
<1>2. /\ Formed(u) /\ Known(u) = Known(t) /\ u.map = t.map /\ u.pins = t.pins
      /\ u.lost = t.lost /\ u.unconfirmed = U
  BY <1>1, NotingKeepsForm DEF Sound
<1> HIDE DEF u
<1>3. Quieter(u, t) BY <1>2 DEF Quieter, IsAuthoritativeTerminal
<1>4. Milder(u, t)
  <2>1. Budgeted(u) \subseteq Budgeted(t) BY <1>2 DEF Budgeted
  <2> QED BY <1>2, <2>1 DEF Milder
<1>5. Fits(u) BY <1>2, <1>4, MilderFits DEF Sound
<1>6. Truthful(u, V) /\ (Capped(t) => Capped(u)) BY <1>3, QuieterKeeps DEF Sound
<1>7. Keeps(u, t, V) BY <1>2, <1>5, <1>6 DEF Keeps, Sound
<1> QED BY <1>2, <1>7, <1>8 DEF u

(* apply(). *)
LEMMA ApplyKeeps ==
  ASSUME NEW t, NEW V, Sound(t, V), NEW ev, Tells(ev, V), NEW now \in Nat
  PROVE  /\ Keeps(Apply(t, ev, now), t, V)
         /\ (ev.job \in ToSet(t.evicted) => ev.job \in t.gone) => Hears(Apply(t, ev, now), t, ev)
<1> DEFINE j == ev.job
           E == Among(t.evicted, Jobs \ {j})
           cleared == t.unconfirmed \ {j}
           chatter == t.unconfirmed \union {j}
           e == NewEntry(now)
<1>1. /\ Formed(t) /\ j \in Jobs /\ t \in Stores /\ t.lost \in SUBSET Jobs
      /\ t.unconfirmed \in SUBSET Jobs /\ t.evicted \in Seq(Jobs) /\ E \in Seq(Jobs)
      /\ Known(t) \subseteq Jobs
  BY NoteTypes DEF Sound, Tells
<1>0. ToSet(E) \subseteq ToSet(t.evicted) BY <1>1, AmongWithin
<1> HIDE DEF E
<1>2. /\ [t EXCEPT !.evicted = E, !.unconfirmed = cleared] = Noting(t, t.lost, cleared, E)
      /\ [t EXCEPT !.unconfirmed = chatter] = Noting(t, t.lost, chatter, t.evicted)
  <2> HIDE DEF cleared, chatter
  <2>1. [t EXCEPT !.evicted = E, !.unconfirmed = cleared] = Noting(t, t.lost, cleared, E)
    BY <1>1 DEF Stores, Noting
  <2>2. [t EXCEPT !.unconfirmed = chatter] = Noting(t, t.lost, chatter, t.evicted)
    BY <1>1 DEF Stores, Noting
  <2> QED BY <2>1, <2>2
<1> DEFINE started == Noting(t, t.lost, cleared, E)
           noted == Noting(t, t.lost, chatter, t.evicted)
           new == j \notin Known(t)
           vouched == IF ev.kind = "started" THEN started ELSE IF new THEN noted ELSE t
<1>3. Apply(t, ev, now)
        = IF ~new THEN ApplyToState(vouched, ev, now)
          ELSE IF ev.kind # "started" /\ j \in ToSet(t.evicted) THEN t
          ELSE EvictExecutionEntries(ApplyToState(Put(vouched, j, e), ev, now))
  <2>1. vouched = IF ev.kind = "started"
                  THEN [t EXCEPT !.evicted = Among(@, Jobs \ {j}), !.unconfirmed = @ \ {j}]
                  ELSE IF new THEN [t EXCEPT !.unconfirmed = @ \union {j}]
                  ELSE t
    BY <1>2 DEF E
  <2> HIDE DEF vouched, e, j
  <2> QED BY <2>1 DEF Apply, e, j
<1>4. Keeps(started, t, V) /\ Known(started) = Known(t) /\ Spares(started, t)
  BY <1>0, <1>1, VouchedKeeps
<1>5. CASE ~new
  <2>1. Keeps(vouched, t, V) /\ Known(vouched) = Known(t) /\ Spares(vouched, t)
    <3> HIDE DEF started
    <3> QED BY <1>4, <1>5, StayKeeps, ShowsTheSame
  <2> HIDE DEF vouched
  <2> DEFINE u == ApplyToState(vouched, ev, now)
  <2>2. Keeps(u, vouched, V) /\ Hears(u, vouched, ev)
    BY <1>5, <2>1, EventKeeps DEF Keeps
  <2> HIDE DEF u
  <2>3. Keeps(u, t, V) BY <2>1, <2>2, KeepsTwice
  <2>4. Hears(u, t, ev)
    <3>1. Spares(u, u) BY ShowsTheSame
    <3> QED BY <2>1, <2>2, <3>1, HearsAfter
  <2> QED BY <1>3, <1>5, <2>3, <2>4 DEF u
<1>6. CASE new
  <2>1. /\ Whole(e) /\ ~HasPreviews(e) /\ ~(e.status \in Terminal)
        /\ e.node = "none"
    BY NewEntryWhole DEF Terminal
  <2> HIDE DEF e
  <2> DEFINE u == Put(vouched, j, e)
  <2>2. Sound(u, V) /\ j \in Known(u) /\ u.lost = t.lost /\ Shows(u, t, j, "none")
    <3>1. CASE ev.kind = "started"
      <4>1. u = Put(Noting(t, t.lost, cleared, E), j, e) BY <3>1
      <4>2. Agrees(t, t.lost, cleared) BY <1>1 DEF Agrees
      <4>3. Fresh(e, j, V) BY <2>1 DEF Fresh
      <4> HIDE DEF u, cleared
      <4> QED BY <1>0, <1>1, <1>6, <2>1, <4>1, <4>2, <4>3, AddedSound
    <3>2. CASE ev.kind # "started"
      <4>1. u = Put(Noting(t, t.lost, chatter, t.evicted), j, e) BY <1>6, <3>2
      <4>2. Agrees(t, t.lost, chatter) BY <1>1, <1>6 DEF Agrees
      <4>3. Fresh(e, j, V) BY <2>1 DEF Fresh
      <4> HIDE DEF u, chatter
      <4> QED BY <1>1, <1>6, <2>1, <4>1, <4>2, <4>3, AddedSound
    <3> QED BY <3>1, <3>2
  <2> HIDE DEF u
  <2> DEFINE w == ApplyToState(u, ev, now)
  <2>3. Keeps(w, u, V) /\ Hears(w, u, ev) BY <2>2, EventKeeps
  <2> HIDE DEF w
  <2>4. Keeps(EvictExecutionEntries(w), t, V) /\ Spares(EvictExecutionEntries(w), w)
    <3>1. Sound(w, V) /\ w.lost \subseteq t.lost BY <2>2, <2>3 DEF Keeps
    <3> QED BY <3>1, EvictedKeeps
  <2>5. Apply(t, ev, now) = IF ev.kind # "started" /\ j \in ToSet(t.evicted) THEN t
                            ELSE EvictExecutionEntries(w)
    <3> HIDE DEF vouched
    <3> QED BY <1>3, <1>6 DEF w, u
  <2> DEFINE x == EvictExecutionEntries(w)
  <2> HIDE DEF x
  <2>6. Keeps(x, t, V) BY <2>4 DEF x
  <2>7. Hears(x, t, ev)
    <3>1. Node(t, j) = "none" BY <1>6 DEF Node
    <3>2. Spares(u, t) BY <2>2, <3>1, ShowsTheSame
    <3> QED BY <2>3, <2>4, <3>2, HearsAfter DEF x
  <2>8. ASSUME j \in t.gone PROVE Hears(t, t, ev)
    <3>1. \A k : Leaves(t, t, k) BY ShowsTheSame DEF Spares
    <3> QED BY <2>8, <3>1 DEF Hears, Turns, Finishes, Got
  <2> QED BY <2>5, <2>6, <2>7, <2>8, StayKeeps DEF x
<1> QED BY <1>5, <1>6

(* register(). *)
LEMMA RegisterKeeps ==
  ASSUME NEW t, NEW V, Sound(t, V), NEW j \in Jobs, NEW now \in Nat
  PROVE  Keeps(Register(t, j, now), t, V) /\ Spares(Register(t, j, now), t)
<1> DEFINE E == Among(t.evicted, Jobs \ {j})
           U == t.unconfirmed \ {j}
           L == t.lost \ {j}
           e == NewEntry(now)
           fresh == [t EXCEPT !.evicted = E, !.unconfirmed = U]
           u == Put(Noting(t, L, U, E), j, e)
<1>1. /\ t \in Stores /\ t.lost \in SUBSET Jobs /\ E \in Seq(Jobs)
      /\ t.unconfirmed \in SUBSET Jobs /\ Known(t) \subseteq Jobs
  BY NoteTypes DEF Sound
<1>0. ToSet(E) \subseteq ToSet(t.evicted)
  <2>1. t.evicted \in Seq(Jobs) BY NoteTypes DEF Sound
  <2> QED BY <2>1, AmongWithin
<1> HIDE DEF E
<1>2. fresh = Noting(t, t.lost, U, E)
  <2> HIDE DEF U
  <2> QED BY <1>1 DEF Stores, Noting
<1>3. Register(t, j, now)
        = IF j \in Known(t) THEN fresh
          ELSE EvictExecutionEntries(Put([fresh EXCEPT !.lost = @ \ {j}], j, e))
  BY Zenon DEF Register, E
<1>4. CASE j \in Known(t)
  <2>1. Keeps(Noting(t, t.lost, U, E), t, V) /\ Spares(Noting(t, t.lost, U, E), t)
    BY <1>0, <1>1, VouchedKeeps
  <2> QED BY <1>2, <1>3, <1>4, <2>1
<1>5. CASE j \notin Known(t)
  <2>1. [fresh EXCEPT !.lost = @ \ {j}] = Noting(t, L, U, E)
    <3> HIDE DEF fresh
    <3>1. fresh.lost = t.lost BY <1>1, <1>2, NotingKeepsForm DEF Sound
    <3>2. [fresh EXCEPT !.lost = L] = Noting(t, L, U, E)
      <4> HIDE DEF L, U
      <4> QED BY <1>1, <1>2 DEF Stores, Noting
    <3> QED BY <3>1, <3>2
  <2>2. /\ Whole(e) /\ ~HasPreviews(e) /\ ~(e.status \in Terminal)
        /\ e.node = "none"
    BY NewEntryWhole DEF Terminal
  <2>3. Agrees(t, L, U) /\ L \subseteq t.lost BY <1>1, <1>5 DEF Agrees
  <2>4. Sound(u, V) /\ u.lost = L /\ Shows(u, t, j, "none")
    <3>1. Fresh(e, j, V) BY <2>2 DEF Fresh
    <3>2. u = Put(Noting(t, L, U, E), j, e) OBVIOUS
    <3> HIDE DEF L, U, e, u
    <3> QED BY <1>0, <1>1, <1>5, <2>2, <2>3, <3>1, <3>2, AddedSound
  <2>5. Register(t, j, now) = EvictExecutionEntries(u)
    <3> HIDE DEF fresh
    <3> QED BY <1>3, <1>5, <2>1
  <2> HIDE DEF u
  <2>6. Keeps(EvictExecutionEntries(u), t, V) /\ Spares(EvictExecutionEntries(u), u)
    BY <2>3, <2>4, EvictedKeeps
  <2>7. Spares(u, t)
    <3>1. Node(t, j) = "none" BY <1>5 DEF Node
    <3> QED BY <2>4, <3>1, ShowsTheSame
  <2>8. Spares(EvictExecutionEntries(u), t) BY <2>6, <2>7, ShowsAfter
  <2> QED BY <2>5, <2>6, <2>8
<1> QED BY <1>4, <1>5

(* restoreCompleted(), for a run that V says is completed. *)
LEMMA RestoreKeeps ==
  ASSUME NEW t, NEW V, Sound(t, V), NEW j \in Jobs, <<j, "completed">> \in V,
         NEW node \in Nodes, NEW then \in Nat
  PROVE  LET u == RestoreCompleted(t, j, node, then)
         IN  Keeps(u, t, V) /\ (j \notin Known(t) => Shows(u, t, j, node) /\ Finishes(u, j))
<1> DEFINE E == Among(t.evicted, Jobs \ {j})
           U == t.unconfirmed \ {j}
           L == t.lost \ {j}
           d == NewEntry(then)
           e == [d EXCEPT !.status = "completed", !.node = node, !.hydrated = TRUE, !.endedAt = then]
           u == Put(Noting(t, L, U, E), j, e)
<1>1. /\ t \in Stores /\ t.lost \in SUBSET Jobs /\ E \in Seq(Jobs)
      /\ t.unconfirmed \in SUBSET Jobs /\ Known(t) \subseteq Jobs
  BY NoteTypes DEF Sound
<1>0. ToSet(E) \subseteq ToSet(t.evicted)
  <2>1. t.evicted \in Seq(Jobs) BY NoteTypes DEF Sound
  <2> QED BY <2>1, AmongWithin
<1> HIDE DEF E
<1>2. RestoreCompleted(t, j, node, then) = IF j \in Known(t) THEN t ELSE EvictExecutionEntries(u)
  <2>1. [t EXCEPT !.evicted = E, !.unconfirmed = U, !.lost = L] = Noting(t, L, U, E)
    <3> HIDE DEF L, U
    <3> QED BY <1>1 DEF Stores, Noting
  <2>2. RestoreCompleted(t, j, node, then)
          = IF j \in Known(t) THEN t
            ELSE EvictExecutionEntries(Put([t EXCEPT !.evicted = E, !.unconfirmed = U, !.lost = L], j, e))
    BY Zenon DEF RestoreCompleted, E
  <2> QED BY <2>1, <2>2
<1>3. Whole(d) /\ ~HasPreviews(d) BY NewEntryWhole
<1> HIDE DEF d
<1>4. /\ e \in Entries /\ e.status = "completed" /\ e.ring = d.ring /\ e.still = d.still
      /\ e.logs = d.logs /\ e.heard = d.heard /\ e.dropped = d.dropped /\ e.node = node
  BY <1>3 DEF Whole, Entries, Statuses, Terminal
<1> HIDE DEF e
<1>5. Whole(e) /\ ~HasPreviews(e)
  <2>1. Booked(e) BY <1>3, <1>4, SameBooked DEF Whole
  <2> QED BY <1>3, <1>4, <2>1 DEF Whole, HasPreviews
<1>6. CASE j \notin Known(t)
  <2>1. Agrees(t, L, U) /\ L \subseteq t.lost BY <1>1, <1>6 DEF Agrees
  <2>2. Sound(u, V) /\ u.lost = L /\ Shows(u, t, j, node) /\ Finishes(u, j)
    <3>1. Fresh(e, j, V) BY <1>4, <1>5 DEF Fresh
    <3>2. u = Put(Noting(t, L, U, E), j, e) OBVIOUS
    <3>3. e.status \in Terminal /\ j \notin L BY <1>4 DEF Terminal
    <3> HIDE DEF L, U, u
    <3> QED BY <1>0, <1>1, <1>4, <1>6, <2>1, <3>1, <3>2, <3>3, AddedSound
  <2> HIDE DEF u
  <2> DEFINE w == EvictExecutionEntries(u)
  <2>3. Keeps(w, t, V) /\ Spares(w, u) BY <2>1, <2>2, EvictedKeeps
  <2> HIDE DEF w
  <2>4. Shows(w, t, j, node) /\ Finishes(w, j) BY <2>2, <2>3, ShowsAfter
  <2> QED BY <1>2, <1>6, <2>3, <2>4 DEF w
<1> QED BY <1>2, <1>6, StayKeeps

(* hydrateArtifacts(). *)
LEMMA HydrateKeeps ==
  ASSUME NEW t, NEW V, Sound(t, V), NEW j
  PROVE  Keeps(HydrateArtifacts(t, j), t, V) /\ Spares(HydrateArtifacts(t, j), t)
<1>1. CASE j \in Known(t)
  <2> DEFINE e == t.map[j]
             f == [e EXCEPT !.hydrated = TRUE]
             u == Put(t, j, f)
  <2>1. Whole(e) /\ Formed(t) /\ j \in Jobs BY <1>1, NoteTypes DEF Sound
  <2>2. /\ f \in Entries /\ f.status = e.status /\ f.ring = e.ring /\ f.still = e.still
        /\ f.logs = e.logs /\ f.heard = e.heard /\ f.dropped = e.dropped /\ f.node = e.node
    BY <2>1 DEF Whole, Entries
  <2> HIDE DEF f
  <2>3. Whole(f)
    <3>1. Booked(f) BY <2>1, <2>2, SameBooked DEF Whole
    <3> QED BY <2>1, <2>2, <3>1 DEF Whole
  <2>4. Formed(u) /\ Placed(u, t, j, f) /\ u.lost = t.lost /\ u.unconfirmed = t.unconfirmed
    BY <2>1, <2>3, PutPlaces
  <2>5. HydrateArtifacts(t, j) = u BY <1>1 DEF HydrateArtifacts, f
  <2> HIDE DEF u
  <2>6. HasPreviews(f) => HasPreviews(e) BY <2>2 DEF HasPreviews
  <2>7. Images(f) = Images(e) BY <2>2 DEF Images
  <2>8. Revises(u, t, j, f) BY <2>2, <2>4, <2>6, <2>7 DEF Revises
  <2>9. Spares(u, t)
    <3>1. Final(t, j) => f.status \in Terminal /\ j \notin u.lost
      BY <2>2, <2>4 DEF Final, IsAuthoritativeTerminal
    <3>3. Told(t, j) \subseteq f.heard BY <2>2 DEF Told
    <3>2. Shows(u, t, j, f.node) BY <2>4, <3>1, <3>3, PlacedShows
    <3> QED BY <1>1, <2>2, <3>2, ShowsTheSame DEF Node
  <2> QED BY <1>1, <2>4, <2>5, <2>8, <2>9, RevisionKeeps
<1>2. CASE j \notin Known(t) BY <1>2, StayKeeps, ShowsTheSame DEF HydrateArtifacts
<1> QED BY <1>1, <1>2

(* markLost(): the verdict of loss is not final. *)
Loses(u, t, V, j) == Sound(u, V) /\ u.lost \subseteq t.lost \cup {j} /\ (Capped(t) => Capped(u))

(* The frames of the lost run come under the budget. *)
LEMMA MarkLostLoses ==
  ASSUME NEW t, NEW V, Sound(t, V), NEW j, NEW now \in Nat
  PROVE  Loses(MarkLost(t, j, now), t, V, j) /\ Spares(MarkLost(t, j, now), t)
<1>1. CASE j \notin Known(t) \/ t.map[j].status \in Terminal
  <2>1. MarkLost(t, j, now) = t BY <1>1 DEF MarkLost
  <2> QED BY <2>1, ShowsTheSame DEF Loses
<1>2. CASE ~(j \notin Known(t) \/ t.map[j].status \in Terminal)
  <2> DEFINE e == t.map[j]
             f == [e EXCEPT !.status = "interrupted", !.endedAt = now, !.ring = {}, !.lostNote = TRUE]
             L == t.lost \union {j}
             u == [Put(t, j, f) EXCEPT !.lost = L]
             w == EnforcePreviewBudget(u)
  <2>1. Whole(e) /\ Formed(t) /\ j \in Jobs /\ L \in SUBSET Jobs
    <3>1. j \in Known(t) BY <1>2
    <3> QED BY <3>1, NoteTypes DEF Sound
  <2>2. /\ f \in Entries /\ f.status = "interrupted" /\ f.ring = {}
        /\ f.logs = e.logs /\ f.heard = e.heard /\ f.dropped = e.dropped /\ f.node = e.node
    BY <2>1 DEF Whole, Entries, Statuses, Terminal
  <2>3. Whole(f)
    <3>1. Booked(f) BY <2>1, <2>2, SameBooked DEF Whole
    <3> HIDE DEF f
    <3> QED BY <2>2, <3>1, FS_EmptySet DEF Whole
  <2>4. MarkLost(t, j, now) = w
    <3>1. MarkLost(t, j, now) = EnforcePreviewBudget([Put(t, j, f) EXCEPT !.lost = @ \union {j}])
      BY Zenon, <1>2 DEF MarkLost
    <3>2. Put(t, j, f).lost = t.lost
      <4> HIDE DEF f
      <4> QED BY <2>1, <2>3, PutPlaces
    <3> HIDE DEF f
    <3> QED BY <3>1, <3>2
  <2> HIDE DEF f
  <2>5. Formed(u) /\ Placed(u, t, j, f) /\ u.lost = L /\ u.unconfirmed = t.unconfirmed
    <3> HIDE DEF L
    <3> QED BY <2>1, <2>3, PutWithLosses
  <2> HIDE DEF u
  <2>6. Quieter(u, t) BY <1>2, <2>5 DEF Quieter, Placed, IsAuthoritativeTerminal
  <2>7. Formed(w) /\ Fits(w) /\ Quieter(w, u) /\ w.lost = u.lost /\ Spares(w, u)
    BY <2>5, Enforced
  <2> HIDE DEF w
  <2>11. Spares(w, t)
    <3>1. ~Final(t, j) BY <1>2 DEF Final, IsAuthoritativeTerminal
    <3>2. \A k \in Known(t) : k # j /\ k \in u.lost => k \in t.lost BY <2>5
    <3>5. Told(t, j) \subseteq f.heard BY <2>2 DEF Told
    <3>3. Shows(u, t, j, f.node) BY <2>5, <3>1, <3>2, <3>5, PlacedShows
    <3>4. Spares(u, t) BY <1>2, <2>2, <3>3, ShowsTheSame DEF Node
    <3> QED BY <2>7, <3>4, ShowsAfter
  <2>8. Truthful(u, V) /\ (Capped(t) => Capped(u)) BY <2>6, QuieterKeeps DEF Sound
  <2>9. Truthful(w, V) /\ (Capped(u) => Capped(w)) BY <2>7, <2>8, QuieterKeeps
  <2>10. Loses(w, t, V, j) BY <2>5, <2>7, <2>8, <2>9 DEF Loses, Sound
  <2> QED BY <2>4, <2>10, <2>11
<1> QED BY <1>1, <1>2

(* Other counts of views; fewer only where something is then evicted. *)
LEMMA Pinned ==
  ASSUME NEW t, NEW V, Sound(t, V), NEW p \in [Jobs -> Nat], NEW u, u = [t EXCEPT !.pins = p]
  PROVE  /\ Sound(u, V) /\ u.lost = t.lost /\ Spares(u, t)
         /\ (\A k \in Jobs : p[k] = 0 => t.pins[k] = 0) => Keeps(u, t, V)
<1>1. /\ u \in Stores /\ u.map = t.map /\ u.order = t.order /\ u.lost = t.lost
      /\ u.unconfirmed = t.unconfirmed /\ u.pins = p
      /\ u.gone = t.gone /\ u.evicted = t.evicted
  BY DEF Sound, Formed, Stores
<1>2. Known(u) = Known(t) /\ Known(t) \subseteq Jobs BY <1>1, NoteTypes DEF Known, Sound
<1>3. Formed(u) BY <1>1, <1>2 DEF Sound, Formed, Listed
<1>4. Budgeted(u) = Budgeted(t) BY <1>1, <1>2 DEF Budgeted
<1>5. Fits(u) BY <1>1, <1>4 DEF Sound, Fits, Frames
<1>6. Truthful(u, V) BY <1>1, <1>2 DEF Sound, Truthful, IsAuthoritativeTerminal
<1>7. Sound(u, V) BY <1>3, <1>5, <1>6 DEF Sound
<1>8. ASSUME \A k \in Jobs : p[k] = 0 => t.pins[k] = 0 PROVE Keeps(u, t, V)
  <2>1. Evictable(u) \subseteq Evictable(t)
    BY <1>1, <1>2, <1>8 DEF Evictable, IsAuthoritativeTerminal
  <2>2. Capped(t) => Capped(u) BY <1>2, <2>1 DEF Capped
  <2> QED BY <1>1, <1>7, <2>2 DEF Keeps
<1>9. Spares(u, t)
  <2>1. \A k : Node(u, k) = Node(t, k) /\ (Final(u, k) <=> Final(t, k))
    BY <1>1, <1>2 DEF Node, Final, IsAuthoritativeTerminal
  <2>3. \A k : Told(u, k) = Told(t, k) BY <1>1, <1>2 DEF Told
  <2>2. \A k : Turns(u, t, k, Node(t, k)) BY <1>1, <2>1, <2>3 DEF Turns
  <2> QED BY <2>2 DEF Spares, Leaves
<1> QED BY <1>1, <1>7, <1>8, <1>9

(* retain() and release(). *)
LEMMA RetainKeeps ==
  ASSUME NEW t, NEW V, Sound(t, V), NEW j \in Jobs
  PROVE  Keeps(Retain(t, j), t, V) /\ Spares(Retain(t, j), t)
<1> DEFINE p == [t.pins EXCEPT ![j] = @ + 1]
<1>1. t.pins \in [Jobs -> Nat] BY DEF Sound, Formed, Stores
<1>2. p \in [Jobs -> Nat] /\ \A k \in Jobs : p[k] = 0 => t.pins[k] = 0 BY <1>1
<1>3. Retain(t, j) = [t EXCEPT !.pins = p] BY Zenon DEF Retain
<1> HIDE DEF p
<1> QED BY <1>2, <1>3, Pinned

(* The last view that closes lets the entry go. *)
LEMMA ReleaseKeeps ==
  ASSUME NEW t, NEW V, Sound(t, V), NEW j \in Jobs
  PROVE  Keeps(Release(t, j), t, V) /\ Spares(Release(t, j), t)
<1> DEFINE p == [t.pins EXCEPT ![j] = @ - 1]
           z == [t.pins EXCEPT ![j] = 0]
           u == [t EXCEPT !.pins = p]
           w == [t EXCEPT !.pins = z]
<1>1. t.pins \in [Jobs -> Nat] BY DEF Sound, Formed, Stores
<1>2. Release(t, j) = IF t.pins[j] = 0 THEN t ELSE IF t.pins[j] > 1 THEN u
                      ELSE EvictExecutionEntries(w)
  BY Zenon DEF Release
<1>3. CASE t.pins[j] = 0 BY <1>2, <1>3, StayKeeps, ShowsTheSame
<1>4. CASE t.pins[j] > 1
  <2>1. p \in [Jobs -> Nat] /\ \A k \in Jobs : p[k] = 0 => t.pins[k] = 0
    <3>1. t.pins[j] - 1 \in Nat /\ t.pins[j] - 1 # 0 BY <1>1, <1>4
    <3> QED BY <1>1, <3>1
  <2> HIDE DEF p
  <2>2. Keeps(u, t, V) /\ Spares(u, t) BY <2>1, Pinned
  <2>3. t.pins[j] # 0 BY <1>4
  <2> HIDE DEF u
  <2> QED BY <1>2, <1>4, <2>2, <2>3
<1>5. CASE t.pins[j] # 0 /\ ~(t.pins[j] > 1)
  <2>1. z \in [Jobs -> Nat] BY <1>1
  <2> HIDE DEF z
  <2>2. Sound(w, V) /\ w.lost = t.lost /\ Spares(w, t) BY <2>1, Pinned
  <2> HIDE DEF w
  <2>3. Keeps(EvictExecutionEntries(w), t, V) /\ Spares(EvictExecutionEntries(w), w)
    BY <2>2, EvictedKeeps
  <2>4. Spares(EvictExecutionEntries(w), t) BY <2>2, <2>3, ShowsAfter
  <2> QED BY <1>2, <1>5, <2>3, <2>4
<1> QED BY <1>3, <1>4, <1>5

-----------------------------------------------------------------------------
(* The client.                                                             *)

(* Calm turns one after the other leave a tidy store tidy. *)
LEMMA CalmTwice ==
  ASSUME NEW c, NEW d, NEW b, NEW j
  PROVE  /\ Calm(d, c) /\ Calm(b, d) => Calm(b, c)
         /\ Calm(d, c) /\ Tidy(c.store, j) => Tidy(d.store, j)
         /\ Calm(c, c)
<1>1. Calm(d, c) /\ Calm(b, d) => Calm(b, c) BY ShowsAfter DEF Calm
<1>2. Calm(d, c) /\ Tidy(c.store, j) => Tidy(d.store, j) BY DEF Calm, Tidy, Spares, Leaves, Turns
<1> QED BY <1>1, <1>2, ShowsTheSame DEF Calm

(* Such turns one after the other, or none. *)
LEMMA AsideTwice ==
  ASSUME NEW c, NEW d, NEW b, NEW V, Aside(d, c, V), Aside(b, d, V)
  PROVE  Aside(b, c, V)
BY DEF Aside

(* No turn at all. *)
LEMMA AsideStays ==
  ASSUME NEW V, NEW c \in Clients(V)
  PROVE  Aside(c, c, V)
BY DEF Aside

(* The parts of a client. *)
LEMMA Parts ==
  ASSUME NEW V, NEW c \in Clients(V)
  PROVE  /\ c \in [store : Stores, conn : Conns(V), track : Tracks, http : SUBSET Exchanges(V),
                   now : Nat]
         /\ c.store \in Stores /\ c.conn \in Conns(V) /\ c.track \in Tracks
         /\ c.http \in SUBSET Exchanges(V) /\ c.now \in Nat
         /\ Sound(c.store, V) /\ Capped(c.store)
<1>1. c \in [store : Stores, conn : Conns(V), track : Tracks, http : SUBSET Exchanges(V), now : Nat]
      /\ Sound(c.store, V) /\ Capped(c.store)
  BY DEF Clients
<1> HIDE DEF Clients
<1> QED BY <1>1

(* A client with another store, other notes of its connection, or one more
   question. *)
LEMMA StoreTurn ==
  ASSUME NEW V, NEW c \in Clients(V), NEW s, Keeps(s, c.store, V), NEW d, d = [c EXCEPT !.store = s]
  PROVE  Aside(d, c, V) /\ d.store = s /\ d.conn = c.conn /\ d.http = c.http
<1>1. /\ c \in [store : Stores, conn : Conns(V), track : Tracks, http : SUBSET Exchanges(V),
                now : Nat]
      /\ Capped(c.store)
  BY Parts
<1>2. s \in Stores /\ Sound(s, V) /\ Capped(s) /\ s.lost \subseteq c.store.lost
  BY <1>1 DEF Keeps, Sound, Formed
<1>3. /\ d \in [store : Stores, conn : Conns(V), track : Tracks, http : SUBSET Exchanges(V),
                now : Nat]
      /\ d.store = s /\ d.conn = c.conn /\ d.http = c.http /\ d.track = c.track /\ d.now = c.now
  BY <1>1, <1>2
<1>4. d \in Clients(V) BY <1>2, <1>3 DEF Clients
<1> QED BY <1>2, <1>3, <1>4 DEF Aside

(* Other notes of the connection. *)
LEMMA ConnTurn ==
  ASSUME NEW V, NEW c \in Clients(V), NEW n \in Conns(V), NEW d, d = [c EXCEPT !.conn = n]
  PROVE  Aside(d, c, V) /\ d.store = c.store /\ d.conn = n /\ d.http = c.http
<1>1. /\ c \in [store : Stores, conn : Conns(V), track : Tracks, http : SUBSET Exchanges(V),
                now : Nat]
      /\ Sound(c.store, V) /\ Capped(c.store)
  BY Parts
<1>2. /\ d \in [store : Stores, conn : Conns(V), track : Tracks, http : SUBSET Exchanges(V),
                now : Nat]
      /\ d.store = c.store /\ d.conn = n /\ d.http = c.http /\ d.track = c.track /\ d.now = c.now
  BY <1>1
<1>3. d \in Clients(V) BY <1>1, <1>2 DEF Clients
<1> QED BY <1>2, <1>3 DEF Aside

(* Another question. *)
LEMMA AskTurn ==
  ASSUME NEW V, NEW c \in Clients(V), NEW j \in Jobs, NEW kind, NEW arg,
         \/ kind \in {"sight", "hydrate"} /\ arg = 0
         \/ kind = "page" /\ arg \in Spans
  PROVE  LET d == Ask(c, kind, j, arg)
         IN  /\ Aside(d, c, V) /\ d.store = c.store /\ d.conn = c.conn
             /\ d.http = c.http \union {[kind |-> kind, job |-> j, arg |-> arg,
                                         phase |-> "sent", body |-> <<>>]}
             /\ kind # "page" => Beside(d, c)
<1> DEFINE r == [kind |-> kind, job |-> j, arg |-> arg, phase |-> "sent", body |-> <<>>]
           d == [c EXCEPT !.http = @ \union {r}]
<1>1. /\ c \in [store : Stores, conn : Conns(V), track : Tracks, http : SUBSET Exchanges(V),
                now : Nat]
      /\ Sound(c.store, V) /\ Capped(c.store)
  BY Parts
<1>2. r \in Exchanges(V) /\ r.phase = "sent" /\ r.kind = kind BY DEF Exchanges
<1>3. Ask(c, kind, j, arg) = d BY DEF Ask
<1> HIDE DEF r
<1>4. /\ d \in [store : Stores, conn : Conns(V), track : Tracks, http : SUBSET Exchanges(V),
                now : Nat]
      /\ d.store = c.store /\ d.conn = c.conn /\ d.http = c.http \union {r}
      /\ d.track = c.track /\ d.now = c.now
  BY <1>1, <1>2
<1> HIDE DEF d
<1>5. d \in Clients(V) BY <1>1, <1>4 DEF Clients
<1>6. Aside(d, c, V) BY <1>2, <1>4, <1>5 DEF Aside
<1>7. kind # "page" => Beside(d, c) BY <1>2, <1>4 DEF Beside
<1> QED BY <1>3, <1>4, <1>6, <1>7 DEF r

(* emit(): every event, one after the other. *)
LEMMA EmitTurn ==
  ASSUME NEW V, NEW c \in Clients(V), NEW events, Len(events) \in Nat,
         \A i \in 1..Len(events) : Tells(events[i], V)
  PROVE  LET d == Emit(c, events)
         IN  /\ Aside(d, c, V) /\ d.conn = c.conn /\ d.http = c.http
             /\ \E g : /\ g[0] = c.store /\ g[Len(events)] = d.store
                       /\ \A i \in 1..Len(events) :
                            Sound(g[i - 1], V) /\ g[i] = Apply(g[i - 1], events[i], c.now)
<1> DEFINE n == Len(events)
           t == c.store
           X == {s \in Stores : Keeps(s, t, V)}
           Do(s, i) == Apply(s, events[i], c.now)
           step == [i \in 1..n |-> [s \in X |-> Do(s, i)]]
           R(g) == [i \in 0..n |-> IF i = 0 THEN t ELSE Apply(g[i - 1], events[i], c.now)]
           g == CHOOSE h : h = R(h)
<1>1. n \in Nat /\ t \in Stores /\ Sound(t, V) /\ c.now \in Nat BY Parts
<1>2. t \in X BY <1>1, StayKeeps
<1>3. ASSUME NEW i \in 1..n, NEW s \in X PROVE Do(s, i) \in X
  <2>1. Sound(s, V) /\ Tells(events[i], V) BY DEF Keeps
  <2> DEFINE u == Do(s, i)
  <2>2. Keeps(u, s, V) BY <1>1, <2>1, ApplyKeeps
  <2> HIDE DEF u
  <2>3. Keeps(u, t, V) BY <2>2, KeepsTwice
  <2>4. u \in Stores BY <2>2 DEF Keeps, Sound, Formed
  <2> QED BY <2>3, <2>4 DEF u
<1>4. step \in [1..n -> [X -> X]]
  <2> HIDE DEF X, Do, n
  <2> QED BY <1>3
<1>5. PICK f : RunOf(f, X, n, t, step)
  <2> HIDE DEF step, n, X, t
  <2> QED BY <1>1, <1>2, <1>4, Iterate
<1>6. f = R(f)
  <2>1. f \in [0..n -> X] /\ f[0] = t /\ \A i \in 1..n : f[i] = step[i][f[i - 1]]
    BY <1>5 DEF RunOf
  <2>2. ASSUME NEW i \in 1..n PROVE f[i] = Do(f[i - 1], i)
    <3>1. i - 1 \in 0..n BY <1>1
    <3>2. f[i - 1] \in X BY <2>1, <3>1
    <3> HIDE DEF X, Do, n
    <3> QED BY <2>1, <3>2
  <2>3. ASSUME NEW i \in 0..n
        PROVE  f[i] = IF i = 0 THEN t ELSE Apply(f[i - 1], events[i], c.now)
    <3>1. i = 0 \/ i \in 1..n BY <1>1
    <3> HIDE DEF n
    <3> QED BY <2>1, <2>2, <3>1
  <2> HIDE DEF n, X
  <2> QED BY <2>1, <2>3
<1>7. g = R(g)
  <2> HIDE DEF R
  <2> QED BY <1>6
<1> HIDE DEF g
<1>8. g[0] = t /\ \A i \in 1..n : g[i] = Do(g[i - 1], i)
  <2>1. \A i \in 0..n : g[i] = IF i = 0 THEN t ELSE Apply(g[i - 1], events[i], c.now)
    <3> HIDE DEF n
    <3> QED BY <1>7
  <2>2. 0 \in 0..n /\ \A i \in 1..n : i \in 0..n /\ i # 0 BY <1>1
  <2> HIDE DEF n
  <2> QED BY <2>1, <2>2
<1>9. \A i \in 0..n : g[i] \in X
  <2> HIDE DEF X, Do, n
  <2>1. \A i \in 1..n : g[i - 1] \in X => g[i] \in X BY <1>3, <1>8
  <2> QED BY <1>1, <1>2, <1>8, <2>1, LoopInduction
<1>10. Emit(c, events) = [c EXCEPT !.store = g[n]] BY Zenon DEF Emit, g
<1>11. Keeps(g[n], t, V) /\ \A i \in 1..n : Sound(g[i - 1], V)
  <2>1. n \in 0..n /\ \A i \in 1..n : i - 1 \in 0..n BY <1>1
  <2> HIDE DEF n
  <2>2. g[n] \in X /\ \A i \in 1..n : g[i - 1] \in X BY <1>9, <2>1
  <2> QED BY <2>2 DEF Keeps
<1> HIDE DEF n
<1> DEFINE s == g[n]
           d == Emit(c, events)
<1>12. Keeps(s, c.store, V) /\ d = [c EXCEPT !.store = s] BY <1>10, <1>11
<1> HIDE DEF s, d
<1>13. Aside(d, c, V) /\ d.conn = c.conn /\ d.http = c.http /\ d.store = s BY <1>12, StoreTurn
<1>14. /\ g[0] = c.store /\ g[n] = d.store
       /\ \A i \in 1..n : Sound(g[i - 1], V) /\ g[i] = Apply(g[i - 1], events[i], c.now)
  BY <1>8, <1>11, <1>13 DEF s
<1> QED BY <1>13, <1>14 DEF d, n

(* A frame says nothing of a run that the server does not. *)
LEMMA NormalizedTells ==
  ASSUME NEW V, NEW c, NEW f \in Messages(V)
  PROVE  LET events == Normalized(c, f)
         IN  Len(events) \in Nat /\ \A i \in 1..Len(events) : Tells(events[i], V)
<1> DEFINE events == Normalized(c, f)
           Good(s) == Len(s) \in Nat /\ \A i \in 1..Len(s) : Tells(s[i], V)
<1>1. /\ f.job \in Jobs /\ f.kind \in {"run_started", "node", "preview", "log"} \cup Ends
      /\ f.kind = "node" => f.arg \in Nodes
      /\ f.kind = "preview" => f.arg \in Slots \cup {Still}
      /\ f.kind = "log" => f.arg \in Nat
      /\ f.kind \in Ends => <<f.job, EndOf[f.kind]>> \in V
  BY DEF Messages
<1>2. ASSUME NEW e, Tells(e, V) PROVE Good(<<e>>)
  <2>1. Len(<<e>>) = 1 /\ \A i \in 1..1 : <<e>>[i] = e OBVIOUS
  <2> QED BY <1>2, <2>1
<1>3. CASE f.kind \in Ends /\ f.job \in c.conn.terminal
  <2>1. events = <<>> BY <1>3 DEF Normalized
  <2>2. Good(<<>>) OBVIOUS
  <2> HIDE DEF Good, events
  <2>3. Good(events) BY <2>1, <2>2
  <2> QED BY <2>3 DEF Good, events
<1>4. CASE ~(f.kind \in Ends /\ f.job \in c.conn.terminal)
  <2>1. Good(events)
    <3>1. CASE f.kind \in {"run_finished", "completed"}
      <4> DEFINE e == Event(f.job, "completed")
      <4>1. events = <<e>> BY <1>4, <3>1 DEF Normalized
      <4>2. EndOf[f.kind] = "completed" /\ f.kind \in Ends BY <3>1 DEF EndOf, Ends
      <4>3. Tells(e, V) BY <1>1, <4>2 DEF Tells, Event, Terminal
      <4> HIDE DEF e, events, Good
      <4> QED BY <1>2, <4>1, <4>3
    <3>2. CASE f.kind = "cancelled"
      <4> DEFINE e == Event(f.job, "interrupted")
      <4>1. events = <<e>> BY <1>4, <3>2 DEF Normalized
      <4>2. EndOf[f.kind] = "interrupted" /\ f.kind \in Ends BY <3>2 DEF EndOf, Ends
      <4>3. Tells(e, V) BY <1>1, <4>2 DEF Tells, Event, Terminal
      <4> HIDE DEF e, events, Good
      <4> QED BY <1>2, <4>1, <4>3
    <3>3. CASE f.kind = "failed"
      <4> DEFINE d == NodeStates(f.job, "error", FALSE)
                 e == Event(f.job, "error")
      <4>1. events = <<d, e>> BY <1>4, <3>3 DEF Normalized
      <4>2. EndOf[f.kind] = "error" /\ f.kind \in Ends BY <3>3 DEF EndOf, Ends
      <4>3. Tells(e, V) BY <1>1, <4>2 DEF Tells, Event, Terminal
      <4>4. Tells(d, V) BY <1>1 DEF Tells, NodeStates, Nodes, NodeEnds
      <4> HIDE DEF d, e
      <4>5. Len(<<d, e>>) = 2 /\ \A i \in 1..2 : <<d, e>>[i] = d \/ <<d, e>>[i] = e OBVIOUS
      <4>6. Good(<<d, e>>) BY <4>3, <4>4, <4>5
      <4> HIDE DEF events, Good
      <4> QED BY <4>1, <4>6
    <3>4. CASE f.kind = "run_started"
      <4> DEFINE e == Event(f.job, "started")
      <4>1. events = <<e>> BY <1>4, <3>4 DEF Normalized
      <4>2. Tells(e, V) BY <1>1 DEF Tells, Event
      <4> HIDE DEF e, events, Good
      <4> QED BY <1>2, <4>1, <4>2
    <3>5. CASE f.kind = "node"
      <4> DEFINE e == NodeStates(f.job, f.arg, FALSE)
      <4>1. events = <<e>> BY <1>4, <3>5 DEF Normalized
      <4>2. Tells(e, V) BY <1>1, <3>5 DEF Tells, NodeStates
      <4> HIDE DEF e, events, Good
      <4> QED BY <1>2, <4>1, <4>2
    <3>6. CASE f.kind = "preview"
      <4> DEFINE e == [job |-> f.job, kind |-> "preview", slot |-> f.arg]
      <4>1. events = <<e>> BY <1>4, <3>6 DEF Normalized
      <4>2. Tells(e, V) BY <1>1, <3>6 DEF Tells
      <4> HIDE DEF e, events, Good
      <4> QED BY <1>2, <4>1, <4>2
    <3>7. CASE f.kind = "log"
      <4> DEFINE e == [job |-> f.job, kind |-> "log", seq |-> f.arg]
      <4>1. events = <<e>> BY <1>4, <3>7 DEF Normalized
      <4>2. Tells(e, V) BY <1>1, <3>7 DEF Tells
      <4> HIDE DEF e, events, Good
      <4> QED BY <1>2, <4>1, <4>2
    <3> HIDE DEF events, Good
    <3> QED BY <1>1, <3>1, <3>2, <3>3, <3>4, <3>5, <3>6, <3>7 DEF Ends
  <2> QED BY <2>1
<1> QED BY <1>3, <1>4

(* One event, of any kind but a failure. *)
LEMMA OneHeard ==
  ASSUME NEW V, NEW t, Sound(t, V), NEW e, Tells(e, V), NEW now \in Nat, Tidy(t, e.job),
         e.kind # "error"
  PROVE  LET u == Apply(t, e, now)
         IN  /\ Shows(u, t, e.job, Heard(t, e))
             /\ e.kind \in Terminal => Finishes(u, e.job)
             /\ e.kind = "log" => Got(u, e.job, e.seq)
<1> DEFINE u == Apply(t, e, now)
<1>1. Hears(u, t, e) BY ApplyKeeps DEF Tidy
<1> HIDE DEF u
<1> QED BY <1>1 DEF Hears, Shows, u

(* The two events of a failure. *)
LEMMA FailureHeard ==
  ASSUME NEW V, NEW t, Sound(t, V), NEW j \in Jobs, <<j, "error">> \in V, NEW now \in Nat,
         Tidy(t, j), NEW u, u = Apply(t, NodeStates(j, "error", FALSE), now), Sound(u, V)
  PROVE  LET w == Apply(u, Event(j, "error"), now)
         IN  Shows(w, t, j, "error") /\ Finishes(w, j)
<1> DEFINE d == NodeStates(j, "error", FALSE)
           e == Event(j, "error")
           w == Apply(u, e, now)
<1>1. /\ d.job = j /\ d.kind = "nodeStates" /\ d.node = "error" /\ d.snapshot = FALSE
      /\ e.job = j /\ e.kind = "error"
  BY DEF NodeStates, Event
<1> HIDE DEF d, e
<1>2. Tells(d, V) /\ Tells(e, V) BY <1>1 DEF Tells, Nodes, NodeEnds, Terminal
<1>3. Shows(u, t, j, "error")
  <2>1. Heard(t, d) = "error" BY <1>1 DEF Heard
  <2> QED BY <1>1, <1>2, <2>1, OneHeard DEF d
<1>4. Tidy(u, j) BY <1>3 DEF Shows, Turns, Tidy
<1>5. Hears(w, u, e) BY <1>1, <1>2, <1>4, ApplyKeeps DEF Tidy
<1> HIDE DEF w
<1>6. Finishes(w, j) /\ \A k : k # j => Leaves(w, u, k) BY <1>1, <1>5 DEF Hears, Terminal
<1>7. Leaves(w, u, j)
  <2>1. Node(u, j) = "error" \/ j \in u.gone BY <1>3 DEF Shows, Turns
  <2>2. Heard(u, e) = Node(u, j) BY <1>1 DEF Heard
  <2> QED BY <1>1, <1>5, <2>1, <2>2 DEF Hears, Leaves
<1>8. Spares(w, u) BY <1>6, <1>7 DEF Spares
<1>9. Shows(w, t, j, "error") BY <1>3, <1>8, ShowsAfter
<1> QED BY <1>6, <1>9 DEF w, e

(* What comes of the events that are made of a frame. *)
LEMMA NormalizedHeard ==
  ASSUME NEW V, NEW c, Sound(c.store, V), NEW f \in Messages(V), Tidy(c.store, f.job), c.now \in Nat,
         NEW events, events = Normalized(c, f), NEW g, g[0] = c.store,
         \A i \in 1..Len(events) :
           Sound(g[i - 1], V) /\ g[i] = Apply(g[i - 1], events[i], c.now)
  PROVE  LET u == g[Len(events)]
         IN  /\ Shows(u, c.store, f.job, Said(c, f))
             /\ IsEnd(c, f) => Finishes(u, f.job)
             /\ f.kind = "log" => Got(u, f.job, f.arg)
<1> DEFINE t == c.store
           u == g[Len(events)]
           j == f.job
           Good(w) == /\ Shows(w, t, j, Said(c, f)) /\ (IsEnd(c, f) => Finishes(w, j))
                      /\ f.kind = "log" => Got(w, j, f.arg)
<1>1. /\ j \in Jobs /\ f.kind \in {"run_started", "node", "preview", "log"} \cup Ends
      /\ f.kind = "node" => f.arg \in Nodes
      /\ f.kind = "preview" => f.arg \in Slots \cup {Still}
      /\ f.kind = "log" => f.arg \in Nat
      /\ f.kind \in Ends => <<j, EndOf[f.kind]>> \in V
  BY DEF Messages
<1>2. ASSUME NEW e, events = <<e>>, Tells(e, V), e.job = j, e.kind # "error",
             Heard(t, e) = Said(c, f), IsEnd(c, f) => e.kind \in Terminal,
             f.kind = "log" => e.kind = "log" /\ e.seq = f.arg
      PROVE  Good(u)
  <2>1. Len(events) = 1 /\ events[1] = e BY <1>2
  <2>2. 1 \in 1..1 /\ 1 - 1 = 0 OBVIOUS
  <2>3. g[1] = Apply(g[1 - 1], events[1], c.now) BY <2>1, <2>2
  <2>4. u = Apply(t, e, c.now) BY <2>1, <2>2, <2>3
  <2>5. Shows(Apply(t, e, c.now), t, j, Said(c, f))
        /\ (e.kind \in Terminal => Finishes(Apply(t, e, c.now), j))
        /\ (e.kind = "log" => Got(Apply(t, e, c.now), j, e.seq))
    BY <1>2, OneHeard
  <2> HIDE DEF u
  <2> QED BY <1>2, <2>4, <2>5
<1>3. CASE f.kind \in Ends /\ j \in c.conn.terminal
  <2>1. events = <<>> BY <1>3 DEF Normalized
  <2>2. u = t BY <2>1
  <2>3. Said(c, f) = Node(t, j) /\ f.kind # "log" BY <1>3 DEF Said, Ends
  <2>4. Shows(t, t, j, Node(t, j)) BY ShowsTheSame
  <2> HIDE DEF u
  <2> QED BY <1>3, <2>2, <2>3, <2>4 DEF IsEnd, u
<1>4. ASSUME ~(f.kind \in Ends /\ j \in c.conn.terminal) PROVE Good(u)
  <2>1. CASE f.kind \in {"run_finished", "completed"}
    <3> DEFINE e == Event(j, "completed")
    <3>1. events = <<e>> BY <1>4, <2>1 DEF Normalized
    <3>2. EndOf[f.kind] = "completed" /\ f.kind \in Ends BY <2>1 DEF EndOf, Ends
    <3>3. Tells(e, V) /\ e.job = j /\ e.kind = "completed"
      BY <1>1, <3>2 DEF Tells, Event, Terminal
    <3> HIDE DEF e
    <3>4. Heard(t, e) = Said(c, f) BY <2>1, <3>3 DEF Heard, Said
    <3> HIDE DEF Good, u
    <3> QED BY <1>2, <2>1, <3>1, <3>3, <3>4 DEF Terminal
  <2>2. CASE f.kind = "cancelled"
    <3> DEFINE e == Event(j, "interrupted")
    <3>1. events = <<e>> BY <1>4, <2>2 DEF Normalized
    <3>2. EndOf[f.kind] = "interrupted" /\ f.kind \in Ends BY <2>2 DEF EndOf, Ends
    <3>3. Tells(e, V) /\ e.job = j /\ e.kind = "interrupted"
      BY <1>1, <3>2 DEF Tells, Event, Terminal
    <3> HIDE DEF e
    <3>4. Heard(t, e) = Said(c, f) BY <2>2, <3>3 DEF Heard, Said
    <3> HIDE DEF Good, u
    <3> QED BY <1>2, <2>2, <3>1, <3>3, <3>4 DEF Terminal
  <2>3. CASE f.kind = "failed"
    <3> DEFINE d == NodeStates(j, "error", FALSE)
               e == Event(j, "error")
    <3>1. events = <<d, e>> BY <1>4, <2>3 DEF Normalized
    <3>2. <<j, "error">> \in V /\ f.kind \in Ends BY <1>1, <2>3 DEF EndOf, Ends
    <3> HIDE DEF d, e
    <3>3. Len(events) = 2 /\ events[1] = d /\ events[2] = e BY <3>1
    <3>4. 1 \in 1..2 /\ 2 \in 1..2 /\ 1 - 1 = 0 /\ 2 - 1 = 1 OBVIOUS
    <3>5. g[1] = Apply(t, d, c.now) /\ g[2] = Apply(g[1], e, c.now) /\ Sound(g[1], V)
      BY <3>3, <3>4
    <3>6. u = g[2] BY <3>3
    <3>7. Said(c, f) = "error" BY <1>4, <2>3, <3>2 DEF Said
    <3> HIDE DEF u
    <3> DEFINE v == g[1]
               w == Apply(v, e, c.now)
    <3>8. v = Apply(t, d, c.now) /\ Sound(v, V) /\ Sound(t, V) /\ c.now \in Nat /\ Tidy(t, j)
      BY <3>5
    <3>9. u = w BY <3>5, <3>6
    <3> HIDE DEF v, t
    <3>10. j \in Jobs BY <1>1
    <3> HIDE DEF j
    <3>11. Shows(w, t, j, "error") /\ Finishes(w, j)
      BY <3>2, <3>8, <3>10, FailureHeard DEF d, e
    <3> QED BY <2>3, <3>7, <3>9, <3>11 DEF t, j
  <2>4. CASE f.kind = "run_started"
    <3> DEFINE e == Event(j, "started")
    <3>1. events = <<e>> BY <1>4, <2>4 DEF Normalized
    <3>2. Tells(e, V) /\ e.job = j /\ e.kind = "started" BY <1>1 DEF Tells, Event
    <3> HIDE DEF e
    <3>3. Heard(t, e) = Said(c, f) BY <2>4, <3>2 DEF Heard, Said
    <3>4. ~IsEnd(c, f) BY <2>4 DEF IsEnd, Ends
    <3> HIDE DEF Good, u
    <3> QED BY <1>2, <2>4, <3>1, <3>2, <3>3, <3>4
  <2>5. CASE f.kind = "node"
    <3> DEFINE e == NodeStates(j, f.arg, FALSE)
    <3>1. events = <<e>> BY <1>4, <2>5 DEF Normalized
    <3>2. Tells(e, V) /\ e.job = j /\ e.kind = "nodeStates" /\ e.node = f.arg /\ e.snapshot = FALSE
      BY <1>1, <2>5 DEF Tells, NodeStates
    <3> HIDE DEF e
    <3>3. Heard(t, e) = Said(c, f) BY <2>5, <3>2 DEF Heard, Said
    <3>4. ~IsEnd(c, f) BY <2>5 DEF IsEnd, Ends
    <3> HIDE DEF Good, u
    <3> QED BY <1>2, <2>5, <3>1, <3>2, <3>3, <3>4
  <2>6. CASE f.kind = "preview"
    <3> DEFINE e == [job |-> j, kind |-> "preview", slot |-> f.arg]
    <3>1. events = <<e>> BY <1>4, <2>6 DEF Normalized
    <3>2. Tells(e, V) /\ e.job = j /\ e.kind = "preview" BY <1>1, <2>6 DEF Tells
    <3> HIDE DEF e
    <3>3. Heard(t, e) = Said(c, f) BY <2>6, <3>2 DEF Heard, Said
    <3>4. ~IsEnd(c, f) BY <2>6 DEF IsEnd, Ends
    <3> HIDE DEF Good, u
    <3> QED BY <1>2, <2>6, <3>1, <3>2, <3>3, <3>4
  <2>7. CASE f.kind = "log"
    <3> DEFINE e == [job |-> j, kind |-> "log", seq |-> f.arg]
    <3>1. events = <<e>> BY <1>4, <2>7 DEF Normalized
    <3>2. Tells(e, V) /\ e.job = j /\ e.kind = "log" /\ e.seq = f.arg BY <1>1, <2>7 DEF Tells
    <3> HIDE DEF e
    <3>3. Heard(t, e) = Said(c, f) BY <2>7, <3>2 DEF Heard, Said
    <3>4. ~IsEnd(c, f) BY <2>7 DEF IsEnd, Ends
    <3> HIDE DEF Good, u
    <3> QED BY <1>2, <2>7, <3>1, <3>2, <3>3, <3>4
  <2> HIDE DEF Good, u
  <2> QED BY <1>1, <2>1, <2>2, <2>3, <2>4, <2>5, <2>6, <2>7 DEF Ends
<1> QED BY <1>3, <1>4

(* A frame goes through the normalizer to the store. *)
LEMMA EmitRawTurn ==
  ASSUME NEW V, NEW c \in Clients(V), NEW f \in Messages(V)
  PROVE  LET d == EmitRaw(c, f)
         IN  /\ Aside(d, c, V) /\ d.http = c.http
             /\ d.conn.passes = c.conn.passes /\ d.conn.holes = c.conn.holes
             /\ d.conn.cursor = c.conn.cursor
             /\ Tidy(c.store, f.job) => Minds(d, c, f)
<1> DEFINE T == IF f.kind \in Ends THEN c.conn.terminal \union {f.job} ELSE c.conn.terminal
           n == [c.conn EXCEPT !.terminal = T]
           b == [c EXCEPT !.conn = n]
           events == Normalized(c, f)
           d == Emit(b, events)
<1>1. c.conn \in Conns(V) /\ f.job \in Jobs BY Parts DEF Messages
<1>2. /\ n \in Conns(V) /\ n.passes = c.conn.passes /\ n.holes = c.conn.holes
      /\ n.cursor = c.conn.cursor
      /\ n.wire = c.conn.wire /\ n.up = c.conn.up /\ n.terminal = T
  <2>1. T \in SUBSET Jobs BY <1>1 DEF Conns
  <2> HIDE DEF T
  <2> QED BY <1>1, <2>1 DEF Conns
<1>3. EmitRaw(c, f) = d
  BY Zenon DEF EmitRaw
<1> HIDE DEF n, T
<1>4. Aside(b, c, V) /\ b.conn = n /\ b.http = c.http /\ b.store = c.store /\ b.now = c.now
  BY <1>2, ConnTurn DEF Aside
<1> HIDE DEF b
<1>5. Len(events) \in Nat /\ \A i \in 1..Len(events) : Tells(events[i], V) BY NormalizedTells
<1>6. events = Normalized(c, f) OBVIOUS
<1> HIDE DEF events
<1>7. /\ Aside(d, b, V) /\ d.conn = b.conn /\ d.http = b.http
      /\ \E g : /\ g[0] = b.store /\ g[Len(events)] = d.store
                /\ \A i \in 1..Len(events) :
                     Sound(g[i - 1], V) /\ g[i] = Apply(g[i - 1], events[i], b.now)
  <2>1. b \in Clients(V) BY <1>4 DEF Aside
  <2> QED BY <1>5, <2>1, EmitTurn
<1> HIDE DEF d
<1>8. Aside(d, c, V) BY <1>4, <1>7, AsideTwice
<1>9. ASSUME Tidy(c.store, f.job) PROVE Minds(d, c, f)
  <2>1. PICK g : /\ g[0] = c.store /\ g[Len(events)] = d.store
                 /\ \A i \in 1..Len(events) :
                      Sound(g[i - 1], V) /\ g[i] = Apply(g[i - 1], events[i], c.now)
    BY <1>4, <1>7
  <2>2. Sound(c.store, V) /\ c.now \in Nat BY Parts
  <2>3. /\ Shows(d.store, c.store, f.job, Said(c, f))
        /\ IsEnd(c, f) => Finishes(d.store, f.job)
        /\ f.kind = "log" => Got(d.store, f.job, f.arg)
    BY <1>6, <1>9, <2>1, <2>2, NormalizedHeard
  <2> QED BY <1>2, <1>4, <1>7, <2>3 DEF Minds, T
<1> QED BY <1>2, <1>3, <1>4, <1>7, <1>8, <1>9

(* A job first seen in its middle is looked at. *)
LEMMA NoteTurn ==
  ASSUME NEW V, NEW c \in Clients(V), NEW f \in Messages(V)
  PROVE  LET d == NoteLiveJobEvent(c, f)
         IN  Aside(d, c, V) /\ Calm(d, c) /\ Beside(d, c)
<1> DEFINE n == [c.conn EXCEPT !.seen = @ \union {f.job}]
           b == [c EXCEPT !.conn = n]
           a == Ask(b, "sight", f.job, 0)
<1>1. c.conn \in Conns(V) /\ f.job \in Jobs BY Parts DEF Messages
<1>2. /\ n \in Conns(V) /\ n.wire = c.conn.wire /\ n.terminal = c.conn.terminal /\ n.up = c.conn.up
      /\ n.passes = c.conn.passes /\ n.holes = c.conn.holes /\ n.cursor = c.conn.cursor
  BY <1>1 DEF Conns
<1>3. NoteLiveJobEvent(c, f) = IF f.kind = "preview" \/ f.job \in c.conn.seen THEN c
                               ELSE IF f.seq <= 1 THEN b ELSE a
  BY Zenon DEF NoteLiveJobEvent
<1> HIDE DEF n
<1>4. Aside(b, c, V) /\ b.store = c.store /\ b.conn = n /\ b.http = c.http BY <1>2, ConnTurn
<1> HIDE DEF b
<1>5. Aside(a, b, V) /\ a.store = b.store /\ a.conn = b.conn /\ Beside(a, b)
  <2>1. b \in Clients(V) BY <1>4 DEF Aside
  <2> QED BY <1>1, <2>1, AskTurn
<1> HIDE DEF a
<1>6. Aside(a, c, V) BY <1>4, <1>5, AsideTwice
<1>7. Calm(a, c) /\ Calm(b, c) /\ Calm(c, c) BY <1>2, <1>4, <1>5, ShowsTheSame DEF Calm
<1>8. Beside(a, c) /\ Beside(b, c) /\ Beside(c, c) BY <1>2, <1>4, <1>5 DEF Beside
<1> QED BY <1>3, <1>4, <1>6, <1>7, <1>8, AsideStays

(* A live frame. *)
LEMMA IngestTurn ==
  ASSUME NEW V, NEW c \in Clients(V), NEW f \in Messages(V)
  PROVE  Aside(Ingest(c, f), c, V)
<1> DEFINE a == NoteLiveJobEvent(c, f)
           b == EmitRaw(a, f)
           d == Ask(b, "hydrate", f.job, 0)
<1>1. f.job \in Jobs BY DEF Messages
<1>2. Aside(a, c, V) BY NoteTurn
<1>3. Ingest(c, f) = IF f.kind = "completed" THEN d ELSE b BY DEF Ingest, Noticed
<1> HIDE DEF a
<1>4. Aside(b, a, V)
  <2>1. a \in Clients(V) BY <1>2 DEF Aside
  <2> QED BY <2>1, EmitRawTurn
<1> HIDE DEF b
<1>5. Aside(d, b, V)
  <2>1. b \in Clients(V) BY <1>4 DEF Aside
  <2> QED BY <1>1, <2>1, AskTurn
<1> HIDE DEF d
<1>6. Aside(b, c, V) BY <1>2, <1>4, AsideTwice
<1>7. Aside(d, c, V) BY <1>5, <1>6, AsideTwice
<1> QED BY <1>3, <1>6, <1>7

(* A record's nodes, then its end, which V has. *)
LEMMA ReplayTurn ==
  ASSUME NEW V, NEW c \in Clients(V), NEW j \in Jobs, NEW record \in Records,
         record.state \in Ended => <<j, Shown[record.state]>> \in V
  PROVE  Aside(ReplayJob(c, j, record), c, V)
<1> DEFINE e == NodeStates(j, record.node, TRUE)
           b == Emit(c, <<e>>)
           s == Snapshot(c, j, record)
           f == [job |-> j, kind |-> record.state, seq |-> 0, arg |-> 0]
           d == EmitRaw(s, f)
<1>1. Aside(s, c, V)
  <2>1. record.node \in Nodes BY DEF Records
  <2>2. Tells(e, V) BY <2>1 DEF Tells, NodeStates
  <2> HIDE DEF e
  <2>3. Len(<<e>>) = 1 /\ \A i \in 1..1 : <<e>>[i] = e OBVIOUS
  <2>4. Aside(b, c, V)
    <3> DEFINE events == <<e>>
    <3>1. Len(events) \in Nat /\ \A i \in 1..Len(events) : Tells(events[i], V) BY <2>2, <2>3
    <3> HIDE DEF events
    <3>2. Aside(Emit(c, events), c, V) BY <3>1, EmitTurn
    <3> QED BY <3>2 DEF events
  <2>5. s = IF record.node = "none" THEN c ELSE b BY DEF Snapshot, e
  <2> HIDE DEF b, s
  <2> QED BY <2>4, <2>5, AsideStays
<1>2. ReplayJob(c, j, record) = IF record.state \notin Ends THEN s ELSE d
  BY DEF ReplayJob, ReplayEnd
<1> HIDE DEF s
<1>3. CASE record.state \notin Ends BY <1>1, <1>2, <1>3
<1>4. CASE record.state \in Ends
  <2>1. f \in Messages(V)
    <3>1. record.state \in States BY DEF Records
    <3>2. record.state \in Ended /\ EndOf[record.state] = Shown[record.state]
      BY <1>4, <3>1 DEF States, Ends, Ended, EndOf, Shown
    <3>3. <<f.job, EndOf[f.kind]>> \in V BY <3>2
    <3> QED BY <1>4, <3>3 DEF Messages, Ends
  <2> HIDE DEF f
  <2>2. Aside(d, s, V)
    <3>1. s \in Clients(V) BY <1>1 DEF Aside
    <3> QED BY <2>1, <3>1, EmitRawTurn
  <2> HIDE DEF d
  <2>3. Aside(d, c, V) BY <1>1, <2>2, AsideTwice
  <2> QED BY <1>2, <1>4, <2>3
<1> QED BY <1>3, <1>4

(* A backfill starts, unless there is one. *)
LEMMA BackfillTurn ==
  ASSUME NEW V, NEW c \in Clients(V), NEW j \in Jobs
  PROVE  LET d == Backfill(c, j)
         IN  /\ Aside(d, c, V) /\ Calm(d, c) /\ d.store = c.store
             /\ d.conn.cursor = c.conn.cursor
             /\ j \in c.conn.passes => d = c
             /\ j \notin c.conn.passes =>
                  /\ d.conn.passes = c.conn.passes \union {j} /\ d.conn.holes = c.conn.holes \ {j}
                  /\ d.http = c.http \union {[kind |-> "page", job |-> j,
                                              arg |-> [after |-> c.conn.cursor[j], pages |-> 1],
                                              phase |-> "sent", body |-> <<>>]}
<1> DEFINE n == [c.conn EXCEPT !.passes = @ \union {j}, !.holes = @ \ {j}]
           b == [c EXCEPT !.conn = n]
           arg == [after |-> c.conn.cursor[j], pages |-> 1]
           d == Ask(b, "page", j, arg)
<1>1. c.conn \in Conns(V) BY Parts
<1>2. /\ n \in Conns(V) /\ arg \in Spans
      /\ n.wire = c.conn.wire /\ n.terminal = c.conn.terminal /\ n.up = c.conn.up
      /\ n.passes = c.conn.passes \union {j} /\ n.holes = c.conn.holes \ {j}
      /\ n.cursor = c.conn.cursor
  BY <1>1 DEF Conns, Spans
<1>3. Backfill(c, j) = IF j \in c.conn.passes THEN c ELSE d
  <2> DEFINE x == [c EXCEPT !.conn.passes = @ \union {j}, !.conn.holes = @ \ {j}]
  <2>1. x = b BY Parts
  <2>2. Backfill(c, j) = IF j \in c.conn.passes THEN c ELSE Ask(x, "page", j, arg)
    BY Zenon DEF Backfill
  <2> HIDE DEF x, b, arg
  <2> QED BY <2>1, <2>2
<1> HIDE DEF n, arg
<1> DEFINE r == [kind |-> "page", job |-> j, arg |-> arg, phase |-> "sent", body |-> <<>>]
<1>4. Aside(b, c, V) /\ b.store = c.store /\ b.conn = n /\ b.http = c.http BY <1>2, ConnTurn
<1> HIDE DEF b
<1>5. Aside(d, b, V) /\ d.store = b.store /\ d.conn = b.conn /\ d.http = b.http \union {r}
  <2>1. b \in Clients(V) BY <1>4 DEF Aside
  <2> QED BY <1>2, <2>1, AskTurn
<1> HIDE DEF d, r
<1>6. Aside(d, c, V) BY <1>4, <1>5, AsideTwice
<1>7. Calm(d, c) /\ Calm(c, c) BY <1>2, <1>4, <1>5, ShowsTheSame DEF Calm
<1>8. CASE j \in c.conn.passes BY <1>3, <1>7, <1>8, AsideStays
<1>9. CASE j \notin c.conn.passes
  <2>1. Backfill(c, j) = d BY <1>3, <1>9
  <2>2. d.http = c.http \union {r} BY <1>4, <1>5
  <2> QED BY <1>2, <1>4, <1>5, <1>6, <1>7, <1>9, <2>1, <2>2 DEF r, arg
<1> QED BY <1>8, <1>9

(* A backfill is over, or breaks off. *)
LEMMA EndPassTurn ==
  ASSUME NEW V, NEW c \in Clients(V), NEW j \in Jobs
  PROVE  /\ Aside(EndPass(c, j), c, V) /\ Calm(EndPass(c, j), c)
         /\ Aside(BreakOff(c, j), c, V) /\ Calm(BreakOff(c, j), c)
         /\ \A d \in {EndPass(c, j), BreakOff(c, j)} :
              /\ d.store = c.store /\ d.http = c.http /\ d.conn.cursor = c.conn.cursor
              /\ d.conn.passes = c.conn.passes \ {j}
         /\ EndPass(c, j).conn.holes = c.conn.holes
         /\ BreakOff(c, j).conn.holes = c.conn.holes \union {j}
<1>1. c.conn \in Conns(V) BY Parts
<1>2. ASSUME NEW n \in Conns(V), n.wire = c.conn.wire, n.terminal = c.conn.terminal,
             n.up = c.conn.up, NEW b, b = [c EXCEPT !.conn = n]
      PROVE  Aside(b, c, V) /\ Calm(b, c) /\ b.store = c.store /\ b.http = c.http /\ b.conn = n
  <2>1. Aside(b, c, V) /\ b.store = c.store /\ b.conn = n /\ b.http = c.http BY <1>2, ConnTurn
  <2> QED BY <1>2, <2>1, ShowsTheSame DEF Calm
<1> DEFINE n == [c.conn EXCEPT !.passes = @ \ {j}]
           m == [c.conn EXCEPT !.passes = @ \ {j}, !.holes = @ \union {j}]
<1>3. EndPass(c, j) = [c EXCEPT !.conn = n] /\ BreakOff(c, j) = [c EXCEPT !.conn = m]
  BY Zenon DEF EndPass, BreakOff
<1>4. /\ n \in Conns(V) /\ n.wire = c.conn.wire /\ n.terminal = c.conn.terminal
      /\ n.up = c.conn.up /\ n.cursor = c.conn.cursor /\ n.holes = c.conn.holes
      /\ n.passes = c.conn.passes \ {j}
  BY <1>1 DEF Conns
<1>5. /\ m \in Conns(V) /\ m.wire = c.conn.wire /\ m.terminal = c.conn.terminal
      /\ m.up = c.conn.up /\ m.cursor = c.conn.cursor /\ m.holes = c.conn.holes \union {j}
      /\ m.passes = c.conn.passes \ {j}
  BY <1>1 DEF Conns
<1> HIDE DEF n, m
<1> DEFINE a == EndPass(c, j)
           b == BreakOff(c, j)
<1>6. Aside(a, c, V) /\ Calm(a, c) /\ a.store = c.store /\ a.http = c.http /\ a.conn = n
  BY <1>2, <1>3, <1>4
<1>7. Aside(b, c, V) /\ Calm(b, c) /\ b.store = c.store /\ b.http = c.http /\ b.conn = m
  BY <1>2, <1>3, <1>5
<1> HIDE DEF a, b
<1>8. \A d \in {a, b} :
        /\ d.store = c.store /\ d.http = c.http /\ d.conn.cursor = c.conn.cursor
        /\ d.conn.passes = c.conn.passes \ {j}
  BY <1>4, <1>5, <1>6, <1>7
<1> QED BY <1>4, <1>5, <1>6, <1>7, <1>8 DEF a, b

(* The records of a page are replayed in their order. *)
LEMMA ReplayedTurn ==
  ASSUME NEW V, NEW c \in Clients(V), NEW j \in Jobs, NEW arg \in Spans, NEW page \in Pages
  PROVE  /\ Aside(Replayed(c, j, arg, page), c, V)
         /\ Tidy(c.store, j) => Calm(Replayed(c, j, arg, page), c)
         /\ LET d == Replayed(c, j, arg, page)
            IN  /\ d.http = c.http /\ d.conn.passes = c.conn.passes
                /\ d.conn.holes = c.conn.holes
                /\ d.conn.cursor = [c.conn.cursor EXCEPT ![j] =
                                      IF page.upto > arg.after THEN page.upto ELSE @]
                /\ Tidy(c.store, j) => \A n \in page.logs : 1 <= n /\ n <= page.upto =>
                                         Got(d.store, j, n)
<1> DEFINE m == page.upto
           X == {d \in Clients(V) :
                  /\ Aside(d, c, V) /\ (Tidy(c.store, j) => Calm(d, c))
                  /\ d.http = c.http /\ Beside(d, c)}
           Frame0(i) == [job |-> j, kind |-> "log", seq |-> i, arg |-> i]
           Do(d, i) == IF i \in page.logs THEN EmitRaw(d, Frame0(i)) ELSE d
           step == [i \in 1..m |-> [d \in X |-> Do(d, i)]]
           R(g) == [n \in 0..m |->
                     IF n = 0 THEN c
                     ELSE IF n \in page.logs
                          THEN EmitRaw(g[n - 1], [job |-> j, kind |-> "log", seq |-> n, arg |-> n])
                     ELSE g[n - 1]]
           g == CHOOSE h : h = R(h)
<1>1. m \in Nat BY DEF Pages
<1>2. c \in X BY AsideStays, CalmTwice DEF Beside
<1>3. ASSUME NEW i \in 1..m, NEW d \in X
      PROVE  /\ Do(d, i) \in X
             /\ Tidy(c.store, j) => /\ Spares(Do(d, i).store, d.store)
                                    /\ i \in page.logs => Got(Do(d, i).store, j, i)
  <2> DEFINE f == Frame0(i)
             b == EmitRaw(d, f)
  <2>1. f \in Messages(V) /\ f.kind = "log" /\ f.job = j /\ f.arg = i
    <3>1. i \in Nat BY <1>1
    <3> QED BY <3>1 DEF Messages, Ends
  <2> HIDE DEF f
  <2>2. /\ Aside(b, d, V) /\ (Tidy(d.store, j) => Minds(b, d, f)) /\ b.http = d.http
        /\ b.conn.passes = d.conn.passes /\ b.conn.holes = d.conn.holes
        /\ b.conn.cursor = d.conn.cursor
    BY <2>1, EmitRawTurn
  <2> HIDE DEF b
  <2>3. Aside(b, c, V) BY <2>2, AsideTwice
  <2>4. ASSUME Tidy(c.store, j)
        PROVE  Calm(b, c) /\ Spares(b.store, d.store) /\ Got(b.store, j, i)
    <3>1. Calm(d, c) BY <2>4
    <3>2. Minds(b, d, f) BY <2>2, <2>4, <3>1, CalmTwice
    <3>3. Said(d, f) = Node(d.store, j) /\ f.kind \notin Ends BY <2>1 DEF Said, Ends
    <3>4. Spares(b.store, d.store) BY <2>1, <3>2, <3>3, ShowsTheSame DEF Minds
    <3>5. Calm(b, d) BY <3>2, <3>3, <3>4 DEF Minds, Calm
    <3>6. Got(b.store, j, i) BY <2>1, <3>2 DEF Minds
    <3> QED BY <3>1, <3>4, <3>5, <3>6, CalmTwice
  <2>5. b \in X
    <3>1. b.http = c.http /\ Beside(b, c) BY <2>2 DEF Beside
    <3> QED BY <2>3, <2>4, <3>1 DEF Aside
  <2>6. Spares(d.store, d.store) BY ShowsTheSame
  <2>7. Do(d, i) = IF i \in page.logs THEN b ELSE d BY DEF b, f
  <2> HIDE DEF X, Do
  <2> QED BY <2>4, <2>5, <2>6, <2>7
<1>4. step \in [1..m -> [X -> X]]
  <2> HIDE DEF X, Do, m
  <2> QED BY <1>3
<1>5. PICK f : RunOf(f, X, m, c, step)
  <2> HIDE DEF step, m, X
  <2> QED BY <1>1, <1>2, <1>4, Iterate
<1>6. f = R(f)
  <2>1. f \in [0..m -> X] /\ f[0] = c /\ \A i \in 1..m : f[i] = step[i][f[i - 1]]
    BY <1>5 DEF RunOf
  <2>2. ASSUME NEW i \in 1..m PROVE f[i] = Do(f[i - 1], i)
    <3>1. i - 1 \in 0..m BY <1>1
    <3>2. f[i - 1] \in X BY <2>1, <3>1
    <3> HIDE DEF X, Do, m
    <3> QED BY <2>1, <3>2
  <2>3. ASSUME NEW n \in 0..m
        PROVE  f[n] = IF n = 0 THEN c
                      ELSE IF n \in page.logs
                           THEN EmitRaw(f[n - 1], [job |-> j, kind |-> "log", seq |-> n, arg |-> n])
                      ELSE f[n - 1]
    <3>1. n = 0 \/ n \in 1..m BY <1>1
    <3> HIDE DEF m
    <3> QED BY <2>1, <2>2, <3>1
  <2> HIDE DEF m, X
  <2> QED BY <2>1, <2>3
<1>7. g = R(g)
  <2> HIDE DEF R
  <2> QED BY <1>6
<1> HIDE DEF g
<1>8. g[0] = c /\ \A i \in 1..m : g[i] = Do(g[i - 1], i)
  <2>1. \A n \in 0..m : g[n] = IF n = 0 THEN c
                               ELSE IF n \in page.logs
                                    THEN EmitRaw(g[n - 1], [job |-> j, kind |-> "log", seq |-> n, arg |-> n])
                               ELSE g[n - 1]
    <3> HIDE DEF m
    <3> QED BY <1>7
  <2>2. 0 \in 0..m /\ \A i \in 1..m : i \in 0..m /\ i # 0 BY <1>1
  <2> HIDE DEF m
  <2> QED BY <2>1, <2>2
<1>9. /\ g[m] \in X
      /\ Tidy(c.store, j) => \A n \in page.logs : 1 <= n /\ n <= m => Got(g[m].store, j, n)
  <2> HIDE DEF X, Do, m
  <2>1. \A i \in 1..m : g[i - 1] \in X => g[i] \in X BY <1>3, <1>8
  <2>2. \A i \in 0..m : g[i] \in X BY <1>1, <1>2, <1>8, <2>1, LoopInduction
  <2>3. ASSUME Tidy(c.store, j)
        PROVE  \A n \in page.logs : 1 <= n /\ n <= m => Got(g[m].store, j, n)
    <3> DEFINE T == {i \in 0..m : \A n \in page.logs : 1 <= n /\ n <= i => Got(g[i].store, j, n)}
    <3>1. 0 \in T BY <1>1 DEF Pages
    <3>2. ASSUME NEW k \in 0..m, k < m, k \in T PROVE k + 1 \in T
      <4> DEFINE i == k + 1
      <4>1. i \in 1..m /\ i - 1 \in 0..m /\ i \in 0..m /\ i - 1 = k /\ i \in Nat
        BY <1>1, <3>2
      <4> HIDE DEF i
      <4>2. /\ Spares(g[i].store, g[i - 1].store)
            /\ i \in page.logs => Got(g[i].store, j, i)
        BY <1>3, <1>8, <2>2, <2>3, <4>1
      <4>3. \A n : Got(g[i - 1].store, j, n) => Got(g[i].store, j, n)
        BY <4>2 DEF Spares, Leaves, Turns, Got
      <4>4. ASSUME NEW n \in page.logs, 1 <= n, n <= i PROVE Got(g[i].store, j, n)
        <5>1. n \in Nat BY DEF Pages
        <5>2. n = i \/ n <= i - 1 BY <4>1, <4>4, <5>1
        <5> QED BY <3>2, <4>1, <4>2, <4>3, <4>4, <5>2
      <4> QED BY <4>1, <4>4 DEF i
    <3> HIDE DEF T
    <3>3. 0..m \subseteq T /\ m \in 0..m BY <1>1, <3>1, <3>2, BoundedInduction
    <3> QED BY <3>3 DEF T
  <2> QED BY <1>1, <2>2, <2>3
<1> DEFINE b == g[m]
           p == [b.conn.cursor EXCEPT ![j] = IF m > arg.after THEN m ELSE @]
           n == [b.conn EXCEPT !.cursor = p]
<1>10. /\ b \in Clients(V) /\ Aside(b, c, V) /\ (Tidy(c.store, j) => Calm(b, c))
       /\ b.http = c.http /\ Beside(b, c)
       /\ Tidy(c.store, j) => \A k \in page.logs : 1 <= k /\ k <= m => Got(b.store, j, k)
  <2> HIDE DEF m
  <2> QED BY <1>9
<1>11. Replayed(c, j, arg, page) = [b EXCEPT !.conn = n] BY Zenon DEF Replayed, g
<1> HIDE DEF b
<1>12. /\ n \in Conns(V) /\ n.wire = b.conn.wire /\ n.terminal = b.conn.terminal /\ n.up = b.conn.up
       /\ n.passes = b.conn.passes /\ n.holes = b.conn.holes /\ n.cursor = p
  <2>1. b.conn \in Conns(V) BY <1>10, Parts
  <2>2. b.conn.cursor \in [Jobs -> Nat] BY <2>1 DEF Conns
  <2>3. p \in [Jobs -> Nat]
    <3> HIDE DEF m
    <3> QED BY <1>1, <2>2
  <2> HIDE DEF p
  <2> QED BY <2>1, <2>3 DEF Conns
<1> HIDE DEF n
<1> DEFINE d == [b EXCEPT !.conn = n]
<1>13. Aside(d, b, V) /\ d.store = b.store /\ d.conn = n /\ d.http = b.http
  BY <1>10, <1>12, ConnTurn
<1> HIDE DEF d
<1>14. Aside(d, c, V) BY <1>10, <1>13, AsideTwice
<1>15. Calm(d, b) BY <1>12, <1>13, ShowsTheSame DEF Calm
<1>16. Tidy(c.store, j) => Calm(d, c) BY <1>10, <1>15, CalmTwice
<1>17. /\ d.http = c.http /\ d.conn.passes = c.conn.passes /\ d.conn.holes = c.conn.holes
       /\ d.conn.cursor = [c.conn.cursor EXCEPT ![j] = IF m > arg.after THEN m ELSE @]
       /\ Tidy(c.store, j) => \A k \in page.logs : 1 <= k /\ k <= m => Got(d.store, j, k)
  BY <1>10, <1>12, <1>13 DEF Beside
<1> HIDE DEF d
<1>18. Replayed(c, j, arg, page) = d BY <1>11 DEF d
<1> QED BY <1>14, <1>16, <1>17, <1>18

(* One page, then the next or the end. *)
LEMMA PageTurn ==
  ASSUME NEW V, NEW c \in Clients(V), NEW j \in Jobs, NEW arg \in Spans, NEW page \in Pages
  PROVE  /\ Aside(BackfillPage(c, j, arg, page), c, V)
         /\ Tidy(c.store, j) => Calm(BackfillPage(c, j, arg, page), c)
<1> DEFINE b == Replayed(c, j, arg, page)
           d == EndPass(b, j)
           next == [after |-> page.upto, pages |-> arg.pages + 1]
           a == Ask(b, "page", j, next)
<1>1. Aside(b, c, V) /\ (Tidy(c.store, j) => Calm(b, c)) BY ReplayedTurn
<1>2. BackfillPage(c, j, arg, page)
        = IF page.upto <= arg.after \/ page.upto >= page.latest \/ arg.pages = MaxPages THEN d ELSE a
  BY DEF BackfillPage, NextPage
<1> HIDE DEF b
<1>3. b \in Clients(V) /\ next \in Spans BY <1>1 DEF Aside, Spans, Pages
<1> HIDE DEF next
<1>4. Aside(d, b, V) /\ Calm(d, b) BY <1>3, EndPassTurn
<1>5. Aside(a, b, V) /\ a.store = b.store /\ a.conn = b.conn BY <1>3, AskTurn
<1> HIDE DEF a, d
<1>6. Aside(d, c, V) /\ Aside(a, c, V) BY <1>1, <1>4, <1>5, AsideTwice
<1>7. Calm(a, b) BY <1>5, ShowsTheSame DEF Calm
<1>8. Tidy(c.store, j) => Calm(d, c) /\ Calm(a, c) BY <1>1, <1>4, <1>7, CalmTwice
<1> QED BY <1>2, <1>6, <1>8

(* What a pass makes of a record. *)
LEMMA RecordTurn ==
  ASSUME NEW V, NEW c \in Clients(V), NEW j \in Jobs, NEW record \in Records,
         record.state \in Ended => <<j, Shown[record.state]>> \in V
  PROVE  Aside(ReconcileRecord(c, j, record), c, V)
<1> DEFINE a == ReplayJob(c, j, record)
           b == WithJournal(a, j, record)
           s == HydrateArtifacts(b.store, j)
           d == [b EXCEPT !.store = s]
<1>1. Aside(a, c, V) BY ReplayTurn
<1>2. ReconcileRecord(c, j, record) = IF record.state = "completed" THEN d ELSE b
  BY Zenon DEF ReconcileRecord, WithArtifacts
<1> HIDE DEF a
<1>3. Aside(b, c, V)
  <2>1. a \in Clients(V) BY <1>1 DEF Aside
  <2> DEFINE x == Backfill(a, j)
  <2>2. Aside(x, a, V) BY <2>1, BackfillTurn
  <2> HIDE DEF x
  <2>3. Aside(x, c, V) BY <1>1, <2>2, AsideTwice
  <2>4. b = IF record.journal THEN x ELSE a BY DEF WithJournal, x
  <2> HIDE DEF b
  <2> QED BY <1>1, <2>3, <2>4
<1> HIDE DEF b
<1>4. b \in Clients(V) BY <1>3 DEF Aside
<1>5. Keeps(s, b.store, V)
  <2>1. Sound(b.store, V) BY <1>4, Parts
  <2> QED BY <2>1, HydrateKeeps
<1> HIDE DEF s
<1>6. Aside(d, b, V) BY <1>4, <1>5, StoreTurn
<1> HIDE DEF d
<1>7. Aside(d, c, V) BY <1>3, <1>6, AsideTwice
<1> QED BY <1>2, <1>3, <1>7

-----------------------------------------------------------------------------
(* Passes.                                                                 *)

(* Other notes of the passes. *)
LEMMA TrackTurn ==
  ASSUME NEW V, NEW c \in Clients(V), NEW t \in Tracks, NEW d, d = [c EXCEPT !.track = t]
  PROVE  /\ d \in Clients(V) /\ d.store = c.store /\ d.conn = c.conn /\ d.http = c.http
         /\ d.track = t /\ d.now = c.now
<1>1. /\ c \in [store : Stores, conn : Conns(V), track : Tracks, http : SUBSET Exchanges(V),
                now : Nat]
      /\ Sound(c.store, V) /\ Capped(c.store)
  BY Parts
<1>2. /\ d \in [store : Stores, conn : Conns(V), track : Tracks, http : SUBSET Exchanges(V),
                now : Nat]
      /\ d.store = c.store /\ d.conn = c.conn /\ d.http = c.http /\ d.track = t /\ d.now = c.now
  BY <1>1
<1>3. d \in Clients(V) BY <1>1, <1>2 DEF Clients
<1> QED BY <1>2, <1>3

(* Other exchanges. *)
LEMMA HttpTurn ==
  ASSUME NEW V, NEW c \in Clients(V), NEW h \in SUBSET Exchanges(V), NEW d, d = [c EXCEPT !.http = h]
  PROVE  /\ d \in Clients(V) /\ d.store = c.store /\ d.conn = c.conn /\ d.http = h
         /\ d.track = c.track /\ d.now = c.now
<1>1. /\ c \in [store : Stores, conn : Conns(V), track : Tracks, http : SUBSET Exchanges(V),
                now : Nat]
      /\ Sound(c.store, V) /\ Capped(c.store)
  BY Parts
<1>2. /\ d \in [store : Stores, conn : Conns(V), track : Tracks, http : SUBSET Exchanges(V),
                now : Nat]
      /\ d.store = c.store /\ d.conn = c.conn /\ d.http = h /\ d.track = c.track /\ d.now = c.now
  BY <1>1
<1>3. d \in Clients(V) BY <1>1, <1>2 DEF Clients
<1> QED BY <1>2, <1>3

(* A turn aside leaves the passes alone. *)
LEMMA AsidePasses ==
  ASSUME NEW V, NEW c, NEW d, Aside(d, c, V)
  PROVE  Asked(d) = Asked(c) /\ (Passing(c) => Passing(d)) /\ (Between(c) => Between(d))
<1>1. Asked(d) = Asked(c) BY DEF Aside, Asked
<1>2. d.track = c.track /\ c.http \subseteq d.http BY DEF Aside
<1>3. Passing(c) => Passing(d) BY <1>1, <1>2 DEF Passing
<1>4. Between(c) => Between(d) BY <1>1, <1>2 DEF Between
<1> QED BY <1>1, <1>3, <1>4

(* The executions a pass asks for are executions. *)
LEMMA OpenType ==
  ASSUME NEW t \in Stores
  PROVE  /\ OpenExecutions(t) \in Seq(Jobs) /\ ToSet(OpenExecutions(t)) \subseteq Jobs
         /\ \A j \in ToSet(OpenExecutions(t)) :
              j \in Known(t) /\ t.map[j].status \in {"queued", "running", "completed"}
<1> DEFINE o == OpenExecutions(t)
           S == {j \in Known(t) : \/ t.map[j].status \in {"queued", "running"}
                                  \/ t.map[j].status = "completed" /\ ~t.map[j].hydrated}
<1>1. t.order \in Seq(Jobs) BY DEF Stores
<1>2. o = Among(t.order, S) BY DEF OpenExecutions
<1>0. \A j \in S : j \in Known(t) /\ t.map[j].status \in {"queued", "running", "completed"}
  OBVIOUS
<1> HIDE DEF o, S
<1>3. o \in Seq(Jobs) /\ o \in Seq(Jobs \cap S) BY <1>1, <1>2, AmongType DEF Filtered
<1>4. ToSet(o) \subseteq Jobs \cap S BY <1>3 DEF ToSet
<1> QED BY <1>0, <1>3, <1>4 DEF o

(* The top of the loop: the pass goes on, a new one starts, or it is done. *)
LEMMA PassTopPaces ==
  ASSUME NEW V, NEW c \in Clients(V), Asked(c) = {}, c.track.busy, c.track.ran <= c.track.gen
  PROVE  LET d == PassTop(c)
         IN  /\ Paced(d, c, V)
             /\ \A j \in d.track.covered :
                  Awaited(d.track, j) \/ (IsCurrent(c) /\ j \in Settled(c.track))
             /\ \A j \in ToSet(d.track.todo) :
                  \/ IsCurrent(c) /\ j \in ToSet(c.track.todo)
                  \/ j \in ToSet(OpenExecutions(c.store))
<1> DEFINE o == OpenExecutions(c.store)
           k == ToSet(o) \ c.store.gone
           s == [c.track EXCEPT !.ran = c.track.gen, !.todo = o, !.covered = k]
           t == IF IsCurrent(c) THEN c.track ELSE s
           f == [t EXCEPT !.busy = FALSE]
           d == [c EXCEPT !.track = f]
           b == [c EXCEPT !.track = t]
           q == [kind |-> "reconcile", job |-> Head(t.todo), arg |-> t.ran,
                 phase |-> "sent", body |-> <<>>]
           h == c.http \union {q}
           a == [b EXCEPT !.http = h]
<1>1. c.track \in Tracks /\ c.store \in Stores /\ c.http \in SUBSET Exchanges(V) BY Parts
<1>2. /\ t \in Tracks /\ t.busy = TRUE /\ t.ran = t.gen /\ t.gen = c.track.gen
      /\ \A j \in t.covered : j \in ToSet(t.todo) \/ (IsCurrent(c) /\ j \in Settled(c.track))
      /\ \A j \in ToSet(t.todo) :
           \/ IsCurrent(c) /\ j \in ToSet(c.track.todo)
           \/ j \in ToSet(OpenExecutions(c.store))
  <2>1. o \in Seq(Jobs) /\ k \in SUBSET Jobs /\ k \subseteq ToSet(o) BY <1>1, OpenType
  <2>0. o = OpenExecutions(c.store) OBVIOUS
  <2> HIDE DEF o, k
  <2>2. /\ s \in Tracks /\ s.busy = c.track.busy /\ s.ran = c.track.gen /\ s.gen = c.track.gen
        /\ s.covered = k /\ s.todo = o
    BY <1>1, <2>1 DEF Tracks
  <2> HIDE DEF s
  <2> QED BY <1>1, <2>0, <2>1, <2>2 DEF IsCurrent, Tracks, Settled
<1>3. PassTop(c) = IF t.todo = <<>> THEN d ELSE a
  <2>1. b.http = c.http
    <3> HIDE DEF t
    <3> QED BY <1>2, TrackTurn
  <2>2. PassTop(c) = IF t.todo = <<>> THEN d ELSE [b EXCEPT !.http = @ \union {q}]
    BY Zenon DEF PassTop, Ask
  <2> HIDE DEF b, d, q, t
  <2> QED BY <2>1, <2>2
<1> HIDE DEF t
<1>4. CASE t.todo = <<>>
  <2>1. /\ f \in Tracks /\ f.busy = FALSE /\ f.ran = t.ran /\ f.gen = t.gen
        /\ f.covered = t.covered /\ f.todo = t.todo
    BY <1>2 DEF Tracks
  <2> HIDE DEF f
  <2>2. /\ d \in Clients(V) /\ d.store = c.store /\ d.conn = c.conn /\ d.http = c.http
        /\ d.track = f
    BY <2>1, TrackTurn
  <2> HIDE DEF d
  <2>3. Asked(d) = {} BY <2>2 DEF Asked
  <2>4. d.track.ran \in Nat /\ d.track.gen \in Nat BY <2>1, <2>2 DEF Tracks
  <2>5. Passing(d) BY <1>2, <2>1, <2>2, <2>3, <2>4 DEF Passing
  <2>6. Paced(d, c, V) BY <1>2, <2>1, <2>2, <2>5 DEF Paced
  <2>7. ToSet(t.todo) = {} BY <1>4 DEF ToSet
  <2>8. \A j \in d.track.covered : IsCurrent(c) /\ j \in Settled(c.track)
    BY <1>2, <2>1, <2>2, <2>7
  <2> QED BY <1>2, <1>3, <1>4, <2>1, <2>2, <2>6, <2>8
<1>5. CASE t.todo # <<>>
  <2>1. Head(t.todo) \in Jobs /\ t.ran \in Nat /\ t.gen \in Nat
    <3>1. t.todo \in Seq(Jobs) /\ t.ran \in Nat /\ t.gen \in Nat BY <1>2 DEF Tracks
    <3> QED BY <1>5, <3>1
  <2>2. /\ q \in Exchanges(V) /\ q.kind = "reconcile" /\ q.phase = "sent" /\ q.arg = t.ran
        /\ q.job = Head(t.todo)
    BY <2>1 DEF Exchanges
  <2>3. /\ b \in Clients(V) /\ b.store = c.store /\ b.conn = c.conn /\ b.http = c.http
        /\ b.track = t
    BY <1>2, TrackTurn
  <2> HIDE DEF q, b
  <2>4. h \in SUBSET Exchanges(V) BY <1>1, <2>2
  <2> HIDE DEF h
  <2>5. /\ a \in Clients(V) /\ a.store = b.store /\ a.conn = b.conn /\ a.http = h
        /\ a.track = b.track
    BY <2>3, <2>4, HttpTurn
  <2> HIDE DEF a
  <2>6. Asked(a) = {q} /\ q \in a.http BY <2>2, <2>5 DEF Asked, h
  <2>7. t.ran <= t.gen BY <1>2, <2>1
  <2>8. Passing(a) BY <1>2, <1>5, <2>2, <2>3, <2>5, <2>6, <2>7 DEF Passing
  <2>9. Paced(a, c, V) BY <1>2, <2>2, <2>3, <2>5, <2>8 DEF Paced, h
  <2>10. \A j \in a.track.covered : Awaited(a.track, j) \/ (IsCurrent(c) /\ j \in Settled(c.track))
    BY <1>2, <2>3, <2>5 DEF Awaited
  <2> QED BY <1>2, <1>3, <1>5, <2>3, <2>5, <2>9, <2>10
<1> QED BY <1>4, <1>5

(* The pass goes on to the next job. *)
LEMMA PassNextPaces ==
  ASSUME NEW V, NEW c \in Clients(V), Between(c)
  PROVE  LET d == PassNext(c)
         IN  /\ Paced(d, c, V)
             /\ \A j \in d.track.covered :
                  \/ Awaited(d.track, j)
                  \/ /\ IsCurrent(c)
                     /\ j \in Settled(c.track) \/ (j \in c.track.covered /\ j = Head(c.track.todo))
             /\ \A j \in ToSet(d.track.todo) :
                  \/ IsCurrent(c) /\ j \in ToSet(c.track.todo)
                  \/ j \in ToSet(OpenExecutions(c.store))
<1> DEFINE t == [c.track EXCEPT !.todo = Tail(@)]
           b == [c EXCEPT !.track = t]
           d == PassTop(b)
<1>1. c.track \in Tracks BY Parts
<1>2. /\ t \in Tracks /\ t.busy = c.track.busy /\ t.ran = c.track.ran /\ t.gen = c.track.gen
      /\ t.covered = c.track.covered /\ t.todo = Tail(c.track.todo)
  <2>1. c.track.todo \in Seq(Jobs) /\ c.track.todo # <<>> BY <1>1 DEF Tracks, Between
  <2>2. Tail(c.track.todo) \in Seq(Jobs) BY <2>1
  <2> DEFINE x == Tail(c.track.todo)
  <2> HIDE DEF x
  <2>3. x \in Seq(Jobs) BY <2>2 DEF x
  <2>4. t = [c.track EXCEPT !.todo = x] BY DEF x
  <2> HIDE DEF t
  <2>5. /\ t \in Tracks /\ t.busy = c.track.busy /\ t.ran = c.track.ran /\ t.gen = c.track.gen
        /\ t.covered = c.track.covered /\ t.todo = x
    BY <1>1, <2>3, <2>4 DEF Tracks
  <2> QED BY <2>5 DEF x
<1>3. PassNext(c) = d BY Zenon DEF PassNext
<1> HIDE DEF t
<1>4. /\ b \in Clients(V) /\ b.store = c.store /\ b.conn = c.conn /\ b.http = c.http
      /\ b.track = t
  BY <1>2, TrackTurn
<1> HIDE DEF b
<1>5. Asked(b) = {} /\ b.track.busy /\ b.track.ran <= b.track.gen
  BY <1>2, <1>4 DEF Between, Asked
<1>6. /\ Paced(d, b, V)
      /\ \A j \in d.track.covered : Awaited(d.track, j) \/ (IsCurrent(b) /\ j \in Settled(b.track))
      /\ \A j \in ToSet(d.track.todo) : \/ IsCurrent(b) /\ j \in ToSet(b.track.todo)
                                        \/ j \in ToSet(OpenExecutions(b.store))
  BY <1>4, <1>5, PassTopPaces
<1> HIDE DEF d
<1>7. Paced(d, c, V) BY <1>2, <1>4, <1>6 DEF Paced
<1>8. ASSUME NEW j, j \in Settled(t)
      PROVE  j \in Settled(c.track) \/ (j \in c.track.covered /\ j = Head(c.track.todo))
  <2> DEFINE s == c.track.todo
  <2>1. s \in Seq(Jobs) /\ s # <<>> BY <1>1 DEF Tracks, Between
  <2>2. t.todo = Tail(s) /\ j \in c.track.covered /\ j \notin ToSet(t.todo)
    BY <1>2, <1>8 DEF Settled
  <2> HIDE DEF s
  <2>3. ASSUME j \in ToSet(s), j # Head(s) PROVE j \in ToSet(Tail(s))
    <3>1. PICK i \in 1..Len(s) : s[i] = j BY <2>1, <2>3 DEF ToSet
    <3>2. i # 1 BY <2>1, <2>3, <3>1
    <3>3. i - 1 \in 1..Len(Tail(s)) /\ Tail(s)[i - 1] = j BY <2>1, <3>1, <3>2
    <3>4. DOMAIN Tail(s) = 1..Len(Tail(s)) BY <2>1
    <3> QED BY <3>3, <3>4 DEF ToSet
  <2> QED BY <2>2, <2>3 DEF Settled, s
<1>9. IsCurrent(b) => IsCurrent(c) BY <1>2, <1>4 DEF IsCurrent
<1>10. ToSet(t.todo) \subseteq ToSet(c.track.todo)
  <2> DEFINE s == c.track.todo
  <2>1. s \in Seq(Jobs) /\ s # <<>> BY <1>1 DEF Tracks, Between
  <2> HIDE DEF s
  <2>2. DOMAIN Tail(s) = 1..(Len(s) - 1) /\ DOMAIN s = 1..Len(s) BY <2>1
  <2>3. \A i \in 1..(Len(s) - 1) : i + 1 \in 1..Len(s) /\ Tail(s)[i] = s[i + 1] BY <2>1
  <2>4. ToSet(Tail(s)) \subseteq ToSet(s) BY <2>2, <2>3 DEF ToSet
  <2> QED BY <1>2, <2>4 DEF s
<1> QED BY <1>3, <1>4, <1>6, <1>7, <1>8, <1>9, <1>10

(* A reconnect asks for a pass of its own. *)
LEMMA ReconcilePaces ==
  ASSUME NEW V, NEW c \in Clients(V), Passing(c)
  PROVE  LET d == Reconcile(c)
         IN  /\ d \in Clients(V) /\ Passing(d) /\ d.store = c.store /\ d.conn = c.conn
             /\ c.http \subseteq d.http
             /\ \A r \in d.http \ c.http : r.phase = "sent" /\ r.kind = "reconcile"
             /\ IsCurrent(d) =>
                  /\ Asked(c) = {} /\ \A j \in d.track.covered : Awaited(d.track, j)
                  /\ ToSet(d.track.todo) \subseteq ToSet(OpenExecutions(c.store))
<1> DEFINE t == [c.track EXCEPT !.gen = @ + 1]
           b == [c EXCEPT !.track = t]
           s == [t EXCEPT !.busy = TRUE]
           a == [b EXCEPT !.track = s]
           d == PassTop(a)
<1>1. c.track \in Tracks BY Parts
<1>2. c.track.gen \in Nat /\ c.track.ran \in Nat /\ c.track.ran <= c.track.gen
  BY <1>1 DEF Tracks, Passing
<1>3. /\ t \in Tracks /\ t.busy = c.track.busy /\ t.ran = c.track.ran
      /\ t.gen = c.track.gen + 1 /\ t.todo = c.track.todo
  <2>1. c.track.gen + 1 \in Nat BY <1>2
  <2> QED BY <1>1, <2>1 DEF Tracks
<1>4. Reconcile(c) = IF c.track.busy THEN b ELSE d
  <2>1. b.track = t
    <3> HIDE DEF t
    <3> QED BY <1>3, TrackTurn
  <2>2. Reconcile(c) = IF c.track.busy THEN b ELSE PassTop([b EXCEPT !.track = [b.track EXCEPT !.busy = TRUE]])
    BY Zenon DEF Reconcile
  <2> HIDE DEF b, t
  <2> QED BY <2>1, <2>2
<1> HIDE DEF t
<1>5. /\ b \in Clients(V) /\ b.store = c.store /\ b.conn = c.conn /\ b.http = c.http
      /\ b.track = t
  BY <1>3, TrackTurn
<1> HIDE DEF b
<1>6. t.ran <= t.gen BY <1>2, <1>3
<1>7. CASE c.track.busy
  <2>1. Asked(b) = Asked(c) BY <1>5 DEF Asked
  <2>2. Passing(b) BY <1>3, <1>5, <1>6, <1>7, <2>1 DEF Passing
  <2>3. ~IsCurrent(b) BY <1>2, <1>3, <1>5 DEF IsCurrent
  <2> QED BY <1>4, <1>5, <1>7, <2>2, <2>3
<1>8. CASE ~c.track.busy
  <2>1. s \in Tracks /\ s.busy = TRUE /\ s.ran = t.ran /\ s.gen = t.gen BY <1>3 DEF Tracks
  <2> HIDE DEF s
  <2>2. /\ a \in Clients(V) /\ a.store = b.store /\ a.conn = b.conn /\ a.http = b.http
        /\ a.track = s
    BY <1>5, <2>1, TrackTurn
  <2> HIDE DEF a
  <2>3. Asked(a) = {} BY <1>5, <1>8, <2>2 DEF Asked, Passing
  <2>4. /\ Paced(d, a, V)
        /\ \A j \in d.track.covered : Awaited(d.track, j) \/ IsCurrent(a)
        /\ \A j \in ToSet(d.track.todo) : IsCurrent(a) \/ j \in ToSet(OpenExecutions(a.store))
    BY <1>6, <2>1, <2>2, <2>3, PassTopPaces
  <2> HIDE DEF d
  <2>5. ~IsCurrent(a) /\ Asked(c) = {} BY <1>2, <1>3, <1>8, <2>1, <2>2 DEF IsCurrent, Passing
  <2> QED BY <1>4, <1>5, <1>8, <2>2, <2>4, <2>5 DEF Paced
<1> QED BY <1>7, <1>8

-----------------------------------------------------------------------------
(* The system.                                                             *)

(* The latest stamp of a store is one of them. *)
LEMMA LatestStamp ==
  ASSUME NEW t, Formed(t)
  PROVE  1 + Max({0} \union {t.map[j].queuedAt : j \in Known(t)}
                     \union {t.map[j].endedAt : j \in Known(t)}) \in Nat
<1> DEFINE K == Known(t)
           A == {t.map[j].queuedAt : j \in K}
           B == {t.map[j].endedAt : j \in K}
           f == [j \in K |-> t.map[j].queuedAt]
           g == [j \in K |-> t.map[j].endedAt]
           S == {0} \union A \union B
           R == {p \in S \X S : p[1] > p[2]}
<1>1. IsFiniteSet(K) /\ A \subseteq Nat /\ B \subseteq Nat
  <2>1. \A j \in K : t.map[j] \in Entries BY EntryType DEF Formed
  <2>2. \A j \in K : t.map[j].queuedAt \in Nat /\ t.map[j].endedAt \in Nat BY <2>1 DEF Entries
  <2> QED BY <2>2 DEF Formed
<1>2. f \in Surjection(K, A) /\ g \in Surjection(K, B) BY DEF Surjection
<1>3. IsFiniteSet(A) /\ IsFiniteSet(B)
  <2> HIDE DEF f, g, A, B, K
  <2> QED BY <1>1, <1>2, FS_Surjection
<1>4. S \subseteq Nat /\ S # {} /\ IsFiniteSet(S)
  <2>1. S \subseteq Nat /\ 0 \in S BY <1>1
  <2> HIDE DEF A, B
  <2>2. IsFiniteSet({0}) /\ IsFiniteSet({0} \union A) BY <1>3, FS_Singleton, FS_Union
  <2>3. IsFiniteSet(S) BY <1>3, <2>2, FS_Union
  <2> QED BY <2>1, <2>3
<1> HIDE DEF S
<1>5. \A a, b \in S : <<a, b>> \in R <=> a > b OBVIOUS
<1>6. Orders(R, S)
  <2>1. \A a \in S : a \in Nat BY <1>4
  <2> HIDE DEF R
  <2> QED BY <1>5, <2>1 DEF Orders
<1>7. \E m : IsFirst(m, R, S)
  <2> HIDE DEF R
  <2> QED BY <1>4, <1>6, First
<1>8. \E m \in S : \A k \in S : m >= k
  <2>1. PICK m : IsFirst(m, R, S) BY <1>7
  <2>2. m \in S /\ \A k \in S : k = m \/ m > k
    <3> HIDE DEF R
    <3> QED BY <1>5, <2>1 DEF IsFirst
  <2>3. \A k \in S : k \in Nat BY <1>4
  <2> QED BY <2>2, <2>3
<1>9. Max(S) \in S BY <1>8 DEF Max
<1>10. 1 + Max(S) \in Nat
  <2> DEFINE m == Max(S)
  <2>1. m \in S BY <1>9
  <2> HIDE DEF m
  <2>2. m \in Nat BY <1>4, <2>1
  <2>3. 1 + m \in Nat BY <2>2
  <2> QED BY <2>3 DEF m
<1> QED BY <1>10 DEF S

(* What was true of fewer ends is true of more. *)
LEMMA MoreEnds ==
  ASSUME NEW V, NEW W, V \subseteq W
  PROVE  /\ Messages(V) \subseteq Messages(W) /\ Exchanges(V) \subseteq Exchanges(W)
         /\ Conns(V) \subseteq Conns(W) /\ \A t : Sound(t, V) => Sound(t, W)
<1>1. Messages(V) \subseteq Messages(W) BY DEF Messages
<1>2. Exchanges(V) \subseteq Exchanges(W) BY DEF Exchanges, Answered
<1>3. Conns(V) \subseteq Conns(W)
  <2> DEFINE A == Messages(V)
             B == Messages(W)
  <2>1. A \subseteq B BY <1>1
  <2> HIDE DEF A, B
  <2>2. Seq(A) \subseteq Seq(B) BY <2>1
  <2> QED BY <2>2 DEF Conns, A, B
<1>4. \A t : Sound(t, V) => Sound(t, W) BY DEF Sound, Truthful
<1> QED BY <1>1, <1>2, <1>3, <1>4

(* A client from its parts. *)
LEMMA ClientOf ==
  ASSUME NEW V, NEW s, Sound(s, V), Capped(s), NEW n \in Conns(V), NEW t \in Tracks,
         NEW h \in SUBSET Exchanges(V), NEW w \in Nat
  PROVE  [store |-> s, conn |-> n, track |-> t, http |-> h, now |-> w] \in Clients(V)
<1>1. s \in Stores BY DEF Sound, Formed
<1> QED BY <1>1 DEF Clients

(* A state that is right where the client is. *)
LEMMA Reached ==
  ASSUME NEW d \in Clients(Verdicts'), Passing(d), Becomes(d),
         server' \in [Jobs -> Runs], Submissions'
  PROVE  IInv'
<1>1. /\ Sound(store', Verdicts') /\ Capped(store') /\ conn' \in Conns(Verdicts')
      /\ track' \in Tracks /\ http' \in SUBSET Exchanges(Verdicts')
  BY Parts DEF Becomes
<1>2. Now' \in Nat
  <2>1. Formed(store') BY <1>1 DEF Sound
  <2> QED BY <2>1, LatestStamp DEF Now
<1> DEFINE c == [store |-> store', conn |-> conn', track |-> track', http |-> http', now |-> Now']
<1>3. c \in Clients(Verdicts') BY <1>1, <1>2, ClientOf
<1>4. Passing(c)
  <2>1. c.track = d.track /\ c.http = d.http BY DEF Becomes
  <2> HIDE DEF c
  <2> QED BY <2>1 DEF Passing, Asked
<1>5. Client' = c BY DEF Client
<1> HIDE DEF c
<1> QED BY <1>3, <1>4, <1>5 DEF IInv

(* What holds of the client. *)
LEMMA Holds ==
  ASSUME IInv
  PROVE  /\ Client \in Clients(Verdicts) /\ Passing(Client) /\ Submissions
         /\ server \in [Jobs -> Runs]
         /\ Client.store = store /\ Client.conn = conn /\ Client.track = track
         /\ Client.http = http
         /\ Sound(store, Verdicts) /\ Capped(store) /\ conn \in Conns(Verdicts)
         /\ track \in Tracks /\ http \in SUBSET Exchanges(Verdicts) /\ Now \in Nat
<1>1. /\ Client \in Clients(Verdicts) /\ Passing(Client) /\ Submissions
      /\ server \in [Jobs -> Runs]
  BY DEF IInv
<1>2. /\ Client.store = store /\ Client.conn = conn /\ Client.track = track
      /\ Client.http = http /\ Client.now = Now
  BY DEF Client
<1> QED BY <1>1, <1>2, Parts

(* A turn of the client. *)
LEMMA TurnReached ==
  ASSUME IInv, NEW d \in Clients(Verdicts), Passing(d), Becomes(d), server' = server,
         \A r \in d.http : r \in http \/ r.kind # "submit"
  PROVE  IInv'
<1>1. Verdicts' = Verdicts BY DEF Verdicts
<1>2. server' \in [Jobs -> Runs] /\ Submissions BY Holds
<1>3. Submissions' BY <1>2 DEF Submissions, Becomes
<1> QED BY <1>1, <1>2, <1>3, Reached

(* An exchange is over. *)
LEMMA GoneTurn ==
  ASSUME IInv, NEW r \in http
  PROVE  LET c == Gone(Client, r)
         IN  /\ c \in Clients(Verdicts) /\ c.store = store /\ c.conn = conn /\ c.track = track
             /\ c.http = http \ {r}
             /\ r.kind # "reconcile" => Passing(c)
             /\ r.kind = "reconcile" => Between(c)
             /\ r \in Exchanges(Verdicts) /\ r.job \in Jobs
<1> DEFINE h == http \ {r}
           c == [Client EXCEPT !.http = h]
<1>1. Client.http = http /\ h \in SUBSET Exchanges(Verdicts) /\ Client \in Clients(Verdicts)
  BY Holds
<1>2. Gone(Client, r) = c BY <1>1 DEF Gone
<1> HIDE DEF h
<1>3. /\ c \in Clients(Verdicts) /\ c.store = store /\ c.conn = conn /\ c.track = track
      /\ c.http = h
  BY <1>1, HttpTurn, Holds
<1> HIDE DEF c
<1>4. Passing(Client) /\ Client.track = track /\ Client.http = http BY Holds
<1>5. ASSUME r.kind # "reconcile" PROVE Passing(c)
  <2>1. Asked(c) = Asked(Client) BY <1>3, <1>4, <1>5 DEF Asked, h
  <2> QED BY <1>3, <1>4, <1>5, <2>1 DEF Passing, Asked, h
<1>6. ASSUME r.kind = "reconcile" PROVE Between(c)
  <2>1. r \in Asked(Client) BY <1>4, <1>6 DEF Asked
  <2>2. track.busy /\ Asked(Client) = {r} /\ track.ran <= track.gen /\ track.todo # <<>>
    BY <1>4, <2>1 DEF Passing
  <2>3. Asked(c) = {} BY <1>3, <1>4, <2>2 DEF Asked, h
  <2> QED BY <1>3, <2>2, <2>3 DEF Between
<1>7. r \in Exchanges(Verdicts) /\ r.job \in Jobs
  <2>1. r \in Exchanges(Verdicts) BY Holds
  <2> QED BY <2>1 DEF Exchanges
<1> QED BY <1>2, <1>3, <1>5, <1>6, <1>7 DEF h

(* A turn aside gives no run up for lost. *)
LEMMA AsideReached ==
  ASSUME IInv, NEW c \in Clients(Verdicts), Passing(c), c.http \subseteq http, c.store = store,
         NEW d, Aside(d, c, Verdicts), Becomes(d), server' = server
  PROVE  IInv' /\ store'.lost \subseteq store.lost
<1>1. d \in Clients(Verdicts) BY DEF Aside
<1>2. Passing(d) BY AsidePasses
<1>3. \A r \in d.http : r \in http \/ r.kind # "submit" BY DEF Aside
<1>4. store'.lost \subseteq store.lost BY DEF Aside, Becomes
<1> QED BY <1>1, <1>2, <1>3, <1>4, TurnReached

-----------------------------------------------------------------------------
(* Every step keeps the invariant.                                         *)

(* A frame arrives. *)
LEMMA DeliverReaches ==
  ASSUME IInv, Deliver
  PROVE  IInv' /\ store'.lost \subseteq store.lost
<1> DEFINE n == [conn EXCEPT !.wire = Tail(@)]
           c == [Client EXCEPT !.conn = n]
           f == Head(conn.wire)
           d == Ingest(c, f)
<1>1. /\ Client \in Clients(Verdicts) /\ Client.conn = conn /\ Client.store = store
      /\ Client.http = http /\ Passing(Client) /\ conn \in Conns(Verdicts)
  BY Holds
<1>2. conn.wire \in Seq(Messages(Verdicts)) /\ conn.wire # <<>> BY <1>1 DEF Conns, Deliver
<1>3. f \in Messages(Verdicts) /\ Tail(conn.wire) \in Seq(Messages(Verdicts))
  <2> DEFINE M == Messages(Verdicts)
             w == conn.wire
  <2>1. w \in Seq(M) /\ w # <<>> BY <1>2
  <2> HIDE DEF M, w
  <2>2. Head(w) \in M /\ Tail(w) \in Seq(M) BY <2>1
  <2> QED BY <2>2 DEF M, w
<1>4. n \in Conns(Verdicts)
  <2> DEFINE w == Tail(conn.wire)
             W == Seq(Messages(Verdicts))
  <2>1. w \in W BY <1>3
  <2>2. n = [conn EXCEPT !.wire = w] OBVIOUS
  <2> HIDE DEF n, w
  <2> QED BY <1>1, <2>1, <2>2 DEF Conns
<1>5. Becomes(d) /\ server' = server
  <2>1. [Client EXCEPT !.conn.wire = Tail(@)] = c BY Zenon, <1>1
  <2> HIDE DEF c
  <2> QED BY <2>1 DEF Deliver
<1> HIDE DEF n, f
<1>6. /\ Aside(c, Client, Verdicts) /\ c.store = Client.store /\ c.http = Client.http
  BY <1>1, <1>4, ConnTurn
<1> HIDE DEF c
<1>7. c \in Clients(Verdicts) BY <1>6 DEF Aside
<1>8. Passing(c) BY <1>1, <1>6, AsidePasses
<1>9. Aside(d, c, Verdicts) BY <1>3, <1>7, IngestTurn
<1> HIDE DEF d
<1> QED BY <1>1, <1>5, <1>6, <1>7, <1>8, <1>9, AsideReached

(* The socket is up again. *)
LEMMA ReconnectedReaches ==
  ASSUME IInv, Reconnected
  PROVE  IInv' /\ store'.lost \subseteq store.lost
<1> DEFINE n == [conn EXCEPT !.up = TRUE, !.holes = conn.holes \union conn.passes]
           c == [Client EXCEPT !.conn = n]
           d == Reconcile(c)
<1>1. /\ Client \in Clients(Verdicts) /\ Client.conn = conn /\ Client.store = store
      /\ Client.http = http /\ Passing(Client) /\ conn \in Conns(Verdicts)
  BY Holds
<1>2. n \in Conns(Verdicts) BY <1>1 DEF Conns
<1>3. Becomes(d) /\ server' = server
  <2>1. [Client EXCEPT !.conn.up = TRUE, !.conn.holes = @ \union conn.passes] = c
    BY <1>1 DEF Client
  <2> HIDE DEF c
  <2> QED BY <2>1 DEF Reconnected
<1> HIDE DEF n
<1>4. /\ Aside(c, Client, Verdicts) /\ c.store = Client.store /\ c.http = Client.http
  BY <1>1, <1>2, ConnTurn
<1> HIDE DEF c
<1>5. c \in Clients(Verdicts) BY <1>4 DEF Aside
<1>6. Passing(c) BY <1>1, <1>4, AsidePasses
<1>7. /\ d \in Clients(Verdicts) /\ Passing(d) /\ d.store = c.store
      /\ \A r \in d.http \ c.http : r.phase = "sent" /\ r.kind = "reconcile"
  BY <1>5, <1>6, ReconcilePaces
<1> HIDE DEF d
<1>8. \A r \in d.http : r \in http \/ r.kind # "submit" BY <1>1, <1>4, <1>7
<1>9. IInv' BY <1>3, <1>7, <1>8, TurnReached
<1> QED BY <1>1, <1>3, <1>4, <1>7, <1>9 DEF Becomes

(* A submission is answered. *)
LEMMA SubmitAnsweredReaches ==
  ASSUME IInv, SubmitAnswered
  PROVE  IInv' /\ store'.lost \subseteq store.lost
<1>1. PICK r \in Over("submit") :
        LET c == Gone(Client, r)
        IN  Turn(IF r.phase = "failed" THEN c
                 ELSE [c EXCEPT !.store = Register(@, r.job, c.now)])
  BY DEF SubmitAnswered
<1> DEFINE c == Gone(Client, r)
           s == Register(c.store, r.job, c.now)
           b == [c EXCEPT !.store = s]
           d == IF r.phase = "failed" THEN c ELSE b
<1>2. r \in http /\ r.kind = "submit" BY DEF Over
<1>3. /\ c \in Clients(Verdicts) /\ c.store = store /\ c.http = http \ {r} /\ Passing(c)
      /\ r.job \in Jobs
  BY <1>2, GoneTurn
<1>4. Becomes(d) /\ server' = server BY <1>1 DEF Turn
<1> HIDE DEF c
<1>5. Keeps(s, c.store, Verdicts)
  <2>1. Sound(c.store, Verdicts) /\ c.now \in Nat BY <1>3, Parts
  <2> QED BY <1>3, <2>1, RegisterKeeps
<1> HIDE DEF s
<1>6. Aside(b, c, Verdicts) BY <1>3, <1>5, StoreTurn
<1> HIDE DEF b
<1>7. Aside(d, c, Verdicts) BY <1>3, <1>6, AsideStays
<1> HIDE DEF d
<1> QED BY <1>3, <1>4, <1>7, AsideReached

(* What the server says of a job is what happened to it. *)
LEMMA RecordHolds ==
  ASSUME IInv, NEW j \in Jobs
  PROVE  \/ Record(j) = <<>>
         \/ \E b \in Records : /\ Record(j) = <<b>>
                               /\ b.state \in Ended => <<j, Shown[b.state]>> \in Verdicts
<1>1. server[j] \in Runs BY Holds
<1> DEFINE b == [state |-> server[j].state, node |-> server[j].node, journal |-> server[j].journal]
<1>2. b \in Records BY <1>1 DEF Runs, Records
<1>3. b.state \in Ended => <<j, Shown[b.state]>> \in Verdicts BY DEF Verdicts
<1>4. Record(j) = <<b>> \/ Record(j) = <<>> BY DEF Record
<1> HIDE DEF b
<1> QED BY <1>2, <1>3, <1>4

(* A job first seen in its middle was looked at. *)
LEMMA SightAnsweredReaches ==
  ASSUME IInv, SightAnswered
  PROVE  IInv' /\ store'.lost \subseteq store.lost
<1>1. PICK r \in {x \in http : x.kind = "sight"} :
        LET c == Gone(Client, r)
            record == Late(r)
        IN  Turn(IF record # <<>> /\ record[1].journal THEN Backfill(c, r.job) ELSE c)
  BY DEF SightAnswered
<1> DEFINE c == Gone(Client, r)
           b == Backfill(c, r.job)
           d == IF Late(r) # <<>> /\ Late(r)[1].journal THEN b ELSE c
<1>2. r \in http /\ r.kind = "sight" OBVIOUS
<1>3. /\ c \in Clients(Verdicts) /\ c.store = store /\ c.http = http \ {r} /\ Passing(c)
      /\ r.job \in Jobs
  BY <1>2, GoneTurn
<1>4. Becomes(d) /\ server' = server BY <1>1 DEF Turn
<1> HIDE DEF c
<1>5. Aside(b, c, Verdicts) BY <1>3, BackfillTurn
<1> HIDE DEF b
<1>6. Aside(d, c, Verdicts) BY <1>3, <1>5, AsideStays
<1> HIDE DEF d
<1> QED BY <1>3, <1>4, <1>6, AsideReached

(* A page arrives. *)
LEMMA PageAnsweredReaches ==
  ASSUME IInv, PageAnswered
  PROVE  IInv' /\ store'.lost \subseteq store.lost
<1>1. PICK r \in Over("page") :
        LET c == Gone(Client, r)
        IN  Turn(IF r.body = <<>> THEN BreakOff(c, r.job)
                 ELSE BackfillPage(c, r.job, r.arg, r.body[1]))
  BY DEF PageAnswered
<1> DEFINE c == Gone(Client, r)
           a == BreakOff(c, r.job)
           b == BackfillPage(c, r.job, r.arg, r.body[1])
           d == IF r.body = <<>> THEN a ELSE b
<1>2. r \in http /\ r.kind = "page" BY DEF Over
<1>3. /\ c \in Clients(Verdicts) /\ c.store = store /\ c.http = http \ {r} /\ Passing(c)
      /\ r.job \in Jobs /\ r \in Exchanges(Verdicts)
  BY <1>2, GoneTurn
<1>4. r.arg \in Spans /\ (r.body # <<>> => r.body[1] \in Pages) BY <1>2, <1>3 DEF Exchanges
<1>5. Becomes(d) /\ server' = server BY <1>1 DEF Turn
<1> HIDE DEF c
<1>6. Aside(a, c, Verdicts) BY <1>3, EndPassTurn
<1>7. r.body # <<>> => Aside(b, c, Verdicts) BY <1>3, <1>4, PageTurn
<1> HIDE DEF a, b
<1>8. Aside(d, c, Verdicts) BY <1>6, <1>7
<1> HIDE DEF d
<1> QED BY <1>3, <1>5, <1>8, AsideReached

(* A completion's artifacts arrive. *)
LEMMA HydrateAnsweredReaches ==
  ASSUME IInv, HydrateAnswered
  PROVE  IInv' /\ store'.lost \subseteq store.lost
<1>1. PICK r \in {x \in http : x.kind = "hydrate"} :
        LET c == Gone(Client, r)
            record == Late(r)
        IN  Turn(IF record = <<>> \/ record[1].state # "completed" THEN c
                 ELSE [c EXCEPT !.store = HydrateArtifacts(@, r.job)])
  BY DEF HydrateAnswered
<1> DEFINE c == Gone(Client, r)
           s == HydrateArtifacts(c.store, r.job)
           b == [c EXCEPT !.store = s]
           d == IF Late(r) = <<>> \/ Late(r)[1].state # "completed" THEN c ELSE b
<1>2. r \in http /\ r.kind = "hydrate" OBVIOUS
<1>3. /\ c \in Clients(Verdicts) /\ c.store = store /\ c.http = http \ {r} /\ Passing(c)
      /\ r.job \in Jobs
  BY <1>2, GoneTurn
<1>4. Becomes(d) /\ server' = server BY <1>1 DEF Turn
<1> HIDE DEF c
<1>5. Keeps(s, c.store, Verdicts)
  <2>1. Sound(c.store, Verdicts) BY <1>3, Parts
  <2> QED BY <1>3, <2>1, HydrateKeeps
<1> HIDE DEF s
<1>6. Aside(b, c, Verdicts) BY <1>3, <1>5, StoreTurn
<1> HIDE DEF b
<1>7. Aside(d, c, Verdicts) BY <1>3, <1>6, AsideStays
<1> HIDE DEF d
<1> QED BY <1>3, <1>4, <1>7, AsideReached

(* A run is given up for lost only on an answer to a question of the
   newest reconnect. *)
LossStep ==
  \A j \in store'.lost \ store.lost :
    \E r \in http \ http' : r.kind = "reconcile" /\ r.job = j /\ r.arg = track.gen

(* A client with another sound store. *)
LEMMA StorePart ==
  ASSUME NEW V, NEW c \in Clients(V), NEW s, Sound(s, V), Capped(s), NEW d, d = [c EXCEPT !.store = s]
  PROVE  /\ d \in Clients(V) /\ d.store = s /\ d.conn = c.conn /\ d.http = c.http
         /\ d.track = c.track
<1>1. c \in [store : Stores, conn : Conns(V), track : Tracks, http : SUBSET Exchanges(V),
             now : Nat]
  BY Parts
<1>2. s \in Stores BY DEF Sound, Formed
<1>3. /\ d \in [store : Stores, conn : Conns(V), track : Tracks, http : SUBSET Exchanges(V),
                now : Nat]
      /\ d.store = s /\ d.conn = c.conn /\ d.http = c.http /\ d.track = c.track
  BY <1>1, <1>2
<1>4. d \in Clients(V) BY <1>3 DEF Clients
<1> QED BY <1>3, <1>4

(* A pass goes on with a client that has its answer. *)
LEMMA PassReached ==
  ASSUME IInv, NEW b \in Clients(Verdicts), Between(b), b.http \subseteq http,
         Becomes(PassNext(b)), server' = server
  PROVE  /\ IInv' /\ store' = b.store
         /\ \A r \in http' \ b.http : r.phase = "sent"
<1> DEFINE d == PassNext(b)
<1>1. Paced(d, b, Verdicts) BY PassNextPaces
<1>2. Becomes(d) OBVIOUS
<1> HIDE DEF d
<1>3. \A r \in d.http : r \in http \/ r.kind # "submit" BY <1>1 DEF Paced
<1>4. d \in Clients(Verdicts) /\ Passing(d) BY <1>1 DEF Paced
<1>5. IInv' BY <1>2, <1>3, <1>4, TurnReached
<1> QED BY <1>1, <1>2, <1>5 DEF Paced, Becomes

(* The answer a pass waits for. *)
LEMMA ReconcileAnsweredReaches ==
  ASSUME IInv, ReconcileAnswered
  PROVE  IInv' /\ LossStep
<1>1. PICK r \in Over("reconcile") :
        LET c == Gone(Client, r)
        IN  Turn(PassNext(IF r.phase = "failed" THEN Unread(c, r.job)
                          ELSE IF r.body = <<>> THEN Disowned(Unread(c, r.job), r.job)
                          ELSE ReconcileRecord(c, r.job, r.body[1])))
  BY DEF ReconcileAnswered
<1> DEFINE c == Gone(Client, r)
           j == r.job
           t == [c.track EXCEPT !.covered = @ \ {j}]
           u == [c EXCEPT !.track = t]
           s == MarkLost(u.store, j, u.now)
           w == [u EXCEPT !.store = s]
           x == IF IsCurrent(u) THEN w ELSE u
           y == ReconcileRecord(c, j, r.body[1])
           b == IF r.phase = "failed" THEN u ELSE IF r.body = <<>> THEN x ELSE y
<1>2. r \in http /\ r.kind = "reconcile" /\ (r.phase = "served" \/ r.phase = "failed")
  BY DEF Over
<1>3. /\ c \in Clients(Verdicts) /\ c.store = store /\ c.track = track /\ c.http = http \ {r}
      /\ Between(c) /\ j \in Jobs /\ r \in Exchanges(Verdicts)
  BY <1>2, GoneTurn
<1>4. r.body # <<>> => r.body[1] \in Records /\ (r.body[1].state \in Ended => <<j, Shown[r.body[1].state]>> \in Verdicts)
  BY <1>2, <1>3 DEF Exchanges, Answered
<1>5. Becomes(PassNext(b)) /\ server' = server
  <2>1. Unread(c, j) = u /\ Disowned(u, j) = x BY Zenon DEF Unread, Disowned
  <2>2. b = IF r.phase = "failed" THEN Unread(c, j)
            ELSE IF r.body = <<>> THEN Disowned(Unread(c, j), j)
            ELSE ReconcileRecord(c, j, r.body[1])
    <3> HIDE DEF c, j, u, x
    <3> QED BY <2>1
  <2> HIDE DEF b
  <2> QED BY <1>1, <2>2 DEF Turn
<1>6. track \in Tracks /\ Passing(Client) /\ Client.track = track /\ Client.http = http BY Holds
<1>7. r.arg = track.ran
  <2>1. r \in Asked(Client) BY <1>2, <1>6 DEF Asked
  <2> QED BY <1>6, <2>1 DEF Passing
<1> HIDE DEF c, j
<1>8. /\ u \in Clients(Verdicts) /\ u.store = store /\ u.http = http \ {r} /\ Between(u)
      /\ u.track.ran = track.ran /\ u.track.gen = track.gen
  <2>1. /\ t \in Tracks /\ t.ran = track.ran /\ t.gen = track.gen /\ t.busy = track.busy
        /\ t.todo = track.todo
    BY <1>3, <1>6 DEF Tracks
  <2> HIDE DEF t
  <2>2. u \in Clients(Verdicts) /\ u.store = c.store /\ u.http = c.http /\ u.track = t
    BY <1>3, <2>1, TrackTurn
  <2> HIDE DEF u
  <2>3. Asked(u) = Asked(c) BY <2>2 DEF Asked
  <2>4. Between(u) BY <1>3, <2>1, <2>2, <2>3 DEF Between
  <2> QED BY <1>3, <2>1, <2>2, <2>4
<1> HIDE DEF u
<1>9. Loses(s, store, Verdicts, j)
  <2>1. Sound(u.store, Verdicts) /\ u.now \in Nat BY <1>8, Parts
  <2> QED BY <1>8, <2>1, MarkLostLoses
<1> HIDE DEF s
<1>10. /\ w \in Clients(Verdicts) /\ w.store = s /\ w.http = http \ {r} /\ Between(w)
  <2>1. Sound(s, Verdicts) /\ Capped(s) BY <1>9, Holds DEF Loses
  <2>2. /\ w \in Clients(Verdicts) /\ w.store = s /\ w.http = u.http /\ w.track = u.track
    BY <1>8, <2>1, StorePart
  <2> HIDE DEF w
  <2>3. Asked(w) = Asked(u) BY <2>2 DEF Asked
  <2>4. Between(w) BY <1>8, <2>2, <2>3 DEF Between
  <2> QED BY <1>8, <2>2, <2>4
<1> HIDE DEF w
<1>11. r.body # <<>> => /\ y \in Clients(Verdicts) /\ Between(y) /\ y.store.lost \subseteq store.lost
                        /\ \A q \in y.http : q \in http \/ q.kind # "submit"
  <2> SUFFICES ASSUME r.body # <<>>
               PROVE  /\ y \in Clients(Verdicts) /\ Between(y) /\ y.store.lost \subseteq store.lost
                      /\ \A q \in y.http : q \in http \/ q.kind # "submit"
    OBVIOUS
  <2>1. Aside(y, c, Verdicts) BY <1>3, <1>4, RecordTurn
  <2> HIDE DEF y
  <2>2. Between(y) BY <1>3, <2>1, AsidePasses
  <2> QED BY <1>3, <2>1, <2>2 DEF Aside
<1> HIDE DEF y
<1>12. CASE r.phase = "failed"
  <2>1. b = u BY <1>12
  <2>2. Becomes(PassNext(u)) BY <1>5, <2>1
  <2>3. IInv' /\ store' = u.store BY <1>5, <1>8, <2>2, PassReached
  <2> QED BY <1>8, <2>3 DEF LossStep
<1>13. CASE r.phase # "failed" /\ r.body = <<>> /\ ~IsCurrent(u)
  <2>1. b = u BY <1>13
  <2>2. Becomes(PassNext(u)) BY <1>5, <2>1
  <2>3. IInv' /\ store' = u.store BY <1>5, <1>8, <2>2, PassReached
  <2> QED BY <1>8, <2>3 DEF LossStep
<1>14. CASE r.phase # "failed" /\ r.body = <<>> /\ IsCurrent(u)
  <2>1. b = w BY <1>14
  <2>2. Becomes(PassNext(w)) BY <1>5, <2>1
  <2>3. /\ IInv' /\ store' = w.store /\ \A q \in http' \ w.http : q.phase = "sent"
    BY <1>5, <1>10, <2>2, PassReached
  <2>4. r.phase = "served" BY <1>2, <1>14
  <2>5. r \notin http' BY <1>10, <2>3, <2>4
  <2>6. r.arg = track.gen BY <1>7, <1>8, <1>14 DEF IsCurrent
  <2>7. store'.lost \subseteq store.lost \cup {r.job} BY <1>9, <1>10, <2>3 DEF Loses, j
  <2> QED BY <1>2, <2>3, <2>5, <2>6, <2>7 DEF LossStep
<1>15. CASE r.phase # "failed" /\ r.body # <<>>
  <2>1. b = y BY <1>15
  <2> DEFINE d == PassNext(y)
  <2>2. Becomes(d) BY <1>5, <2>1
  <2>3. Paced(d, y, Verdicts) BY <1>11, <1>15, PassNextPaces
  <2> HIDE DEF d
  <2>4. d \in Clients(Verdicts) /\ Passing(d) /\ d.store = y.store BY <2>3 DEF Paced
  <2>5. \A q \in d.http : q \in http \/ q.kind # "submit" BY <1>11, <1>15, <2>3 DEF Paced
  <2>6. IInv' BY <1>5, <2>2, <2>4, <2>5, TurnReached
  <2>7. store'.lost \subseteq store.lost BY <1>11, <1>15, <2>2, <2>4 DEF Becomes
  <2> QED BY <2>6, <2>7 DEF LossStep
<1> HIDE DEF b
<1> QED BY <1>12, <1>13, <1>14, <1>15

(* A step of another kind, from its parts. *)
LEMMA PartsReached ==
  ASSUME IInv, Sound(store', Verdicts'), Capped(store'), conn' \in Conns(Verdicts'),
         track' = track, http' \in SUBSET Exchanges(Verdicts'),
         Passing([Client EXCEPT !.http = http']),
         server' \in [Jobs -> Runs], Submissions'
  PROVE  IInv'
<1> DEFINE d == [store |-> store', conn |-> conn', track |-> track, http |-> http', now |-> Now]
           b == [Client EXCEPT !.http = http']
<1>1. track \in Tracks /\ Now \in Nat BY Holds
<1>2. d \in Clients(Verdicts') BY <1>1, ClientOf
<1>3. b.track = track /\ b.http = http' BY DEF Client
<1>4. d.track = track /\ d.http = http' OBVIOUS
<1>5. Becomes(d) BY DEF Becomes
<1>6. Passing(b) OBVIOUS
<1> HIDE DEF b, d
<1>7. Passing(d) BY <1>3, <1>4, <1>6 DEF Passing, Asked
<1> QED BY <1>2, <1>5, <1>7, Reached

(* A step of the store alone. *)
LEMMA StoreReached ==
  ASSUME IInv, Keeps(store', store, Verdicts), UNCHANGED <<conn, track, http, server>>
  PROVE  IInv' /\ LossStep
<1>1. Verdicts' = Verdicts BY DEF Verdicts
<1>2. /\ Capped(store) /\ conn \in Conns(Verdicts) /\ http \in SUBSET Exchanges(Verdicts)
      /\ server \in [Jobs -> Runs] /\ Submissions /\ Passing(Client)
  BY Holds
<1>3. Sound(store', Verdicts') /\ Capped(store') /\ store'.lost \subseteq store.lost
  BY <1>1, <1>2 DEF Keeps
<1>4. Submissions' BY <1>2 DEF Submissions
<1>5. [Client EXCEPT !.http = http'] = Client BY DEF Client
<1>6. IInv' BY <1>1, <1>2, <1>3, <1>4, <1>5, PartsReached
<1> QED BY <1>3, <1>6 DEF LossStep

(* A view opens. *)
LEMMA OpenViewReaches ==
  ASSUME IInv, OpenView
  PROVE  IInv' /\ LossStep
<1>1. PICK j \in Known(store) : store' = Retain(store, j) BY DEF OpenView
<1>2. UNCHANGED <<conn, track, http, server>> BY DEF OpenView
<1>3. Sound(store, Verdicts) BY Holds
<1>4. j \in Jobs BY <1>3, NoteTypes DEF Sound
<1>5. Keeps(store', store, Verdicts) BY <1>1, <1>3, <1>4, RetainKeeps
<1> QED BY <1>2, <1>5, StoreReached

(* A view closes. *)
LEMMA CloseViewReaches ==
  ASSUME IInv, CloseView
  PROVE  IInv' /\ LossStep
<1>1. PICK j \in Jobs : store' = Release(store, j) BY DEF CloseView
<1>2. UNCHANGED <<conn, track, http, server>> BY DEF CloseView
<1>3. Sound(store, Verdicts) BY Holds
<1>4. Keeps(store', store, Verdicts) BY <1>1, <1>3, ReleaseKeeps
<1> QED BY <1>2, <1>4, StoreReached

(* A saved result is shown again. *)
LEMMA RestoreResultReaches ==
  ASSUME IInv, RestoreResult
  PROVE  IInv' /\ LossStep
<1>1. PICK j \in Jobs \ Known(store) :
        /\ server[j].state = "completed"
        /\ store' = RestoreCompleted(store, j, server[j].node, NoTime)
  BY DEF RestoreResult
<1>2. UNCHANGED <<conn, track, http, server>> BY DEF RestoreResult
<1>3. Sound(store, Verdicts) /\ server[j] \in Runs BY Holds
<1>4. server[j].node \in Nodes BY <1>3 DEF Runs
<1>5. <<j, "completed">> \in Verdicts
  <2>1. Shown["completed"] = "completed" /\ "completed" \in Ended BY DEF Shown, Ended
  <2> QED BY <1>1, <2>1 DEF Verdicts
<1>6. NoTime \in Nat BY DEF NoTime
<1>7. Keeps(store', store, Verdicts) BY <1>1, <1>3, <1>4, <1>5, <1>6, RestoreKeeps
<1> QED BY <1>2, <1>7, StoreReached

(* The server goes on with one job, and what has ended has ended. *)
Continues(j, R) ==
  /\ R \in Runs /\ server' = [server EXCEPT ![j] = R]
  /\ R.state = server[j].state \/ server[j].state \notin Ended

(* The ends there have been stay, and the job's is among them. *)
LEMMA Grown ==
  ASSUME IInv, NEW j \in Jobs, NEW R, Continues(j, R)
  PROVE  /\ Verdicts \subseteq Verdicts' /\ server' \in [Jobs -> Runs] /\ server'[j] = R
         /\ \A k \in Jobs : k # j => server'[k] = server[k]
         /\ R.state \in Ended => <<j, Shown[R.state]>> \in Verdicts'
         /\ \A t : Sound(t, Verdicts) => Sound(t, Verdicts')
         /\ Conns(Verdicts) \subseteq Conns(Verdicts')
         /\ Messages(Verdicts) \subseteq Messages(Verdicts')
         /\ Exchanges(Verdicts) \subseteq Exchanges(Verdicts')
<1>1. server \in [Jobs -> Runs] BY Holds
<1>2. /\ server' \in [Jobs -> Runs] /\ server'[j] = R
      /\ \A k \in Jobs : k # j => server'[k] = server[k]
  BY <1>1 DEF Continues
<1>3. \A k \in Jobs : server[k].state \in Ended => server'[k].state = server[k].state
  BY <1>2 DEF Continues
<1>4. Verdicts \subseteq Verdicts' BY <1>3 DEF Verdicts
<1>5. R.state \in Ended => <<j, Shown[R.state]>> \in Verdicts' BY <1>2 DEF Verdicts
<1> QED BY <1>2, <1>4, <1>5, MoreEnds

(* Frames that fit the record R of the run they tell of. *)
Fitting(f, R) ==
  /\ f.kind \in {"run_started", "node", "preview", "log"} \cup Ends
  /\ f.arg \in Nat \cup Nodes \cup {Still}
  /\ f.kind = "node" => f.arg \in Nodes
  /\ f.kind = "preview" => f.arg \in Slots \cup {Still}
  /\ f.kind \in Ends => R.state \in Ended /\ EndOf[f.kind] = Shown[R.state]

(* What is sent of them. *)
LEMMA SentType ==
  ASSUME NEW V, NEW j \in Jobs, NEW n \in Nat, NEW fs, NEW m \in Nat, DOMAIN fs = 1..m,
         NEW R, \A i \in 1..m : Fitting(fs[i], R),
         R.state \in Ended => <<j, Shown[R.state]>> \in V
  PROVE  [i \in DOMAIN fs |->
            [job |-> j, kind |-> fs[i].kind, seq |-> n + i,
             arg |-> IF fs[i].kind = "log" THEN n + i ELSE fs[i].arg]] \in Seq(Messages(V))
<1> DEFINE S(i) == [job |-> j, kind |-> fs[i].kind, seq |-> n + i,
                    arg |-> IF fs[i].kind = "log" THEN n + i ELSE fs[i].arg]
<1>1. ASSUME NEW i \in 1..m PROVE S(i) \in Messages(V)
  <2> DEFINE f == fs[i]
             k == f.kind
             a == IF k = "log" THEN n + i ELSE f.arg
  <2>1. Fitting(f, R) /\ n + i \in Nat BY <1>1
  <2> HIDE DEF f
  <2>2. /\ k \in {"run_started", "node", "preview", "log"} \cup Ends
        /\ k \in Ends => k # "log" /\ k # "node" /\ k # "preview"
    BY <2>1 DEF Fitting, Ends
  <2>3. /\ a \in Nat \cup Nodes \cup {Still} /\ (k = "node" => a \in Nodes)
        /\ k = "preview" => a \in Slots \cup {Still}
        /\ k = "log" => a \in Nat
    BY <2>1 DEF Fitting
  <2>4. k \in Ends => <<j, EndOf[k]>> \in V BY <2>1 DEF Fitting
  <2>5. S(i) = [job |-> j, kind |-> k, seq |-> n + i, arg |-> a] BY DEF f
  <2> HIDE DEF k, a
  <2> QED BY <2>1, <2>2, <2>3, <2>4, <2>5 DEF Messages
<1> DEFINE A == Messages(V)
<1> HIDE DEF S
<1>2. \A i \in 1..m : S(i) \in A BY <1>1
<1> HIDE DEF A
<1>3. [i \in 1..m |-> S(i)] \in Seq(A) BY <1>2
<1> QED BY <1>3 DEF S, A

(* The server goes on, and tells who listens. *)
LEMMA PublishReaches ==
  ASSUME IInv, NEW j \in Jobs, NEW fs, NEW m \in Nat, DOMAIN fs = 1..m, Len(fs) = m,
         NEW R \in Runs, \A i \in 1..m : Fitting(fs[i], R),
         R.seq = server[j].seq, server[j].state # "none",
         R.state = server[j].state \/ server[j].state \notin Ended,
         Publish(j, fs, R)
  PROVE  IInv' /\ LossStep
<1> DEFINE n == server[j].seq
           sent == [i \in DOMAIN fs |->
                     [job |-> j, kind |-> fs[i].kind, seq |-> n + i,
                      arg |-> IF fs[i].kind = "log" THEN n + i ELSE fs[i].arg]]
           logged == {n + i : i \in {k \in DOMAIN fs : fs[k].kind = "log"}}
           Q == [R EXCEPT !.seq = n + m, !.logs = @ \union logged]
           w == conn.wire \o sent
<1>1. n \in Nat BY Holds DEF Runs
<1>2. logged \subseteq Nat BY <1>1
<1>3. /\ server' = [server EXCEPT ![j] = Q]
      /\ conn' = IF conn.up THEN [conn EXCEPT !.wire = w] ELSE conn
      /\ UNCHANGED <<store, track, http>>
  <2> HIDE DEF sent, logged
  <2>1. sent = [i \in DOMAIN fs |->
                     [job |-> j, kind |-> fs[i].kind, seq |-> n + i,
                      arg |-> IF fs[i].kind = "log" THEN n + i ELSE fs[i].arg]]
        /\ logged = {n + i : i \in {k \in DOMAIN fs : fs[k].kind = "log"}}
    BY DEF sent, logged
  <2> QED BY <2>1 DEF Publish
<1>4. Q \in Runs /\ Q.state = R.state
  <2> DEFINE a == n + m
             b == R.logs \union logged
  <2>1. R \in Runs /\ R.logs \in SUBSET Nat BY DEF Runs
  <2>2. a \in Nat BY <1>1
  <2> HIDE DEF logged
  <2>3. b \in SUBSET Nat BY <1>2, <2>1
  <2>4. Q = [R EXCEPT !.seq = a, !.logs = b] OBVIOUS
  <2> HIDE DEF a, b, Q
  <2> QED BY <2>1, <2>2, <2>3, <2>4 DEF Runs
<1> HIDE DEF Q
<1>5. Continues(j, Q) BY <1>3, <1>4 DEF Continues
<1>6. /\ server' \in [Jobs -> Runs] /\ \A k \in Jobs : k # j => server'[k] = server[k]
      /\ R.state \in Ended => <<j, Shown[R.state]>> \in Verdicts'
      /\ \A t : Sound(t, Verdicts) => Sound(t, Verdicts')
      /\ Conns(Verdicts) \subseteq Conns(Verdicts')
      /\ Exchanges(Verdicts) \subseteq Exchanges(Verdicts')
  BY <1>4, <1>5, Grown
<1>7. /\ Sound(store, Verdicts) /\ Capped(store) /\ conn \in Conns(Verdicts)
      /\ http \in SUBSET Exchanges(Verdicts) /\ Passing(Client) /\ Submissions
  BY Holds
<1>8. sent \in Seq(Messages(Verdicts')) BY <1>1, <1>6, SentType
<1> HIDE DEF sent
<1>9. conn' \in Conns(Verdicts')
  <2>1. conn \in Conns(Verdicts') BY <1>6, <1>7
  <2> DEFINE A == Messages(Verdicts')
  <2> HIDE DEF A
  <2>2. conn.wire \in Seq(A) BY <2>1 DEF Conns, A
  <2>3. w \in Seq(A) BY <1>8, <2>2 DEF A
  <2> HIDE DEF w
  <2>4. [conn EXCEPT !.wire = w] \in Conns(Verdicts') BY <2>1, <2>3 DEF Conns, A
  <2> QED BY <1>3, <2>1, <2>4
<1>10. Submissions'
  <2>1. \A r \in http : r.job \in Jobs BY <1>7 DEF Exchanges
  <2>2. \A r \in http : r.kind = "submit" /\ r.phase = "sent" => server[r.job].state = "none"
    BY <1>7 DEF Submissions
  <2>3. \A r \in http : r.kind = "submit" /\ r.phase = "sent" => server'[r.job].state = "none"
    BY <1>6, <2>1, <2>2
  <2> QED BY <1>3, <2>3 DEF Submissions
<1>11. [Client EXCEPT !.http = http'] = Client BY <1>3 DEF Client
<1>12. /\ Sound(store', Verdicts') /\ Capped(store') /\ track' = track
       /\ http' \in SUBSET Exchanges(Verdicts')
  BY <1>3, <1>6, <1>7
<1>13. IInv' BY <1>6, <1>7, <1>9, <1>10, <1>11, <1>12, PartsReached
<1> QED BY <1>3, <1>13 DEF LossStep

(* One frame, or two. *)
LEMMA PublishOneReaches ==
  ASSUME IInv, NEW j \in Jobs, NEW f, NEW R \in Runs, Fitting(f, R),
         R.seq = server[j].seq, server[j].state # "none",
         R.state = server[j].state \/ server[j].state \notin Ended,
         Publish(j, <<f>>, R)
  PROVE  IInv' /\ LossStep
<1> DEFINE fs == <<f>>
<1>1. 1 \in Nat /\ DOMAIN fs = 1..1 /\ Len(fs) = 1 /\ \A i \in 1..1 : fs[i] = f OBVIOUS
<1>2. Publish(j, fs, R) OBVIOUS
<1> HIDE DEF fs
<1>3. \A i \in 1..1 : Fitting(fs[i], R) BY <1>1
<1> QED BY <1>1, <1>2, <1>3, PublishReaches

(* Two frames. *)
LEMMA PublishTwoReaches ==
  ASSUME IInv, NEW j \in Jobs, NEW f, NEW g, NEW R \in Runs, Fitting(f, R), Fitting(g, R),
         R.seq = server[j].seq, server[j].state # "none",
         R.state = server[j].state \/ server[j].state \notin Ended,
         Publish(j, <<f, g>>, R)
  PROVE  IInv' /\ LossStep
<1> DEFINE fs == <<f, g>>
<1>1. 2 \in Nat /\ DOMAIN fs = 1..2 /\ Len(fs) = 2 /\ \A i \in 1..2 : fs[i] = f \/ fs[i] = g
  OBVIOUS
<1>2. Publish(j, fs, R) OBVIOUS
<1> HIDE DEF fs
<1>3. \A i \in 1..2 : Fitting(fs[i], R) BY <1>1
<1> QED BY <1>1, <1>2, <1>3, PublishReaches

(* A job starts, or its node does, or it says something. *)
LEMMA RunGoesOnReaches ==
  ASSUME IInv, RunStarts \/ NodeStarts \/ NodeFinishes \/ NodeRunsAgain \/ Logs \/ Previews
  PROVE  IInv' /\ LossStep
<1>1. server \in [Jobs -> Runs] BY Holds
<1>2. ASSUME NEW k \in {"run_started", "node", "preview", "log"}, NEW a, NEW R,
             a \in Nat \cup Nodes \cup {Still}, k = "node" => a \in Nodes,
             k = "preview" => a \in Slots \cup {Still}
      PROVE  Fitting(Frame(k, a), R)
  BY <1>2 DEF Fitting, Frame, Ends
<1>3. CASE RunStarts
  <2>1. PICK j \in Jobs :
          /\ server[j].state = "queued"
          /\ Publish(j, <<Frame("run_started", 0)>>, [server[j] EXCEPT !.state = "running"])
    BY <1>3 DEF RunStarts
  <2> DEFINE R == [server[j] EXCEPT !.state = "running"]
             f == Frame("run_started", 0)
  <2>2. R \in Runs /\ R.seq = server[j].seq BY <1>1 DEF Runs, States
  <2>3. Fitting(f, R) BY <1>2
  <2>4. server[j].state \notin Ended /\ server[j].state # "none" BY <2>1 DEF Ended
  <2>5. Publish(j, <<f>>, R) BY <2>1
  <2> HIDE DEF R, f
  <2> QED BY <2>2, <2>3, <2>4, <2>5, PublishOneReaches
<1>4. CASE NodeStarts \/ NodeRunsAgain
  <2>1. PICK j \in Jobs :
          /\ server[j].state = "running"
          /\ Publish(j, <<Frame("node", "running")>>, [server[j] EXCEPT !.node = "running"])
    BY <1>4 DEF NodeStarts, NodeRunsAgain, Live
  <2> DEFINE R == [server[j] EXCEPT !.node = "running"]
             f == Frame("node", "running")
  <2>2. R \in Runs /\ R.seq = server[j].seq /\ R.state = server[j].state BY <1>1 DEF Runs, Nodes
  <2>3. Fitting(f, R) BY <1>2 DEF Nodes
  <2>4. server[j].state # "none" BY <2>1
  <2>5. Publish(j, <<f>>, R) BY <2>1
  <2> HIDE DEF R, f
  <2> QED BY <2>2, <2>3, <2>4, <2>5, PublishOneReaches
<1>5. CASE NodeFinishes
  <2>1. PICK j \in Jobs :
          /\ server[j].state = "running"
          /\ Publish(j, <<Frame("node", "done")>>, [server[j] EXCEPT !.node = "done"])
    BY <1>5 DEF NodeFinishes, Live
  <2> DEFINE R == [server[j] EXCEPT !.node = "done"]
             f == Frame("node", "done")
  <2>2. R \in Runs /\ R.seq = server[j].seq /\ R.state = server[j].state
    BY <1>1 DEF Runs, Nodes, NodeEnds
  <2>3. Fitting(f, R) BY <1>2 DEF Nodes, NodeEnds
  <2>4. server[j].state # "none" BY <2>1
  <2>5. Publish(j, <<f>>, R) BY <2>1
  <2> HIDE DEF R, f
  <2> QED BY <2>2, <2>3, <2>4, <2>5, PublishOneReaches
<1>6. CASE Logs
  <2>1. PICK j \in Jobs :
          /\ server[j].state = "running" /\ Publish(j, <<Frame("log", 0)>>, server[j])
    BY <1>6 DEF Logs, Live
  <2> DEFINE f == Frame("log", 0)
  <2>2. server[j] \in Runs BY <1>1
  <2>3. Fitting(f, server[j]) BY <1>2
  <2>4. server[j].state # "none" BY <2>1
  <2>5. Publish(j, <<f>>, server[j]) BY <2>1
  <2> HIDE DEF f
  <2> QED BY <2>2, <2>3, <2>4, <2>5, PublishOneReaches
<1>7. CASE Previews
  <2>1. PICK j \in Jobs, slot \in Slots \union {Still} :
          /\ server[j].state = "running" /\ Publish(j, <<Frame("preview", slot)>>, server[j])
    BY <1>7 DEF Previews, Live
  <2> DEFINE f == Frame("preview", slot)
  <2>2. server[j] \in Runs BY <1>1
  <2>3. Fitting(f, server[j])
    <3>1. slot \in Nat \cup Nodes \cup {Still} BY ExecutionAssumption
    <3> QED BY <1>2, <3>1
  <2>4. server[j].state # "none" BY <2>1
  <2>5. Publish(j, <<f>>, server[j]) BY <2>1
  <2> HIDE DEF f
  <2> QED BY <2>2, <2>3, <2>4, <2>5, PublishOneReaches
<1> QED BY <1>3, <1>4, <1>5, <1>6, <1>7

(* A job ends, and what is sent says how. *)
LEMMA RunEndsReaches ==
  ASSUME IInv, RunSucceeds \/ RunFails \/ RunIsCancelled
  PROVE  IInv' /\ LossStep
<1>1. server \in [Jobs -> Runs] BY Holds
<1>2. ASSUME NEW k \in Ends, NEW R, R.state \in Ended, EndOf[k] = Shown[R.state]
      PROVE  Fitting(Frame(k, 0), R)
  BY <1>2 DEF Fitting, Frame, Ends
<1>3. /\ EndOf["run_finished"] = Shown["completed"] /\ EndOf["completed"] = Shown["completed"]
      /\ EndOf["failed"] = Shown["failed"] /\ EndOf["cancelled"] = Shown["cancelled"]
      /\ {"run_finished", "completed", "failed", "cancelled"} \subseteq Ends
      /\ {"completed", "failed", "cancelled"} \subseteq Ended \cap States
      /\ {"queued", "running", "none"} \cap Ended = {} /\ "error" \in Nodes
  BY DEF EndOf, Shown, Ends, Ended, States, Nodes, NodeEnds
<1>4. CASE RunSucceeds
  <2>1. PICK j \in Jobs :
          /\ server[j].state = "running"
          /\ Publish(j, <<Frame("run_finished", 0), Frame("completed", 0)>>,
                     [server[j] EXCEPT !.state = "completed"])
    BY <1>4 DEF RunSucceeds, Live
  <2> DEFINE R == [server[j] EXCEPT !.state = "completed"]
             f == Frame("run_finished", 0)
             g == Frame("completed", 0)
  <2>2. R \in Runs /\ R.seq = server[j].seq /\ R.state = "completed" BY <1>1, <1>3 DEF Runs
  <2>3. Publish(j, <<f, g>>, R) BY <2>1
  <2> HIDE DEF R
  <2>4. Fitting(f, R) /\ Fitting(g, R) BY <1>2, <1>3, <2>2
  <2>5. server[j].state \notin Ended /\ server[j].state # "none" BY <1>3, <2>1
  <2> HIDE DEF f, g
  <2> QED BY <2>2, <2>3, <2>4, <2>5, PublishTwoReaches
<1>5. CASE RunFails
  <2>1. PICK j \in Jobs :
          /\ server[j].state = "running"
          /\ Publish(j, (IF server[j].node = "none" THEN <<>> ELSE <<Frame("node", "error")>>)
                          \o <<Frame("failed", 0)>>,
                     [server[j] EXCEPT !.state = "failed", !.node = "error"])
    BY <1>5 DEF RunFails, Live
  <2> DEFINE R == [server[j] EXCEPT !.state = "failed", !.node = "error"]
             f == Frame("node", "error")
             g == Frame("failed", 0)
  <2>2. R \in Runs /\ R.seq = server[j].seq /\ R.state = "failed" BY <1>1, <1>3 DEF Runs
  <2>3. Publish(j, (IF server[j].node = "none" THEN <<>> ELSE <<f>>) \o <<g>>, R) BY <2>1
  <2> HIDE DEF R
  <2>4. Fitting(g, R) BY <1>2, <1>3, <2>2
  <2>5. Fitting(f, R) BY <1>3 DEF Fitting, Frame, Ends
  <2>6. server[j].state \notin Ended /\ server[j].state # "none" BY <1>3, <2>1
  <2> HIDE DEF f, g
  <2>7. CASE server[j].node = "none"
    <3>1. <<>> \o <<g>> = <<g>> OBVIOUS
    <3>2. Publish(j, <<g>>, R) BY <2>3, <2>7, <3>1
    <3> QED BY <2>2, <2>4, <2>6, <3>2, PublishOneReaches
  <2>8. CASE server[j].node # "none"
    <3> DEFINE fs == <<f>> \o <<g>>
    <3>1. /\ 2 \in Nat /\ DOMAIN fs = 1..2 /\ Len(fs) = 2
          /\ \A i \in 1..2 : fs[i] = f \/ fs[i] = g
      OBVIOUS
    <3>2. Publish(j, fs, R) BY <2>3, <2>8
    <3> HIDE DEF fs
    <3>3. \A i \in 1..2 : Fitting(fs[i], R) BY <2>4, <2>5, <3>1
    <3> QED BY <2>2, <2>6, <3>1, <3>2, <3>3, PublishReaches
  <2> QED BY <2>7, <2>8
<1>6. CASE RunIsCancelled
  <2>1. PICK j \in Jobs :
          /\ server[j].state \in {"queued", "running"}
          /\ Publish(j, <<Frame("cancelled", 0)>>, [server[j] EXCEPT !.state = "cancelled"])
    BY <1>6 DEF RunIsCancelled
  <2> DEFINE R == [server[j] EXCEPT !.state = "cancelled"]
             f == Frame("cancelled", 0)
  <2>2. R \in Runs /\ R.seq = server[j].seq /\ R.state = "cancelled" BY <1>1, <1>3 DEF Runs
  <2>3. Publish(j, <<f>>, R) BY <2>1
  <2> HIDE DEF R
  <2>4. Fitting(f, R) BY <1>2, <1>3, <2>2
  <2>5. server[j].state \notin Ended /\ server[j].state # "none" BY <1>3, <2>1
  <2> HIDE DEF f
  <2> QED BY <2>2, <2>3, <2>4, <2>5, PublishOneReaches
<1> QED BY <1>4, <1>5, <1>6

(* An exchange that goes on is the same question, with another phase and
   another body. *)
LEMMA ExchangeGoesOn ==
  ASSUME IInv, NEW r \in http, NEW q, q.kind = r.kind, q.arg = r.arg, q.job = r.job,
         http' = (http \ {r}) \union {q}
  PROVE  Passing([Client EXCEPT !.http = http'])
<1> DEFINE d == [Client EXCEPT !.http = http']
<1>1. Passing(Client) /\ Client.track = track /\ Client.http = http BY Holds
<1>2. d.track = track /\ d.http = http' BY DEF Client
<1> HIDE DEF d
<1>3. ASSUME r.kind = "reconcile" PROVE Passing(d)
  <2>1. r \in Asked(Client) BY <1>1, <1>3 DEF Asked
  <2>2. /\ track.busy /\ Asked(Client) = {r} /\ r.arg = track.ran /\ track.ran <= track.gen
        /\ track.todo # <<>> /\ r.job = Head(track.todo)
    BY <1>1, <2>1 DEF Passing
  <2>3. Asked(d) = {q} BY <1>1, <1>2, <1>3, <2>2 DEF Asked
  <2>4. q \in d.http BY <1>2
  <2> QED BY <1>2, <2>2, <2>3, <2>4 DEF Passing
<1>4. ASSUME r.kind # "reconcile" PROVE Passing(d)
  <2>1. Asked(d) = Asked(Client) BY <1>1, <1>2, <1>4 DEF Asked
  <2>2. \A x : x \in Asked(Client) => x \in d.http BY <2>1 DEF Asked
  <2>3. \A x : Asked(Client) = {x} => x \in d.http BY <2>2
  <2> QED BY <1>1, <1>2, <2>1, <2>3 DEF Passing
<1> QED BY <1>3, <1>4 DEF d

(* A step of one run and of the exchanges. *)
LEMMA ServerReached ==
  ASSUME IInv, NEW j \in Jobs, NEW R, Continues(j, R), UNCHANGED <<store, conn, track>>,
         http' \in SUBSET Exchanges(Verdicts'), Passing([Client EXCEPT !.http = http']),
         Submissions'
  PROVE  IInv' /\ LossStep
<1>1. /\ server' \in [Jobs -> Runs] /\ \A t : Sound(t, Verdicts) => Sound(t, Verdicts')
      /\ Conns(Verdicts) \subseteq Conns(Verdicts')
  BY Grown
<1>2. /\ Sound(store, Verdicts) /\ Capped(store) /\ conn \in Conns(Verdicts)
  BY Holds
<1>3. /\ Sound(store', Verdicts') /\ Capped(store') /\ conn' \in Conns(Verdicts')
      /\ track' = track
  BY <1>1, <1>2
<1>4. IInv' BY <1>1, <1>3, PartsReached
<1> QED BY <1>4 DEF LossStep

(* The server forgets a job, has it again, or writes a record to its
   journal only. *)
LEMMA UnseenReaches ==
  ASSUME IInv, Forget \/ Restore \/ LogIsShed
  PROVE  IInv' /\ LossStep
<1>2. UNCHANGED <<store, conn, track, http>> BY DEF Forget, Restore, LogIsShed
<1>3. server \in [Jobs -> Runs] /\ http \in SUBSET Exchanges(Verdicts) /\ Passing(Client) /\ Submissions
  BY Holds
<1>1. PICK j \in Jobs, R \in Runs :
        server' = [server EXCEPT ![j] = R] /\ R.state = server[j].state
  <2>1. CASE Forget \/ Restore
    <3>1. PICK j \in Jobs, b \in BOOLEAN : server' = [server EXCEPT ![j].known = b]
      BY <2>1 DEF Forget, Restore
    <3> DEFINE R == [server[j] EXCEPT !.known = b]
    <3>2. R \in Runs /\ R.state = server[j].state BY <1>3 DEF Runs
    <3> QED BY <3>1, <3>2
  <2>2. CASE LogIsShed
    <3>1. PICK j \in Jobs :
            LET n == server[j].seq + 1
            IN  server' = [server EXCEPT ![j].seq = n, ![j].logs = @ \union {n},
                                         ![j].shed = @ \union {n}]
      BY <2>2 DEF LogIsShed
    <3> DEFINE n == server[j].seq + 1
               R == [server[j] EXCEPT !.seq = n, !.logs = @ \union {n}, !.shed = @ \union {n}]
    <3>2. R \in Runs /\ R.state = server[j].state
      <4>1. server[j] \in Runs BY <1>3
      <4>2. n \in Nat BY <4>1 DEF Runs
      <4>3. server[j].logs \union {n} \in SUBSET Nat /\ server[j].shed \union {n} \in SUBSET Nat
        BY <4>1, <4>2 DEF Runs
      <4> HIDE DEF n
      <4> QED BY <4>1, <4>2, <4>3 DEF Runs
    <3>3. server' = [server EXCEPT ![j] = R] BY <1>3, <3>1
    <3> QED BY <3>2, <3>3
  <2> QED BY <2>1, <2>2
<1>4. R \in Runs /\ R.state = server[j].state BY <1>1
<1>5. server' = [server EXCEPT ![j] = R] BY <1>1
<1>6. Continues(j, R) BY <1>4, <1>5 DEF Continues
<1>7. Exchanges(Verdicts) \subseteq Exchanges(Verdicts') BY <1>6, Grown
<1>8. http' \in SUBSET Exchanges(Verdicts') BY <1>2, <1>3, <1>7
<1>9. [Client EXCEPT !.http = http'] = Client BY <1>2 DEF Client
<1>10. Submissions'
  <2>1. \A k \in Jobs : server'[k].state = server[k].state BY <1>3, <1>4, <1>5
  <2>2. \A r \in http : r.job \in Jobs BY <1>3 DEF Exchanges
  <2> QED BY <1>2, <1>3, <2>1, <2>2 DEF Submissions
<1> QED BY <1>2, <1>3, <1>6, <1>8, <1>9, <1>10, ServerReached

(* A submission is sent. *)
LEMMA SubmitReaches ==
  ASSUME IInv, Submit
  PROVE  IInv' /\ LossStep
<1>1. PICK j \in Own :
        /\ server[j].state = "unborn" /\ server' = [server EXCEPT ![j].state = "none"]
        /\ http' = Ask(Client, "submit", j, 0).http
  BY DEF Submit
<1>2. UNCHANGED <<store, conn, track>> BY DEF Submit
<1>3. j \in Jobs BY ExecutionAssumption
<1> DEFINE R == [server[j] EXCEPT !.state = "none"]
           q == [kind |-> "submit", job |-> j, arg |-> 0, phase |-> "sent", body |-> <<>>]
<1>4. /\ server \in [Jobs -> Runs] /\ http \in SUBSET Exchanges(Verdicts) /\ Passing(Client)
      /\ Submissions
  BY Holds
<1>5. R \in Runs /\ R.state = "none" BY <1>3, <1>4 DEF Runs, States
<1>6. server' = [server EXCEPT ![j] = R] BY <1>1
<1> HIDE DEF R
<1>7. Continues(j, R) BY <1>1, <1>5, <1>6 DEF Continues, Ended
<1>8. /\ Exchanges(Verdicts) \subseteq Exchanges(Verdicts') /\ server'[j] = R
      /\ \A k \in Jobs : k # j => server'[k] = server[k]
  BY <1>3, <1>7, Grown
<1>9. http' = http \union {q}
  <2>1. Client.http = http BY DEF Client
  <2>2. [Client EXCEPT !.http = @ \union {q}].http = Client.http \union {q} BY DEF Client
  <2>3. Ask(Client, "submit", j, 0) = [Client EXCEPT !.http = @ \union {q}] BY DEF Ask
  <2> HIDE DEF q
  <2> QED BY <1>1, <2>1, <2>2, <2>3
<1>10. q \in Exchanges(Verdicts') /\ q.kind = "submit" /\ q.job = j BY <1>3 DEF Exchanges
<1> HIDE DEF q
<1>11. http' \in SUBSET Exchanges(Verdicts') BY <1>4, <1>8, <1>9, <1>10
<1>12. Passing([Client EXCEPT !.http = http'])
  <2> DEFINE d == [Client EXCEPT !.http = http']
  <2>1. d.track = track /\ d.http = http' /\ Client.http = http /\ Client.track = track BY DEF Client
  <2> HIDE DEF d
  <2>2. Asked(d) = Asked(Client) BY <1>9, <1>10, <2>1 DEF Asked
  <2>3. \A x \in Client.http : x \in d.http BY <1>9, <2>1
  <2>4. Passing(d) BY <1>4, <2>1, <2>2, <2>3 DEF Passing
  <2> QED BY <2>4 DEF d
<1>13. Submissions'
  <2>1. \A r \in http : r.job \in Jobs BY <1>4 DEF Exchanges
  <2>2. ASSUME NEW r \in http', r.kind = "submit", r.phase = "sent"
        PROVE  server'[r.job].state = "none"
    <3>1. CASE r = q BY <1>5, <1>8, <1>10, <3>1
    <3>2. CASE r \in http
      <4>1. server[r.job].state = "none" BY <1>4, <2>2, <3>2 DEF Submissions
      <4>2. r.job # j BY <1>1, <4>1
      <4> QED BY <1>8, <2>1, <3>2, <4>1, <4>2
    <3> QED BY <1>9, <3>1, <3>2
  <2> QED BY <2>2 DEF Submissions
<1> QED BY <1>2, <1>3, <1>7, <1>11, <1>12, <1>13, ServerReached

(* A submission is served: the job is there. *)
LEMMA ServeSubmitReaches ==
  ASSUME IInv, ServeSubmit
  PROVE  IInv' /\ LossStep
<1>1. PICK r \in http :
        /\ r.kind = "submit" /\ r.phase = "sent"
        /\ server' = [server EXCEPT ![r.job].state = "queued", ![r.job].known = TRUE]
        /\ http' = (http \ {r}) \union {[r EXCEPT !.phase = "served"]}
  BY DEF ServeSubmit
<1>2. UNCHANGED <<store, conn, track>> BY DEF ServeSubmit
<1> DEFINE j == r.job
           R == [server[j] EXCEPT !.state = "queued", !.known = TRUE]
           q == [r EXCEPT !.phase = "served"]
<1>3. /\ server \in [Jobs -> Runs] /\ http \in SUBSET Exchanges(Verdicts) /\ Passing(Client)
      /\ Submissions
  BY Holds
<1>4. r \in Exchanges(Verdicts) /\ j \in Jobs /\ server[j].state = "none"
  BY <1>1, <1>3 DEF Exchanges, Submissions
<1>5. R \in Runs /\ R.state = "queued" BY <1>3, <1>4 DEF Runs, States
<1>6. server' = [server EXCEPT ![j] = R]
  <2>1. [server EXCEPT ![j].state = "queued", ![j].known = TRUE] = [server EXCEPT ![j] = R]
    <3>1. server[j] \in Runs BY <1>3, <1>4
    <3> HIDE DEF j
    <3> QED BY <1>3, <3>1
  <2> QED BY <1>1, <2>1
<1> HIDE DEF R
<1>7. Continues(j, R) BY <1>4, <1>5, <1>6 DEF Continues, Ended
<1>8. /\ Exchanges(Verdicts) \subseteq Exchanges(Verdicts') /\ server'[j] = R
      /\ \A k \in Jobs : k # j => server'[k] = server[k]
  BY <1>4, <1>7, Grown
<1>9. /\ q \in Exchanges(Verdicts') /\ q.kind = r.kind /\ q.arg = r.arg /\ q.job = r.job
      /\ q.phase = "served"
  <2>1. r \in Exchanges(Verdicts') BY <1>4, <1>8
  <2> QED BY <1>1, <2>1 DEF Exchanges
<1>10. http' = (http \ {r}) \union {q} BY <1>1
<1> HIDE DEF q
<1>11. http' \in SUBSET Exchanges(Verdicts') BY <1>3, <1>8, <1>9, <1>10
<1>12. Passing([Client EXCEPT !.http = http']) BY <1>9, <1>10, ExchangeGoesOn
<1>13. Submissions'
  <2>1. \A x \in http : x.job \in Jobs BY <1>3 DEF Exchanges
  <2>2. ASSUME NEW x \in http', x.kind = "submit", x.phase = "sent"
        PROVE  server'[x.job].state = "none"
    <3>1. x \in http /\ x # r BY <1>9, <1>10, <2>2
    <3>2. x.job # j
      <4>1. x \in Exchanges(Verdicts) BY <1>3, <3>1
      <4>2. /\ x = [kind |-> "submit", job |-> x.job, arg |-> 0, phase |-> "sent", body |-> <<>>]
        BY <2>2, <4>1 DEF Exchanges
      <4>3. /\ r = [kind |-> "submit", job |-> r.job, arg |-> 0, phase |-> "sent", body |-> <<>>]
        BY <1>1, <1>4 DEF Exchanges
      <4> QED BY <3>1, <4>2, <4>3
    <3>3. server[x.job].state = "none" BY <1>3, <2>2, <3>1 DEF Submissions
    <3> QED BY <1>8, <2>1, <3>1, <3>2, <3>3
  <2> QED BY <2>2 DEF Submissions
<1> QED BY <1>2, <1>4, <1>7, <1>11, <1>12, <1>13, ServerReached

(* An exchange that is served or fails, the server staying as it is. *)
LEMMA ExchangeReached ==
  ASSUME IInv, NEW r \in http, NEW q \in Exchanges(Verdicts), q.kind = r.kind, q.arg = r.arg,
         q.job = r.job, q.phase # "sent", http' = (http \ {r}) \union {q},
         UNCHANGED <<store, conn, track, server>>
  PROVE  IInv' /\ LossStep
<1>1. /\ server \in [Jobs -> Runs] /\ http \in SUBSET Exchanges(Verdicts) /\ Submissions
      /\ Sound(store, Verdicts) /\ Capped(store) /\ conn \in Conns(Verdicts)
  BY Holds
<1>2. Verdicts' = Verdicts BY DEF Verdicts
<1>3. http' \in SUBSET Exchanges(Verdicts') BY <1>1, <1>2
<1>4. Passing([Client EXCEPT !.http = http']) BY ExchangeGoesOn
<1>5. Submissions' BY <1>1 DEF Submissions
<1>6. IInv' BY <1>1, <1>2, <1>3, <1>4, <1>5, PartsReached
<1> QED BY <1>6 DEF LossStep

(* A page of the run's journal is one. *)
LEMMA PageHolds ==
  ASSUME IInv, NEW j \in Jobs, NEW after \in Nat
  PROVE  Page(j, after) = <<>> \/ \E b \in Pages : Page(j, after) = <<b>>
<1> DEFINE upto == IF after + PageLimit < server[j].seq THEN after + PageLimit ELSE server[j].seq
           b == [upto |-> upto, latest |-> server[j].seq,
                 logs |-> {n \in server[j].logs : after < n /\ n <= upto}]
<1>1. server[j] \in Runs BY Holds
<1>2. server[j].seq \in Nat /\ server[j].logs \subseteq Nat BY <1>1 DEF Runs
<1>3. upto \in Nat BY <1>2, ExecutionAssumption
<1>4. Page(j, after) = <<>> \/ Page(j, after) = <<b>> BY DEF Page
<1> HIDE DEF upto
<1>5. b \in Pages BY <1>2, <1>3 DEF Pages
<1> HIDE DEF b
<1> QED BY <1>4, <1>5

(* A record or a page is read. *)
LEMMA ServeReadReaches ==
  ASSUME IInv, ServeRead
  PROVE  IInv' /\ LossStep
<1>1. PICK r \in http :
        /\ r.kind \in {"reconcile", "page"} /\ r.phase = "sent"
        /\ http' = (http \ {r}) \union
             {[r EXCEPT !.phase = "served",
                        !.body = IF r.kind = "page" THEN Page(r.job, r.arg.after)
                                 ELSE Record(r.job)]}
  BY DEF ServeRead
<1>2. UNCHANGED <<store, conn, track, server>> BY DEF ServeRead
<1> DEFINE b == IF r.kind = "page" THEN Page(r.job, r.arg.after) ELSE Record(r.job)
           q == [r EXCEPT !.phase = "served", !.body = b]
<1>3. r \in Exchanges(Verdicts) BY Holds
<1>4. r.job \in Jobs /\ (r.kind = "page" => r.arg \in Spans) BY <1>3 DEF Exchanges
<1>5. \/ b = <<>>
      \/ \E x \in Records \cup Pages :
           /\ b = <<x>> /\ (r.kind = "page" => x \in Pages)
           /\ r.kind # "page" => x \in Records /\ (x.state \in Ended => <<r.job, Shown[x.state]>> \in Verdicts)
  <2>1. CASE r.kind = "page"
    <3>1. r.arg.after \in Nat BY <1>4, <2>1 DEF Spans
    <3>2. b = <<>> \/ \E x \in Pages : b = <<x>> BY <1>4, <2>1, <3>1, PageHolds
    <3> HIDE DEF b
    <3> QED BY <2>1, <3>2
  <2>2. CASE r.kind # "page"
    <3>1. b = <<>> \/ \E x \in Records : /\ b = <<x>>
                                         /\ x.state \in Ended => <<r.job, Shown[x.state]>> \in Verdicts
      BY <1>4, <2>2, RecordHolds
    <3> HIDE DEF b
    <3> QED BY <2>2, <3>1
  <2> QED BY <2>1, <2>2
<1>6. http' = (http \ {r}) \union {q} BY <1>1
<1> HIDE DEF b
<1>7. /\ q \in [kind : {"submit", "reconcile", "page", "sight", "hydrate"}, job : Jobs,
          arg : Nat \cup Spans, phase : {"sent", "served", "failed"},
          body : {<<>>} \cup {<<x>> : x \in Records \cup Pages}]
      /\ q.kind = r.kind /\ q.arg = r.arg /\ q.phase = "served" /\ q.body = b /\ q.job = r.job
  <2>1. b \in {<<>>} \cup {<<x>> : x \in Records \cup Pages} BY <1>5
  <2>2. r \in [kind : {"submit", "reconcile", "page", "sight", "hydrate"}, job : Jobs,
          arg : Nat \cup Spans, phase : {"sent", "served", "failed"},
          body : {<<>>} \cup {<<x>> : x \in Records \cup Pages}]
    BY <1>3 DEF Exchanges
  <2> DEFINE D == {<<>>} \cup {<<x>> : x \in Records \cup Pages}
  <2> HIDE DEF D
  <2> QED BY <2>1, <2>2 DEF D
<1>8. q \in Exchanges(Verdicts)
  <2> HIDE DEF q
  <2>1. q.kind = "page" => q.arg \in Spans /\ (q.body # <<>> => q.body[1] \in Pages)
    BY <1>4, <1>5, <1>7
  <2>2. q.kind = "reconcile" => q.arg \in Nat /\ (q.body # <<>> => Answered(q, Verdicts))
    <3>1. q.kind = "reconcile" => r.arg \in Nat BY <1>3, <1>7 DEF Exchanges
    <3>2. ASSUME q.kind = "reconcile", q.body # <<>> PROVE Answered(q, Verdicts)
      <4>1. PICK x \in Records : b = <<x>> /\ (x.state \in Ended => <<r.job, Shown[x.state]>> \in Verdicts)
        BY <1>5, <1>7, <3>2
      <4>2. q.body[1] = x BY <1>7, <4>1
      <4> QED BY <1>7, <4>1, <4>2 DEF Answered
    <3> QED BY <1>7, <3>1, <3>2
  <2>3. q.kind # "submit" BY <1>1, <1>7
  <2> QED BY <1>7, <2>1, <2>2, <2>3 DEF Exchanges
<1> HIDE DEF q
<1> QED BY <1>2, <1>6, <1>7, <1>8, ExchangeReached

(* An exchange fails, or the stream drops. *)
LEMMA FaultReaches ==
  ASSUME IInv, FaultStep
  PROVE  IInv' /\ LossStep
<1>1. CASE ExchangeFails
  <2>1. PICK r \in http :
          http' = (http \ {r}) \union {[r EXCEPT !.phase = "failed", !.body = <<>>]}
    BY <1>1 DEF ExchangeFails
  <2>2. UNCHANGED <<store, conn, track, server>> BY <1>1 DEF ExchangeFails
  <2> DEFINE q == [r EXCEPT !.phase = "failed", !.body = <<>>]
  <2>3. r \in Exchanges(Verdicts) BY Holds
  <2>4. /\ q \in Exchanges(Verdicts) /\ q.kind = r.kind /\ q.arg = r.arg /\ q.job = r.job
        /\ q.phase # "sent"
    BY <2>3 DEF Exchanges
  <2>5. http' = (http \ {r}) \union {q} BY <2>1
  <2> HIDE DEF q
  <2> QED BY <2>2, <2>4, <2>5, ExchangeReached
<1>2. CASE StreamDrops
  <2>1. conn' = [conn EXCEPT !.up = FALSE, !.wire = <<>>] /\ UNCHANGED <<store, track, http, server>>
    BY <1>2 DEF StreamDrops
  <2>2. /\ server \in [Jobs -> Runs] /\ http \in SUBSET Exchanges(Verdicts) /\ Submissions
        /\ Sound(store, Verdicts) /\ Capped(store) /\ conn \in Conns(Verdicts) /\ Passing(Client)
    BY Holds
  <2>3. Verdicts' = Verdicts BY <2>1 DEF Verdicts
  <2>4. conn' \in Conns(Verdicts)
    <3> DEFINE A == Messages(Verdicts)
    <3> HIDE DEF A
    <3>1. <<>> \in Seq(A) OBVIOUS
    <3> QED BY <2>1, <2>2, <3>1 DEF Conns, A
  <2>5. [Client EXCEPT !.http = http'] = Client BY <2>1 DEF Client
  <2>6. Submissions' BY <2>1, <2>2 DEF Submissions
  <2>7. IInv' BY <2>1, <2>2, <2>3, <2>4, <2>5, <2>6, PartsReached
  <2> QED BY <2>1, <2>7 DEF LossStep
<1> QED BY <1>1, <1>2 DEF FaultStep

(* The empty store is sound. *)
LEMMA EmptyStoreSound ==
  ASSUME NEW V
  PROVE  Sound(EmptyStore, V) /\ Capped(EmptyStore)
<1> DEFINE t == EmptyStore
<1>1. /\ t.map = <<>> /\ t.order = <<>> /\ t.lost = {} /\ t.unconfirmed = {}
      /\ t.pins = [j \in Jobs |-> 0]
  BY DEF EmptyStore
<1>2. Known(t) = {}
  <2>1. DOMAIN <<>> = {} OBVIOUS
  <2> HIDE DEF t
  <2> QED BY <1>1, <2>1 DEF Known
<1>3. t \in Stores
  <2>1. <<>> \in [{} -> Entries]
    <3>1. <<>> = [x \in {} |-> 0] OBVIOUS
    <3>2. [x \in {} |-> 0] \in [{} -> Entries] OBVIOUS
    <3> QED BY <3>1, <3>2
  <2>2. <<>> \in UNION {[S -> Entries] : S \in SUBSET Jobs} BY <2>1
  <2>3. <<>> \in Seq(Jobs) OBVIOUS
  <2>4. [j \in Jobs |-> 0] \in [Jobs -> Nat] OBVIOUS
  <2> QED BY <2>2, <2>3, <2>4 DEF Stores, EmptyStore
<1> HIDE DEF t
<1>4. Formed(t)
  <2>1. IsFiniteSet({}) BY FS_EmptySet
  <2> QED BY <1>2, <1>3, <2>1 DEF Formed, Listed
<1>5. Budgeted(t) = {} /\ Evictable(t) = {} BY <1>2 DEF Budgeted, Evictable
<1>6. Fits(t)
  <2>1. Frames(t, {}) = {} BY DEF Frames
  <2>2. Cardinality({}) = 0 BY FS_EmptySet
  <2>3. PreviewBudget \in Nat BY StoreAssumption
  <2>4. Cardinality(Frames(t, Budgeted(t))) = 0 BY <1>5, <2>1, <2>2
  <2> QED BY <2>3, <2>4 DEF Fits
<1>7. Truthful(t, V) BY <1>2 DEF Truthful
<1>8. Capped(t) BY <1>5 DEF Capped
<1> QED BY <1>4, <1>6, <1>7, <1>8 DEF Sound, t

(* The start: nothing is known, and nothing was asked. *)
LEMMA InitReaches == Init => IInv
<1> SUFFICES ASSUME Init PROVE IInv OBVIOUS
<1>1. server \in [Jobs -> Runs]
  <2>1. PICK sc \in Scenarios :
          server = [j \in Jobs |->
            [state |-> IF j \notin sc.jobs THEN "none" ELSE IF j \in Own THEN "unborn" ELSE "queued",
             known |-> j \in sc.jobs \ Own,
             talks |-> j \in sc.talk, journal |-> j \in sc.journal,
             node |-> "none", seq |-> 0, logs |-> {}, shed |-> {}]]
    BY DEF Init
  <2> DEFINE R(j) ==
            [state |-> IF j \notin sc.jobs THEN "none" ELSE IF j \in Own THEN "unborn" ELSE "queued",
             known |-> j \in sc.jobs \ Own,
             talks |-> j \in sc.talk, journal |-> j \in sc.journal,
             node |-> "none", seq |-> 0, logs |-> {}, shed |-> {}]
  <2>2. ASSUME NEW j \in Jobs PROVE R(j) \in Runs
    <3>1. (j \in sc.jobs \ Own) \in BOOLEAN /\ (j \in sc.talk) \in BOOLEAN /\ (j \in sc.journal) \in BOOLEAN
      OBVIOUS
    <3>2. (IF j \notin sc.jobs THEN "none" ELSE IF j \in Own THEN "unborn" ELSE "queued") \in States
      BY DEF States
    <3>3. "none" \in Nodes BY DEF Nodes
    <3>4. 0 \in Nat /\ {} \in SUBSET Nat OBVIOUS
    <3> QED BY <3>1, <3>2, <3>3, <3>4, Zenon DEF Runs
  <2>3. server = [j \in Jobs |-> R(j)] BY <2>1
  <2> HIDE DEF R
  <2> QED BY <2>2, <2>3
<1>2. /\ store = EmptyStore /\ http = {} /\ track = [gen |-> 0, ran |-> 0, busy |-> FALSE,
                                                     todo |-> <<>>, covered |-> {}]
      /\ conn = [up |-> TRUE, wire |-> <<>>, terminal |-> {}, seen |-> {}, passes |-> {},
                 holes |-> {}, cursor |-> [j \in Jobs |-> 0]]
  BY DEF Init
<1>3. Sound(store, Verdicts) /\ Capped(store) BY <1>2, EmptyStoreSound
<1>4. conn \in Conns(Verdicts)
  <2> DEFINE A == Messages(Verdicts)
  <2> HIDE DEF A
  <2>1. <<>> \in Seq(A) OBVIOUS
  <2> QED BY <1>2, <2>1 DEF Conns, A
<1>5. track \in Tracks
  <2>1. <<>> \in Seq(Jobs) OBVIOUS
  <2> QED BY <1>2, <2>1 DEF Tracks
<1>6. Now \in Nat
  <2>1. Formed(store) BY <1>3 DEF Sound
  <2> QED BY <2>1, LatestStamp DEF Now
<1>7. http \in SUBSET Exchanges(Verdicts) BY <1>2
<1>8. Client \in Clients(Verdicts) BY <1>3, <1>4, <1>5, <1>6, <1>7, ClientOf DEF Client
<1>9. Passing(Client)
  <2>1. Client.track = track /\ Client.http = http BY DEF Client
  <2>2. Asked(Client) = {} BY <1>2, <2>1 DEF Asked
  <2>3. track.ran = 0 /\ track.gen = 0 /\ track.busy = FALSE BY <1>2
  <2>4. 0 <= 0 OBVIOUS
  <2> QED BY <2>1, <2>2, <2>3, <2>4 DEF Passing
<1>10. Submissions BY <1>2 DEF Submissions
<1> QED BY <1>1, <1>8, <1>9, <1>10 DEF IInv

(* Every step keeps the invariant, and gives up what it may. *)
LEMMA NextReaches ==
  ASSUME IInv, Next
  PROVE  IInv' /\ LossStep
<1>1. CASE ClientStep
  <2>1. ASSUME IInv' /\ store'.lost \subseteq store.lost PROVE IInv' /\ LossStep
    BY <2>1 DEF LossStep
  <2>2. CASE ReconcileAnswered BY <2>2, ReconcileAnsweredReaches
  <2>3. CASE Deliver BY <2>1, <2>3, DeliverReaches
  <2>4. CASE Reconnected BY <2>1, <2>4, ReconnectedReaches
  <2>5. CASE SubmitAnswered BY <2>1, <2>5, SubmitAnsweredReaches
  <2>6. CASE SightAnswered BY <2>1, <2>6, SightAnsweredReaches
  <2>7. CASE PageAnswered BY <2>1, <2>7, PageAnsweredReaches
  <2>8. CASE HydrateAnswered BY <2>1, <2>8, HydrateAnsweredReaches
  <2> QED BY <1>1, <2>2, <2>3, <2>4, <2>5, <2>6, <2>7, <2>8 DEF ClientStep
<1>2. CASE UserStep
  BY <1>2, SubmitReaches, OpenViewReaches, CloseViewReaches, RestoreResultReaches DEF UserStep
<1>3. CASE ServerStep
  BY <1>3, RunGoesOnReaches, RunEndsReaches, UnseenReaches, ServeSubmitReaches,
     ServeReadReaches
  DEF ServerStep, RunStep
<1>4. CASE FaultStep BY <1>4, FaultReaches
<1> QED BY <1>1, <1>2, <1>3, <1>4 DEF Next

(* Nothing happens. *)
LEMMA StutterReaches ==
  ASSUME IInv, UNCHANGED vars
  PROVE  IInv'
<1>1. store' = store /\ conn' = conn /\ track' = track /\ http' = http /\ server' = server
  BY DEF vars
<1>2. Now' = Now BY <1>1 DEF Now
<1>3. Client' = Client BY <1>1, <1>2 DEF Client
<1>4. Verdicts' = Verdicts BY <1>1 DEF Verdicts
<1>5. Submissions' BY <1>1 DEF IInv, Submissions
<1> QED BY <1>1, <1>3, <1>4, <1>5 DEF IInv

-----------------------------------------------------------------------------
(* What holds in every state.                                              *)

(* The store is sound whatever the schedule of frames, exchanges, views
   and faults, its ends have happened, what is on the wire tells of no
   other, and a pass that is under way waits for one exchange. *)
THEOREM Invariance == Spec => []IInv
<1>1. IInv /\ [Next]_vars => IInv' BY NextReaches, StutterReaches
<1> QED BY <1>1, InitReaches, PTL DEF Spec

(* What ended runs may hold is bounded by the entry cap and the preview
   budget (execution-store.ts, evictExecutionEntries and
   enforcePreviewBudget), for all bounds and any number of runs. *)
THEOREM StoreCorrect == Spec => []StoreIsBounded
<1>1. IInv => StoreIsBounded
  <2> SUFFICES ASSUME IInv PROVE StoreIsBounded OBVIOUS
  <2>1. Sound(store, Verdicts) /\ Capped(store) BY Holds
  <2> QED BY <2>1 DEF Sound, Fits, Capped, StoreIsBounded
<1> QED BY <1>1, Invariance, PTL

(* However live records, replays and backfills mix, the log buffer holds
   the newest records that reached the entry, in order, each once, and
   none is counted as dropped twice (execution-store.ts, applyLog). *)
THEOREM LogsCorrect == Spec => []LogsAreTheNewest
<1>1. IInv => LogsAreTheNewest
  <2> SUFFICES ASSUME IInv, NEW j \in Known(store)
               PROVE  LET e == store.map[j]
                      IN  /\ \A a, b \in DOMAIN e.logs : a < b => e.logs[a] < e.logs[b]
                          /\ \A n \in e.heard \ ToSet(e.logs) :
                               Len(e.logs) = LogCap /\ \A i \in DOMAIN e.logs : n < e.logs[i]
                          /\ e.dropped + Len(e.logs) <= Cardinality(e.heard)
    BY DEF LogsAreTheNewest
  <2>1. Formed(store) BY Holds DEF Sound
  <2>2. Booked(store.map[j]) BY <2>1 DEF Formed
  <2> QED BY <2>2 DEF Booked, Ascending, Newest
<1> QED BY <1>1, Invariance, PTL

(* What the store shows as final is the end the run had: the verdict of
   loss is never final, and no late frame, record or saved result turns
   one end into another (execution-store.ts, isAuthoritativeTerminal). *)
THEOREM VerdictsCorrect == Spec => []VerdictsAreTrue
<1>1. IInv => VerdictsAreTrue
  <2> SUFFICES ASSUME IInv, NEW j \in Known(store), IsAuthoritativeTerminal(store, j)
               PROVE  server[j].state \in Ended /\ store.map[j].status = Shown[server[j].state]
    BY DEF VerdictsAreTrue
  <2>1. Truthful(store, Verdicts) BY Holds DEF Sound
  <2>2. <<j, store.map[j].status>> \in Verdicts BY <2>1 DEF Truthful
  <2> QED BY <2>2 DEF Verdicts
<1> QED BY <1>1, Invariance, PTL

(* However passes and reconnects overlap, the newest reconnect has had its
   pass, or a pass is under way and waits for exactly one exchange
   (reconcile-track.ts, dinkster-reconcile.ts). *)
THEOREM PassesGoOn == Spec => []NoPassIsStuck
<1>1. IInv => NoPassIsStuck
  <2> SUFFICES ASSUME IInv PROVE NoPassIsStuck OBVIOUS
  <2> DEFINE A == {r \in http : r.kind = "reconcile"}
  <2>1. Passing(Client) /\ Client.track = track /\ Client.http = http BY Holds
  <2>2. Asked(Client) = A BY <2>1 DEF Asked
  <2>3. IF track.busy THEN \E q : A = {q} ELSE A = {} /\ track.ran = track.gen
    BY <2>1, <2>2 DEF Passing
  <2> HIDE DEF A
  <2>4. Cardinality({}) = 0 /\ \A q : Cardinality({q}) = 1 BY FS_EmptySet, FS_Singleton
  <2>5. Cardinality(A) = (IF track.busy THEN 1 ELSE 0) BY <2>3, <2>4
  <2>6. ~track.busy => IsCurrent(Client) BY <2>1, <2>3 DEF IsCurrent
  <2> QED BY <2>5, <2>6 DEF NoPassIsStuck, A
<1> QED BY <1>1, Invariance, PTL

(* A run is given up for lost only on an answer to a question of the
   newest reconnect (reconcile-track.ts:4-9). *)
THEOREM LossCurrent == Spec => LossIsCurrent
<1>1. IInv /\ [Next]_vars =>
        [\A j \in store'.lost \ store.lost :
           \E r \in http \ http' : r.kind = "reconcile" /\ r.job = j /\ r.arg = track.gen]_vars
  BY NextReaches DEF LossStep
<1> QED BY <1>1, Invariance, PTL DEF Spec, LossIsCurrent

-----------------------------------------------------------------------------
(* What is shown once all is quiet.                                        *)

(* Such turns one after the other. *)
LEMMA NearerTwice ==
  ASSUME NEW t, NEW o, NEW u, NEW p, NEW w, NEW q, NEW R, NEW j,
         Nearer(u, p, t, o, R, j), Nearer(w, q, u, p, R, j)
  PROVE  Nearer(w, q, t, o, R, j)
BY DEF Nearer

(* A turn that shows of j node state m, the last or one that another will
   follow, and no end of a run that it does not show, a failed node with
   it. *)
LEMMA NearerBy ==
  ASSUME NEW t, NEW o, NEW u, NEW p, NEW R, NEW j, NEW m, Turns(u, t, j, m),
         InOrder(o.wire, j, R.node) => InOrder(p.wire, j, R.node),
         m \in Below(R.node) \/ m = Node(t, j),
         \/ Matches(m, R.node) \/ NodeComes(p, j)
         \/ /\ Matches(Node(t, j), R.node) => Matches(m, R.node)
            /\ NodeComes(o, j) => NodeComes(p, j),
         j \in p.terminal => j \in o.terminal \/ Finishes(u, j),
         R.state = "failed" /\ j \in p.terminal =>
           j \in o.terminal \/ m = "error" \/ NodeComes(p, j),
         EndComes(o, j) => EndComes(p, j) \/ Finishes(u, j)
  PROVE  Nearer(u, p, t, o, R, j)
<1> SUFFICES ASSUME Behind(t, o, R, j)
             PROVE  /\ Behind(u, p, R, j)
                    /\ FailureShows(t, o, R, j) => FailureShows(u, p, R, j)
                    /\ \A n, s : Caught(t, o, R, j, n, s) => Caught(u, p, R, j, n, s)
  BY DEF Nearer
<1>1. CASE j \in u.gone BY <1>1 DEF Behind, Caught, FailureShows
<1>2. CASE j \notin u.gone
  <2>1. /\ j \notin t.gone /\ (j \in ToSet(u.evicted) => j \in ToSet(t.evicted))
        /\ Node(u, j) = m /\ (Final(t, j) => Final(u, j)) /\ (Finishes(u, j) => Final(u, j))
    BY <1>2 DEF Turns, Finishes
  <2>2. /\ InOrder(o.wire, j, R.node) /\ (R.state = "failed" <=> R.node = "error")
        /\ j \notin ToSet(t.evicted) /\ Node(t, j) \in Below(R.node)
        /\ j \in o.terminal => Final(t, j)
    BY <2>1 DEF Behind
  <2>3. Behind(u, p, R, j) BY <2>1, <2>2 DEF Behind
  <2>4. ASSUME NEW n, NEW s, Caught(t, o, R, j, n, s) PROVE Caught(u, p, R, j, n, s)
    <3>1. /\ \/ NodeComes(o, j) \/ Matches(Node(t, j), R.node)
             \/ Matches(n, R.node) /\ (n = "error" => j \notin o.terminal)
          /\ R.state \in Ended => s \in Ended \/ Final(t, j) \/ EndComes(o, j)
      BY <2>1, <2>4 DEF Caught
    <3>2. ASSUME Matches(n, R.node), n = "error", j \in p.terminal, j \notin o.terminal
          PROVE  NodeComes(p, j) \/ Matches(Node(u, j), R.node)
      <4>1. R.node = "error" /\ R.state = "failed" BY <2>2, <3>2 DEF Matches
      <4> QED BY <2>1, <3>2, <4>1 DEF Matches
    <3>3. \/ NodeComes(p, j) \/ Matches(Node(u, j), R.node)
          \/ Matches(n, R.node) /\ (n = "error" => j \notin p.terminal)
      BY <2>1, <3>1, <3>2
    <3>4. R.state \in Ended => s \in Ended \/ Final(u, j) \/ EndComes(p, j) BY <2>1, <3>1
    <3> QED BY <3>3, <3>4 DEF Caught
  <2>5. ASSUME FailureShows(t, o, R, j), R.state = "failed", j \in p.terminal
        PROVE  NodeComes(p, j) \/ Node(u, j) = "error"
    <3>1. R.node = "error" BY <2>2, <2>5
    <3>2. \A x : Matches(x, R.node) <=> x = "error" BY <3>1 DEF Matches
    <3>3. CASE j \in o.terminal
      <4>1. NodeComes(o, j) \/ Node(t, j) = "error" BY <2>1, <2>5, <3>3 DEF FailureShows
      <4> QED BY <2>1, <3>2, <4>1
    <3> QED BY <2>1, <2>5, <3>3
  <2> QED BY <2>3, <2>4, <2>5 DEF FailureShows
<1> QED BY <1>1, <1>2

(* A calm turn, from and to the same wire. *)
LEMMA CalmNearer ==
  ASSUME NEW d, NEW c, NEW R, NEW j, Calm(d, c)
  PROVE  Nearer(d.store, d.conn, c.store, c.conn, R, j)
<1>1. Turns(d.store, c.store, j, Node(c.store, j)) BY DEF Calm, Spares, Leaves
<1>2. /\ NodeComes(c.conn, j) => NodeComes(d.conn, j)
      /\ EndComes(c.conn, j) => EndComes(d.conn, j)
  BY DEF Calm, NodeComes, EndComes
<1> QED BY <1>1, <1>2, NearerBy DEF Calm

(* A wire without its first frame. *)
LEMMA TailComes ==
  ASSUME NEW S, NEW w \in Seq(S), w # <<>>, NEW j
  PROVE  /\ \A n : InOrder(w, j, n) => InOrder(Tail(w), j, n)
         /\ \A K : OnTheWire(w, j, K) =>
              OnTheWire(Tail(w), j, K) \/ (Head(w).job = j /\ Head(w).kind \in K)
         /\ \A n : InOrder(w, j, n) /\ Head(w).job = j /\ Head(w).kind = "node" =>
              /\ Head(w).arg \in Below(n) \ {"none"}
              /\ Head(w).arg = n \/ OnTheWire(Tail(w), j, {"node"})
<1> DEFINE v == Tail(w)
<1>1. /\ Len(w) \in Nat /\ Len(w) >= 1 /\ Len(v) = Len(w) - 1 /\ w[1] = Head(w)
      /\ \A i \in 1..Len(v) : i + 1 \in 1..Len(w) /\ v[i] = w[i + 1]
  OBVIOUS
<1>2. \A i \in 1..Len(w) : i # 1 => i - 1 \in 1..Len(v) /\ v[i - 1] = w[i] BY <1>1
<1> HIDE DEF v
<1>3. ASSUME NEW n, InOrder(w, j, n) PROVE InOrder(v, j, n)
  <2> SUFFICES ASSUME NEW i \in 1..Len(v), v[i].job = j, v[i].kind = "node"
               PROVE  /\ v[i].arg \in Below(n) \ {"none"}
                      /\ v[i].arg # n =>
                           \E k \in 1..Len(v) : i < k /\ v[k].job = j /\ v[k].kind = "node" /\ v[k].arg = n
    BY DEF InOrder
  <2>1. i + 1 \in 1..Len(w) /\ v[i] = w[i + 1] BY <1>1
  <2>2. /\ w[i + 1].arg \in Below(n) \ {"none"}
        /\ w[i + 1].arg # n =>
             \E k \in 1..Len(w) : i + 1 < k /\ w[k].job = j /\ w[k].kind = "node" /\ w[k].arg = n
    BY <1>3, <2>1 DEF InOrder
  <2>3. ASSUME v[i].arg # n
        PROVE  \E k \in 1..Len(v) : i < k /\ v[k].job = j /\ v[k].kind = "node" /\ v[k].arg = n
    <3>1. PICK k \in 1..Len(w) : i + 1 < k /\ w[k].job = j /\ w[k].kind = "node" /\ w[k].arg = n
      BY <2>1, <2>2, <2>3
    <3>2. k # 1 /\ i < k - 1 BY <1>1, <3>1
    <3>3. k - 1 \in 1..Len(v) /\ v[k - 1] = w[k] BY <1>2, <3>2
    <3> QED BY <3>1, <3>2, <3>3
  <2> QED BY <2>1, <2>2, <2>3
<1>4. ASSUME NEW K, OnTheWire(w, j, K)
      PROVE  OnTheWire(v, j, K) \/ (Head(w).job = j /\ Head(w).kind \in K)
  <2>1. PICK i \in 1..Len(w) : w[i].job = j /\ w[i].kind \in K BY <1>4 DEF OnTheWire
  <2>2. CASE i = 1 BY <1>1, <2>1, <2>2
  <2>3. CASE i # 1 BY <1>2, <2>1, <2>3 DEF OnTheWire
  <2> QED BY <2>2, <2>3
<1>5. ASSUME NEW n, InOrder(w, j, n), Head(w).job = j, Head(w).kind = "node"
      PROVE  /\ Head(w).arg \in Below(n) \ {"none"}
             /\ Head(w).arg = n \/ OnTheWire(v, j, {"node"})
  <2>1. 1 \in 1..Len(w) BY <1>1
  <2>2. /\ w[1].arg \in Below(n) \ {"none"}
        /\ w[1].arg # n =>
             \E k \in 1..Len(w) : 1 < k /\ w[k].job = j /\ w[k].kind = "node" /\ w[k].arg = n
    BY <1>1, <1>5, <2>1 DEF InOrder
  <2>3. ASSUME w[1].arg # n PROVE OnTheWire(v, j, {"node"})
    <3>1. PICK k \in 1..Len(w) : 1 < k /\ w[k].job = j /\ w[k].kind = "node" BY <2>2, <2>3
    <3>2. k # 1 BY <3>1
    <3>3. k - 1 \in 1..Len(v) /\ v[k - 1] = w[k] BY <1>2, <3>2
    <3> QED BY <3>1, <3>3 DEF OnTheWire
  <2> QED BY <1>1, <2>2, <2>3
<1> QED BY <1>3, <1>4, <1>5 DEF v

(* What comes later still comes. *)
LEMMA TakenComes ==
  ASSUME NEW S, NEW w \in Seq(S), NEW v, NEW f, Takes(w, v, f), NEW j
  PROVE  /\ \A n : InOrder(w, j, n) => InOrder(v, j, n)
         /\ \A K : OnTheWire(w, j, K) => OnTheWire(v, j, K) \/ (f.job = j /\ f.kind \in K)
         /\ \A n : InOrder(w, j, n) /\ f.job = j /\ f.kind = "node" =>
              f.arg \in Below(n) /\ (f.arg = n \/ OnTheWire(v, j, {"node"}))
<1>1. CASE v = w /\ f.kind # "node" BY <1>1
<1>2. CASE w # <<>> /\ f = Head(w) /\ v = Tail(w) BY <1>2, TailComes
<1> QED BY <1>1, <1>2 DEF Takes

(* A frame of one job, and the others. *)
LEMMA OthersNearer ==
  ASSUME NEW S, NEW c, NEW d, NEW f, Minds(d, c, f), NEW o, o.wire \in Seq(S),
         o.terminal = c.conn.terminal, Takes(o.wire, c.conn.wire, f), NEW j, j # f.job, NEW R
  PROVE  Nearer(d.store, d.conn, c.store, o, R, j)
<1> DEFINE p == d.conn
<1>1. /\ p.wire = c.conn.wire /\ (j \in p.terminal <=> j \in o.terminal)
      /\ Turns(d.store, c.store, j, Node(c.store, j))
  BY DEF Minds, Shows, Leaves
<1>2. /\ InOrder(o.wire, j, R.node) => InOrder(p.wire, j, R.node)
      /\ \A K : OnTheWire(o.wire, j, K) => OnTheWire(p.wire, j, K)
  <2> DEFINE w == o.wire
             v == c.conn.wire
  <2>1. w \in Seq(S) /\ Takes(w, v, f) OBVIOUS
  <2> HIDE DEF w, v
  <2>2. /\ \A n : InOrder(w, j, n) => InOrder(v, j, n)
        /\ \A K : OnTheWire(w, j, K) => OnTheWire(v, j, K) \/ (f.job = j /\ f.kind \in K)
    BY <2>1, TakenComes
  <2> QED BY <1>1, <2>2 DEF w, v
<1> HIDE DEF p
<1>3. NodeComes(o, j) => NodeComes(p, j) BY <1>1, <1>2 DEF NodeComes
<1>4. EndComes(o, j) => EndComes(p, j) BY <1>2 DEF EndComes
<1>5. Nearer(d.store, p, c.store, o, R, j) BY <1>1, <1>2, <1>3, <1>4, NearerBy
<1> QED BY <1>5 DEF p

(* A frame that tells of an end tells of the run's. *)
LEMMA EndTold ==
  ASSUME NEW V, NEW f \in Messages(V), f.kind \in Ends, NEW R, EndsAre(V, f.job, R)
  PROVE  R.state \in Ended /\ (f.kind = "failed" <=> R.state = "failed")
<1>1. <<f.job, EndOf[f.kind]>> \in V BY DEF Messages
<1>2. R.state \in Ended /\ EndOf[f.kind] = Shown[R.state] BY <1>1 DEF EndsAre
<1>3. f.kind \in {"run_finished", "completed", "failed", "cancelled"} BY DEF Ends
<1>4. R.state \in {"completed", "failed", "cancelled"} BY <1>2 DEF Ended
<1>5. EndOf[f.kind] = "error" <=> f.kind = "failed" BY <1>3 DEF EndOf
<1>6. Shown[R.state] = "error" <=> R.state = "failed" BY <1>4 DEF Shown
<1> QED BY <1>2, <1>5, <1>6

(* A frame of a job, and that job. *)
LEMMA FrameNearer ==
  ASSUME NEW V, NEW c, NEW d, NEW f \in Messages(V), Minds(d, c, f), NEW o,
         o.wire \in Seq(Messages(V)), o.terminal = c.conn.terminal,
         Takes(o.wire, c.conn.wire, f), NEW R, EndsAre(V, f.job, R)
  PROVE  Nearer(d.store, d.conn, c.store, o, R, f.job)
<1> DEFINE p == d.conn
           u == d.store
           t == c.store
           j == f.job
           m == Said(c, f)
<1> SUFFICES ASSUME Behind(t, o, R, j) PROVE Nearer(u, p, t, o, R, j)
  BY DEF Nearer
<1>1. /\ p.wire = c.conn.wire /\ Turns(u, t, j, m)
      /\ p.terminal = IF f.kind \in Ends THEN o.terminal \union {j} ELSE o.terminal
      /\ IsEnd(c, f) => Finishes(u, j)
  BY DEF Minds, Shows
<1>2. /\ InOrder(o.wire, j, R.node)
      /\ InOrder(o.wire, j, R.node) => InOrder(p.wire, j, R.node)
      /\ \A K : OnTheWire(o.wire, j, K) => OnTheWire(p.wire, j, K) \/ f.kind \in K
      /\ f.kind = "node" =>
           f.arg \in Below(R.node) /\ (f.arg = R.node \/ OnTheWire(p.wire, j, {"node"}))
  <2>1. InOrder(o.wire, j, R.node) BY DEF Behind
  <2> DEFINE S == Messages(V)
             w == o.wire
             v == c.conn.wire
  <2>2. w \in Seq(S) /\ Takes(w, v, f) OBVIOUS
  <2> HIDE DEF S, w, v
  <2>3. /\ InOrder(w, j, R.node) => InOrder(v, j, R.node)
        /\ \A K : OnTheWire(w, j, K) => OnTheWire(v, j, K) \/ (f.job = j /\ f.kind \in K)
        /\ InOrder(w, j, R.node) /\ f.job = j /\ f.kind = "node" =>
             f.arg \in Below(R.node) /\ (f.arg = R.node \/ OnTheWire(v, j, {"node"}))
    BY <2>2, TakenComes
  <2> QED BY <1>1, <2>1, <2>3 DEF w, v
<1>3. OnTheWire(o.wire, j, {"failed"}) => R.state = "failed" /\ R.node = "error"
  <2> SUFFICES ASSUME OnTheWire(o.wire, j, {"failed"}) PROVE R.state = "failed"
    BY DEF Behind
  <2>1. PICK i \in 1..Len(o.wire) : o.wire[i].job = j /\ o.wire[i].kind = "failed"
    BY DEF OnTheWire
  <2> DEFINE S == Messages(V)
             w == o.wire
  <2>2. w \in Seq(S) /\ i \in 1..Len(w) BY <2>1
  <2> HIDE DEF S, w
  <2>3. w[i] \in S BY <2>2
  <2>4. w[i].job = j /\ w[i].kind = "failed" BY <2>1 DEF w
  <2> QED BY <2>3, <2>4, EndTold DEF Ends, S
<1> HIDE DEF p, u, t, j
<1>4. CASE f.kind = "node"
  <2>1. m = f.arg /\ f.kind \notin Ends BY <1>4 DEF Said, Ends
  <2>2. Matches(m, R.node) \/ NodeComes(p, j) BY <1>2, <1>4, <2>1 DEF NodeComes, Matches
  <2>3. EndComes(o, j) => EndComes(p, j) BY <1>2, <2>1 DEF EndComes
  <2> QED BY <1>1, <1>2, <1>4, <2>1, <2>2, <2>3, NearerBy
<1>5. CASE f.kind \in Ends /\ j \notin o.terminal
  <2>1. Finishes(u, j) BY <1>1, <1>5 DEF IsEnd, j
  <2>2. CASE f.kind = "failed"
    <3>1. m = "error" BY <1>5, <2>2 DEF Said, j
    <3>2. R.state = "failed" BY <2>2, <1>5, EndTold
    <3>3. R.node = "error" BY <3>2 DEF Behind
    <3>4. m \in Below(R.node) /\ Matches(m, R.node) BY <3>1, <3>3 DEF Below, Matches
    <3> QED BY <1>1, <1>2, <2>1, <3>1, <3>4, NearerBy
  <2>3. CASE f.kind # "failed"
    <3>1. m = Node(t, j) BY <1>5, <2>3 DEF Said, Ends, j, t
    <3>2. R.state # "failed" BY <2>3, <1>5, EndTold
    <3>3. NodeComes(o, j) => NodeComes(p, j)
      <4>1. NodeComes(o, j) => OnTheWire(o.wire, j, {"node"}) BY <1>3, <3>2 DEF NodeComes
      <4>2. f.kind # "node" BY <1>5 DEF Ends
      <4> QED BY <1>2, <4>1, <4>2 DEF NodeComes
    <3> QED BY <1>1, <1>2, <2>1, <3>1, <3>2, <3>3, NearerBy
  <2> QED BY <2>2, <2>3
<1>6. CASE f.kind \in Ends /\ j \in o.terminal
  <2>1. m = Node(t, j) BY <1>6 DEF Said, Ends, j, t
  <2>2. Finishes(u, j) BY <1>1, <1>6 DEF Behind, Finishes, Turns
  <2>3. NodeComes(o, j) => NodeComes(p, j)
    <3>1. NodeComes(o, j) => OnTheWire(o.wire, j, {"node"}) BY <1>6 DEF NodeComes
    <3>2. f.kind # "node" BY <1>6 DEF Ends
    <3> QED BY <1>2, <3>1, <3>2 DEF NodeComes
  <2>4. /\ Matches(Node(t, j), R.node) => Matches(m, R.node)
        /\ j \in p.terminal => j \in o.terminal
    BY <1>6, <2>1
  <2> HIDE DEF m
  <2> QED BY <1>1, <1>2, <2>1, <2>2, <2>3, <2>4, NearerBy
<1>7. CASE f.kind \notin Ends \cup {"node"}
  <2>1. m = Node(t, j) BY <1>7 DEF Said, Ends, j, t
  <2>2. NodeComes(o, j) => NodeComes(p, j)
    BY <1>1, <1>2, <1>7 DEF NodeComes, Ends
  <2>3. EndComes(o, j) => EndComes(p, j) BY <1>2, <1>7 DEF EndComes
  <2> QED BY <1>1, <1>2, <1>7, <2>1, <2>2, <2>3, NearerBy
<1> QED BY <1>4, <1>5, <1>6, <1>7

(* Such turns one after the other; and a calm turn is one. *)
LEMMA CloserTwice ==
  ASSUME NEW c, NEW d, NEW b, NEW R, NEW j
  PROVE  /\ Closer(d, c, R, j) /\ Closer(b, d, R, j) => Closer(b, c, R, j)
         /\ Calm(d, c) => Closer(d, c, R, j)
<1>1. ASSUME Closer(d, c, R, j), Closer(b, d, R, j) PROVE Closer(b, c, R, j)
  <2>1. Nearer(b.store, b.conn, c.store, c.conn, R, j) BY <1>1, NearerTwice DEF Closer
  <2>2. ASSUME NEW k, NEW Q, k # j PROVE Nearer(b.store, b.conn, c.store, c.conn, Q, k)
    <3>1. /\ Nearer(d.store, d.conn, c.store, c.conn, Q, k)
          /\ Nearer(b.store, b.conn, d.store, d.conn, Q, k)
      BY <1>1, <2>2 DEF Closer
    <3> QED BY <3>1, NearerTwice
  <2> QED BY <1>1, <2>1, <2>2 DEF Closer
<1>2. ASSUME Calm(d, c) PROVE Closer(d, c, R, j)
  BY <1>2, CalmNearer DEF Closer, Calm
<1> QED BY <1>1, <1>2

(* mergeSnapshotNode(): of two node states that came before n, or are n,
   one, and one that matches n if one of them does. *)
LEMMA Merged ==
  ASSUME NEW n \in Nodes, NEW a, NEW x \in Below(n)
  PROVE  LET m == MergeSnapshotNode(a, x)
         IN  /\ m = a \/ m = x
             /\ Matches(a, n) => Matches(m, n)
             /\ a \in Below(n) /\ Matches(x, n) /\ x # "error" => Matches(m, n)
BY DEF MergeSnapshotNode, Matches, Below, NodeEnds, Nodes

(* The node of a record.  A failed one may be shown as done until the end
   of the run is. *)
LEMMA SnapshotCloser ==
  ASSUME NEW V, NEW c \in Clients(V), NEW j \in Jobs, NEW record \in Records, NEW R,
         R.node \in Nodes, Behind(c.store, c.conn, R, j), record.node \in Below(R.node)
  PROVE  LET d == Snapshot(c, j, record)
         IN  /\ d \in Clients(V) /\ Closer(d, c, R, j)
             /\ \A s : Caught(c.store, c.conn, R, j, record.node, s) =>
                         Caught(d.store, d.conn, R, j,
                                IF record.node = "error" THEN "error" ELSE "none", s)
<1> DEFINE e == NodeStates(j, record.node, TRUE)
           events == <<e>>
           b == Emit(c, events)
           d == Snapshot(c, j, record)
           t == c.store
           m == MergeSnapshotNode(Node(t, j), record.node)
<1>1. d = IF record.node = "none" THEN c ELSE b BY DEF Snapshot
<1> HIDE DEF d
<1>2. CASE record.node = "none"
  <2>1. d = c BY <1>1, <1>2
  <2>2. Calm(c, c) BY CalmTwice
  <2>3. Closer(d, c, R, j) BY <2>1, <2>2, CloserTwice
  <2> QED BY <1>2, <2>1, <2>3 DEF d
<1>3. CASE record.node # "none"
  <2>1. /\ e.job = j /\ e.kind = "nodeStates" /\ e.node = record.node /\ e.snapshot = TRUE
        /\ Tells(e, V)
    BY DEF NodeStates, Tells, Records
  <2>2. Len(events) = 1 /\ events[1] = e /\ 1 \in 1..1 /\ 1 - 1 = 0 OBVIOUS
  <2> HIDE DEF e, events
  <2>3. Len(events) \in Nat /\ \A i \in 1..Len(events) : Tells(events[i], V)
    <3>1. \A i \in 1..Len(events) : i = 1 BY <2>2
    <3> QED BY <2>1, <2>2, <3>1
  <2>4. /\ Aside(b, c, V) /\ b.conn = c.conn
        /\ \E g : /\ g[0] = c.store /\ g[Len(events)] = b.store
                  /\ \A i \in 1..Len(events) :
                       Sound(g[i - 1], V) /\ g[i] = Apply(g[i - 1], events[i], c.now)
    BY <2>3, EmitTurn
  <2>5. d = b BY <1>1, <1>3
  <2> HIDE DEF b
  <2>6. b.store = Apply(t, e, c.now) BY <2>2, <2>4
  <2>7. Sound(t, V) /\ c.now \in Nat BY Parts
  <2>8. Tidy(t, j) BY DEF Behind, Tidy
  <2>9. Shows(b.store, t, j, m)
    <3>1. Heard(t, e) = m BY <2>1 DEF Heard
    <3> HIDE DEF t, m
    <3>2. Shows(b.store, t, j, Heard(t, e)) BY <2>1, <2>6, <2>7, <2>8, OneHeard
    <3> QED BY <3>1, <3>2
  <2>10. /\ m = Node(t, j) \/ m = record.node
         /\ Matches(Node(t, j), R.node) => Matches(m, R.node)
         /\ Node(t, j) \in Below(R.node) /\ Matches(record.node, R.node)
              /\ record.node # "error" => Matches(m, R.node)
    BY Merged
  <2> HIDE DEF m
  <2>11. Nearer(b.store, b.conn, t, c.conn, R, j)
    BY <2>4, <2>9, <2>10, NearerBy DEF Shows
  <2>12. ASSUME NEW k, NEW Q, k # j PROVE Nearer(b.store, b.conn, t, c.conn, Q, k)
    BY <2>4, <2>9, <2>12, NearerBy DEF Shows, Leaves
  <2>13. Closer(b, c, R, j) BY <2>4, <2>11, <2>12 DEF Closer
  <2>14. ASSUME NEW s, Caught(t, c.conn, R, j, record.node, s)
         PROVE  Caught(b.store, b.conn, R, j,
                       IF record.node = "error" THEN "error" ELSE "none", s)
    <3>1. Caught(b.store, b.conn, R, j, record.node, s) BY <2>11, <2>14 DEF Nearer
    <3>2. CASE record.node = "error" BY <3>1, <3>2
    <3>3. CASE ~Matches(record.node, R.node) BY <3>1, <3>3 DEF Caught
    <3>4. CASE Matches(record.node, R.node) /\ record.node # "error"
      <4>1. j \in t.gone \/ Matches(m, R.node) BY <2>10, <3>4 DEF Behind
      <4>2. j \in b.store.gone \/ Matches(Node(b.store, j), R.node)
        BY <2>9, <4>1 DEF Shows, Turns
      <4> QED BY <3>1, <4>2 DEF Caught
    <3> QED BY <3>2, <3>3, <3>4
  <2>15. b \in Clients(V) BY <2>4 DEF Aside
  <2> QED BY <2>5, <2>13, <2>14, <2>15 DEF d
<1> QED BY <1>2, <1>3

(* Its end: nothing of the record is missing then. *)
LEMMA ReplayEndCloser ==
  ASSUME NEW V, NEW c \in Clients(V), NEW j \in Jobs, NEW record \in Records, NEW R,
         record.state \in Ended => <<j, Shown[record.state]>> \in V, EndsAre(V, j, R),
         Behind(c.store, c.conn, R, j),
         NEW n \in {"none", "error"}, n = "error" => record.state = "failed"
  PROVE  LET d == ReplayEnd(c, j, record)
         IN  /\ d \in Clients(V) /\ Closer(d, c, R, j)
             /\ Caught(c.store, c.conn, R, j, n, record.state) =>
                  Caught(d.store, d.conn, R, j, "none", "none")
<1> DEFINE f == [job |-> j, kind |-> record.state, seq |-> 0, arg |-> 0]
           b == EmitRaw(c, f)
           d == ReplayEnd(c, j, record)
<1>1. d = IF record.state \notin Ends THEN c ELSE b BY DEF ReplayEnd
<1> HIDE DEF d
<1>2. CASE record.state \notin Ends
  <2>1. d = c BY <1>1, <1>2
  <2>2. Calm(c, c) BY CalmTwice
  <2>3. Closer(d, c, R, j) BY <2>1, <2>2, CloserTwice
  <2>4. record.state \notin Ended /\ n = "none" BY <1>2 DEF Ends, Ended
  <2> QED BY <2>1, <2>3, <2>4 DEF d, Caught
<1>3. CASE record.state \in Ends
  <2>1. f \in Messages(V) /\ f.job = j /\ f.kind = record.state
    <3>1. record.state \in States BY DEF Records
    <3>2. record.state \in Ended /\ EndOf[record.state] = Shown[record.state]
      BY <1>3, <3>1 DEF States, Ends, Ended, EndOf, Shown
    <3>3. <<f.job, EndOf[f.kind]>> \in V BY <3>2
    <3> QED BY <1>3, <3>3 DEF Messages, Ends
  <2> HIDE DEF f
  <2>2. Tidy(c.store, j) BY DEF Behind, Tidy
  <2>3. Aside(b, c, V) /\ Minds(b, c, f) BY <2>1, <2>2, EmitRawTurn
  <2>4. d = b BY <1>1, <1>3
  <2> HIDE DEF b
  <2> DEFINE o == c.conn
  <2>5. o.wire \in Seq(Messages(V)) BY Parts DEF Conns
  <2>6. o.terminal = c.conn.terminal /\ Takes(o.wire, c.conn.wire, f)
    BY <1>3, <2>1 DEF Takes, Ends
  <2> HIDE DEF o
  <2>7. Nearer(b.store, b.conn, c.store, o, R, j)
    <3>1. EndsAre(V, f.job, R) BY <2>1
    <3>2. Nearer(b.store, b.conn, c.store, o, R, f.job)
      BY <2>1, <2>3, <2>5, <2>6, <3>1, FrameNearer
    <3> QED BY <2>1, <3>2
  <2>8. ASSUME NEW k, NEW Q, k # j PROVE Nearer(b.store, b.conn, c.store, o, Q, k)
    <3>1. k # f.job BY <2>1, <2>8
    <3> QED BY <2>3, <2>5, <2>6, <3>1, OthersNearer
  <2>9. Closer(b, c, R, j) BY <2>3, <2>7, <2>8 DEF Closer, Minds, o
  <2>10. Finishes(b.store, j)
    <3>1. CASE j \notin c.conn.terminal BY <1>3, <2>1, <2>3, <3>1 DEF Minds, IsEnd
    <3>2. CASE j \in c.conn.terminal
      <4>1. j \in c.store.gone \/ Final(c.store, j) BY <3>2 DEF Behind
      <4>2. Turns(b.store, c.store, j, Said(c, f)) BY <2>1, <2>3 DEF Minds, Shows
      <4> QED BY <4>1, <4>2 DEF Turns, Finishes
    <3> QED BY <3>1, <3>2
  <2>11. ASSUME Caught(c.store, c.conn, R, j, n, record.state)
         PROVE  Caught(b.store, b.conn, R, j, "none", "none")
    <3>1. Caught(b.store, b.conn, R, j, n, record.state) BY <2>7, <2>11 DEF Nearer, o
    <3>2. j \in b.conn.terminal BY <1>3, <2>1, <2>3 DEF Minds
    <3> QED BY <2>10, <3>1, <3>2 DEF Caught, Finishes
  <2>12. b \in Clients(V) BY <2>3 DEF Aside
  <2> QED BY <2>4, <2>9, <2>11, <2>12 DEF d
<1> QED BY <1>2, <1>3

(* What a pass makes of a record. *)
LEMMA RecordCloser ==
  ASSUME NEW V, NEW c \in Clients(V), NEW j \in Jobs, NEW record \in Records, NEW R,
         record.state \in Ended => <<j, Shown[record.state]>> \in V, EndsAre(V, j, R),
         R.node \in Nodes, Behind(c.store, c.conn, R, j), record.node \in Below(R.node),
         record.node = "error" => record.state = "failed"
  PROVE  LET d == ReconcileRecord(c, j, record)
         IN  /\ Closer(d, c, R, j)
             /\ Caught(c.store, c.conn, R, j, record.node, record.state) =>
                  Caught(d.store, d.conn, R, j, "none", "none")
<1> DEFINE n == IF record.node = "error" THEN "error" ELSE "none"
           s == Snapshot(c, j, record)
           a == ReplayEnd(s, j, record)
           x == Backfill(a, j)
           b == WithJournal(a, j, record)
           h == HydrateArtifacts(b.store, j)
           d == [b EXCEPT !.store = h]
<1>1. /\ s \in Clients(V) /\ Closer(s, c, R, j)
      /\ Caught(c.store, c.conn, R, j, record.node, record.state) =>
           Caught(s.store, s.conn, R, j, n, record.state)
  BY SnapshotCloser
<1>2. ReconcileRecord(c, j, record) = IF record.state = "completed" THEN d ELSE b
  BY Zenon DEF ReconcileRecord, ReplayJob, WithArtifacts
<1> HIDE DEF s
<1>3. /\ a \in Clients(V) /\ Closer(a, s, R, j)
      /\ Caught(s.store, s.conn, R, j, n, record.state) =>
           Caught(a.store, a.conn, R, j, "none", "none")
  <2>1. Behind(s.store, s.conn, R, j) BY <1>1 DEF Closer, Nearer
  <2>2. n \in {"none", "error"} /\ (n = "error" => record.state = "failed") OBVIOUS
  <2> HIDE DEF n
  <2> QED BY <1>1, <2>1, <2>2, ReplayEndCloser
<1> HIDE DEF a
<1>4. b \in Clients(V) /\ Calm(b, a)
  <2>1. Aside(x, a, V) /\ Calm(x, a) BY <1>3, BackfillTurn
  <2>2. x \in Clients(V) BY <2>1 DEF Aside
  <2>3. Calm(a, a) BY CalmTwice
  <2>4. b = IF record.journal THEN x ELSE a BY DEF WithJournal
  <2> HIDE DEF x, b
  <2> QED BY <1>3, <2>1, <2>2, <2>3, <2>4
<1> HIDE DEF b
<1>5. Calm(d, b)
  <2>1. Sound(b.store, V) BY <1>4, Parts
  <2>2. Keeps(h, b.store, V) /\ Spares(h, b.store) BY <2>1, HydrateKeeps
  <2> HIDE DEF h
  <2>3. d.store = h /\ d.conn = b.conn BY <1>4, <2>2, StoreTurn
  <2> QED BY <2>2, <2>3 DEF Calm
<1> HIDE DEF d
<1>6. Closer(a, c, R, j) BY <1>1, <1>3, CloserTwice
<1>7. Closer(b, a, R, j) /\ Closer(d, b, R, j) BY <1>4, <1>5, CloserTwice
<1>8. Closer(b, c, R, j) BY <1>6, <1>7, CloserTwice
<1>9. Closer(d, c, R, j) BY <1>7, <1>8, CloserTwice
<1>10. ASSUME Caught(c.store, c.conn, R, j, record.node, record.state)
       PROVE  Caught(b.store, b.conn, R, j, "none", "none") /\ Caught(d.store, d.conn, R, j, "none", "none")
  <2>1. Behind(a.store, a.conn, R, j) BY <1>6 DEF Closer, Nearer
  <2>2. Caught(a.store, a.conn, R, j, "none", "none") BY <1>1, <1>3, <1>10
  <2>3. Behind(b.store, b.conn, R, j) /\ Caught(b.store, b.conn, R, j, "none", "none")
    BY <1>7, <2>1, <2>2 DEF Closer, Nearer
  <2> QED BY <1>7, <2>3 DEF Closer, Nearer
<1> QED BY <1>2, <1>8, <1>9, <1>10

-----------------------------------------------------------------------------
(* What is missing will come: in every state.                              *)

(* The ends of the server are the ones it has. *)
LEMMA EndsOf ==
  ASSUME NEW j \in Jobs
  PROVE  EndsAre(Verdicts, j, server[j])
BY DEF EndsAre, Verdicts

(* An open execution: no failure of it is shown as another end. *)
LEMMA OpenShows ==
  ASSUME NEW V, NEW c \in Clients(V), NEW j \in ToSet(OpenExecutions(c.store)), NEW R,
         Behind(c.store, c.conn, R, j), EndsAre(V, j, R)
  PROVE  FailureShows(c.store, c.conn, R, j)
<1> DEFINE t == c.store
<1>1. t \in Stores /\ Truthful(t, V) BY Parts DEF Sound, Formed
<1>2. j \in Known(t) /\ t.map[j].status \in {"queued", "running", "completed"} BY <1>1, OpenType
<1> SUFFICES ASSUME R.state = "failed", j \in c.conn.terminal, j \notin t.gone PROVE FALSE
  BY DEF FailureShows
<1>3. IsAuthoritativeTerminal(t, j) BY DEF Behind, Final
<1>4. <<j, t.map[j].status>> \in V BY <1>1, <1>2, <1>3 DEF Truthful
<1>5. t.map[j].status = "error" BY <1>4 DEF EndsAre, Shown
<1> QED BY <1>2, <1>5

(* A step that leaves the passes alone. *)
LEMMA FollowedQuiet ==
  ASSUME IInv, QInv, track' = track, conn'.up => conn.up, ~conn'.up => conn'.wire = <<>>,
         \A r \in http' : r.kind = "reconcile" /\ r.body # <<>> => r \in http,
         \A j \in Jobs : Followed(j)
  PROVE  QInv'
<1>1. /\ track.covered \subseteq Jobs /\ ToSet(track.todo) \subseteq Jobs
      /\ \A r \in http : r.job \in Jobs
  <2>1. track \in Tracks /\ http \in SUBSET Exchanges(Verdicts) BY Holds
  <2>2. track.todo \in Seq(Jobs) BY <2>1 DEF Tracks
  <2>3. ToSet(track.todo) \subseteq Jobs BY <2>2 DEF ToSet
  <2> QED BY <2>1, <2>3 DEF Tracks, Exchanges
<1>2. Silent' BY DEF Silent
<1>3. AllBehind' BY DEF AllBehind, QInv, Followed
<1>4. Up' => Up BY DEF Up
<1>5. \A j \in Jobs : Behind(store, conn, server[j], j) BY DEF QInv, AllBehind
<1>6. ASSUME Up', NEW j \in track'.covered
      PROVE  Awaited(track', j) \/ Caught(store', conn', server'[j], j, "none", "none")
  <2>1. j \in track.covered /\ j \in Jobs BY <1>1, <1>6
  <2>2. Awaited(track, j) \/ Caught(store, conn, server[j], j, "none", "none")
    BY <1>4, <1>6, <2>1 DEF QInv, CoveredCaught
  <2> QED BY <1>5, <1>6, <2>1, <2>2 DEF Followed, Up
<1>7. CoveredCaught' BY <1>6 DEF CoveredCaught
<1>8. ASSUME NEW r \in http', r.kind = "reconcile", r.body # <<>>
      PROVE  /\ r.body[1].node \in Below(server'[r.job].node)
             /\ r.body[1].node = "error" => r.body[1].state = "failed"
             /\ Up' => Caught(store', conn', server'[r.job], r.job, r.body[1].node, r.body[1].state)
  <2>1. r \in http /\ r.job \in Jobs BY <1>1, <1>8
  <2>2. /\ r.body[1].node \in Below(server[r.job].node)
        /\ r.body[1].node = "error" => r.body[1].state = "failed"
        /\ Up => Caught(store, conn, server[r.job], r.job, r.body[1].node, r.body[1].state)
    BY <1>8, <2>1 DEF QInv, RecordsCaught
  <2>3. Followed(r.job) /\ Behind(store, conn, server[r.job], r.job) BY <1>5, <2>1
  <2> QED BY <1>4, <2>2, <2>3 DEF Followed, Up
<1>9. RecordsCaught' BY <1>8 DEF RecordsCaught
<1>10. AwaitedShow'
  <2> SUFFICES ASSUME Up', NEW j \in ToSet(track.todo)
               PROVE  FailureShows(store', conn', server'[j], j)
    BY DEF AwaitedShow
  <2>1. j \in Jobs /\ FailureShows(store, conn, server[j], j)
    BY <1>1, <1>4 DEF QInv, AwaitedShow
  <2>2. Followed(j) /\ Behind(store, conn, server[j], j) BY <1>5, <2>1
  <2> QED BY <2>1, <2>2 DEF Followed, Up
<1> QED BY <1>2, <1>3, <1>7, <1>9, <1>10 DEF QInv

(* A turn of the client that loses nothing, and leaves the passes alone. *)
LEMMA NearerQuiet ==
  ASSUME IInv, QInv, track' = track, server' = server, conn'.up = conn.up,
         conn.wire = <<>> => conn'.wire = <<>>,
         \A r \in http' : r.kind = "reconcile" /\ r.body # <<>> => r \in http,
         \A j \in Jobs : Nearer(store', conn', store, conn, server[j], j)
  PROVE  QInv'
<1>1. \A j \in Jobs : Followed(j) BY DEF Followed, Nearer
<1>2. ~conn'.up => conn'.wire = <<>> BY DEF QInv, Silent
<1> QED BY <1>1, <1>2, FollowedQuiet

(* A calm turn aside, when an exchange is over. *)
LEMMA CalmQuiet ==
  ASSUME IInv, QInv, NEW c, c.store = store, c.conn = conn, c.track = track, c.http \subseteq http,
         NEW d, Aside(d, c, Verdicts), Calm(d, c), Becomes(d), server' = server
  PROVE  QInv'
<1>1. /\ track' = track /\ conn'.up = conn.up /\ conn'.wire = conn.wire
      /\ store' = d.store /\ conn' = d.conn /\ http' = d.http
  BY DEF Aside, Calm, Becomes
<1>2. \A r \in http' : r.kind = "reconcile" => r \in http BY <1>1 DEF Aside
<1>3. ASSUME NEW j \in Jobs PROVE Nearer(store', conn', store, conn, server[j], j)
  <2> DEFINE R == server[j]
  <2> HIDE DEF R
  <2>1. Nearer(d.store, d.conn, c.store, c.conn, R, j) BY CalmNearer
  <2> QED BY <1>1, <2>1 DEF R
<1> QED BY <1>1, <1>2, <1>3, NearerQuiet

(* A client with a store that shows the same. *)
LEMMA SparesCalm ==
  ASSUME NEW V, NEW c \in Clients(V), NEW s, Keeps(s, c.store, V), Spares(s, c.store),
         NEW d, d = [c EXCEPT !.store = s]
  PROVE  Aside(d, c, V) /\ Calm(d, c)
<1>1. Aside(d, c, V) /\ d.store = s /\ d.conn = c.conn BY StoreTurn
<1> QED BY <1>1 DEF Calm

(* A submission is answered. *)
LEMMA SubmitAnsweredQuiet ==
  ASSUME IInv, QInv, SubmitAnswered
  PROVE  QInv'
<1>1. PICK r \in Over("submit") :
        LET c == Gone(Client, r)
        IN  Turn(IF r.phase = "failed" THEN c
                 ELSE [c EXCEPT !.store = Register(@, r.job, c.now)])
  BY DEF SubmitAnswered
<1> DEFINE c == Gone(Client, r)
           s == Register(c.store, r.job, c.now)
           b == [c EXCEPT !.store = s]
           d == IF r.phase = "failed" THEN c ELSE b
<1>2. r \in http BY DEF Over
<1>3. /\ c \in Clients(Verdicts) /\ c.store = store /\ c.conn = conn /\ c.track = track
      /\ c.http = http \ {r} /\ r.job \in Jobs
  BY <1>2, GoneTurn
<1>4. Becomes(d) /\ server' = server BY <1>1 DEF Turn
<1> HIDE DEF c
<1>5. Keeps(s, c.store, Verdicts) /\ Spares(s, c.store)
  <2>1. Sound(c.store, Verdicts) /\ c.now \in Nat BY <1>3, Parts
  <2> QED BY <1>3, <2>1, RegisterKeeps
<1> HIDE DEF s
<1>6. Aside(b, c, Verdicts) /\ Calm(b, c) BY <1>3, <1>5, SparesCalm
<1> HIDE DEF b
<1>7. Aside(d, c, Verdicts) /\ Calm(d, c) BY <1>3, <1>6, AsideStays, CalmTwice
<1> HIDE DEF d
<1> QED BY <1>3, <1>4, <1>7, CalmQuiet

(* A job first seen in its middle was looked at. *)
LEMMA SightAnsweredQuiet ==
  ASSUME IInv, QInv, SightAnswered
  PROVE  QInv'
<1>1. PICK r \in {x \in http : x.kind = "sight"} :
        LET c == Gone(Client, r)
            record == Late(r)
        IN  Turn(IF record # <<>> /\ record[1].journal THEN Backfill(c, r.job) ELSE c)
  BY DEF SightAnswered
<1> DEFINE c == Gone(Client, r)
           b == Backfill(c, r.job)
           d == IF Late(r) # <<>> /\ Late(r)[1].journal THEN b ELSE c
<1>2. r \in http OBVIOUS
<1>3. /\ c \in Clients(Verdicts) /\ c.store = store /\ c.conn = conn /\ c.track = track
      /\ c.http = http \ {r} /\ r.job \in Jobs
  BY <1>2, GoneTurn
<1>4. Becomes(d) /\ server' = server BY <1>1 DEF Turn
<1> HIDE DEF c
<1>5. Aside(b, c, Verdicts) /\ Calm(b, c) BY <1>3, BackfillTurn
<1> HIDE DEF b
<1>6. Aside(d, c, Verdicts) /\ Calm(d, c) BY <1>3, <1>5, AsideStays, CalmTwice
<1> HIDE DEF d
<1> QED BY <1>3, <1>4, <1>6, CalmQuiet

(* A page arrives. *)
LEMMA PageAnsweredQuiet ==
  ASSUME IInv, QInv, PageAnswered
  PROVE  QInv'
<1>1. PICK r \in Over("page") :
        LET c == Gone(Client, r)
        IN  Turn(IF r.body = <<>> THEN BreakOff(c, r.job)
                 ELSE BackfillPage(c, r.job, r.arg, r.body[1]))
  BY DEF PageAnswered
<1> DEFINE c == Gone(Client, r)
           a == BreakOff(c, r.job)
           b == BackfillPage(c, r.job, r.arg, r.body[1])
           d == IF r.body = <<>> THEN a ELSE b
<1>2. r \in http /\ r.kind = "page" BY DEF Over
<1>3. /\ c \in Clients(Verdicts) /\ c.store = store /\ c.conn = conn /\ c.track = track
      /\ c.http = http \ {r} /\ r.job \in Jobs /\ r \in Exchanges(Verdicts)
  BY <1>2, GoneTurn
<1>4. r.arg \in Spans /\ (r.body # <<>> => r.body[1] \in Pages) BY <1>2, <1>3 DEF Exchanges
<1>5. Becomes(d) /\ server' = server BY <1>1 DEF Turn
<1>6. Tidy(c.store, r.job)
  <2>1. Behind(store, conn, server[r.job], r.job) BY <1>3 DEF QInv, AllBehind
  <2> QED BY <1>3, <2>1 DEF Tidy, Behind
<1> HIDE DEF c
<1>7. Aside(a, c, Verdicts) /\ Calm(a, c) BY <1>3, EndPassTurn
<1>8. r.body # <<>> => Aside(b, c, Verdicts) /\ Calm(b, c) BY <1>3, <1>4, <1>6, PageTurn
<1> HIDE DEF a, b
<1>9. Aside(d, c, Verdicts) /\ Calm(d, c) BY <1>7, <1>8
<1> HIDE DEF d
<1> QED BY <1>3, <1>5, <1>9, CalmQuiet

(* A completion's artifacts arrive. *)
LEMMA HydrateAnsweredQuiet ==
  ASSUME IInv, QInv, HydrateAnswered
  PROVE  QInv'
<1>1. PICK r \in {x \in http : x.kind = "hydrate"} :
        LET c == Gone(Client, r)
            record == Late(r)
        IN  Turn(IF record = <<>> \/ record[1].state # "completed" THEN c
                 ELSE [c EXCEPT !.store = HydrateArtifacts(@, r.job)])
  BY DEF HydrateAnswered
<1> DEFINE c == Gone(Client, r)
           s == HydrateArtifacts(c.store, r.job)
           b == [c EXCEPT !.store = s]
           d == IF Late(r) = <<>> \/ Late(r)[1].state # "completed" THEN c ELSE b
<1>2. r \in http OBVIOUS
<1>3. /\ c \in Clients(Verdicts) /\ c.store = store /\ c.conn = conn /\ c.track = track
      /\ c.http = http \ {r} /\ r.job \in Jobs
  BY <1>2, GoneTurn
<1>4. Becomes(d) /\ server' = server BY <1>1 DEF Turn
<1> HIDE DEF c
<1>5. Keeps(s, c.store, Verdicts) /\ Spares(s, c.store)
  <2>1. Sound(c.store, Verdicts) BY <1>3, Parts
  <2> QED BY <1>3, <2>1, HydrateKeeps
<1> HIDE DEF s
<1>6. Aside(b, c, Verdicts) /\ Calm(b, c) BY <1>3, <1>5, SparesCalm
<1> HIDE DEF b
<1>7. Aside(d, c, Verdicts) /\ Calm(d, c) BY <1>3, <1>6, AsideStays, CalmTwice
<1> HIDE DEF d
<1> QED BY <1>3, <1>4, <1>7, CalmQuiet

(* A frame arrives. *)
LEMMA DeliverQuiet ==
  ASSUME IInv, QInv, Deliver
  PROVE  QInv'
<1> DEFINE n == [conn EXCEPT !.wire = Tail(@)]
           c == [Client EXCEPT !.conn = n]
           f == Head(conn.wire)
           a == NoteLiveJobEvent(c, f)
           b == EmitRaw(a, f)
           e == Ask(b, "hydrate", f.job, 0)
           d == IF f.kind = "completed" THEN e ELSE b
           v == Tail(conn.wire)
<1>1. /\ Client \in Clients(Verdicts) /\ Client.conn = conn /\ Client.store = store
      /\ Client.http = http /\ Client.track = track /\ conn \in Conns(Verdicts)
  BY Holds
<1>2. conn.wire \in Seq(Messages(Verdicts)) /\ conn.wire # <<>> BY <1>1 DEF Conns, Deliver
<1>3. f \in Messages(Verdicts) /\ v \in Seq(Messages(Verdicts))
  <2> DEFINE M == Messages(Verdicts)
             w == conn.wire
  <2>1. w \in Seq(M) /\ w # <<>> BY <1>2
  <2> HIDE DEF M, w
  <2>2. Head(w) \in M /\ Tail(w) \in Seq(M) BY <2>1
  <2> QED BY <2>2 DEF M, w
<1>4. n \in Conns(Verdicts) /\ n.wire = v /\ n.terminal = conn.terminal /\ n.up = conn.up
  <2> DEFINE W == Seq(Messages(Verdicts))
  <2>1. v \in W BY <1>3
  <2>2. n = [conn EXCEPT !.wire = v] OBVIOUS
  <2> HIDE DEF n, v
  <2> QED BY <1>1, <2>1, <2>2 DEF Conns
<1>5. Becomes(d) /\ server' = server
  <2>1. [Client EXCEPT !.conn.wire = Tail(@)] = c BY Zenon, <1>1
  <2>2. Becomes(Ingest(c, f)) /\ server' = server
    <3> HIDE DEF c
    <3> QED BY <2>1 DEF Deliver
  <2>3. Ingest(c, f) = d BY Zenon DEF Ingest, Noticed
  <2> HIDE DEF d
  <2> QED BY <2>2, <2>3
<1>6. /\ Aside(c, Client, Verdicts) /\ c.store = store /\ c.http = http /\ c.conn = n
  <2> HIDE DEF n, f, v
  <2> QED BY <1>1, <1>4, ConnTurn
<1>7. Takes(conn.wire, v, f) BY <1>2 DEF Takes
<1>8. f.job \in Jobs BY <1>3 DEF Messages
<1>9. conn.wire # <<>> BY <1>2
<1> HIDE DEF n, f, c, v
<1>10. c \in Clients(Verdicts) BY <1>6 DEF Aside
<1>11. Aside(a, c, Verdicts) /\ Calm(a, c) BY <1>3, <1>10, NoteTurn
<1> HIDE DEF a
<1>12. /\ a \in Clients(Verdicts) /\ a.conn.wire = v /\ a.conn.terminal = conn.terminal
       /\ a.conn.up = conn.up
  BY <1>4, <1>6, <1>11 DEF Aside, Calm
<1>13. Tidy(a.store, f.job)
  <2>1. Behind(store, conn, server[f.job], f.job) BY <1>8 DEF QInv, AllBehind
  <2>2. Tidy(c.store, f.job) BY <1>6, <2>1 DEF Tidy, Behind
  <2> QED BY <1>11, <2>2, CalmTwice
<1>14. Aside(b, a, Verdicts) /\ b.http = a.http /\ Minds(b, a, f)
  BY <1>3, <1>12, <1>13, EmitRawTurn
<1> HIDE DEF b
<1>15. b \in Clients(Verdicts) BY <1>14 DEF Aside
<1>16. Aside(e, b, Verdicts) /\ e.store = b.store /\ e.conn = b.conn
  BY <1>8, <1>15, AskTurn
<1> HIDE DEF e
<1>17. Aside(d, b, Verdicts) /\ d.store = b.store /\ d.conn = b.conn
  BY <1>15, <1>16, AsideStays
<1> HIDE DEF d
<1>18. store' = b.store /\ conn' = b.conn /\ track' = track
  BY <1>1, <1>5, <1>6, <1>11, <1>14, <1>17 DEF Becomes, Aside
<1>19. conn'.up = conn.up BY <1>12, <1>14, <1>18 DEF Minds
<1>20. \A r \in http' : r.kind = "reconcile" => r \in http
  BY <1>5, <1>6, <1>11, <1>14, <1>17 DEF Becomes, Aside
<1>21. ASSUME NEW j \in Jobs PROVE Nearer(store', conn', store, conn, server[j], j)
  <2> DEFINE o == conn
             R == server[j]
             M == Messages(Verdicts)
  <2>1. /\ o.wire \in Seq(M) /\ o.terminal = a.conn.terminal /\ Takes(o.wire, a.conn.wire, f)
    BY <1>2, <1>7, <1>12
  <2>2. EndsAre(Verdicts, j, R) BY EndsOf
  <2> HIDE DEF o, R, M
  <2>3. Nearer(b.store, b.conn, a.store, o, R, j)
    <3>1. CASE j # f.job BY <1>14, <2>1, <3>1, OthersNearer
    <3>2. CASE j = f.job
      <4>1. o.wire \in Seq(Messages(Verdicts)) /\ EndsAre(Verdicts, f.job, R)
        BY <2>1, <2>2, <3>2 DEF M
      <4>2. Nearer(b.store, b.conn, a.store, o, R, f.job)
        BY <1>3, <1>14, <2>1, <4>1, FrameNearer
      <4> QED BY <3>2, <4>2
    <3> QED BY <3>1, <3>2
  <2>4. Nearer(a.store, o, c.store, o, R, j)
    <3>1. Turns(a.store, c.store, j, Node(c.store, j)) BY <1>11 DEF Calm, Spares, Leaves
    <3> QED BY <3>1, NearerBy
  <2>5. Nearer(b.store, b.conn, c.store, o, R, j) BY <2>3, <2>4, NearerTwice
  <2> QED BY <1>6, <1>18, <2>5 DEF o, R
<1> QED BY <1>5, <1>9, <1>18, <1>19, <1>20, <1>21, NearerQuiet

(* A pass goes on, with what it made of an answer. *)
LEMMA PassQuiet ==
  ASSUME IInv, QInv, NEW b \in Clients(Verdicts), Between(b),
         b.conn.up = conn.up, b.conn.wire = conn.wire, b.track.ran = track.ran,
         b.track.gen = track.gen, b.track.todo = track.todo, b.track.covered \subseteq track.covered,
         \A k \in Jobs : Nearer(b.store, b.conn, store, conn, server[k], k),
         NEW j, j = Head(track.todo),
         j \in b.track.covered /\ Up => Caught(b.store, b.conn, server[j], j, "none", "none"),
         Becomes(PassNext(b)), server' = server
  PROVE  QInv'
<1> DEFINE d == PassNext(b)
<1>1. /\ Paced(d, b, Verdicts)
      /\ \A k \in d.track.covered :
           \/ Awaited(d.track, k)
           \/ /\ IsCurrent(b)
              /\ k \in Settled(b.track) \/ (k \in b.track.covered /\ k = Head(b.track.todo))
      /\ \A k \in ToSet(d.track.todo) : \/ IsCurrent(b) /\ k \in ToSet(b.track.todo)
                                        \/ k \in ToSet(OpenExecutions(b.store))
  BY PassNextPaces
<1>2. Becomes(d) OBVIOUS
<1> HIDE DEF d
<1>3. /\ store' = b.store /\ conn' = b.conn /\ track' = d.track /\ http' = d.http
      /\ d.track.gen = track.gen /\ d \in Clients(Verdicts)
  BY <1>1, <1>2 DEF Paced, Becomes
<1>4. track.covered \subseteq Jobs
  <2>1. track \in Tracks BY Holds
  <2> QED BY <2>1 DEF Tracks
<1>5. Silent' BY <1>3 DEF QInv, Silent
<1>6. AllBehind' BY <1>3 DEF QInv, AllBehind, Nearer
<1>7. ASSUME Up', NEW k \in track'.covered
      PROVE  Awaited(track', k) \/ Caught(store', conn', server'[k], k, "none", "none")
  <2> SUFFICES ASSUME ~Awaited(track', k)
               PROVE  Caught(store', conn', server'[k], k, "none", "none")
    OBVIOUS
  <2>1. /\ IsCurrent(b) /\ k \in b.track.covered
        /\ k \in Settled(b.track) \/ k = Head(b.track.todo)
    BY <1>1, <1>3, <1>7 DEF Settled
  <2>2. Up BY <1>3, <1>7, <2>1 DEF Up, IsCurrent
  <2>3. CASE k = j BY <1>3, <2>1, <2>2, <2>3
  <2>4. CASE k # j
    <3>1. k \in track.covered /\ ~Awaited(track, k) BY <2>1, <2>4 DEF Settled, Awaited
    <3>2. Caught(store, conn, server[k], k, "none", "none") BY <2>2, <3>1 DEF QInv, CoveredCaught
    <3>3. Behind(store, conn, server[k], k) BY <1>4, <3>1 DEF QInv, AllBehind
    <3>4. Nearer(b.store, b.conn, store, conn, server[k], k) BY <1>4, <3>1
    <3> QED BY <1>3, <3>2, <3>3, <3>4 DEF Nearer
  <2> QED BY <2>3, <2>4
<1>8. CoveredCaught' BY <1>7 DEF CoveredCaught
<1>9. \A r \in http' : r.kind = "reconcile" => r.body = <<>>
  <2>1. \A r \in d.http : r.phase = "sent" => r.body = <<>>
    <3>1. d.http \in SUBSET Exchanges(Verdicts) BY <1>3, Parts
    <3> QED BY <3>1 DEF Exchanges
  <2>2. \A r \in b.http : r.kind # "reconcile" BY DEF Between, Asked
  <2> QED BY <1>1, <1>3, <2>1, <2>2 DEF Paced
<1>10. RecordsCaught' BY <1>9 DEF RecordsCaught
<1>11. AwaitedShow'
  <2> SUFFICES ASSUME Up', NEW k \in ToSet(d.track.todo)
               PROVE  FailureShows(store', conn', server'[k], k)
    BY <1>3 DEF AwaitedShow
  <2>1. ToSet(b.track.todo) \subseteq Jobs /\ ToSet(OpenExecutions(b.store)) \subseteq Jobs
    <3>1. b.track \in Tracks /\ b.store \in Stores BY Parts
    <3>2. b.track.todo \in Seq(Jobs) BY <3>1 DEF Tracks
    <3> QED BY <3>1, <3>2, OpenType DEF ToSet
  <2>2. k \in Jobs BY <1>1, <2>1
  <2>3. Behind(store, conn, server[k], k) BY <2>2 DEF QInv, AllBehind
  <2>4. Nearer(b.store, b.conn, store, conn, server[k], k) BY <2>2
  <2>5. CASE IsCurrent(b) /\ k \in ToSet(b.track.todo)
    <3>1. Up BY <1>3, <2>5 DEF Up, IsCurrent
    <3>2. FailureShows(store, conn, server[k], k) BY <2>5, <3>1 DEF QInv, AwaitedShow
    <3> QED BY <1>3, <2>3, <2>4, <3>2 DEF Nearer
  <2>6. CASE k \in ToSet(OpenExecutions(b.store))
    <3> DEFINE R == server[k]
    <3>1. EndsAre(Verdicts, k, R) BY <2>2, EndsOf
    <3>2. Behind(b.store, b.conn, R, k) BY <2>3, <2>4 DEF Nearer
    <3> HIDE DEF R
    <3>3. FailureShows(b.store, b.conn, R, k) BY <2>6, <3>1, <3>2, OpenShows
    <3> QED BY <1>3, <3>3 DEF R
  <2> QED BY <1>1, <2>5, <2>6
<1> QED BY <1>5, <1>6, <1>8, <1>10, <1>11 DEF QInv

(* The answer a pass waits for: without a record the job is no longer
   covered, and what a record lacks will come. *)
LEMMA ReconcileAnsweredQuiet ==
  ASSUME IInv, QInv, ReconcileAnswered
  PROVE  QInv'
<1>1. PICK r \in Over("reconcile") :
        LET c == Gone(Client, r)
        IN  Turn(PassNext(IF r.phase = "failed" THEN Unread(c, r.job)
                          ELSE IF r.body = <<>> THEN Disowned(Unread(c, r.job), r.job)
                          ELSE ReconcileRecord(c, r.job, r.body[1])))
  BY DEF ReconcileAnswered
<1> DEFINE c == Gone(Client, r)
           j == r.job
           t == [c.track EXCEPT !.covered = @ \ {j}]
           u == [c EXCEPT !.track = t]
           s == MarkLost(u.store, j, u.now)
           w == [u EXCEPT !.store = s]
           x == IF IsCurrent(u) THEN w ELSE u
           y == ReconcileRecord(c, j, r.body[1])
           b == IF r.phase = "failed" THEN u ELSE IF r.body = <<>> THEN x ELSE y
<1>2. r \in http /\ r.kind = "reconcile" /\ (r.phase = "served" \/ r.phase = "failed")
  BY DEF Over
<1>3. /\ c \in Clients(Verdicts) /\ c.store = store /\ c.conn = conn /\ c.track = track
      /\ Between(c) /\ j \in Jobs /\ r \in Exchanges(Verdicts)
  BY <1>2, GoneTurn
<1>4. r.body # <<>> => r.body[1] \in Records /\ (r.body[1].state \in Ended => <<j, Shown[r.body[1].state]>> \in Verdicts)
  BY <1>2, <1>3 DEF Exchanges, Answered
<1>5. Becomes(PassNext(b)) /\ server' = server
  <2>1. Unread(c, j) = u /\ Disowned(u, j) = x BY Zenon DEF Unread, Disowned
  <2>2. b = IF r.phase = "failed" THEN Unread(c, j)
            ELSE IF r.body = <<>> THEN Disowned(Unread(c, j), j)
            ELSE ReconcileRecord(c, j, r.body[1])
    <3> HIDE DEF c, j, u, x
    <3> QED BY <2>1
  <2> HIDE DEF b
  <2> QED BY <1>1, <2>2 DEF Turn
<1>6. track \in Tracks /\ Passing(Client) /\ Client.track = track /\ Client.http = http BY Holds
<1>7. j = Head(track.todo)
  <2>1. r \in Asked(Client) BY <1>2, <1>6 DEF Asked
  <2> QED BY <1>6, <2>1 DEF Passing
<1>8. /\ Behind(store, conn, server[j], j)
      /\ r.body # <<>> => /\ r.body[1].node \in Below(server[j].node)
                          /\ r.body[1].node = "error" => r.body[1].state = "failed"
                          /\ Up => Caught(store, conn, server[j], j, r.body[1].node, r.body[1].state)
  BY <1>2, <1>3 DEF QInv, AllBehind, RecordsCaught
<1>9. EndsAre(Verdicts, j, server[j]) BY <1>3, EndsOf
<1>16. server[j] \in Runs BY <1>3, Holds
<1> HIDE DEF c, j
<1>10. /\ u \in Clients(Verdicts) /\ u.store = store /\ u.conn = conn /\ Between(u)
       /\ u.track.ran = track.ran /\ u.track.gen = track.gen /\ u.track.todo = track.todo
       /\ u.track.covered \subseteq track.covered /\ j \notin u.track.covered
  <2>1. /\ t \in Tracks /\ t.ran = track.ran /\ t.gen = track.gen /\ t.busy = track.busy
        /\ t.todo = track.todo /\ t.covered = track.covered \ {j}
    BY <1>3, <1>6 DEF Tracks
  <2> HIDE DEF t
  <2>2. /\ u \in Clients(Verdicts) /\ u.store = c.store /\ u.conn = c.conn /\ u.http = c.http
        /\ u.track = t
    BY <1>3, <2>1, TrackTurn
  <2> HIDE DEF u
  <2>3. Asked(u) = Asked(c) BY <2>2 DEF Asked
  <2>4. Between(u) BY <1>3, <2>1, <2>2, <2>3 DEF Between
  <2> QED BY <1>3, <2>1, <2>2, <2>4
<1> HIDE DEF u
<1>11. Loses(s, store, Verdicts, j) /\ Spares(s, store)
  <2>1. Sound(u.store, Verdicts) /\ u.now \in Nat BY <1>10, Parts
  <2> QED BY <1>10, <2>1, MarkLostLoses
<1> HIDE DEF s
<1>12. /\ w \in Clients(Verdicts) /\ w.store = s /\ w.conn = conn /\ w.track = u.track
       /\ Between(w)
  <2>1. Sound(s, Verdicts) /\ Capped(s) BY <1>11, Holds DEF Loses
  <2>2. /\ w \in Clients(Verdicts) /\ w.store = s /\ w.conn = u.conn /\ w.http = u.http
        /\ w.track = u.track
    BY <1>10, <2>1, StorePart
  <2> HIDE DEF w
  <2>3. Asked(w) = Asked(u) BY <2>2 DEF Asked
  <2>4. Between(w) BY <1>10, <2>2, <2>3 DEF Between
  <2> QED BY <1>10, <2>2, <2>4
<1> HIDE DEF w
<1>13. ASSUME NEW k \in Jobs, NEW z, z = u \/ z = w
       PROVE  Nearer(z.store, z.conn, store, conn, server[k], k)
  <2> DEFINE R == server[k]
  <2> HIDE DEF R
  <2>1. Spares(z.store, store) /\ z.conn = conn BY <1>10, <1>11, <1>12, <1>13, ShowsTheSame
  <2>2. Turns(z.store, store, k, Node(store, k)) BY <2>1 DEF Spares, Leaves
  <2>3. Nearer(z.store, z.conn, store, conn, R, k) BY <2>1, <2>2, NearerBy
  <2> QED BY <2>3 DEF R
<1>14. CASE r.phase = "failed" \/ r.body = <<>>
  <2>1. b = u \/ b = w BY <1>14
  <2> HIDE DEF b
  <2>2. /\ b \in Clients(Verdicts) /\ Between(b) /\ b.conn = conn /\ b.track = u.track
    BY <1>10, <1>12, <2>1
  <2>3. \A k \in Jobs : Nearer(b.store, b.conn, store, conn, server[k], k) BY <1>13, <2>1
  <2> QED BY <1>5, <1>7, <1>10, <2>2, <2>3, PassQuiet
<1>15. CASE r.phase # "failed" /\ r.body # <<>>
  <2> DEFINE e == r.body[1]
             R == server[j]
  <2>1. b = y BY <1>15
  <2>2. Becomes(PassNext(y)) BY <1>5, <2>1
  <2>3. /\ e \in Records /\ (e.state \in Ended => <<j, Shown[e.state]>> \in Verdicts)
        /\ EndsAre(Verdicts, j, R) /\ Behind(c.store, c.conn, R, j) /\ e.node \in Below(R.node)
        /\ e.node = "error" => e.state = "failed"
        /\ Up => Caught(c.store, c.conn, R, j, e.node, e.state)
    BY <1>3, <1>4, <1>8, <1>9, <1>15
  <2>0. R.node \in Nodes
    <3>1. R \in Runs BY <1>16
    <3> QED BY <3>1 DEF Runs
  <2>4. y = ReconcileRecord(c, j, e) OBVIOUS
  <2> HIDE DEF e, R, y
  <2>5. Aside(y, c, Verdicts) BY <1>3, <2>3, <2>4, RecordTurn
  <2>6. /\ Closer(y, c, R, j)
        /\ Caught(c.store, c.conn, R, j, e.node, e.state) => Caught(y.store, y.conn, R, j, "none", "none")
    BY <1>3, <2>0, <2>3, <2>4, RecordCloser
  <2>7. /\ y \in Clients(Verdicts) /\ y.track = track /\ Between(y)
    BY <1>3, <2>5, AsidePasses DEF Aside
  <2>8. \A k \in Jobs : Nearer(y.store, y.conn, store, conn, server[k], k)
    <3>1. Nearer(y.store, y.conn, store, conn, server[j], j) BY <1>3, <2>6 DEF Closer, R
    <3>2. ASSUME NEW k \in Jobs, k # j PROVE Nearer(y.store, y.conn, store, conn, server[k], k)
      BY <1>3, <2>6, <3>2 DEF Closer
    <3> QED BY <3>1, <3>2
  <2>9. Up => Caught(y.store, y.conn, server[j], j, "none", "none") BY <2>3, <2>6 DEF R
  <2>10. y.conn.up = conn.up /\ y.conn.wire = conn.wire BY <1>3, <2>6 DEF Closer
  <2> QED BY <1>5, <1>7, <2>2, <2>7, <2>8, <2>9, <2>10, PassQuiet
<1> QED BY <1>2, <1>14, <1>15

(* The socket is up again: nothing is promised before its pass. *)
LEMMA ReconnectedQuiet ==
  ASSUME IInv, QInv, Reconnected
  PROVE  QInv'
<1> DEFINE n == [conn EXCEPT !.up = TRUE, !.holes = conn.holes \union conn.passes]
           c == [Client EXCEPT !.conn = n]
           d == Reconcile(c)
<1>1. /\ Client \in Clients(Verdicts) /\ Client.conn = conn /\ Client.store = store
      /\ Client.http = http /\ Client.track = track /\ Passing(Client) /\ conn \in Conns(Verdicts)
  BY Holds
<1>2. /\ n \in Conns(Verdicts) /\ n.up = TRUE /\ n.wire = conn.wire
      /\ n.terminal = conn.terminal
  BY <1>1 DEF Conns
<1>3. Becomes(d) /\ server' = server
  <2>1. [Client EXCEPT !.conn.up = TRUE, !.conn.holes = @ \union conn.passes] = c
    BY <1>1 DEF Client
  <2> HIDE DEF c
  <2> QED BY <2>1 DEF Reconnected
<1> HIDE DEF n
<1>4. /\ Aside(c, Client, Verdicts) /\ c.store = store /\ c.http = http /\ c.conn = n
  BY <1>1, <1>2, ConnTurn
<1> HIDE DEF c
<1>5. c \in Clients(Verdicts) BY <1>4 DEF Aside
<1>6. Passing(c) BY <1>1, <1>4, AsidePasses
<1>7. /\ d \in Clients(Verdicts) /\ Passing(d) /\ d.store = c.store /\ d.conn = c.conn
      /\ \A r \in d.http \ c.http : r.phase = "sent" /\ r.kind = "reconcile"
      /\ IsCurrent(d) => /\ Asked(c) = {} /\ \A j \in d.track.covered : Awaited(d.track, j)
                         /\ ToSet(d.track.todo) \subseteq ToSet(OpenExecutions(c.store))
  BY <1>5, <1>6, ReconcilePaces
<1> HIDE DEF d
<1>8. /\ store' = store /\ conn' = n /\ track' = d.track /\ http' = d.http
  BY <1>3, <1>4, <1>7 DEF Becomes
<1>9. \A j \in Jobs : Behind(store, conn, server[j], j) BY DEF QInv, AllBehind
<1>10. AllBehind' BY <1>2, <1>3, <1>8, <1>9 DEF AllBehind, Behind
<1>11. Silent' BY <1>2, <1>8 DEF Silent
<1>12. Up' => IsCurrent(d) BY <1>8 DEF Up, IsCurrent
<1>13. CoveredCaught' BY <1>7, <1>8, <1>12 DEF CoveredCaught
<1>14. ASSUME NEW r \in http', r.kind = "reconcile", r.body # <<>>
       PROVE  /\ r.body[1].node \in Below(server'[r.job].node) /\ ~Up'
              /\ r.body[1].node = "error" => r.body[1].state = "failed"
  <2>1. d.http \in SUBSET Exchanges(Verdicts) BY <1>7, Parts
  <2>2. r.phase # "sent" BY <1>8, <1>14, <2>1 DEF Exchanges
  <2>3. r \in http /\ r \in Asked(c) BY <1>4, <1>7, <1>8, <1>14, <2>2 DEF Asked
  <2>4. ~Up' BY <1>7, <1>12, <2>3
  <2> QED BY <1>3, <1>14, <2>3, <2>4 DEF QInv, RecordsCaught
<1>15. RecordsCaught' BY <1>14 DEF RecordsCaught
<1>16. AwaitedShow'
  <2> SUFFICES ASSUME IsCurrent(d), NEW j \in ToSet(d.track.todo)
               PROVE  FailureShows(store', conn', server'[j], j)
    BY <1>8, <1>12 DEF AwaitedShow
  <2> DEFINE R == server[j]
  <2>1. j \in ToSet(OpenExecutions(c.store)) BY <1>7
  <2>2. j \in Jobs
    <3>1. c.store \in Stores BY <1>5, Parts
    <3> QED BY <2>1, <3>1, OpenType
  <2>3. EndsAre(Verdicts, j, R) BY <2>2, EndsOf
  <2>4. Behind(c.store, c.conn, R, j) BY <1>2, <1>4, <1>9, <2>2 DEF Behind
  <2> HIDE DEF R
  <2>5. FailureShows(c.store, c.conn, R, j) BY <1>5, <2>1, <2>3, <2>4, OpenShows
  <2> QED BY <1>3, <1>4, <1>8, <2>5 DEF R
<1> QED BY <1>10, <1>11, <1>13, <1>15, <1>16 DEF QInv

(* A record is read: it says how things are. *)
LEMMA ServeReadQuiet ==
  ASSUME IInv, QInv, ServeRead
  PROVE  QInv'
<1>1. PICK r \in http :
        /\ r.kind \in {"reconcile", "page"} /\ r.phase = "sent"
        /\ http' = (http \ {r}) \union
             {[r EXCEPT !.phase = "served",
                        !.body = IF r.kind = "page" THEN Page(r.job, r.arg.after)
                                 ELSE Record(r.job)]}
  BY DEF ServeRead
<1>2. UNCHANGED <<store, conn, track, server>> BY DEF ServeRead
<1> DEFINE b == IF r.kind = "page" THEN Page(r.job, r.arg.after) ELSE Record(r.job)
           q == [r EXCEPT !.phase = "served", !.body = b]
           R == server[r.job]
           e == [state |-> R.state, node |-> R.node, journal |-> R.journal]
<1>3. r \in Exchanges(Verdicts) BY Holds
<1>4. q.kind = r.kind /\ q.job = r.job /\ q.body = b BY <1>3 DEF Exchanges
<1>5. http' = (http \ {r}) \union {q} BY <1>1
<1>6. r.kind = "reconcile" => b = <<e>> \/ b = <<>> BY DEF Record
<1>7. e.node = R.node /\ e.state = R.state OBVIOUS
<1> HIDE DEF q, b, e
<1>8. ASSUME NEW x \in http', x.kind = "reconcile", x.body # <<>>
      PROVE  /\ x.body[1].node \in Below(server[x.job].node)
             /\ x.body[1].node = "error" => x.body[1].state = "failed"
             /\ Up => Caught(store, conn, server[x.job], x.job, x.body[1].node, x.body[1].state)
  <2>1. CASE x \in http BY <1>8, <2>1 DEF QInv, RecordsCaught
  <2>2. CASE x = q
    <3>1. x.body[1] = e /\ server[x.job] = R /\ x.job = r.job BY <1>4, <1>6, <1>8, <2>2
    <3>2. r.job \in Jobs /\ r.kind = "reconcile" BY <1>3, <1>4, <1>8, <2>2 DEF Exchanges
    <3>3. Behind(store, conn, R, r.job) BY <3>2 DEF QInv, AllBehind
    <3>4. R.state = "failed" <=> R.node = "error" BY <3>3 DEF Behind
    <3>5. R.node \in Below(R.node) /\ Matches(R.node, R.node) BY DEF Below, Matches
    <3>6. Up /\ R.node = "error" /\ r.job \in conn.terminal =>
            r.job \in store.gone \/ NodeComes(conn, r.job) \/ Matches(Node(store, r.job), R.node)
      <4> SUFFICES ASSUME Up, R.node = "error", r.job \in conn.terminal
                   PROVE  r.job \in store.gone \/ NodeComes(conn, r.job)
                          \/ Matches(Node(store, r.job), R.node)
        OBVIOUS
      <4>1. Passing(Client) /\ Client.track = track /\ Client.http = http /\ track \in Tracks
        BY Holds
      <4>2. r \in Asked(Client) BY <3>2, <4>1 DEF Asked
      <4>3. r.job = Head(track.todo) /\ track.todo # <<>> BY <4>1, <4>2 DEF Passing
      <4>4. track.todo \in Seq(Jobs) BY <4>1 DEF Tracks
      <4>5. r.job \in ToSet(track.todo) BY <4>3, <4>4 DEF ToSet
      <4>6. FailureShows(store, conn, R, r.job) BY <4>5 DEF QInv, AwaitedShow
      <4> QED BY <3>4, <4>6 DEF FailureShows, Matches
    <3>7. Up => Caught(store, conn, R, r.job, R.node, R.state) BY <3>5, <3>6 DEF Caught
    <3> QED BY <1>7, <3>1, <3>4, <3>5, <3>7
  <2> QED BY <1>5, <2>1, <2>2
<1>9. RecordsCaught' BY <1>2, <1>8 DEF RecordsCaught, Up
<1>10. Silent' /\ AllBehind' /\ CoveredCaught' /\ AwaitedShow'
  BY <1>2 DEF QInv, Silent, AllBehind, CoveredCaught, AwaitedShow, Up
<1> QED BY <1>9, <1>10 DEF QInv

(* An exchange fails, or the stream drops. *)
LEMMA FaultQuiet ==
  ASSUME IInv, QInv, FaultStep
  PROVE  QInv'
<1>1. CASE ExchangeFails
  <2>1. PICK r \in http :
          http' = (http \ {r}) \union {[r EXCEPT !.phase = "failed", !.body = <<>>]}
    BY <1>1 DEF ExchangeFails
  <2>2. UNCHANGED <<store, conn, track, server>> BY <1>1 DEF ExchangeFails
  <2> DEFINE q == [r EXCEPT !.phase = "failed", !.body = <<>>]
  <2>3. q.body = <<>>
    <3>1. r \in Exchanges(Verdicts) BY Holds
    <3> QED BY <3>1 DEF Exchanges
  <2> HIDE DEF q
  <2>4. \A x \in http' : x.body # <<>> => x \in http BY <2>1, <2>3 DEF q
  <2>5. \A j \in Jobs : Followed(j) BY <2>2 DEF Followed
  <2>6. ~conn'.up => conn'.wire = <<>> BY <2>2 DEF QInv, Silent
  <2> QED BY <2>2, <2>4, <2>5, <2>6, FollowedQuiet
<1>2. CASE StreamDrops
  <2>1. conn' = [conn EXCEPT !.up = FALSE, !.wire = <<>>] /\ UNCHANGED <<store, track, http, server>>
    BY <1>2 DEF StreamDrops
  <2>2. conn \in Conns(Verdicts) BY Holds
  <2>3. conn'.up = FALSE /\ conn'.wire = <<>> /\ conn'.terminal = conn.terminal
    BY <2>1, <2>2 DEF Conns
  <2>4. \A j, n : InOrder(<<>>, j, n) BY DEF InOrder
  <2>5. \A j \in Jobs : Followed(j) BY <2>1, <2>3, <2>4 DEF Followed, Behind
  <2> QED BY <2>1, <2>3, <2>5, FollowedQuiet
<1> QED BY <1>1, <1>2 DEF FaultStep

(* A store that shows the same. *)
LEMMA SparesQuiet ==
  ASSUME IInv, QInv, Spares(store', store), UNCHANGED <<conn, track, http, server>>
  PROVE  QInv'
<1>1. ASSUME NEW j \in Jobs PROVE Nearer(store', conn', store, conn, server[j], j)
  <2> DEFINE R == server[j]
             u == store'
  <2> HIDE DEF R, u
  <2>1. Turns(u, store, j, Node(store, j)) BY DEF Spares, Leaves, u
  <2>2. Nearer(u, conn, store, conn, R, j) BY <2>1, NearerBy
  <2> QED BY <2>2 DEF R, u
<1> QED BY <1>1, NearerQuiet

(* The user looks, or not, or at what was saved. *)
LEMMA ViewQuiet ==
  ASSUME IInv, QInv, OpenView \/ CloseView \/ RestoreResult
  PROVE  QInv'
<1>1. Sound(store, Verdicts) /\ server \in [Jobs -> Runs] BY Holds
<1>2. CASE OpenView
  <2>1. PICK j \in Known(store) : store' = Retain(store, j) BY <1>2 DEF OpenView
  <2>2. UNCHANGED <<conn, track, http, server>> BY <1>2 DEF OpenView
  <2>3. j \in Jobs BY <1>1, NoteTypes DEF Sound
  <2>4. Spares(store', store) BY <1>1, <2>1, <2>3, RetainKeeps
  <2> QED BY <2>2, <2>4, SparesQuiet
<1>3. CASE CloseView
  <2>1. PICK j \in Jobs : store' = Release(store, j) BY <1>3 DEF CloseView
  <2>2. UNCHANGED <<conn, track, http, server>> BY <1>3 DEF CloseView
  <2>3. Spares(store', store) BY <1>1, <2>1, ReleaseKeeps
  <2> QED BY <2>2, <2>3, SparesQuiet
<1>4. CASE RestoreResult
  <2>1. PICK j \in Jobs \ Known(store) :
          /\ server[j].state = "completed"
          /\ store' = RestoreCompleted(store, j, server[j].node, NoTime)
    BY <1>4 DEF RestoreResult
  <2>2. UNCHANGED <<conn, track, http, server>> BY <1>4 DEF RestoreResult
  <2> DEFINE m == server[j].node
             u == store'
  <2>3. m \in Nodes /\ NoTime \in Nat BY <1>1 DEF Runs, NoTime
  <2>4. <<j, "completed">> \in Verdicts
    <3>1. Shown["completed"] = "completed" /\ "completed" \in Ended BY DEF Shown, Ended
    <3> QED BY <2>1, <3>1 DEF Verdicts
  <2>5. Shows(u, store, j, m) /\ Finishes(u, j) BY <1>1, <2>1, <2>3, <2>4, RestoreKeeps
  <2>6. ASSUME NEW k \in Jobs PROVE Nearer(store', conn', store, conn, server[k], k)
    <3> DEFINE R == server[k]
    <3>1. CASE k = j
      <4>1. Matches(m, R.node) /\ m \in Below(R.node) BY <3>1 DEF Below, Matches
      <4> HIDE DEF R, m, u
      <4>2. Nearer(u, conn, store, conn, R, k) BY <2>5, <3>1, <4>1, NearerBy DEF Shows
      <4> QED BY <2>2, <4>2 DEF R, u
    <3>2. CASE k # j
      <4> HIDE DEF R, m, u
      <4>1. Turns(u, store, k, Node(store, k)) BY <2>5, <3>2 DEF Shows, Leaves
      <4>2. Nearer(u, conn, store, conn, R, k) BY <4>1, NearerBy
      <4> QED BY <2>2, <4>2 DEF R, u
    <3> QED BY <3>1, <3>2
  <2> QED BY <2>2, <2>6, NearerQuiet
<1> QED BY <1>2, <1>3, <1>4

(* The server goes on with one job, tells nothing, and nothing has ended. *)
LEMMA UntoldQuiet ==
  ASSUME IInv, QInv, NEW j \in Jobs, NEW R, server' = [server EXCEPT ![j] = R],
         R.node = server[j].node,
         R.state = server[j].state \/ (R.state \notin Ended /\ server[j].state \notin Ended),
         UNCHANGED <<store, conn, track>>,
         \A r \in http' : r.kind = "reconcile" /\ r.body # <<>> => r \in http
  PROVE  QInv'
<1>1. server \in [Jobs -> Runs] BY Holds
<1>2. server'[j] = R /\ \A k \in Jobs : k # j => server'[k] = server[k] BY <1>1
<1>3. "failed" \in Ended BY DEF Ended
<1>4. ASSUME NEW k \in Jobs PROVE Followed(k)
  <2>1. CASE k # j
    <3>1. server'[k] = server[k] BY <1>2, <2>1
    <3> QED BY <3>1 DEF Followed
  <2>2. CASE k = j
    <3> DEFINE O == server[j]
    <3>1. server'[k] = R /\ server[k] = O BY <1>2, <2>2
    <3>2. /\ R.node = O.node
          /\ R.state = O.state \/ (R.state \notin Ended /\ O.state \notin Ended)
      OBVIOUS
    <3> HIDE DEF O
    <3>3. /\ Behind(store, conn, O, k) => Behind(store, conn, R, k)
          /\ FailureShows(store, conn, O, k) => FailureShows(store, conn, R, k)
      BY <1>3, <3>2 DEF Behind, FailureShows
    <3>4. \A n, s : Caught(store, conn, O, k, n, s) => Caught(store, conn, R, k, n, s)
      BY <3>2 DEF Caught
    <3> QED BY <3>1, <3>2, <3>3, <3>4 DEF Followed
  <2> QED BY <2>1, <2>2
<1>5. ~conn'.up => conn'.wire = <<>> BY DEF QInv, Silent
<1> QED BY <1>4, <1>5, FollowedQuiet

(* A job is submitted, taken in, forgotten or had again, or says something
   to its journal only. *)
LEMMA AdmissionQuiet ==
  ASSUME IInv, QInv, Submit \/ ServeSubmit \/ Forget \/ Restore \/ LogIsShed
  PROVE  QInv'
<1>1. server \in [Jobs -> Runs] /\ http \in SUBSET Exchanges(Verdicts) BY Holds
<1>2. CASE Submit
  <2>1. PICK j \in Own :
          /\ server[j].state = "unborn" /\ server' = [server EXCEPT ![j].state = "none"]
          /\ http' = Ask(Client, "submit", j, 0).http
    BY <1>2 DEF Submit
  <2>2. UNCHANGED <<store, conn, track>> BY <1>2 DEF Submit
  <2>3. j \in Jobs BY ExecutionAssumption
  <2> DEFINE R == [server[j] EXCEPT !.state = "none"]
             q == [kind |-> "submit", job |-> j, arg |-> 0, phase |-> "sent", body |-> <<>>]
  <2>4. R.state = "none" /\ R.node = server[j].node BY <1>1, <2>3 DEF Runs
  <2>5. server' = [server EXCEPT ![j] = R] BY <2>1
  <2>6. http' = http \union {q}
    <3>1. Client.http = http BY DEF Client
    <3>2. [Client EXCEPT !.http = @ \union {q}].http = Client.http \union {q} BY DEF Client
    <3>3. Ask(Client, "submit", j, 0) = [Client EXCEPT !.http = @ \union {q}] BY DEF Ask
    <3> HIDE DEF q
    <3> QED BY <2>1, <3>1, <3>2, <3>3
  <2>7. q.body = <<>> OBVIOUS
  <2> HIDE DEF R, q
  <2>8. R.state \notin Ended /\ server[j].state \notin Ended BY <2>1, <2>4 DEF Ended
  <2>9. \A r \in http' : r.kind = "reconcile" /\ r.body # <<>> => r \in http BY <2>6, <2>7
  <2> QED BY <2>2, <2>3, <2>4, <2>5, <2>8, <2>9, UntoldQuiet
<1>3. CASE ServeSubmit
  <2>1. PICK r \in http :
          /\ r.kind = "submit" /\ r.phase = "sent"
          /\ server' = [server EXCEPT ![r.job].state = "queued", ![r.job].known = TRUE]
          /\ http' = (http \ {r}) \union {[r EXCEPT !.phase = "served"]}
    BY <1>3 DEF ServeSubmit
  <2>9. server[r.job].state \notin Ended
    <3>1. server[r.job].state = "none" BY <2>1, Holds DEF Submissions
    <3> QED BY <3>1 DEF Ended
  <2>2. UNCHANGED <<store, conn, track>> BY <1>3 DEF ServeSubmit
  <2> DEFINE j == r.job
             R == [server[j] EXCEPT !.state = "queued", !.known = TRUE]
             q == [r EXCEPT !.phase = "served"]
  <2>3. r \in Exchanges(Verdicts) /\ j \in Jobs /\ q.kind = "submit"
    BY <1>1, <2>1 DEF Exchanges
  <2>4. R.state = "queued" /\ R.node = server[j].node BY <1>1, <2>3 DEF Runs
  <2>5. server' = [server EXCEPT ![j] = R]
    <3>1. server[j] \in Runs BY <1>1, <2>3
    <3>2. [server EXCEPT ![j].state = "queued", ![j].known = TRUE] = [server EXCEPT ![j] = R]
      <4> HIDE DEF j
      <4> QED BY <1>1, <3>1
    <3> QED BY <2>1, <3>2
  <2>6. http' = (http \ {r}) \union {q} BY <2>1
  <2> HIDE DEF R, q, j
  <2>7. R.state \notin Ended /\ server[j].state \notin Ended BY <2>4, <2>9 DEF Ended, j
  <2>8. \A x \in http' : x.kind = "reconcile" /\ x.body # <<>> => x \in http BY <2>3, <2>6
  <2> QED BY <2>2, <2>3, <2>4, <2>5, <2>7, <2>8, UntoldQuiet
<1>4. CASE Forget \/ Restore
  <2>1. PICK j \in Jobs, b \in BOOLEAN : server' = [server EXCEPT ![j].known = b]
    BY <1>4 DEF Forget, Restore
  <2>2. UNCHANGED <<store, conn, track, http>> BY <1>4 DEF Forget, Restore
  <2> DEFINE R == [server[j] EXCEPT !.known = b]
  <2>3. R.state = server[j].state /\ R.node = server[j].node BY <1>1 DEF Runs
  <2>4. server' = [server EXCEPT ![j] = R] BY <2>1
  <2> HIDE DEF R
  <2> QED BY <2>2, <2>3, <2>4, UntoldQuiet
<1>5. CASE LogIsShed
  <2>1. PICK j \in Jobs :
          LET n == server[j].seq + 1
          IN  server' = [server EXCEPT ![j].seq = n, ![j].logs = @ \union {n},
                                       ![j].shed = @ \union {n}]
    BY <1>5 DEF LogIsShed
  <2>2. UNCHANGED <<store, conn, track, http>> BY <1>5 DEF LogIsShed
  <2> DEFINE n == server[j].seq + 1
             R == [server[j] EXCEPT !.seq = n, !.logs = @ \union {n}, !.shed = @ \union {n}]
  <2>3. R.state = server[j].state /\ R.node = server[j].node BY <1>1 DEF Runs
  <2>4. server' = [server EXCEPT ![j] = R] BY <1>1, <2>1
  <2> HIDE DEF R
  <2> QED BY <2>2, <2>3, <2>4, UntoldQuiet
<1> QED BY <1>2, <1>3, <1>4, <1>5

(* A wire with frames at its end. *)
LEMMA AppendedComes ==
  ASSUME NEW S, NEW w \in Seq(S), NEW v \in Seq(S), NEW k
  PROVE  /\ \A K : OnTheWire(w \o v, k, K) <=> OnTheWire(w, k, K) \/ OnTheWire(v, k, K)
         /\ \A n, m : /\ InOrder(w, k, n) /\ Below(n) \subseteq Below(m)
                      /\ \A i \in 1..Len(v) : v[i].job = k /\ v[i].kind = "node" =>
                           v[i].arg = m /\ m # "none"
                      /\ n = m \/ n = "none" \/ OnTheWire(v, k, {"node"})
                      => InOrder(w \o v, k, m)
<1> DEFINE x == w \o v
<1>1. /\ Len(w) \in Nat /\ Len(v) \in Nat /\ Len(x) = Len(w) + Len(v)
      /\ \A i \in 1..Len(x) : x[i] = IF i <= Len(w) THEN w[i] ELSE v[i - Len(w)]
  OBVIOUS
<1> HIDE DEF x
<1>2. /\ \A i \in 1..Len(w) : i \in 1..Len(x) /\ x[i] = w[i]
      /\ \A i \in 1..Len(v) : i + Len(w) \in 1..Len(x) /\ x[i + Len(w)] = v[i]
  BY <1>1
<1>3. \A i \in 1..Len(x) : \/ i \in 1..Len(w) /\ x[i] = w[i]
                           \/ i - Len(w) \in 1..Len(v) /\ x[i] = v[i - Len(w)]
  BY <1>1
<1>4. ASSUME NEW K PROVE OnTheWire(x, k, K) <=> OnTheWire(w, k, K) \/ OnTheWire(v, k, K)
  <2>1. OnTheWire(w, k, K) => OnTheWire(x, k, K) BY <1>2 DEF OnTheWire
  <2>2. OnTheWire(v, k, K) => OnTheWire(x, k, K) BY <1>2 DEF OnTheWire
  <2>3. OnTheWire(x, k, K) => OnTheWire(w, k, K) \/ OnTheWire(v, k, K) BY <1>3 DEF OnTheWire
  <2> QED BY <2>1, <2>2, <2>3
<1>5. ASSUME NEW n, NEW m, InOrder(w, k, n), Below(n) \subseteq Below(m),
             \A i \in 1..Len(v) : v[i].job = k /\ v[i].kind = "node" => v[i].arg = m /\ m # "none",
             n = m \/ n = "none" \/ OnTheWire(v, k, {"node"})
      PROVE  InOrder(x, k, m)
  <2> SUFFICES ASSUME NEW i \in 1..Len(x), x[i].job = k, x[i].kind = "node"
               PROVE  /\ x[i].arg \in Below(m) \ {"none"}
                      /\ x[i].arg # m =>
                           \E h \in 1..Len(x) : i < h /\ x[h].job = k /\ x[h].kind = "node" /\ x[h].arg = m
    BY DEF InOrder
  <2>1. CASE i - Len(w) \in 1..Len(v) /\ x[i] = v[i - Len(w)]
    <3>1. x[i].arg = m /\ m # "none" BY <1>5, <2>1
    <3> QED BY <3>1 DEF Below
  <2>2. CASE i \in 1..Len(w) /\ x[i] = w[i]
    <3>1. /\ x[i].arg \in Below(n) \ {"none"}
          /\ x[i].arg # n =>
               \E h \in 1..Len(w) : i < h /\ w[h].job = k /\ w[h].kind = "node" /\ w[h].arg = n
      BY <1>5, <2>2 DEF InOrder
    <3>2. n # "none" BY <3>1 DEF Below, NodeEnds
    <3>3. CASE n = m
      <4>1. ASSUME NEW h \in 1..Len(w), i < h, w[h].job = k, w[h].kind = "node", w[h].arg = n
            PROVE  \E g \in 1..Len(x) : i < g /\ x[g].job = k /\ x[g].kind = "node" /\ x[g].arg = m
        BY <1>2, <3>3, <4>1
      <4> QED BY <3>1, <3>3, <4>1
    <3>4. CASE OnTheWire(v, k, {"node"})
      <4>1. PICK h \in 1..Len(v) : v[h].job = k /\ v[h].kind = "node" BY <3>4 DEF OnTheWire
      <4>2. v[h].arg = m BY <1>5, <4>1
      <4>3. h + Len(w) \in 1..Len(x) /\ x[h + Len(w)] = v[h] /\ i < h + Len(w)
        BY <1>1, <1>2, <2>2
      <4> QED BY <1>5, <3>1, <4>1, <4>2, <4>3
    <3> QED BY <1>5, <3>2, <3>3, <3>4
  <2> QED BY <1>3, <2>1, <2>2
<1> QED BY <1>4, <1>5 DEF x

(* The server goes on, and who listens will be told. *)
LEMMA PublishQuiet ==
  ASSUME IInv, QInv, NEW j \in Jobs, NEW fs, NEW m \in Nat, DOMAIN fs = 1..m,
         NEW R \in Runs, Telling(fs, m, server[j], R), Publish(j, fs, R)
  PROVE  QInv'
<1> DEFINE n == server[j].seq
           S(i) == [job |-> j, kind |-> fs[i].kind, seq |-> n + i,
                    arg |-> IF fs[i].kind = "log" THEN n + i ELSE fs[i].arg]
           v == [i \in 1..m |-> S(i)]
           logged == {n + i : i \in {k \in DOMAIN fs : fs[k].kind = "log"}}
           Q == [R EXCEPT !.seq = n + Len(fs), !.logs = @ \union logged]
           w == conn.wire
           x == w \o v
           M == Messages(Verdicts) \cup {S(i) : i \in 1..m}
           O == server[j]
<1>1. /\ server' = [server EXCEPT ![j] = Q]
      /\ conn' = IF conn.up THEN [conn EXCEPT !.wire = x] ELSE conn
      /\ UNCHANGED <<store, track, http>>
  <2>1. conn' = IF conn.up THEN [conn EXCEPT !.wire = @ \o v] ELSE conn
    <3> HIDE DEF n
    <3> QED BY DEF Publish, n
  <2>2. server' = [server EXCEPT ![j] = Q]
    <3> HIDE DEF logged
    <3> QED BY DEF Publish, logged
  <2>3. UNCHANGED <<store, track, http>> BY DEF Publish
  <2> HIDE DEF v, Q
  <2> QED BY <2>1, <2>2, <2>3
<1>2. server \in [Jobs -> Runs] /\ conn \in Conns(Verdicts) /\ Truthful(store, Verdicts)
  BY Holds DEF Sound
<1>3. Q.node = R.node /\ Q.state = R.state
  <2> HIDE DEF logged
  <2> QED BY DEF Runs
<1>4. server'[j] = Q /\ \A k \in Jobs : k # j => server'[k] = server[k] BY <1>1, <1>2
<1>5. /\ w \in Seq(M) /\ v \in Seq(M) /\ Len(v) = m
      /\ \A i \in 1..m : /\ v[i].job = j /\ v[i].kind = fs[i].kind
                         /\ v[i].kind # "log" => v[i].arg = fs[i].arg
  <2>1. w \in Seq(Messages(Verdicts)) BY <1>2 DEF Conns
  <2>2. \A i \in 1..m : S(i) \in M OBVIOUS
  <2>3. \A i \in 1..m : /\ S(i).job = j /\ S(i).kind = fs[i].kind
                        /\ S(i).kind # "log" => S(i).arg = fs[i].arg
    OBVIOUS
  <2> DEFINE A == Messages(Verdicts)
  <2>4. A \subseteq M OBVIOUS
  <2> HIDE DEF S, A, M, w
  <2>5. w \in Seq(M) BY <2>1, <2>4 DEF A
  <2> QED BY <2>2, <2>3, <2>5
<1> HIDE DEF S, v, Q, M, w
<1>6. \A k, K : OnTheWire(x, k, K) <=> OnTheWire(w, k, K) \/ OnTheWire(v, k, K)
  BY <1>5, AppendedComes
<1>7. \A k, a, b : /\ InOrder(w, k, a) /\ Below(a) \subseteq Below(b)
                   /\ \A i \in 1..m : v[i].job = k /\ v[i].kind = "node" => v[i].arg = b /\ b # "none"
                   /\ a = b \/ a = "none" \/ OnTheWire(v, k, {"node"})
                   => InOrder(x, k, b)
  BY <1>5, AppendedComes
<1> HIDE DEF x, O
<1>8. conn'.up = conn.up /\ conn'.terminal = conn.terminal
      /\ conn'.wire = IF conn.up THEN x ELSE <<>>
  <2>1. ~conn.up => w = <<>> BY DEF QInv, Silent, w
  <2> QED BY <1>1, <1>2, <2>1 DEF Conns, w
<1>9. \A K : OnTheWire(v, j, K) <=> \E i \in 1..m : fs[i].kind \in K BY <1>5 DEF OnTheWire
<1>10. ASSUME NEW k \in Jobs, k # j PROVE Followed(k)
  <2> DEFINE T == server[k]
  <2>1. server'[k] = T BY <1>4, <1>10
  <2> HIDE DEF T
  <2>2. \A a : InOrder(conn.wire, k, a) => InOrder(conn'.wire, k, a)
    <3>1. \A a : InOrder(<<>>, k, a) BY DEF InOrder
    <3>2. \A i \in 1..m : v[i].job # k BY <1>5, <1>10
    <3>3. \A a : InOrder(w, k, a) => InOrder(x, k, a) BY <1>7, <3>2
    <3> QED BY <1>8, <3>1, <3>3 DEF w
  <2>3. Behind(store, conn, T, k) => Behind(store', conn', T, k)
    BY <1>1, <1>8, <2>2 DEF Behind
  <2>4. ASSUME conn'.up
        PROVE  /\ FailureShows(store, conn, T, k) => FailureShows(store', conn', T, k)
               /\ \A a, s : Caught(store, conn, T, k, a, s) => Caught(store', conn', T, k, a, s)
    <3>1. conn'.wire = x BY <1>8, <2>4
    <3>2. \A K : OnTheWire(conn.wire, k, K) => OnTheWire(conn'.wire, k, K) BY <1>6, <3>1 DEF w
    <3>3. NodeComes(conn, k) => NodeComes(conn', k) BY <1>8, <3>2 DEF NodeComes
    <3>4. EndComes(conn, k) => EndComes(conn', k) BY <3>2 DEF EndComes
    <3> QED BY <1>1, <1>8, <3>3, <3>4 DEF Caught, FailureShows
  <2> QED BY <2>1, <2>3, <2>4 DEF Followed, T
<1>11. Followed(j)
  <2>1. /\ O.state \notin Ended /\ Below(O.node) \subseteq Below(Q.node)
        /\ Q.state = "failed" <=> Q.node = "error"
        /\ \A i \in 1..m : fs[i].kind = "node" => fs[i].arg = Q.node /\ Q.node # "none"
        /\ \/ Q.node = O.node
           \/ OnTheWire(v, j, {"node"})
           \/ O.node = "none" /\ OnTheWire(v, j, {"failed"})
        /\ Q.state \in Ended => OnTheWire(v, j, Ends)
    BY <1>3, <1>9 DEF Telling, O
  <2>2. ASSUME Behind(store, conn, O, j) PROVE Behind(store', conn', Q, j)
    <3>1. InOrder(conn'.wire, j, Q.node)
      <4>1. InOrder(w, j, O.node) BY <2>2 DEF Behind, w
      <4>2. \A i \in 1..m : v[i].job = j /\ v[i].kind = "node" => v[i].arg = Q.node /\ Q.node # "none"
        BY <1>5, <2>1
      <4>3. InOrder(x, j, Q.node) BY <1>7, <2>1, <4>1, <4>2
      <4>4. InOrder(<<>>, j, Q.node) BY DEF InOrder
      <4> QED BY <1>8, <4>3, <4>4
    <3> QED BY <1>1, <1>8, <2>1, <2>2, <3>1 DEF Behind
  <2>4. ASSUME Behind(store, conn, O, j), j \notin store.gone PROVE j \notin conn.terminal
    <3>1. ASSUME Final(store, j) PROVE FALSE
      <4>1. <<j, store.map[j].status>> \in Verdicts BY <1>2, <3>1 DEF Final, Truthful
      <4> QED BY <2>1, <4>1 DEF Verdicts, O
    <3> QED BY <2>4, <3>1 DEF Behind
  <2>5. Behind(store, conn, O, j) => FailureShows(store', conn', Q, j)
    BY <1>1, <1>8, <2>4 DEF FailureShows
  <2>3. ASSUME Behind(store, conn, O, j), conn'.up, NEW a, NEW s, Caught(store, conn, O, j, a, s)
        PROVE  Caught(store', conn', Q, j, a, s)
    <3>1. conn'.wire = x BY <1>8, <2>3
    <3>2. \A K : OnTheWire(conn.wire, j, K) \/ OnTheWire(v, j, K) => OnTheWire(conn'.wire, j, K)
      BY <1>6, <3>1 DEF w
    <3>3. NodeComes(conn, j) => NodeComes(conn', j) BY <1>8, <3>2 DEF NodeComes
    <3>4. Q.state \in Ended => EndComes(conn', j) BY <2>1, <3>2 DEF EndComes
    <3>5. CASE j \in store.gone BY <1>1, <3>5 DEF Caught
    <3>6. CASE j \notin store.gone
      <4>1. j \notin conn.terminal BY <2>3, <2>4, <3>6
      <4>2. Q.node = O.node \/ NodeComes(conn', j) BY <1>8, <2>1, <3>2, <4>1 DEF NodeComes
      <4>3. NodeComes(conn', j) \/ Matches(a, Q.node) \/ Matches(Node(store, j), Q.node)
        BY <2>3, <3>3, <3>6, <4>2 DEF Caught
      <4> QED BY <1>1, <1>8, <3>4, <4>1, <4>3 DEF Caught
    <3> QED BY <3>5, <3>6
  <2> QED BY <1>4, <2>1, <2>2, <2>3, <2>5 DEF Followed, O
<1>12. \A k \in Jobs : Followed(k) BY <1>10, <1>11
<1>13. ~conn'.up => conn'.wire = <<>> BY <1>8
<1> QED BY <1>1, <1>8, <1>12, <1>13, FollowedQuiet

(* One frame. *)
LEMMA PublishOneQuiet ==
  ASSUME IInv, QInv, NEW j \in Jobs, NEW f, NEW R \in Runs,
         server[j].state \notin Ended, Below(server[j].node) \subseteq Below(R.node),
         R.state = "failed" <=> R.node = "error",
         f.kind = "node" => f.arg = R.node /\ R.node # "none",
         \/ R.node = server[j].node
         \/ f.kind = "node"
         \/ server[j].node = "none" /\ f.kind = "failed",
         R.state \in Ended => f.kind \in Ends,
         Publish(j, <<f>>, R)
  PROVE  QInv'
<1> DEFINE fs == <<f>>
<1>1. 1 \in Nat /\ DOMAIN fs = 1..1 /\ fs[1] = f OBVIOUS
<1>2. Publish(j, fs, R) OBVIOUS
<1> HIDE DEF fs
<1>3. 1 \in 1..1 /\ \A i \in 1..1 : fs[i] = f BY <1>1
<1>4. Telling(fs, 1, server[j], R) BY <1>3 DEF Telling
<1> QED BY <1>1, <1>2, <1>4, PublishQuiet

(* A job starts, or its node does, or it says something. *)
LEMMA RunGoesOnQuiet ==
  ASSUME IInv, QInv,
         RunStarts \/ NodeStarts \/ NodeFinishes \/ NodeRunsAgain \/ Logs \/ Previews
  PROVE  QInv'
<1>1. server \in [Jobs -> Runs] BY Holds
<1>0. \A j \in Jobs : server[j].state = "failed" <=> server[j].node = "error"
  BY DEF QInv, AllBehind, Behind
<1>2. \A k, a : Frame(k, a).kind = k /\ Frame(k, a).arg = a BY DEF Frame
<1>3. "queued" \notin Ended /\ "running" \notin Ended /\ "failed" \in Ended BY DEF Ended
<1>4. CASE RunStarts
  <2>1. PICK j \in Jobs :
          /\ server[j].state = "queued"
          /\ Publish(j, <<Frame("run_started", 0)>>, [server[j] EXCEPT !.state = "running"])
    BY <1>4 DEF RunStarts
  <2> DEFINE R == [server[j] EXCEPT !.state = "running"]
             f == Frame("run_started", 0)
  <2>2. R \in Runs /\ R.state = "running" /\ R.node = server[j].node BY <1>1 DEF Runs, States
  <2>3. f.kind = "run_started" BY <1>2
  <2>4. Publish(j, <<f>>, R) BY <2>1
  <2>5. R.state = "failed" <=> R.node = "error" BY <1>0, <2>1, <2>2
  <2> HIDE DEF R, f
  <2> QED BY <1>3, <2>1, <2>2, <2>3, <2>4, <2>5, PublishOneQuiet
<1>5. CASE NodeStarts \/ NodeRunsAgain
  <2>1. PICK j \in Jobs :
          /\ server[j].state = "running" /\ server[j].node \in {"none", "done"}
          /\ Publish(j, <<Frame("node", "running")>>, [server[j] EXCEPT !.node = "running"])
    BY <1>5 DEF NodeStarts, NodeRunsAgain, Live
  <2> DEFINE R == [server[j] EXCEPT !.node = "running"]
             f == Frame("node", "running")
  <2>2. R \in Runs /\ R.state = "running" /\ R.node = "running" BY <1>1, <2>1 DEF Runs, Nodes
  <2>3. f.kind = "node" /\ f.arg = "running" BY <1>2
  <2>4. Publish(j, <<f>>, R) BY <2>1
  <2>5. Below(server[j].node) \subseteq Below("running") BY <2>1 DEF Below, NodeEnds
  <2> HIDE DEF R, f
  <2> QED BY <1>3, <2>1, <2>2, <2>3, <2>4, <2>5, PublishOneQuiet
<1>6. CASE NodeFinishes
  <2>1. PICK j \in Jobs :
          /\ server[j].state = "running" /\ server[j].node = "running"
          /\ Publish(j, <<Frame("node", "done")>>, [server[j] EXCEPT !.node = "done"])
    BY <1>6 DEF NodeFinishes, Live
  <2> DEFINE R == [server[j] EXCEPT !.node = "done"]
             f == Frame("node", "done")
  <2>2. R \in Runs /\ R.state = "running" /\ R.node = "done"
    BY <1>1, <2>1 DEF Runs, Nodes, NodeEnds
  <2>3. f.kind = "node" /\ f.arg = "done" BY <1>2
  <2>4. Publish(j, <<f>>, R) BY <2>1
  <2>5. Below("running") \subseteq Below("done") BY DEF Below, NodeEnds
  <2> HIDE DEF R, f
  <2> QED BY <1>3, <2>1, <2>2, <2>3, <2>4, <2>5, PublishOneQuiet
<1>7. CASE Logs \/ Previews
  <2>1. PICK j \in Jobs, k \in {"log", "preview"}, a \in Slots \cup {Still, 0} :
          /\ server[j].state = "running" /\ Publish(j, <<Frame(k, a)>>, server[j])
    BY <1>7 DEF Logs, Previews, Live
  <2> DEFINE R == server[j]
             f == Frame(k, a)
  <2>2. R \in Runs /\ R.state = "running" BY <1>1, <2>1
  <2>3. f.kind # "node" BY <1>2
  <2>4. Publish(j, <<f>>, R) BY <2>1
  <2>5. R.state = "failed" <=> R.node = "error" BY <1>0
  <2> HIDE DEF f
  <2> QED BY <1>3, <2>2, <2>3, <2>4, <2>5, PublishOneQuiet
<1> QED BY <1>4, <1>5, <1>6, <1>7

(* A job ends. *)
LEMMA RunEndsQuiet ==
  ASSUME IInv, QInv, RunSucceeds \/ RunFails \/ RunIsCancelled
  PROVE  QInv'
<1>1. server \in [Jobs -> Runs] BY Holds
<1>0. \A j \in Jobs : server[j].state = "failed" <=> server[j].node = "error"
  BY DEF QInv, AllBehind, Behind
<1>2. \A k, a : Frame(k, a).kind = k /\ Frame(k, a).arg = a BY DEF Frame
<1>3. /\ "queued" \notin Ended /\ "running" \notin Ended
      /\ {"run_finished", "completed", "failed", "cancelled"} \subseteq Ends
      /\ {"completed", "failed", "cancelled"} \subseteq States /\ "error" \in Nodes
  BY DEF Ends, Ended, States, Nodes, NodeEnds
<1>4. CASE RunSucceeds
  <2>1. PICK j \in Jobs :
          /\ server[j].state = "running"
          /\ Publish(j, <<Frame("run_finished", 0), Frame("completed", 0)>>,
                     [server[j] EXCEPT !.state = "completed"])
    BY <1>4 DEF RunSucceeds, Live
  <2> DEFINE R == [server[j] EXCEPT !.state = "completed"]
             f == Frame("run_finished", 0)
             g == Frame("completed", 0)
             fs == <<f, g>>
  <2>2. /\ R \in Runs /\ R.state = "completed" /\ R.node = server[j].node
        /\ R.node # "error"
    BY <1>0, <1>1, <1>3, <2>1 DEF Runs
  <2>3. f.kind = "run_finished" /\ g.kind = "completed" BY <1>2
  <2>4. Publish(j, fs, R) BY <2>1
  <2>5. 2 \in Nat /\ DOMAIN fs = 1..2 /\ fs[1] = f /\ fs[2] = g OBVIOUS
  <2> HIDE DEF R, f, g, fs
  <2>6. 1 \in 1..2 /\ \A i \in 1..2 : fs[i] = f \/ fs[i] = g BY <2>5
  <2>7. Telling(fs, 2, server[j], R) BY <1>3, <2>1, <2>2, <2>3, <2>5, <2>6 DEF Telling
  <2> QED BY <2>2, <2>4, <2>5, <2>7, PublishQuiet
<1>5. CASE RunFails
  <2>1. PICK j \in Jobs :
          /\ server[j].state = "running" /\ server[j].node \in {"none", "running"}
          /\ Publish(j, (IF server[j].node = "none" THEN <<>> ELSE <<Frame("node", "error")>>)
                          \o <<Frame("failed", 0)>>,
                     [server[j] EXCEPT !.state = "failed", !.node = "error"])
    BY <1>5 DEF RunFails, Live
  <2> DEFINE R == [server[j] EXCEPT !.state = "failed", !.node = "error"]
             f == Frame("node", "error")
             g == Frame("failed", 0)
  <2>2. R \in Runs /\ R.state = "failed" /\ R.node = "error" BY <1>1, <1>3 DEF Runs
  <2>3. Publish(j, (IF server[j].node = "none" THEN <<>> ELSE <<f>>) \o <<g>>, R) BY <2>1
  <2>4. f.kind = "node" /\ f.arg = "error" /\ g.kind = "failed" BY <1>2
  <2>5. Below(server[j].node) \subseteq Below("error") BY <2>1 DEF Below, NodeEnds
  <2> HIDE DEF R, f, g
  <2>6. CASE server[j].node = "none"
    <3>1. <<>> \o <<g>> = <<g>> OBVIOUS
    <3>2. Publish(j, <<g>>, R) BY <2>3, <2>6, <3>1
    <3> QED BY <1>3, <2>1, <2>2, <2>4, <2>5, <2>6, <3>2, PublishOneQuiet
  <2>7. CASE server[j].node # "none"
    <3> DEFINE fs == <<f>> \o <<g>>
    <3>1. 2 \in Nat /\ DOMAIN fs = 1..2 /\ fs[1] = f /\ fs[2] = g OBVIOUS
    <3>2. Publish(j, fs, R) BY <2>3, <2>7
    <3> HIDE DEF fs
    <3>3. 1 \in 1..2 /\ 2 \in 1..2 /\ \A i \in 1..2 : fs[i] = f \/ fs[i] = g BY <3>1
    <3>4. Telling(fs, 2, server[j], R)
      BY <1>3, <2>1, <2>2, <2>4, <2>5, <3>1, <3>3 DEF Telling
    <3> QED BY <2>2, <3>1, <3>2, <3>4, PublishQuiet
  <2> QED BY <2>6, <2>7
<1>6. CASE RunIsCancelled
  <2>1. PICK j \in Jobs :
          /\ server[j].state \in {"queued", "running"}
          /\ Publish(j, <<Frame("cancelled", 0)>>, [server[j] EXCEPT !.state = "cancelled"])
    BY <1>6 DEF RunIsCancelled
  <2> DEFINE R == [server[j] EXCEPT !.state = "cancelled"]
             f == Frame("cancelled", 0)
  <2>2. /\ R \in Runs /\ R.state = "cancelled" /\ R.node = server[j].node
        /\ R.node # "error"
    BY <1>0, <1>1, <1>3, <2>1 DEF Runs
  <2>3. f.kind = "cancelled" BY <1>2
  <2>4. Publish(j, <<f>>, R) BY <2>1
  <2> HIDE DEF R, f
  <2> QED BY <1>3, <2>1, <2>2, <2>3, <2>4, PublishOneQuiet
<1> QED BY <1>4, <1>5, <1>6

(* At the start nothing is promised, and no run has begun. *)
LEMMA InitQuiet == Init => QInv
<1> SUFFICES ASSUME Init PROVE QInv OBVIOUS
<1>1. /\ conn.wire = <<>> /\ conn.terminal = {} /\ http = {} /\ track.covered = {}
      /\ track.todo = <<>> /\ store.evicted = <<>> /\ Known(store) = {}
  <2>1. DOMAIN <<>> = {} OBVIOUS
  <2> QED BY <2>1 DEF Init, EmptyStore, Known
<1>2. \A j \in Jobs : server[j].node = "none" /\ server[j].state # "failed"
  BY DEF Init
<1>3. ASSUME NEW j \in Jobs PROVE Behind(store, conn, server[j], j)
  <2>1. InOrder(conn.wire, j, server[j].node) BY <1>1 DEF InOrder
  <2>2. j \notin ToSet(store.evicted) BY <1>1 DEF ToSet
  <2>3. Node(store, j) \in Below(server[j].node) BY <1>1 DEF Node, Below
  <2> QED BY <1>1, <1>2, <2>1, <2>2, <2>3 DEF Behind
<1>4. ToSet(track.todo) = {} BY <1>1 DEF ToSet
<1> QED BY <1>1, <1>3, <1>4
  DEF QInv, Silent, AllBehind, CoveredCaught, AwaitedShow, RecordsCaught

(* Every step keeps what is promised. *)
LEMMA NextQuiet ==
  ASSUME IInv, QInv, [Next]_vars
  PROVE  QInv'
<1>1. CASE ClientStep
  BY <1>1, DeliverQuiet, ReconnectedQuiet, SubmitAnsweredQuiet, ReconcileAnsweredQuiet,
     SightAnsweredQuiet, PageAnsweredQuiet, HydrateAnsweredQuiet
  DEF ClientStep
<1>2. CASE UserStep BY <1>2, AdmissionQuiet, ViewQuiet DEF UserStep
<1>3. CASE ServerStep
  BY <1>3, RunGoesOnQuiet, RunEndsQuiet, AdmissionQuiet, ServeReadQuiet DEF ServerStep, RunStep
<1>4. CASE FaultStep BY <1>4, FaultQuiet
<1>5. CASE UNCHANGED vars
  <2>1. UNCHANGED <<store, conn, track, http, server>> BY <1>5 DEF vars
  <2>2. Spares(store, store) BY ShowsTheSame
  <2> QED BY <2>1, <2>2, SparesQuiet
<1> QED BY <1>1, <1>2, <1>3, <1>4, <1>5 DEF Next

(* Once all is quiet after a gap, a run that was open at the start of the
   last pass and whose record the pass could read is shown with the end
   and the node state it has at the server, whatever overtook what; only
   a rerun may be shown as done, until the next live event of the node
   (dinkster-reconcile.ts, execution-store.ts, DinksterNormalizer). *)
THEOREM QuietCorrect == Spec => []QuietMeansShown
<1>1. IInv /\ QInv => QuietMeansShown
  <2> SUFFICES ASSUME IInv, QInv, Quiet,
                      NEW j \in (track.covered \intersect Known(store)) \ store.gone
               PROVE  /\ server[j].state \in Ended => store.map[j].status = Shown[server[j].state]
                      /\ \/ store.map[j].node = server[j].node
                         \/ store.map[j].node = "done" /\ server[j].node = "running"
    BY DEF QuietMeansShown
  <2> DEFINE R == server[j]
  <2>1. Passing(Client) /\ Client.track = track /\ track \in Tracks /\ Truthful(store, Verdicts)
    BY Holds DEF Sound
  <2>2. j \in Jobs /\ Up /\ ~Awaited(track, j)
    <3>1. track.ran = track.gen BY <2>1 DEF Passing, Quiet
    <3> QED BY <2>1, <3>1 DEF Quiet, Up, Awaited, Tracks
  <2>3. Behind(store, conn, R, j) /\ Caught(store, conn, R, j, "none", "none")
    BY <2>2 DEF QInv, AllBehind, CoveredCaught
  <2>4. \A K : ~OnTheWire(conn.wire, j, K) BY DEF Quiet, OnTheWire
  <2>5. ~NodeComes(conn, j) /\ ~EndComes(conn, j) BY <2>4 DEF NodeComes, EndComes
  <2>6. Node(store, j) = store.map[j].node BY DEF Node
  <2> HIDE DEF R
  <2>7. Node(store, j) \in Below(R.node) BY <2>3 DEF Behind
  <2>8. Matches("none", R.node) \/ Matches(Node(store, j), R.node) BY <2>3, <2>5 DEF Caught
  <2>9. Matches(Node(store, j), R.node) BY <2>7, <2>8 DEF Below, Matches
  <2>10. R.state \in Ended => store.map[j].status = Shown[R.state]
    <3> SUFFICES ASSUME R.state \in Ended PROVE store.map[j].status = Shown[R.state] OBVIOUS
    <3>1. "none" \notin Ended BY DEF Ended
    <3>2. Final(store, j) BY <2>3, <2>5, <3>1 DEF Caught
    <3>3. <<j, store.map[j].status>> \in Verdicts BY <2>1, <3>2 DEF Final, Truthful
    <3>4. EndsAre(Verdicts, j, R) BY <2>2, EndsOf DEF R
    <3> QED BY <3>3, <3>4 DEF EndsAre
  <2> QED BY <2>6, <2>9, <2>10 DEF R, Matches
<1>2. IInv /\ QInv /\ [Next]_vars => QInv' BY NextQuiet
<1> QED BY <1>1, <1>2, InitQuiet, Invariance, PTL DEF Spec

-----------------------------------------------------------------------------
(* The log records of a run.                                               *)

(* What is shown of a run has its records. *)
LEMMA GotStays ==
  ASSUME NEW t, NEW u
  PROVE  /\ \A j, n, m : Turns(u, t, j, n) /\ Got(t, j, m) => Got(u, j, m)
         /\ Spares(u, t) => \A j, m : Got(t, j, m) => Got(u, j, m)
         /\ \A j, n : Shows(u, t, j, n) => \A k, m : Got(t, k, m) => Got(u, k, m)
<1>1. \A j, n, m : Turns(u, t, j, n) /\ Got(t, j, m) => Got(u, j, m) BY DEF Turns, Got
<1> QED BY <1>1 DEF Spares, Shows, Leaves

(* Such turns one after the other, or none, or a calm one. *)
LEMMA RetainsTwice ==
  ASSUME NEW c, NEW d, NEW b
  PROVE  /\ Retains(d, c) /\ Retains(b, d) => Retains(b, c)
         /\ Retains(c, c)
         /\ Calm(d, c) /\ Beside(d, c) => Retains(d, c)
<1>1. Beside(d, c) /\ Beside(b, d) => Beside(b, c) BY DEF Beside
<1>2. Retains(d, c) /\ Retains(b, d) => Retains(b, c) BY <1>1 DEF Retains
<1>3. Retains(c, c) BY DEF Retains, Beside
<1>4. Calm(d, c) /\ Beside(d, c) => Retains(d, c) BY GotStays DEF Retains, Calm
<1> QED BY <1>2, <1>3, <1>4

(* A turn that leaves backfills alone loses no record. *)
LEMMA RetainsAdvances ==
  ASSUME NEW c, NEW d, NEW S, Retains(d, c)
  PROVE  Advances(d, c, S)
<1>1. \A R, j, m : Read(c, R, j, m) => Read(d, R, j, m) BY DEF Read, Retains
<1>2. ASSUME NEW R, NEW j, Tracked(c, R, j) PROVE Tracked(d, R, j)
  <2> SUFFICES ASSUME NEW n \in R.logs \ R.shed
               PROVE  \/ Got(d.store, j, n) \/ LogComes(d.conn.wire, j, n)
                      \/ \E r \in d.http : Reaches(r, j, n)
    BY DEF Tracked
  <2>1. CASE Got(c.store, j, n) \/ LogComes(c.conn.wire, j, n) BY <2>1 DEF Retains
  <2>2. CASE \E r \in c.http : Reaches(r, j, n)
    <3>1. PICK r \in c.http : Reaches(r, j, n) BY <2>2
    <3>2. r \in d.http BY <3>1 DEF Reaches, Retains, Beside
    <3> QED BY <3>1, <3>2
  <2> QED BY <1>2, <2>1, <2>2 DEF Tracked
<1>3. \A R, j : Sure(c, R, j) => Sure(d, R, j) BY <1>2 DEF Sure, Retains, Beside
<1>4. ASSUME Heeds(c, S) PROVE Heeds(d, S)
  <2>1. \A j \in Jobs : Read(d, S[j], j, d.conn.cursor[j])
    BY <1>1, <1>4 DEF Heeds, Retains, Beside
  <2>2. ASSUME NEW r \in d.http, r.kind = "page" PROVE RightPage(d, r, S[r.job])
    <3>1. r \in c.http BY <2>2 DEF Retains, Beside
    <3>2. RightPage(c, r, S[r.job]) BY <1>4, <2>2, <3>1 DEF Heeds
    <3> QED BY <1>1, <3>2 DEF RightPage
  <2>3. \A j \in d.conn.passes : Sure(d, S[j], j) BY <1>3, <1>4 DEF Heeds, Retains, Beside
  <2> QED BY <2>1, <2>2, <2>3 DEF Heeds
<1> QED BY <1>3, <1>4 DEF Advances

(* Such turns one after the other. *)
LEMMA AdvancesTwice ==
  ASSUME NEW c, NEW d, NEW b, NEW S, Advances(d, c, S), Advances(b, d, S)
  PROVE  Advances(b, c, S)
BY DEF Advances

(* A frame goes through the normalizer to the store. *)
LEMMA EmitRawRetains ==
  ASSUME NEW V, NEW c \in Clients(V), NEW f \in Messages(V), Tidy(c.store, f.job)
  PROVE  Retains(EmitRaw(c, f), c)
<1> DEFINE d == EmitRaw(c, f)
<1>1. /\ d.http = c.http /\ d.conn.passes = c.conn.passes /\ d.conn.holes = c.conn.holes
      /\ d.conn.cursor = c.conn.cursor /\ Minds(d, c, f)
  BY EmitRawTurn
<1> HIDE DEF d
<1>2. Beside(d, c) BY <1>1 DEF Beside
<1>3. \A j, n : Got(c.store, j, n) => Got(d.store, j, n)
  <2>1. Shows(d.store, c.store, f.job, Said(c, f)) BY <1>1 DEF Minds
  <2> QED BY <2>1, GotStays
<1>4. Retains(d, c) BY <1>1, <1>2, <1>3 DEF Retains, Minds
<1> QED BY <1>4 DEF d

(* A record's nodes, then its end. *)
LEMMA ReplayRetains ==
  ASSUME NEW V, NEW c \in Clients(V), NEW j \in Jobs, NEW record \in Records,
         record.state \in Ended => <<j, Shown[record.state]>> \in V, Tidy(c.store, j)
  PROVE  Retains(ReplayJob(c, j, record), c)
<1> DEFINE e == NodeStates(j, record.node, TRUE)
           events == <<e>>
           b == Emit(c, events)
           s == Snapshot(c, j, record)
           f == [job |-> j, kind |-> record.state, seq |-> 0, arg |-> 0]
           d == EmitRaw(s, f)
<1>1. s \in Clients(V) /\ Retains(s, c) /\ Tidy(s.store, j)
  <2>1. e.job = j /\ e.kind = "nodeStates" /\ Tells(e, V) BY DEF NodeStates, Tells, Records
  <2>2. Len(events) = 1 /\ events[1] = e /\ 1 \in 1..1 /\ 1 - 1 = 0 OBVIOUS
  <2>3. s = IF record.node = "none" THEN c ELSE b BY DEF Snapshot
  <2> HIDE DEF e, events, s
  <2>4. Len(events) \in Nat /\ \A i \in 1..Len(events) : Tells(events[i], V)
    <3>1. \A i \in 1..Len(events) : i = 1 BY <2>2
    <3> QED BY <2>1, <2>2, <3>1
  <2>5. /\ Aside(b, c, V) /\ b.conn = c.conn /\ b.http = c.http
        /\ \E g : /\ g[0] = c.store /\ g[Len(events)] = b.store
                  /\ \A i \in 1..Len(events) :
                       Sound(g[i - 1], V) /\ g[i] = Apply(g[i - 1], events[i], c.now)
    BY <2>4, EmitTurn, SMTT(60)
  <2> HIDE DEF b
  <2>6. b.store = Apply(c.store, e, c.now) BY <2>2, <2>5
  <2>7. Sound(c.store, V) /\ c.now \in Nat BY Parts
  <2>8. Shows(b.store, c.store, j, Heard(c.store, e)) BY <2>1, <2>6, <2>7, OneHeard
  <2>9. Tidy(b.store, j) BY <2>8 DEF Shows, Turns, Tidy
  <2>10. Retains(b, c)
    <3>1. \A k, n : Got(c.store, k, n) => Got(b.store, k, n) BY <2>8, GotStays
    <3>2. Beside(b, c) BY <2>5 DEF Beside
    <3> QED BY <2>5, <3>1, <3>2 DEF Retains
  <2>11. b \in Clients(V) BY <2>5 DEF Aside
  <2>12. Retains(c, c) BY RetainsTwice
  <2> QED BY <2>3, <2>9, <2>10, <2>11, <2>12
<1>2. ReplayJob(c, j, record) = IF record.state \notin Ends THEN s ELSE d
  BY DEF ReplayJob, ReplayEnd
<1> HIDE DEF s
<1>3. CASE record.state \notin Ends BY <1>1, <1>2, <1>3
<1>4. CASE record.state \in Ends
  <2>1. f \in Messages(V) /\ f.job = j
    <3>1. record.state \in States BY DEF Records
    <3>2. record.state \in Ended /\ EndOf[record.state] = Shown[record.state]
      BY <1>4, <3>1 DEF States, Ends, Ended, EndOf, Shown
    <3>3. <<f.job, EndOf[f.kind]>> \in V BY <3>2
    <3> QED BY <1>4, <3>3 DEF Messages, Ends
  <2> HIDE DEF f
  <2>2. Retains(d, s) BY <1>1, <2>1, EmitRawRetains
  <2> HIDE DEF d
  <2>3. Retains(d, c) BY <1>1, <2>2, RetainsTwice
  <2> QED BY <1>2, <1>4, <2>3
<1> QED BY <1>3, <1>4

(* A backfill starts, unless there is one: it will bring what is missing. *)
LEMMA BackfillAdvances ==
  ASSUME NEW V, NEW c \in Clients(V), NEW S \in [Jobs -> Runs], NEW j \in Jobs, Heeds(c, S)
  PROVE  LET d == Backfill(c, j)
         IN  Advances(d, c, S) /\ Heeds(d, S) /\ Sure(d, S[j], j)
<1> DEFINE d == Backfill(c, j)
           arg == [after |-> c.conn.cursor[j], pages |-> 1]
           r == [kind |-> "page", job |-> j, arg |-> arg, phase |-> "sent", body |-> <<>>]
<1>1. /\ Calm(d, c) /\ d.store = c.store /\ d.conn.cursor = c.conn.cursor
      /\ j \in c.conn.passes => d = c
      /\ j \notin c.conn.passes =>
           /\ d.conn.passes = c.conn.passes \union {j} /\ d.conn.holes = c.conn.holes \ {j}
           /\ d.http = c.http \union {r}
  BY BackfillTurn
<1> HIDE DEF d
<1>2. CASE j \in c.conn.passes BY <1>1, <1>2 DEF Heeds, Advances, d
<1>3. CASE j \notin c.conn.passes
  <2>1. /\ r.kind = "page" /\ r.job = j /\ r.arg.after = c.conn.cursor[j] /\ r.arg.pages = 1
        /\ r.body = <<>> /\ r.phase = "sent"
    OBVIOUS
  <2> HIDE DEF r
  <2>2. d.http = c.http \union {r} /\ d.conn.up = c.conn.up /\ d.conn.wire = c.conn.wire
    BY <1>1, <1>3 DEF Calm
  <2>3. \A R, k, m : Read(c, R, k, m) <=> Read(d, R, k, m) BY <1>1 DEF Read
  <2>4. \A R, k : Tracked(c, R, k) => Tracked(d, R, k) BY <1>1, <2>2 DEF Tracked
  <2>5. Read(c, S[j], j, c.conn.cursor[j]) BY DEF Heeds
  <2>6. Tracked(d, S[j], j)
    <3> SUFFICES ASSUME NEW n \in S[j].logs \ S[j].shed
                 PROVE  Got(d.store, j, n) \/ \E q \in d.http : Reaches(q, j, n)
      BY DEF Tracked
    <3>1. n \in Nat BY DEF Runs
    <3>2. c.conn.cursor[j] \in Nat
      <4>1. c.conn \in Conns(V) BY Parts
      <4> QED BY <4>1 DEF Conns
    <3>3. CASE n <= c.conn.cursor[j] BY <1>1, <2>5, <3>3 DEF Read
    <3>4. CASE c.conn.cursor[j] < n
      <4>1. Reaches(r, j, n) BY <2>1, <3>4 DEF Reaches
      <4> QED BY <2>2, <4>1
    <3> QED BY <3>1, <3>2, <3>3, <3>4
  <2>7. \A k \in Jobs : Sure(c, S[k], k) => Sure(d, S[k], k)
    BY <1>1, <1>3, <2>2, <2>4, <2>6 DEF Sure
  <2>8. Sure(d, S[j], j) BY <2>6 DEF Sure
  <2>9. \A k \in d.conn.passes : Sure(d, S[k], k)
    <3>1. c.conn.passes \subseteq Jobs
      <4>1. c.conn \in Conns(V) BY Parts
      <4> QED BY <4>1 DEF Conns
    <3> QED BY <1>1, <1>3, <2>7, <2>8, <3>1 DEF Heeds
  <2>10. RightPage(d, r, S[j])
    <3>1. 1 \in 1..MaxPages /\ PageLimit * (1 - 1) = 0 /\ 0 <= c.conn.cursor[j]
      <4>1. c.conn \in Conns(V) BY Parts
      <4>2. c.conn.cursor[j] \in Nat BY <4>1 DEF Conns
      <4> QED BY <4>2, ExecutionAssumption
    <3> QED BY <2>1, <2>3, <2>5, <3>1 DEF RightPage
  <2>11. \A q \in d.http : q.kind = "page" => RightPage(d, q, S[q.job])
    BY <2>1, <2>2, <2>3, <2>10 DEF Heeds, RightPage
  <2>12. \A k \in Jobs : Read(d, S[k], k, d.conn.cursor[k]) BY <1>1, <2>3 DEF Heeds
  <2>13. Heeds(d, S) BY <2>9, <2>11, <2>12 DEF Heeds
  <2> QED BY <2>7, <2>8, <2>13 DEF Advances, d
<1> QED BY <1>2, <1>3

(* A page has been replayed: the run is read up to there, and what else
   was on its way still is, but for what this backfill has yet to ask for. *)
LEMMA ReplayedReads ==
  ASSUME NEW V, NEW a, NEW S \in [Jobs -> Runs], Heeds(a, S), NEW r \in a.http,
         r.kind = "page", r.body # <<>>, r.body[1] \in Pages, r.arg \in Spans, NEW j \in Jobs,
         r.job = j, S[j].logs \subseteq 1..S[j].seq, Tidy(a.store, j),
         NEW c \in Clients(V), c.store = a.store, c.conn = a.conn, c.http = a.http \ {r}
  PROVE  LET b == Replayed(c, j, r.arg, r.body[1])
         IN  /\ b \in Clients(V) /\ Calm(b, c) /\ Turned(r, S[j])
             /\ b.http = a.http \ {r} /\ b.conn.passes = a.conn.passes
             /\ b.conn.holes = a.conn.holes
             /\ \A R, k, m : Read(a, R, k, m) => Read(b, R, k, m)
             /\ \A k \in Jobs : Read(b, S[k], k, b.conn.cursor[k])
             /\ Read(b, S[j], j, r.body[1].upto)
             /\ \A k \in Jobs : Tracked(a, S[k], k) =>
                  \A n \in S[k].logs \ S[k].shed :
                    \/ Got(b.store, k, n) \/ LogComes(b.conn.wire, k, n)
                    \/ \E q \in b.http : Reaches(q, k, n)
                    \/ k = j /\ r.body[1].upto < n /\ n <= r.body[1].latest
<1> DEFINE page == r.body[1]
           arg == r.arg
           b == Replayed(c, j, arg, page)
           x == IF page.upto > arg.after THEN page.upto ELSE c.conn.cursor[j]
           R == S[j]
<1>1. page \in Pages /\ page.upto \in Nat /\ page.latest \in Nat /\ arg.after \in Nat /\ arg \in Spans
  BY DEF Pages, Spans
<1>2. RightPage(a, r, R) BY DEF Heeds
<1>3. /\ Read(a, R, j, arg.after) /\ Turned(r, R)
      /\ arg.after <= page.upto /\ page.upto <= page.latest /\ page.latest <= R.seq
      /\ \A n \in R.logs : arg.after < n /\ n <= page.upto => n \in page.logs
  BY <1>2 DEF RightPage, Turned
<1>4. R.logs \subseteq Nat /\ \A n \in R.logs : 1 <= n
  <2>1. R \in Runs OBVIOUS
  <2>2. R.seq \in Nat BY <2>1 DEF Runs
  <2>3. R.logs \subseteq 1..R.seq OBVIOUS
  <2> HIDE DEF R
  <2> QED BY <2>2, <2>3
<1> HIDE DEF page, arg, R
<1>5. /\ Aside(b, c, V) /\ Calm(b, c) /\ b.http = c.http
      /\ b.conn.passes = c.conn.passes /\ b.conn.holes = c.conn.holes
      /\ b.conn.cursor = [c.conn.cursor EXCEPT ![j] = IF page.upto > arg.after THEN page.upto ELSE @]
      /\ \A n \in page.logs : 1 <= n /\ n <= page.upto => Got(b.store, j, n)
  BY <1>1, ReplayedTurn
<1> HIDE DEF b
<1>6. c.conn.cursor \in [Jobs -> Nat]
  <2>1. c.conn \in Conns(V) BY Parts
  <2> QED BY <2>1 DEF Conns
<1>7. /\ b.conn.cursor[j] = x
      /\ \A k \in Jobs : k # j => b.conn.cursor[k] = c.conn.cursor[k]
  BY <1>5, <1>6
<1>8. \A k, n : Got(a.store, k, n) => Got(b.store, k, n) BY <1>5, GotStays DEF Calm
<1>9. \A Q, k, m : Read(a, Q, k, m) => Read(b, Q, k, m) BY <1>8 DEF Read
<1>10. Read(b, R, j, page.upto)
  <2>1. page.upto <= R.seq
    <3>1. R.seq \in Nat BY DEF R, Runs
    <3> QED BY <1>1, <1>3, <3>1
  <2>2. ASSUME NEW n \in R.logs, n <= page.upto PROVE Got(b.store, j, n)
    <3>1. CASE n <= arg.after BY <1>3, <1>8, <3>1 DEF Read
    <3>2. CASE arg.after < n
      <4>1. n \in page.logs /\ 1 <= n BY <1>3, <1>4, <2>2, <3>2
      <4> QED BY <1>5, <2>2, <4>1
    <3>3. n \in Nat BY <1>4
    <3> QED BY <1>1, <3>1, <3>2, <3>3
  <2> QED BY <2>1, <2>2 DEF Read
<1>11. ASSUME NEW k \in Jobs PROVE Read(b, S[k], k, b.conn.cursor[k])
  <2>1. Read(b, S[k], k, c.conn.cursor[k]) BY <1>9 DEF Heeds
  <2>2. CASE k # j BY <1>7, <2>1, <2>2
  <2>3. CASE k = j
    <3>1. CASE page.upto > arg.after BY <1>7, <1>10, <2>3, <3>1 DEF R
    <3>2. CASE ~(page.upto > arg.after) BY <1>7, <2>1, <2>3, <3>2
    <3> QED BY <3>1, <3>2
  <2> QED BY <2>2, <2>3
<1>12. ASSUME NEW k \in Jobs, Tracked(a, S[k], k), NEW n \in S[k].logs \ S[k].shed
       PROVE  \/ Got(b.store, k, n) \/ LogComes(b.conn.wire, k, n)
              \/ \E q \in b.http : Reaches(q, k, n)
              \/ k = j /\ page.upto < n /\ n <= page.latest
  <2>1. CASE Got(a.store, k, n) \/ LogComes(a.conn.wire, k, n)
    BY <1>5, <1>8, <2>1 DEF Calm
  <2>2. CASE \E q \in a.http \ {r} : Reaches(q, k, n) BY <1>5, <2>2
  <2>3. CASE Reaches(r, k, n)
    <3>1. k = j /\ arg.after < n /\ n <= page.latest BY <2>3 DEF Reaches, page, arg
    <3>2. n \in R.logs /\ n \in Nat BY <1>4, <3>1 DEF R
    <3>3. n <= page.upto => Got(b.store, j, n) BY <1>10, <3>2 DEF Read
    <3> QED BY <1>1, <3>1, <3>2, <3>3
  <2> QED BY <1>12, <2>1, <2>2, <2>3 DEF Tracked
<1>13. b \in Clients(V) BY <1>5 DEF Aside
<1> QED BY <1>3, <1>5, <1>9, <1>10, <1>11, <1>12, <1>13 DEF b, page, arg, R

(* A page arrives, or the backfill breaks off. *)
LEMMA BrokenOffAdvances ==
  ASSUME NEW V, NEW a, NEW S, NEW r \in a.http, r.body = <<>>, NEW j \in Jobs, r.job = j,
         NEW c \in Clients(V), c.store = a.store, c.conn = a.conn, c.http = a.http \ {r}
  PROVE  Advances(BreakOff(c, j), a, S)
<1> DEFINE d == BreakOff(c, j)
<1>1. /\ Calm(d, c) /\ d.store = c.store /\ d.http = c.http /\ d.conn.cursor = c.conn.cursor
      /\ d.conn.passes = c.conn.passes \ {j} /\ d.conn.holes = c.conn.holes \union {j}
  <2> DEFINE b == BreakOff(c, j)
  <2>1. b \in {EndPass(c, j), b} OBVIOUS
  <2> QED BY <2>1, EndPassTurn
<1> HIDE DEF d
<1>2. \A R, k, m : Read(a, R, k, m) <=> Read(d, R, k, m) BY <1>1 DEF Read
<1>3. ASSUME NEW R, NEW k, k # j, Tracked(a, R, k) PROVE Tracked(d, R, k)
  <2>1. \A n : ~Reaches(r, k, n) BY <1>3 DEF Reaches
  <2>2. \A n : (\E q \in a.http : Reaches(q, k, n)) => \E q \in d.http : Reaches(q, k, n)
    BY <1>1, <2>1
  <2> QED BY <1>1, <1>3, <2>2 DEF Tracked, Calm
<1>4. \A R, k : Sure(a, R, k) => Sure(d, R, k) BY <1>1, <1>3 DEF Sure, Calm
<1>5. Heeds(a, S) => Heeds(d, S) BY <1>1, <1>2, <1>4 DEF Heeds, RightPage
<1> QED BY <1>4, <1>5 DEF Advances, d

(* The last page brings the last record; or more pages are not read. *)
LEMMA LastPage ==
  ASSUME NEW r, r.arg \in Spans, r.body[1] \in Pages, NEW R \in Runs, Turned(r, R),
         r.arg.pages \in 1..MaxPages, PageLimit * (r.arg.pages - 1) <= r.arg.after
  PROVE  LET page == r.body[1]
         IN  IF page.upto <= r.arg.after \/ page.upto >= page.latest \/ r.arg.pages = MaxPages
             THEN R.seq <= PageLimit * MaxPages => page.upto >= page.latest
             ELSE /\ r.arg.pages + 1 \in 1..MaxPages
                  /\ PageLimit * ((r.arg.pages + 1) - 1) <= page.upto
<1> DEFINE u == r.body[1].upto
           l == r.body[1].latest
           a == r.arg.after
           p == r.arg.pages
           s == R.seq
           L == PageLimit
           M == MaxPages
<1>1. u \in Nat /\ l \in Nat /\ a \in Nat /\ p \in Nat /\ s \in Nat /\ L \in Nat \ {0} /\ M \in Nat \ {0}
  BY ExecutionAssumption DEF Pages, Spans, Runs
<1>2. a <= u /\ u <= l /\ l <= s /\ (u = a + L \/ u = l) /\ p \in 1..M /\ L * (p - 1) <= a
  BY DEF Turned
<1> HIDE DEF u, l, a, p, s, L, M
<1>3. L * (p - 1) + L = L * p /\ L * p \in Nat BY <1>1
<1>4. ASSUME u <= a \/ u >= l \/ p = M, s <= L * M PROVE u >= l BY <1>1, <1>2, <1>3, <1>4
<1>5. ASSUME ~(u <= a \/ u >= l \/ p = M) PROVE p + 1 \in 1..M /\ L * ((p + 1) - 1) <= u
  <2>1. u = a + L BY <1>1, <1>2, <1>5
  <2>2. L * p <= u BY <1>1, <1>2, <1>3, <2>1
  <2>3. (p + 1) - 1 = p /\ p + 1 \in 1..M BY <1>1, <1>2, <1>5
  <2> QED BY <2>2, <2>3
<1> QED BY <1>4, <1>5 DEF u, l, a, p, s, L, M

(* A page arrives: it was the last, or the next is asked for. *)
LEMMA PageAdvances ==
  ASSUME NEW V, NEW a, NEW S \in [Jobs -> Runs], Heeds(a, S), NEW r \in a.http,
         r.kind = "page", r.body # <<>>, r.body[1] \in Pages, r.arg \in Spans, NEW j \in Jobs,
         r.job = j, S[j].logs \subseteq 1..S[j].seq, Tidy(a.store, j),
         NEW c \in Clients(V), c.store = a.store, c.conn = a.conn, c.http = a.http \ {r}
  PROVE  Advances(BackfillPage(c, j, r.arg, r.body[1]), a, S)
<1> DEFINE page == r.body[1]
           arg == r.arg
           b == Replayed(c, j, arg, page)
           e == EndPass(b, j)
           next == [after |-> page.upto, pages |-> arg.pages + 1]
           q == [kind |-> "page", job |-> j, arg |-> next, phase |-> "sent", body |-> <<>>]
           m == Ask(b, "page", j, next)
           d == BackfillPage(c, j, arg, page)
           R == S[j]
           Over1 == page.upto <= arg.after \/ page.upto >= page.latest \/ arg.pages = MaxPages
<1>1. /\ b \in Clients(V) /\ Calm(b, c) /\ Turned(r, R)
      /\ b.http = a.http \ {r} /\ b.conn.passes = a.conn.passes /\ b.conn.holes = a.conn.holes
      /\ \A Q, k, n : Read(a, Q, k, n) => Read(b, Q, k, n)
      /\ \A k \in Jobs : Read(b, S[k], k, b.conn.cursor[k])
      /\ Read(b, R, j, page.upto)
      /\ \A k \in Jobs : Tracked(a, S[k], k) =>
           \A n \in S[k].logs \ S[k].shed :
             \/ Got(b.store, k, n) \/ LogComes(b.conn.wire, k, n)
             \/ \E x \in b.http : Reaches(x, k, n)
             \/ k = j /\ page.upto < n /\ n <= page.latest
  BY ReplayedReads
<1>2. d = IF Over1 THEN e ELSE m BY DEF BackfillPage, NextPage
<1>3. /\ page.upto \in Nat /\ page.latest \in Nat /\ arg.pages \in Nat /\ arg \in Spans
      /\ page \in Pages
  BY DEF Pages, Spans
<1>4. IF Over1 THEN R.seq <= PageLimit * MaxPages => page.upto >= page.latest
      ELSE arg.pages + 1 \in 1..MaxPages /\ PageLimit * ((arg.pages + 1) - 1) <= page.upto
  <2>1. RightPage(a, r, R) BY DEF Heeds
  <2>2. arg.pages \in 1..MaxPages /\ PageLimit * (arg.pages - 1) <= arg.after
    BY <2>1 DEF RightPage
  <2> QED BY <1>1, <2>2, LastPage
<1>5. R.logs \subseteq Nat /\ R \in Runs BY DEF Runs
<1>6. b.conn.up = a.conn.up BY <1>1 DEF Calm
<1>7. \A x \in b.http : x.kind = "page" => RightPage(b, x, S[x.job])
  BY <1>1 DEF Heeds, RightPage
<1>8. a.conn.passes \subseteq Jobs
  <2>1. c.conn \in Conns(V) BY Parts
  <2> QED BY <2>1 DEF Conns
<1> HIDE DEF d, b, Over1
<1>9. CASE Over1
  <2> HIDE DEF page, arg, R, next, q, m
  <2>1. /\ Calm(e, b) /\ e.store = b.store /\ e.http = b.http
        /\ e.conn.cursor = b.conn.cursor /\ e.conn.passes = b.conn.passes \ {j}
        /\ e.conn.holes = b.conn.holes
    <3>1. e \in {e, BreakOff(b, j)} OBVIOUS
    <3> QED BY <1>1, <3>1, EndPassTurn
  <2> HIDE DEF e
  <2>2. \A Q, k, n : Read(b, Q, k, n) <=> Read(e, Q, k, n) BY <2>1 DEF Read
  <2>3. ASSUME NEW k \in Jobs, Tracked(a, S[k], k), S[k].seq <= PageLimit * MaxPages
        PROVE  Tracked(e, S[k], k)
    <3>1. k = j => page.upto >= page.latest BY <1>4, <1>9, <2>3 DEF R
    <3>2. \A n \in S[k].logs : ~(k = j /\ page.upto < n /\ n <= page.latest)
      BY <1>3, <1>5, <3>1 DEF R
    <3> QED BY <1>1, <2>1, <2>3, <3>2 DEF Tracked, Calm
  <2>4. \A k \in Jobs : Sure(a, S[k], k) => Sure(e, S[k], k)
    BY <1>1, <1>6, <2>1, <2>3 DEF Sure, Calm
  <2>5. \A k \in e.conn.passes : Sure(e, S[k], k) BY <1>1, <1>8, <2>1, <2>4 DEF Heeds
  <2>6. \A k \in Jobs : Read(e, S[k], k, e.conn.cursor[k]) BY <1>1, <2>1, <2>2
  <2>7. \A x \in e.http : x.kind = "page" => RightPage(e, x, S[x.job])
    BY <1>7, <2>1, <2>2 DEF RightPage
  <2>8. Heeds(e, S) BY <2>5, <2>6, <2>7 DEF Heeds
  <2> QED BY <1>2, <1>9, <2>4, <2>8 DEF Advances, d, page, arg
<1>10. CASE ~Over1
  <2>1. next \in Spans BY <1>3 DEF Spans
  <2>2. /\ q.kind = "page" /\ q.job = j /\ q.arg = next /\ q.body = <<>> /\ q.phase = "sent"
        /\ next.after = page.upto /\ next.pages = arg.pages + 1
    OBVIOUS
  <2> HIDE DEF page, arg, R, next, e
  <2>3. m.store = b.store /\ m.conn = b.conn /\ m.http = b.http \union {q}
    BY <1>1, <2>1, AskTurn
  <2> HIDE DEF q, m
  <2>4. \A Q, k, n : Read(b, Q, k, n) <=> Read(m, Q, k, n) BY <2>3 DEF Read
  <2>5. ASSUME NEW k \in Jobs, Tracked(a, S[k], k) PROVE Tracked(m, S[k], k)
    <3>1. \A n : page.upto < n => Reaches(q, j, n) BY <2>2 DEF Reaches
    <3> QED BY <1>1, <2>3, <2>5, <3>1 DEF Tracked
  <2>6. \A k \in Jobs : Sure(a, S[k], k) => Sure(m, S[k], k)
    BY <1>1, <1>6, <2>3, <2>5 DEF Sure
  <2>7. \A k \in m.conn.passes : Sure(m, S[k], k) BY <1>1, <1>8, <2>3, <2>6 DEF Heeds
  <2>8. \A k \in Jobs : Read(m, S[k], k, m.conn.cursor[k]) BY <1>1, <2>3, <2>4
  <2>9. RightPage(m, q, S[j]) BY <1>1, <1>4, <1>10, <2>2, <2>4 DEF RightPage, R
  <2>10. \A x \in m.http : x.kind = "page" => RightPage(m, x, S[x.job])
    BY <1>7, <2>2, <2>3, <2>4, <2>9 DEF RightPage
  <2>11. Heeds(m, S) BY <2>7, <2>8, <2>10 DEF Heeds
  <2> QED BY <1>2, <1>10, <2>6, <2>11 DEF Advances, d, page, arg
<1> QED BY <1>9, <1>10

-----------------------------------------------------------------------------
(* No record is lost: in every state.                                      *)

(* Runs that go on lose nothing. *)
LEMMA GrownSure ==
  ASSUME NEW V, NEW c \in Clients(V), NEW S \in [Jobs -> Runs], NEW T \in [Jobs -> Runs],
         \A j \in Jobs : Grows(T[j], S[j], c, j)
  PROVE  /\ \A j \in Jobs : Sure(c, S[j], j) => Sure(c, T[j], j)
         /\ Heeds(c, S) => Heeds(c, T)
<1>1. /\ c.conn.passes \subseteq Jobs /\ c.conn.cursor \in [Jobs -> Nat]
      /\ c.http \in SUBSET Exchanges(V)
  <2>1. c.conn \in Conns(V) /\ c.http \in SUBSET Exchanges(V) BY Parts
  <2> QED BY <2>1 DEF Conns
<1>2. \A r \in c.http : r.job \in Jobs /\ (r.kind = "page" =>
        r.arg \in Spans /\ (r.body # <<>> => r.body[1] \in Pages))
  BY <1>1 DEF Exchanges
<1>3. \A j \in Jobs : /\ S[j].seq \in Nat /\ T[j].seq \in Nat
                      /\ S[j].logs \subseteq Nat /\ T[j].logs \subseteq Nat
  <2>1. \A R \in Runs : R.seq \in Nat /\ R.logs \subseteq Nat BY DEF Runs
  <2>2. \A j \in Jobs : S[j] \in Runs /\ T[j] \in Runs OBVIOUS
  <2> QED BY <2>1, <2>2
<1>4. ASSUME NEW j \in Jobs, Sure(c, S[j], j) PROVE Sure(c, T[j], j)
  <2> DEFINE R == S[j]
             Q == T[j]
  <2>1. /\ Grows(Q, R, c, j) /\ Sure(c, R, j) /\ R.seq \in Nat /\ Q.seq \in Nat BY <1>3, <1>4
  <2> HIDE DEF R, Q
  <2> SUFFICES ASSUME c.conn.up, j \notin c.conn.holes, Q.seq <= PageLimit * MaxPages
               PROVE  Tracked(c, Q, j)
    BY DEF Sure, Q
  <2> DEFINE B == PageLimit * MaxPages
  <2>2. B \in Nat BY ExecutionAssumption
  <2>3. Q.seq <= B OBVIOUS
  <2> HIDE DEF B
  <2>4. R.seq <= B BY <2>1, <2>2, <2>3 DEF Grows
  <2>5. Tracked(c, R, j) BY <2>1, <2>4 DEF Sure, B
  <2> SUFFICES ASSUME NEW n \in Q.logs \ Q.shed
               PROVE  \/ Got(c.store, j, n) \/ LogComes(c.conn.wire, j, n)
                      \/ \E r \in c.http : Reaches(r, j, n)
    BY DEF Tracked
  <2>6. CASE n \in R.logs
    <3>1. n \in R.logs \ R.shed BY <2>1, <2>6 DEF Grows
    <3> QED BY <2>5, <3>1 DEF Tracked
  <2>7. CASE n \notin R.logs BY <2>1, <2>7 DEF Grows
  <2> QED BY <2>6, <2>7
<1>5. ASSUME NEW j \in Jobs, NEW m \in Nat, Read(c, S[j], j, m) PROVE Read(c, T[j], j, m)
  <2> DEFINE R == S[j]
             Q == T[j]
  <2>1. /\ Grows(Q, R, c, j) /\ Read(c, R, j, m) /\ R.seq \in Nat /\ Q.seq \in Nat
        /\ R.logs \subseteq Nat /\ Q.logs \subseteq Nat
    BY <1>3, <1>5
  <2> HIDE DEF R, Q
  <2>2. m <= Q.seq BY <2>1 DEF Grows, Read
  <2>3. ASSUME NEW n \in Q.logs, n <= m PROVE Got(c.store, j, n)
    <3>1. n \in R.logs BY <2>1, <2>3 DEF Grows, Read
    <3> QED BY <2>1, <2>3, <3>1 DEF Read
  <2>4. Read(c, Q, j, m) BY <2>2, <2>3 DEF Read
  <2> QED BY <2>4 DEF Q
<1>6. ASSUME Heeds(c, S) PROVE Heeds(c, T)
  <2>1. \A j \in Jobs : Read(c, T[j], j, c.conn.cursor[j]) BY <1>1, <1>5, <1>6 DEF Heeds
  <2>2. \A j \in c.conn.passes : Sure(c, T[j], j) BY <1>1, <1>4, <1>6 DEF Heeds
  <2>3. ASSUME NEW r \in c.http, r.kind = "page" PROVE RightPage(c, r, T[r.job])
    <3> DEFINE j == r.job
               R == S[j]
               Q == T[j]
    <3>1. /\ RightPage(c, r, R) /\ j \in Jobs /\ r.arg.after \in Nat
          /\ r.body # <<>> => r.body[1].upto \in Nat /\ r.body[1].latest \in Nat
      BY <1>2, <1>6, <2>3 DEF Heeds, Spans, Pages
    <3>2. Read(c, Q, j, r.arg.after) BY <1>5, <3>1 DEF RightPage
    <3>3. /\ Grows(Q, R, c, j) /\ R.seq \in Nat /\ Q.seq \in Nat
          /\ R.logs \subseteq Nat /\ Q.logs \subseteq Nat
      BY <1>3, <3>1
    <3> HIDE DEF R, Q
    <3>4. ASSUME r.body # <<>> PROVE Turned(r, Q)
      <4> DEFINE page == r.body[1]
      <4>1. /\ Turned(r, R) /\ page.upto \in Nat /\ page.latest \in Nat
        BY <3>1, <3>4 DEF RightPage
      <4>2. /\ r.arg.after <= page.upto /\ page.upto <= page.latest /\ page.latest <= R.seq
            /\ page.upto = r.arg.after + PageLimit \/ page.upto = page.latest
            /\ \A n \in R.logs : r.arg.after < n /\ n <= page.upto => n \in page.logs
        BY <4>1 DEF Turned
      <4> HIDE DEF page
      <4>3. page.latest <= Q.seq BY <3>3, <4>1, <4>2 DEF Grows
      <4>4. ASSUME NEW n \in Q.logs, r.arg.after < n, n <= page.upto PROVE n \in page.logs
        <5>1. n \in R.logs BY <3>3, <4>1, <4>2, <4>4 DEF Grows
        <5> QED BY <4>2, <4>4, <5>1
      <4> QED BY <4>2, <4>3, <4>4 DEF Turned, page
    <3>5. RightPage(c, r, Q) BY <3>1, <3>2, <3>4 DEF RightPage
    <3> QED BY <3>5 DEF Q
  <2> QED BY <2>1, <2>2, <2>3 DEF Heeds
<1> QED BY <1>4, <1>6

(* The client after a step. *)
LEMMA ClientAfter ==
  ASSUME IInv', NEW d, d.store = store', d.conn = conn', d.http = http'
  PROVE  /\ Client' \in Clients(Verdicts') /\ Retains(Client', d)
         /\ Client'.store = store' /\ Client'.conn = conn' /\ Client'.http = http'
         /\ server' \in [Jobs -> Runs]
<1> DEFINE c == [store |-> store', conn |-> conn', track |-> track', http |-> http', now |-> Now']
<1>1. c.store = d.store /\ c.conn = d.conn /\ c.http = d.http OBVIOUS
<1>2. Client' = c BY DEF Client
<1>3. Client' \in Clients(Verdicts') /\ server' \in [Jobs -> Runs] BY DEF IInv
<1> HIDE DEF c
<1>4. Retains(c, d) BY <1>1 DEF Retains, Beside
<1> QED BY <1>1, <1>2, <1>3, <1>4

(* A step that leaves the passes alone and loses no record. *)
LEMMA StepSure ==
  ASSUME IInv, IInv', LInv, track' = track, NEW d, d.store = store', d.conn = conn',
         d.http = http', Advances(d, Client, server),
         \A j \in Jobs : Grows(server'[j], server[j], d, j),
         \A r \in http' : r.kind = "reconcile" /\ r.body # <<>> =>
           r \in http \/ r.body[1].journal = server[r.job].journal
  PROVE  LInv'
<1> DEFINE c == Client'
           S == server
           T == server'
<1>1. /\ c \in Clients(Verdicts') /\ Retains(c, d) /\ c.conn = d.conn /\ T \in [Jobs -> Runs]
      /\ c.http = http'
  BY ClientAfter
<1>2. S \in [Jobs -> Runs] /\ track \in Tracks BY Holds
<1>3. \A j \in Jobs : Grows(T[j], S[j], c, j) BY <1>1 DEF Grows
<1>4. Advances(d, Client, S) /\ Heeds(Client, S) BY DEF LInv
<1> HIDE DEF c, T
<1>5. /\ \A j \in Jobs : Sure(c, S[j], j) => Sure(c, T[j], j)
      /\ Heeds(c, S) => Heeds(c, T)
  BY <1>1, <1>2, <1>3, GrownSure
<1>6. Advances(c, Client, S)
  <2>1. Advances(c, d, S) BY <1>1, RetainsAdvances
  <2> QED BY <1>4, <2>1, AdvancesTwice
<1>7. Heeds(c, T) /\ \A j \in Jobs : Sure(Client, S[j], j) => Sure(c, T[j], j)
  BY <1>4, <1>5, <1>6 DEF Advances
<1>8. CoveredSure'
  <2>1. track.covered \subseteq Jobs BY <1>2 DEF Tracks
  <2>2. ASSUME track.ran = track.gen, NEW j \in track.covered
        PROVE  Awaited(track, j) \/ ~T[j].journal \/ Sure(c, T[j], j)
    <3>1. Awaited(track, j) \/ ~S[j].journal \/ Sure(Client, S[j], j)
      BY <2>2 DEF LInv, CoveredSure
    <3>2. T[j].journal = S[j].journal BY <1>3, <2>1 DEF Grows
    <3> QED BY <1>7, <2>1, <3>1, <3>2
  <2> QED BY <2>2 DEF CoveredSure, c, T
<1>9. Numbered'
  <2>1. ASSUME NEW j \in Jobs PROVE T[j].logs \subseteq 1..T[j].seq
    <3> DEFINE R == S[j]
               Q == T[j]
    <3>1. Grows(Q, R, c, j) /\ R.logs \subseteq 1..R.seq /\ R \in Runs /\ Q \in Runs
      BY <1>1, <1>2, <1>3 DEF LInv, Numbered
    <3> HIDE DEF R, Q
    <3>2. R.seq \in Nat /\ Q.seq \in Nat /\ Q.logs \subseteq Nat /\ R.seq <= Q.seq
      BY <3>1 DEF Runs, Grows
    <3>3. ASSUME NEW n \in Q.logs PROVE n \in 1..Q.seq
      <4>1. CASE n \in R.logs BY <3>1, <3>2, <4>1
      <4>2. CASE n \notin R.logs
        <5>1. R.seq < n /\ n <= Q.seq BY <3>1, <4>2 DEF Grows
        <5> QED BY <3>2, <5>1
      <4> QED BY <4>1, <4>2
    <3> QED BY <3>3 DEF Q
  <2> QED BY <2>1 DEF Numbered, T
<1>10. JournalsTold'
  <2>1. ASSUME NEW r \in http', r.kind = "reconcile", r.body # <<>>
        PROVE  r.body[1].journal = T[r.job].journal
    <3>1. r.body[1].journal = S[r.job].journal BY <2>1 DEF LInv, JournalsTold
    <3>2. r.job \in Jobs
      <4>1. c.http \in SUBSET Exchanges(Verdicts') BY <1>1, Parts
      <4> QED BY <1>1, <4>1 DEF Exchanges
    <3> QED BY <1>3, <3>1, <3>2 DEF Grows
  <2> QED BY <2>1 DEF JournalsTold, T
<1> QED BY <1>7, <1>8, <1>9, <1>10 DEF LInv, c, T

(* A turn of the client that loses no record. *)
LEMMA TurnSure ==
  ASSUME IInv, IInv', LInv, NEW d, Becomes(d), d.track = track, server' = server,
         Advances(d, Client, server), \A r \in d.http : r.kind = "reconcile" => r \in http
  PROVE  LInv'
<1>1. d.store = store' /\ d.conn = conn' /\ d.http = http' /\ track' = track BY DEF Becomes
<1>2. ASSUME NEW j \in Jobs PROVE Grows(server'[j], server[j], d, j)
  <2>1. server \in [Jobs -> Runs] BY Holds
  <2>2. server[j].seq \in Nat BY <2>1 DEF Runs
  <2> QED BY <2>2 DEF Grows
<1>3. \A r \in http' : r.kind = "reconcile" => r \in http BY <1>1
<1> QED BY <1>1, <1>2, <1>3, StepSure

(* An exchange that was no page is over. *)
LEMMA GoneRetains ==
  ASSUME IInv, NEW r \in http, r.kind # "page"
  PROVE  Retains(Gone(Client, r), Client)
<1> DEFINE c == Gone(Client, r)
<1>1. c.store = store /\ c.conn = conn /\ c.http = http \ {r} BY GoneTurn
<1>2. Client.store = store /\ Client.conn = conn /\ Client.http = http BY Holds
<1> HIDE DEF c
<1>3. Retains(c, Client) BY <1>1, <1>2 DEF Retains, Beside
<1> QED BY <1>3 DEF c

(* What a turn does after such an exchange. *)
LEMMA AsideSure ==
  ASSUME IInv, IInv', LInv, NEW r \in http, r.kind # "page", NEW d,
         Aside(d, Gone(Client, r), Verdicts), Advances(d, Gone(Client, r), server),
         Becomes(d), server' = server
  PROVE  LInv'
<1> DEFINE c == Gone(Client, r)
<1>1. c.http = http \ {r} /\ c.track = track BY GoneTurn
<1>2. Advances(c, Client, server) BY GoneRetains, RetainsAdvances
<1>3. Aside(d, c, Verdicts) /\ Advances(d, c, server) OBVIOUS
<1> HIDE DEF c
<1>4. Advances(d, Client, server) BY <1>2, <1>3, AdvancesTwice
<1>5. d.track = track /\ \A x \in d.http : x.kind = "reconcile" => x \in http
  BY <1>1, <1>3 DEF Aside
<1> QED BY <1>4, <1>5, TurnSure

(* A store that shows what was shown. *)
LEMMA StoreRetains ==
  ASSUME NEW V, NEW c \in Clients(V), NEW s, Keeps(s, c.store, V), Spares(s, c.store),
         NEW d, d = [c EXCEPT !.store = s]
  PROVE  Aside(d, c, V) /\ Retains(d, c)
<1>1. Aside(d, c, V) /\ d.store = s /\ d.conn = c.conn /\ d.http = c.http BY StoreTurn
<1>2. Calm(d, c) BY SparesCalm
<1>3. Beside(d, c) BY <1>1 DEF Beside
<1> QED BY <1>1, <1>2, <1>3, RetainsTwice

(* The answer to a submission. *)
LEMMA SubmitAnsweredSure ==
  ASSUME IInv, IInv', LInv, SubmitAnswered
  PROVE  LInv'
<1>1. PICK r \in Over("submit") :
        LET c == Gone(Client, r)
        IN  Turn(IF r.phase = "failed" THEN c
                 ELSE [c EXCEPT !.store = Register(@, r.job, c.now)])
  BY DEF SubmitAnswered
<1> DEFINE c == Gone(Client, r)
           s == Register(c.store, r.job, c.now)
           b == [c EXCEPT !.store = s]
           d == IF r.phase = "failed" THEN c ELSE b
<1>2. r \in http /\ r.kind # "page" BY DEF Over
<1>3. c \in Clients(Verdicts) /\ r.job \in Jobs BY <1>2, GoneTurn
<1>4. Becomes(d) /\ server' = server BY <1>1 DEF Turn
<1>5. c = Gone(Client, r) OBVIOUS
<1> HIDE DEF c
<1>6. Keeps(s, c.store, Verdicts) /\ Spares(s, c.store)
  <2>1. Sound(c.store, Verdicts) /\ c.now \in Nat BY <1>3, Parts
  <2> QED BY <1>3, <2>1, RegisterKeeps
<1> HIDE DEF s
<1>7. Aside(b, c, Verdicts) /\ Retains(b, c) BY <1>3, <1>6, StoreRetains
<1> HIDE DEF b
<1>8. Aside(d, c, Verdicts) /\ Retains(d, c) BY <1>3, <1>7, AsideStays, RetainsTwice
<1> HIDE DEF d
<1>9. Advances(d, c, server) BY <1>8, RetainsAdvances
<1> QED BY <1>2, <1>4, <1>5, <1>8, <1>9, AsideSure

(* A completion's artifacts arrive. *)
LEMMA HydrateAnsweredSure ==
  ASSUME IInv, IInv', LInv, HydrateAnswered
  PROVE  LInv'
<1>1. PICK r \in {x \in http : x.kind = "hydrate"} :
        LET c == Gone(Client, r)
            record == Late(r)
        IN  Turn(IF record = <<>> \/ record[1].state # "completed" THEN c
                 ELSE [c EXCEPT !.store = HydrateArtifacts(@, r.job)])
  BY DEF HydrateAnswered
<1> DEFINE c == Gone(Client, r)
           s == HydrateArtifacts(c.store, r.job)
           b == [c EXCEPT !.store = s]
           d == IF Late(r) = <<>> \/ Late(r)[1].state # "completed" THEN c ELSE b
<1>2. r \in http /\ r.kind # "page" OBVIOUS
<1>3. c \in Clients(Verdicts) /\ r.job \in Jobs BY <1>2, GoneTurn
<1>4. Becomes(d) /\ server' = server BY <1>1 DEF Turn
<1>5. c = Gone(Client, r) OBVIOUS
<1> HIDE DEF c
<1>6. Keeps(s, c.store, Verdicts) /\ Spares(s, c.store)
  <2>1. Sound(c.store, Verdicts) BY <1>3, Parts
  <2> QED BY <1>3, <2>1, HydrateKeeps
<1> HIDE DEF s
<1>7. Aside(b, c, Verdicts) /\ Retains(b, c) BY <1>3, <1>6, StoreRetains
<1> HIDE DEF b
<1>8. Aside(d, c, Verdicts) /\ Retains(d, c) BY <1>3, <1>7, AsideStays, RetainsTwice
<1> HIDE DEF d
<1>9. Advances(d, c, server) BY <1>8, RetainsAdvances
<1> QED BY <1>2, <1>4, <1>5, <1>8, <1>9, AsideSure

(* A job first seen in its middle was looked at. *)
LEMMA SightAnsweredSure ==
  ASSUME IInv, IInv', LInv, SightAnswered
  PROVE  LInv'
<1>1. PICK r \in {x \in http : x.kind = "sight"} :
        LET c == Gone(Client, r)
            record == Late(r)
        IN  Turn(IF record # <<>> /\ record[1].journal THEN Backfill(c, r.job) ELSE c)
  BY DEF SightAnswered
<1> DEFINE c == Gone(Client, r)
           b == Backfill(c, r.job)
           d == IF Late(r) # <<>> /\ Late(r)[1].journal THEN b ELSE c
<1>2. r \in http /\ r.kind # "page" OBVIOUS
<1>3. c \in Clients(Verdicts) /\ r.job \in Jobs BY <1>2, GoneTurn
<1>4. Becomes(d) /\ server' = server BY <1>1 DEF Turn
<1>5. c = Gone(Client, r) OBVIOUS
<1>6. Heeds(c, server)
  <2>1. Advances(c, Client, server) BY <1>2, GoneRetains, RetainsAdvances
  <2> QED BY <2>1 DEF LInv, Advances
<1>7. server \in [Jobs -> Runs] BY Holds
<1> HIDE DEF c
<1>8. Aside(b, c, Verdicts) BY <1>3, BackfillTurn
<1>9. Advances(b, c, server) BY <1>3, <1>6, <1>7, BackfillAdvances
<1>10. Aside(c, c, Verdicts) /\ Advances(c, c, server)
  BY <1>3, AsideStays, RetainsTwice, RetainsAdvances
<1> HIDE DEF b
<1>11. Aside(d, c, Verdicts) /\ Advances(d, c, server) BY <1>8, <1>9, <1>10
<1> HIDE DEF d
<1> QED BY <1>2, <1>4, <1>5, <1>11, AsideSure

(* A page arrives. *)
LEMMA PageAnsweredSure ==
  ASSUME IInv, IInv', QInv, LInv, PageAnswered
  PROVE  LInv'
<1>1. PICK r \in Over("page") :
        LET c == Gone(Client, r)
        IN  Turn(IF r.body = <<>> THEN BreakOff(c, r.job)
                 ELSE BackfillPage(c, r.job, r.arg, r.body[1]))
  BY DEF PageAnswered
<1> DEFINE c == Gone(Client, r)
           j == r.job
           e == BreakOff(c, j)
           b == BackfillPage(c, j, r.arg, r.body[1])
           d == IF r.body = <<>> THEN e ELSE b
<1>2. r \in http /\ r.kind = "page" BY DEF Over
<1>3. /\ c \in Clients(Verdicts) /\ c.store = store /\ c.conn = conn /\ c.track = track
      /\ c.http = http \ {r} /\ j \in Jobs /\ r \in Exchanges(Verdicts)
  BY <1>2, GoneTurn
<1>4. r.arg \in Spans /\ (r.body # <<>> => r.body[1] \in Pages) BY <1>2, <1>3 DEF Exchanges
<1>5. Becomes(d) /\ server' = server BY <1>1 DEF Turn
<1>6. Tidy(store, j)
  <2>1. Behind(store, conn, server[j], j) BY <1>3 DEF QInv, AllBehind
  <2> QED BY <2>1 DEF Tidy, Behind
<1>7. /\ Client.store = store /\ Client.conn = conn /\ Client.http = http
      /\ server \in [Jobs -> Runs]
  BY Holds
<1>8. Heeds(Client, server) /\ server[j].logs \subseteq 1..server[j].seq
  BY <1>3 DEF LInv, Numbered
<1>9. r.job = j OBVIOUS
<1> HIDE DEF c, j
<1>10. r \in Client.http /\ c.store = Client.store /\ c.conn = Client.conn
       /\ c.http = Client.http \ {r} /\ Tidy(Client.store, j)
  BY <1>2, <1>3, <1>6, <1>7
<1>11. r.body = <<>> => Aside(e, c, Verdicts) /\ Advances(e, Client, server)
  BY <1>3, <1>9, <1>10, EndPassTurn, BrokenOffAdvances
<1>12. r.body # <<>> => Aside(b, c, Verdicts) /\ Advances(b, Client, server)
  <2> SUFFICES ASSUME r.body # <<>> PROVE Aside(b, c, Verdicts) /\ Advances(b, Client, server)
    OBVIOUS
  <2>1. r.body[1] \in Pages BY <1>4
  <2>2. Aside(b, c, Verdicts) BY <1>3, <1>4, <2>1, PageTurn
  <2>3. Advances(b, Client, server)
    BY <1>2, <1>3, <1>4, <1>7, <1>8, <1>9, <1>10, <2>1, PageAdvances
  <2> QED BY <2>2, <2>3
<1> HIDE DEF e, b
<1>13. Aside(d, c, Verdicts) /\ Advances(d, Client, server) BY <1>11, <1>12
<1> HIDE DEF d
<1>14. d.track = track /\ \A x \in d.http : x.kind = "reconcile" => x \in http
  BY <1>3, <1>13 DEF Aside
<1> QED BY <1>5, <1>13, <1>14, TurnSure

(* A pass goes on, with what it made of an answer. *)
LEMMA PassSure ==
  ASSUME IInv, IInv', LInv, NEW b \in Clients(Verdicts), Between(b),
         b.track.ran = track.ran, b.track.gen = track.gen, b.track.todo = track.todo,
         b.track.covered \subseteq track.covered, Advances(b, Client, server),
         NEW j, j = Head(track.todo),
         j \in b.track.covered => ~server[j].journal \/ Sure(b, server[j], j),
         Becomes(PassNext(b)), server' = server
  PROVE  LInv'
<1> DEFINE d == PassNext(b)
           c == Client'
           S == server
<1>1. /\ Paced(d, b, Verdicts)
      /\ \A k \in d.track.covered :
           \/ Awaited(d.track, k)
           \/ /\ IsCurrent(b)
              /\ k \in Settled(b.track) \/ (k \in b.track.covered /\ k = Head(b.track.todo))
  BY PassNextPaces
<1>2. Becomes(d) OBVIOUS
<1> HIDE DEF d
<1>3. /\ store' = d.store /\ conn' = d.conn /\ track' = d.track /\ http' = d.http
      /\ d.track.gen = track.gen /\ d \in Clients(Verdicts)
  BY <1>1, <1>2 DEF Paced, Becomes
<1>4. Retains(c, d) BY <1>3, ClientAfter
<1>5. Retains(d, b)
  <2>1. \A r : r.kind = "page" => (r \in d.http <=> r \in b.http) BY <1>1 DEF Paced
  <2> QED BY <1>1, <2>1 DEF Paced, Retains, Beside
<1> HIDE DEF c
<1>6. Advances(c, b, S) BY <1>4, <1>5, RetainsTwice, RetainsAdvances
<1>7. Heeds(b, S) /\ \A k \in Jobs : Sure(Client, S[k], k) => Sure(b, S[k], k)
  BY DEF LInv, Advances
<1>8. Heeds(c, S) /\ \A k \in Jobs : Sure(b, S[k], k) => Sure(c, S[k], k)
  BY <1>6, <1>7 DEF Advances
<1>9. track.covered \subseteq Jobs
  <2>1. track \in Tracks BY Holds
  <2> QED BY <2>1 DEF Tracks
<1>10. ASSUME track'.ran = track'.gen, NEW k \in track'.covered, ~Awaited(track', k)
       PROVE  ~S[k].journal \/ Sure(c, S[k], k)
  <2>1. /\ IsCurrent(b) /\ k \in b.track.covered
        /\ k \in Settled(b.track) \/ k = Head(b.track.todo)
    BY <1>1, <1>3, <1>10 DEF Settled
  <2>2. k \in Jobs /\ track.ran = track.gen BY <1>9, <2>1 DEF IsCurrent
  <2>3. CASE k = j BY <1>8, <2>1, <2>2, <2>3
  <2>4. CASE k # j
    <3>1. k \in track.covered /\ ~Awaited(track, k) BY <2>1, <2>4 DEF Settled, Awaited
    <3>2. ~S[k].journal \/ Sure(Client, S[k], k) BY <2>2, <3>1 DEF LInv, CoveredSure
    <3> QED BY <1>7, <1>8, <2>2, <3>2
  <2> QED BY <2>3, <2>4
<1>11. CoveredSure' BY <1>10 DEF CoveredSure, c
<1>12. \A r \in http' : r.kind = "reconcile" => r.body = <<>>
  <2>1. \A r \in d.http : r.phase = "sent" => r.body = <<>>
    <3>1. d.http \in SUBSET Exchanges(Verdicts) BY <1>3, Parts
    <3> QED BY <3>1 DEF Exchanges
  <2>2. \A r \in b.http : r.kind # "reconcile" BY DEF Between, Asked
  <2> QED BY <1>1, <1>3, <2>1, <2>2 DEF Paced
<1>13. JournalsTold' BY <1>12 DEF JournalsTold
<1>14. Numbered' BY DEF LInv, Numbered
<1> QED BY <1>8, <1>11, <1>13, <1>14 DEF LInv, c

(* What a pass does with a record: no record of the log is lost, and if
   there is a journal its records have come or will. *)
LEMMA RecordSure ==
  ASSUME NEW V, NEW c \in Clients(V), NEW S \in [Jobs -> Runs], Heeds(c, S), NEW j \in Jobs,
         NEW record \in Records, record.state \in Ended => <<j, Shown[record.state]>> \in V,
         Tidy(c.store, j)
  PROVE  LET d == ReconcileRecord(c, j, record)
         IN  Advances(d, c, S) /\ (record.journal => Sure(d, S[j], j))
<1> DEFINE a == ReplayJob(c, j, record)
           b == Backfill(a, j)
           e == WithJournal(a, j, record)
           s == HydrateArtifacts(e.store, j)
           h == [e EXCEPT !.store = s]
           d == ReconcileRecord(c, j, record)
<1>1. d = IF record.state = "completed" THEN h ELSE e
  BY Zenon DEF ReconcileRecord, WithArtifacts
<1>2. Retains(a, c) /\ a \in Clients(V) BY ReplayRetains, ReplayTurn DEF Aside
<1>3. e = IF record.journal THEN b ELSE a BY DEF WithJournal
<1> HIDE DEF a, d
<1>4. Advances(a, c, S) /\ Heeds(a, S)
  <2>1. Advances(a, c, S) BY <1>2, RetainsAdvances
  <2> QED BY <2>1 DEF Advances
<1>5. Advances(b, a, S) /\ Sure(b, S[j], j) /\ b \in Clients(V)
  BY <1>2, <1>4, BackfillAdvances, BackfillTurn DEF Aside
<1> HIDE DEF b, e
<1>6. Advances(b, c, S) BY <1>4, <1>5, AdvancesTwice
<1>7. Advances(e, c, S) /\ (record.journal => Sure(e, S[j], j)) /\ e \in Clients(V)
  BY <1>2, <1>3, <1>4, <1>5, <1>6
<1>8. Keeps(s, e.store, V) /\ Spares(s, e.store)
  <2>1. Sound(e.store, V) BY <1>7, Parts
  <2> QED BY <2>1, HydrateKeeps
<1> HIDE DEF s
<1>9. Retains(h, e) BY <1>7, <1>8, StoreRetains
<1> HIDE DEF h
<1>10. Advances(h, e, S) /\ Advances(h, c, S)
  <2>1. Advances(h, e, S) BY <1>9, RetainsAdvances
  <2> QED BY <1>7, <2>1, AdvancesTwice
<1>11. record.journal => Sure(h, S[j], j)
  <2>1. Heeds(e, S) BY <1>7 DEF Advances
  <2> QED BY <1>7, <1>10, <2>1 DEF Advances
<1>12. Advances(d, c, S) /\ (record.journal => Sure(d, S[j], j)) BY <1>1, <1>7, <1>10, <1>11
<1> QED BY <1>12 DEF d

(* The answer a pass waits for. *)
LEMMA ReconcileAnsweredSure ==
  ASSUME IInv, IInv', QInv, LInv, ReconcileAnswered
  PROVE  LInv'
<1>1. PICK r \in Over("reconcile") :
        LET c == Gone(Client, r)
        IN  Turn(PassNext(IF r.phase = "failed" THEN Unread(c, r.job)
                          ELSE IF r.body = <<>> THEN Disowned(Unread(c, r.job), r.job)
                          ELSE ReconcileRecord(c, r.job, r.body[1])))
  BY DEF ReconcileAnswered
<1> DEFINE c == Gone(Client, r)
           j == r.job
           t == [c.track EXCEPT !.covered = @ \ {j}]
           u == [c EXCEPT !.track = t]
           s == MarkLost(u.store, j, u.now)
           w == [u EXCEPT !.store = s]
           x == IF IsCurrent(u) THEN w ELSE u
           y == ReconcileRecord(c, j, r.body[1])
           b == IF r.phase = "failed" THEN u ELSE IF r.body = <<>> THEN x ELSE y
<1>2. r \in http /\ r.kind = "reconcile" /\ (r.phase = "served" \/ r.phase = "failed")
  BY DEF Over
<1>3. /\ c \in Clients(Verdicts) /\ c.store = store /\ c.conn = conn /\ c.track = track
      /\ Between(c) /\ j \in Jobs /\ r \in Exchanges(Verdicts)
  BY <1>2, GoneTurn
<1>4. r.body # <<>> => /\ r.body[1] \in Records
                       /\ r.body[1].state \in Ended => <<j, Shown[r.body[1].state]>> \in Verdicts
                       /\ r.body[1].journal = server[j].journal
  BY <1>2, <1>3 DEF Exchanges, Answered, LInv, JournalsTold
<1>5. Becomes(PassNext(b)) /\ server' = server
  <2>1. Unread(c, j) = u /\ Disowned(u, j) = x BY Zenon DEF Unread, Disowned
  <2>2. b = IF r.phase = "failed" THEN Unread(c, j)
            ELSE IF r.body = <<>> THEN Disowned(Unread(c, j), j)
            ELSE ReconcileRecord(c, j, r.body[1])
    <3> HIDE DEF c, j, u, x
    <3> QED BY <2>1
  <2> HIDE DEF b
  <2> QED BY <1>1, <2>2 DEF Turn
<1>6. /\ track \in Tracks /\ Passing(Client) /\ Client.track = track /\ Client.http = http
      /\ server \in [Jobs -> Runs]
  BY Holds
<1>7. j = Head(track.todo)
  <2>1. r \in Asked(Client) BY <1>2, <1>6 DEF Asked
  <2> QED BY <1>6, <2>1 DEF Passing
<1>8. Tidy(c.store, j)
  <2>1. Behind(store, conn, server[j], j) BY <1>3 DEF QInv, AllBehind
  <2> QED BY <1>3, <2>1 DEF Tidy, Behind
<1>9. Advances(c, Client, server) /\ Heeds(c, server)
  <2>1. Advances(c, Client, server) BY <1>2, GoneRetains, RetainsAdvances
  <2> QED BY <2>1 DEF LInv, Advances
<1> HIDE DEF c, j
<1>10. /\ u \in Clients(Verdicts) /\ u.store = store /\ u.conn = conn /\ Between(u)
       /\ u.track.ran = track.ran /\ u.track.gen = track.gen /\ u.track.todo = track.todo
       /\ u.track.covered \subseteq track.covered /\ j \notin u.track.covered
       /\ u.http = c.http
  <2>1. /\ t \in Tracks /\ t.ran = track.ran /\ t.gen = track.gen /\ t.busy = track.busy
        /\ t.todo = track.todo /\ t.covered = track.covered \ {j}
    BY <1>3, <1>6 DEF Tracks
  <2> HIDE DEF t
  <2>2. /\ u \in Clients(Verdicts) /\ u.store = c.store /\ u.conn = c.conn /\ u.http = c.http
        /\ u.track = t
    BY <1>3, <2>1, TrackTurn
  <2> HIDE DEF u
  <2>3. Asked(u) = Asked(c) BY <2>2 DEF Asked
  <2>4. Between(u) BY <1>3, <2>1, <2>2, <2>3 DEF Between
  <2> QED BY <1>3, <2>1, <2>2, <2>4
<1> HIDE DEF u
<1>11. Loses(s, store, Verdicts, j) /\ Spares(s, store)
  <2>1. Sound(u.store, Verdicts) /\ u.now \in Nat BY <1>10, Parts
  <2> QED BY <1>10, <2>1, MarkLostLoses
<1> HIDE DEF s
<1>12. /\ w \in Clients(Verdicts) /\ w.store = s /\ w.conn = conn /\ w.track = u.track
       /\ w.http = c.http /\ Between(w)
  <2>1. Sound(s, Verdicts) /\ Capped(s) BY <1>11, Holds DEF Loses
  <2>2. /\ w \in Clients(Verdicts) /\ w.store = s /\ w.conn = u.conn /\ w.http = u.http
        /\ w.track = u.track
    BY <1>10, <2>1, StorePart
  <2> HIDE DEF w
  <2>3. Asked(w) = Asked(u) BY <2>2 DEF Asked
  <2>4. Between(w) BY <1>10, <2>2, <2>3 DEF Between
  <2> QED BY <1>10, <2>2, <2>4
<1> HIDE DEF w
<1>13. ASSUME NEW z, z = u \/ z = w PROVE Advances(z, Client, server)
  <2>1. Spares(z.store, c.store) /\ z.conn = c.conn /\ z.http = c.http
    BY <1>3, <1>10, <1>11, <1>12, <1>13, ShowsTheSame
  <2>2. Retains(z, c) BY <2>1, GotStays DEF Retains, Beside
  <2> QED BY <1>9, <2>2, RetainsAdvances, AdvancesTwice
<1>14. CASE r.phase = "failed" \/ r.body = <<>>
  <2>1. b = u \/ b = w BY <1>14
  <2> HIDE DEF b
  <2>2. /\ b \in Clients(Verdicts) /\ Between(b) /\ b.track = u.track
    BY <1>10, <1>12, <2>1
  <2>3. Advances(b, Client, server) BY <1>13, <2>1
  <2> QED BY <1>5, <1>7, <1>10, <2>2, <2>3, PassSure
<1>15. CASE r.phase # "failed" /\ r.body # <<>>
  <2> DEFINE e == r.body[1]
  <2>1. b = y BY <1>15
  <2>2. Becomes(PassNext(y)) BY <1>5, <2>1
  <2>3. /\ e \in Records /\ (e.state \in Ended => <<j, Shown[e.state]>> \in Verdicts)
        /\ e.journal = server[j].journal
    BY <1>4, <1>15
  <2>4. y = ReconcileRecord(c, j, e) OBVIOUS
  <2> HIDE DEF e, y
  <2>5. Aside(y, c, Verdicts) BY <1>3, <2>3, <2>4, RecordTurn
  <2>6. Advances(y, c, server) /\ (e.journal => Sure(y, server[j], j))
    BY <1>3, <1>6, <1>8, <1>9, <2>3, <2>4, RecordSure
  <2>7. /\ y \in Clients(Verdicts) /\ y.track = track /\ Between(y)
    BY <1>3, <2>5, AsidePasses DEF Aside
  <2>8. Advances(y, Client, server) BY <1>9, <2>6, AdvancesTwice
  <2>9. ~server[j].journal \/ Sure(y, server[j], j)
    <3>1. server[j].journal \in BOOLEAN BY <1>3, <1>6 DEF Runs
    <3> QED BY <2>3, <2>6, <3>1
  <2> QED BY <1>5, <1>7, <2>2, <2>7, <2>8, <2>9, PassSure
<1> QED BY <1>2, <1>14, <1>15

(* A frame is taken off the wire. *)
LEMMA TakenLog ==
  ASSUME NEW S, NEW w \in Seq(S), w # <<>>, NEW j, NEW n, LogComes(w, j, n)
  PROVE  \/ LogComes(Tail(w), j, n)
         \/ Head(w).job = j /\ Head(w).kind = "log" /\ Head(w).arg = n
<1> DEFINE v == Tail(w)
           f == Head(w)
<1>1. /\ Len(w) \in Nat /\ Len(v) = Len(w) - 1 /\ f = w[1]
      /\ \A i \in 1..Len(v) : v[i] = w[i + 1]
  OBVIOUS
<1> HIDE DEF v, f
<1>2. PICK i \in 1..Len(w) : w[i].job = j /\ w[i].kind = "log" /\ w[i].arg = n BY DEF LogComes
<1>3. CASE i = 1 BY <1>1, <1>2, <1>3 DEF v, f
<1>4. CASE i # 1
  <2>1. i - 1 \in 1..Len(v) /\ v[i - 1] = w[i]
    <3>1. i - 1 \in 1..Len(v) /\ (i - 1) + 1 = i BY <1>1, <1>4
    <3> QED BY <1>1, <3>1
  <2>2. LogComes(v, j, n) BY <1>2, <2>1 DEF LogComes
  <2> QED BY <2>2 DEF v
<1> QED BY <1>3, <1>4

(* A frame arrives: a log record in it is told. *)
LEMMA DeliverSure ==
  ASSUME IInv, IInv', QInv, LInv, Deliver
  PROVE  LInv'
<1> DEFINE n == [conn EXCEPT !.wire = Tail(@)]
           c == [Client EXCEPT !.conn = n]
           f == Head(conn.wire)
           a == NoteLiveJobEvent(c, f)
           b == EmitRaw(a, f)
           e == Ask(b, "hydrate", f.job, 0)
           d == IF f.kind = "completed" THEN e ELSE b
           v == Tail(conn.wire)
<1>1. /\ Client \in Clients(Verdicts) /\ Client.conn = conn /\ Client.store = store
      /\ Client.http = http /\ Client.track = track /\ conn \in Conns(Verdicts)
  BY Holds
<1>2. conn.wire \in Seq(Messages(Verdicts)) /\ conn.wire # <<>> BY <1>1 DEF Conns, Deliver
<1>3. f \in Messages(Verdicts) /\ v \in Seq(Messages(Verdicts))
  <2> DEFINE M == Messages(Verdicts)
             w == conn.wire
  <2>1. w \in Seq(M) /\ w # <<>> BY <1>2
  <2> HIDE DEF M, w
  <2>2. Head(w) \in M /\ Tail(w) \in Seq(M) BY <2>1
  <2> QED BY <2>2 DEF M, w
<1>4. /\ n \in Conns(Verdicts) /\ n.wire = v /\ n.up = conn.up /\ n.passes = conn.passes
      /\ n.holes = conn.holes /\ n.cursor = conn.cursor
  <2> DEFINE W == Seq(Messages(Verdicts))
  <2>1. v \in W BY <1>3
  <2>2. n = [conn EXCEPT !.wire = v] OBVIOUS
  <2> HIDE DEF n, v
  <2> QED BY <1>1, <2>1, <2>2 DEF Conns
<1>5. Becomes(d) /\ server' = server
  <2>1. [Client EXCEPT !.conn.wire = Tail(@)] = c BY Zenon, <1>1
  <2>2. Becomes(Ingest(c, f)) /\ server' = server
    <3> HIDE DEF c
    <3> QED BY <2>1 DEF Deliver
  <2>3. Ingest(c, f) = d BY Zenon DEF Ingest, Noticed
  <2> HIDE DEF d
  <2> QED BY <2>2, <2>3
<1>6. /\ Aside(c, Client, Verdicts) /\ c.store = store /\ c.http = http /\ c.conn = n
  <2> HIDE DEF n, f, v
  <2> QED BY <1>1, <1>4, ConnTurn
<1>7. \A j, k : LogComes(conn.wire, j, k) =>
        LogComes(v, j, k) \/ (f.job = j /\ f.kind = "log" /\ f.arg = k)
  BY <1>2, TakenLog
<1>8. f.job \in Jobs BY <1>3 DEF Messages
<1> HIDE DEF n, f, c, v
<1>9. c \in Clients(Verdicts) BY <1>6 DEF Aside
<1>10. Aside(a, c, Verdicts) /\ Calm(a, c) /\ Retains(a, c)
  BY <1>3, <1>9, NoteTurn, RetainsTwice
<1> HIDE DEF a
<1>11. a \in Clients(Verdicts) BY <1>10 DEF Aside
<1>12. Tidy(a.store, f.job)
  <2>1. Behind(store, conn, server[f.job], f.job) BY <1>8 DEF QInv, AllBehind
  <2>2. Tidy(c.store, f.job) BY <1>6, <2>1 DEF Tidy, Behind
  <2> QED BY <1>10, <2>2, CalmTwice
<1>13. /\ Aside(b, a, Verdicts) /\ Retains(b, a)
       /\ f.kind = "log" => Got(b.store, f.job, f.arg)
  BY <1>3, <1>11, <1>12, EmitRawTurn, EmitRawRetains DEF Minds
<1> HIDE DEF b
<1>14. b \in Clients(Verdicts) BY <1>13 DEF Aside
<1>15. Aside(e, b, Verdicts) /\ e.store = b.store /\ e.conn = b.conn /\ Beside(e, b)
  BY <1>8, <1>14, AskTurn
<1> HIDE DEF e
<1>16. Aside(d, b, Verdicts) /\ d.store = b.store /\ Retains(d, b)
  <2>1. Retains(e, b) BY <1>15 DEF Retains
  <2> QED BY <1>14, <1>15, <2>1, AsideStays, RetainsTwice
<1> HIDE DEF d
<1>17. Retains(d, c) BY <1>10, <1>13, <1>16, RetainsTwice
<1>18. Retains(d, Client)
  <2>1. Beside(d, Client) /\ d.conn.up = Client.conn.up
    BY <1>1, <1>4, <1>6, <1>17 DEF Retains, Beside
  <2>2. \A j, k : Got(Client.store, j, k) => Got(d.store, j, k)
    BY <1>1, <1>6, <1>17 DEF Retains
  <2>3. \A j, k : LogComes(v, j, k) => LogComes(d.conn.wire, j, k) \/ Got(d.store, j, k)
    BY <1>4, <1>6, <1>17 DEF Retains
  <2>4. \A j, k : LogComes(conn.wire, j, k) => LogComes(d.conn.wire, j, k) \/ Got(d.store, j, k)
    BY <1>7, <1>13, <1>16, <2>3
  <2> QED BY <1>1, <2>1, <2>2, <2>4 DEF Retains
<1>19. d.track = track /\ \A r \in d.http : r.kind = "reconcile" => r \in http
  BY <1>1, <1>6, <1>10, <1>13, <1>16 DEF Aside
<1>20. Advances(d, Client, server) BY <1>18, RetainsAdvances
<1> QED BY <1>5, <1>19, <1>20, TurnSure

(* The socket is up again: a backfill under way may have left holes, and
   nothing is promised of the others before their pass. *)
LEMMA ReconnectedSure ==
  ASSUME IInv, IInv', LInv, Reconnected
  PROVE  LInv'
<1> DEFINE n == [conn EXCEPT !.up = TRUE, !.holes = conn.holes \union conn.passes]
           c == [Client EXCEPT !.conn = n]
           d == Reconcile(c)
           S == server
<1>1. /\ Client \in Clients(Verdicts) /\ Client.conn = conn /\ Client.store = store
      /\ Client.http = http /\ Client.track = track /\ Passing(Client) /\ conn \in Conns(Verdicts)
  BY Holds
<1>2. /\ n \in Conns(Verdicts) /\ n.up = TRUE /\ n.passes = conn.passes
      /\ n.holes = conn.holes \union conn.passes /\ n.cursor = conn.cursor
  BY <1>1 DEF Conns
<1>3. Becomes(d) /\ server' = server
  <2>1. [Client EXCEPT !.conn.up = TRUE, !.conn.holes = @ \union conn.passes] = c
    BY <1>1 DEF Client
  <2> HIDE DEF c
  <2> QED BY <2>1 DEF Reconnected
<1> HIDE DEF n
<1>4. /\ Aside(c, Client, Verdicts) /\ c.store = store /\ c.http = http /\ c.conn = n
  BY <1>1, <1>2, ConnTurn
<1> HIDE DEF c
<1>5. c \in Clients(Verdicts) BY <1>4 DEF Aside
<1>6. Passing(c) BY <1>1, <1>4, AsidePasses
<1>7. /\ d \in Clients(Verdicts) /\ d.store = c.store /\ d.conn = c.conn /\ c.http \subseteq d.http
      /\ \A r \in d.http \ c.http : r.phase = "sent" /\ r.kind = "reconcile"
      /\ IsCurrent(d) => \A j \in d.track.covered : Awaited(d.track, j)
  BY <1>5, <1>6, ReconcilePaces
<1> HIDE DEF d
<1>8. /\ d.store = store' /\ d.conn = conn' /\ d.track = track' /\ d.http = http'
  BY <1>3 DEF Becomes
<1>9. Heeds(c, S)
  <2>1. Heeds(Client, S) BY DEF LInv
  <2>2. \A R, j, m : Read(Client, R, j, m) => Read(c, R, j, m) BY <1>1, <1>4 DEF Read
  <2>3. \A r, R : RightPage(Client, r, R) => RightPage(c, r, R) BY <2>2 DEF RightPage
  <2>4. \A j \in c.conn.passes : Sure(c, S[j], j) BY <1>2, <1>4 DEF Sure
  <2> QED BY <1>1, <1>2, <1>4, <2>1, <2>2, <2>3, <2>4 DEF Heeds
<1>10. Retains(d, c)
  <2>1. \A r : r.kind = "page" => (r \in d.http <=> r \in c.http) BY <1>7
  <2> QED BY <1>7, <2>1 DEF Retains, Beside
<1>11. Heeds(Client', server')
  <2> DEFINE b == Client'
  <2>1. Retains(b, d) BY <1>8, ClientAfter
  <2> HIDE DEF b
  <2>2. Heeds(b, S) BY <1>9, <1>10, <2>1, RetainsTwice, RetainsAdvances DEF Advances
  <2> QED BY <1>3, <2>2 DEF b
<1>12. CoveredSure' BY <1>7, <1>8 DEF CoveredSure, IsCurrent
<1>13. ASSUME NEW r \in http', r.kind = "reconcile", r.body # <<>>
       PROVE  r.body[1].journal = server'[r.job].journal
  <2>1. d.http \in SUBSET Exchanges(Verdicts) BY <1>7, Parts
  <2>2. r.phase # "sent" BY <1>8, <1>13, <2>1 DEF Exchanges
  <2>3. r \in http BY <1>4, <1>7, <1>8, <2>2
  <2> QED BY <1>3, <1>13, <2>3 DEF LInv, JournalsTold
<1>14. JournalsTold' BY <1>13 DEF JournalsTold
<1>15. Numbered' BY <1>3 DEF LInv, Numbered
<1> QED BY <1>11, <1>12, <1>14, <1>15 DEF LInv

(* The stream drops: what was on the wire is lost. *)
LEMMA StreamDropsSure ==
  ASSUME IInv, IInv', LInv, StreamDrops
  PROVE  LInv'
<1> DEFINE d == [Client EXCEPT !.conn = conn']
           S == server
<1>1. conn' = [conn EXCEPT !.up = FALSE, !.wire = <<>>] /\ UNCHANGED <<store, track, http, server>>
  BY DEF StreamDrops
<1>2. /\ Client \in Clients(Verdicts) /\ Client.conn = conn /\ Client.store = store
      /\ Client.http = http /\ conn \in Conns(Verdicts)
  BY Holds
<1>3. conn'.up = FALSE /\ conn'.passes = conn.passes /\ conn'.cursor = conn.cursor
  BY <1>1, <1>2 DEF Conns
<1>4. d.store = store /\ d.conn = conn' /\ d.http = http BY DEF Client
<1> HIDE DEF d
<1>5. \A j, R : Sure(d, R, j) BY <1>3, <1>4 DEF Sure
<1>6. ASSUME Heeds(Client, S) PROVE Heeds(d, S)
  <2>1. \A R, j, m : Read(Client, R, j, m) => Read(d, R, j, m) BY <1>2, <1>4 DEF Read
  <2>2. \A r, R : RightPage(Client, r, R) => RightPage(d, r, R) BY <2>1 DEF RightPage
  <2> QED BY <1>2, <1>3, <1>4, <1>5, <1>6, <2>1, <2>2 DEF Heeds
<1>7. Advances(d, Client, S) BY <1>5, <1>6 DEF Advances
<1>8. ASSUME NEW j \in Jobs PROVE Grows(server'[j], S[j], d, j)
  <2>1. server \in [Jobs -> Runs] BY Holds
  <2>2. server[j].seq \in Nat BY <2>1 DEF Runs
  <2> QED BY <1>1, <2>2 DEF Grows
<1> QED BY <1>1, <1>4, <1>7, <1>8, StepSure

(* A store that has what it had. *)
LEMMA GotSure ==
  ASSUME IInv, IInv', LInv, \A j, n : Got(store, j, n) => Got(store', j, n),
         UNCHANGED <<conn, track, http, server>>
  PROVE  LInv'
<1> DEFINE d == [store |-> store', conn |-> conn', http |-> http']
<1>1. d.store = store' /\ d.conn = conn' /\ d.http = http' OBVIOUS
<1>2. Client.store = store /\ Client.conn = conn /\ Client.http = http BY Holds
<1> HIDE DEF d
<1>3. Retains(d, Client) BY <1>1, <1>2 DEF Retains, Beside
<1>4. Advances(d, Client, server) BY <1>3, RetainsAdvances
<1>5. ASSUME NEW j \in Jobs PROVE Grows(server'[j], server[j], d, j)
  <2>1. server \in [Jobs -> Runs] BY Holds
  <2>2. server[j].seq \in Nat BY <2>1 DEF Runs
  <2> QED BY <2>2 DEF Grows
<1> QED BY <1>1, <1>4, <1>5, StepSure

(* The user looks, or not, or at what was saved. *)
LEMMA ViewSure ==
  ASSUME IInv, IInv', LInv, OpenView \/ CloseView \/ RestoreResult
  PROVE  LInv'
<1>1. Sound(store, Verdicts) /\ server \in [Jobs -> Runs] /\ Known(store) \subseteq Jobs
  BY Holds, EntryType DEF Sound, Formed
<1>2. CASE OpenView
  <2>1. PICK j \in Known(store) : store' = Retain(store, j) BY <1>2 DEF OpenView
  <2>2. Spares(store', store) BY <1>1, <2>1, RetainKeeps
  <2>3. UNCHANGED <<conn, track, http, server>> BY <1>2 DEF OpenView
  <2>4. \A k, n : Got(store, k, n) => Got(store', k, n)
    <3> DEFINE u == store'
    <3> HIDE DEF u
    <3>1. Spares(u, store) BY <2>2 DEF u
    <3>2. \A k, n : Got(store, k, n) => Got(u, k, n) BY <3>1, GotStays
    <3> QED BY <3>2 DEF u
  <2> QED BY <2>3, <2>4, GotSure
<1>3. CASE CloseView
  <2>1. PICK j \in Jobs : store' = Release(store, j) BY <1>3 DEF CloseView
  <2>2. Spares(store', store) BY <1>1, <2>1, ReleaseKeeps
  <2>3. UNCHANGED <<conn, track, http, server>> BY <1>3 DEF CloseView
  <2>4. \A k, n : Got(store, k, n) => Got(store', k, n)
    <3> DEFINE u == store'
    <3> HIDE DEF u
    <3>1. Spares(u, store) BY <2>2 DEF u
    <3>2. \A k, n : Got(store, k, n) => Got(u, k, n) BY <3>1, GotStays
    <3> QED BY <3>2 DEF u
  <2> QED BY <2>3, <2>4, GotSure
<1>4. CASE RestoreResult
  <2>1. PICK j \in Jobs \ Known(store) :
          /\ server[j].state = "completed"
          /\ store' = RestoreCompleted(store, j, server[j].node, NoTime)
    BY <1>4 DEF RestoreResult
  <2>2. UNCHANGED <<conn, track, http, server>> BY <1>4 DEF RestoreResult
  <2> DEFINE u == RestoreCompleted(store, j, server[j].node, NoTime)
  <2>3. <<j, "completed">> \in Verdicts
    <3>1. "completed" \in Ended /\ Shown["completed"] = "completed" BY DEF Ended, Shown
    <3> QED BY <2>1, <3>1 DEF Verdicts
  <2>4. server[j].node \in Nodes BY <1>1 DEF Runs
  <2>5. NoTime \in Nat BY DEF NoTime
  <2>6. Shows(u, store, j, server[j].node) BY <1>1, <2>1, <2>3, <2>4, <2>5, RestoreKeeps
  <2>7. store' = u BY <2>1
  <2> HIDE DEF u
  <2>8. \A k, n : Got(store, k, n) => Got(u, k, n) BY <2>6, GotStays
  <2> QED BY <2>2, <2>7, <2>8, GotSure
<1> QED BY <1>2, <1>3, <1>4

(* Two records of a run that have the same log. *)
SameLog(Q, R) ==
  Q.seq = R.seq /\ Q.logs = R.logs /\ Q.shed = R.shed /\ Q.journal = R.journal

(* The server goes on with one job and tells nobody: its journal stays, and
   so do its log records, but that it may have one that is shed. *)
LEMMA UntoldSure ==
  ASSUME IInv, IInv', LInv, NEW j \in Jobs, NEW R, server' = [server EXCEPT ![j] = R],
         \/ SameLog(R, server[j])
         \/ /\ R.seq = server[j].seq + 1 /\ R.journal = server[j].journal
            /\ R.logs = server[j].logs \union {R.seq} /\ R.shed = server[j].shed \union {R.seq},
         UNCHANGED <<store, conn, track>>,
         \A r : r.kind \in {"reconcile", "page"} => (r \in http' <=> r \in http)
  PROVE  LInv'
<1> DEFINE d == [store |-> store', conn |-> conn', http |-> http']
<1>1. d.store = store' /\ d.conn = conn' /\ d.http = http' OBVIOUS
<1>2. Client.store = store /\ Client.conn = conn /\ Client.http = http
      /\ server \in [Jobs -> Runs]
  BY Holds
<1> HIDE DEF d
<1>3. Retains(d, Client) BY <1>1, <1>2 DEF Retains, Beside
<1>4. Advances(d, Client, server) BY <1>3, RetainsAdvances
<1>5. ASSUME NEW k \in Jobs PROVE Grows(server'[k], server[k], d, k)
  <2>1. server[k].seq \in Nat BY <1>2 DEF Runs
  <2>2. server'[k] = IF k = j THEN R ELSE server[k] BY <1>2
  <2>3. Grows(server[k], server[k], d, k) BY <2>1 DEF Grows
  <2>4. k = j => Grows(R, server[k], d, k) BY <2>1 DEF Grows, SameLog
  <2> QED BY <2>2, <2>3, <2>4
<1>6. \A r \in http' : r.kind = "reconcile" => r \in http OBVIOUS
<1> QED BY <1>1, <1>4, <1>5, <1>6, StepSure

(* A job is submitted, taken in, forgotten or had again, or its record is
   shed. *)
LEMMA AdmissionSure ==
  ASSUME IInv, IInv', LInv, Submit \/ ServeSubmit \/ Forget \/ Restore \/ LogIsShed
  PROVE  LInv'
<1>1. server \in [Jobs -> Runs] /\ http \in SUBSET Exchanges(Verdicts) BY Holds
<1>2. CASE Submit
  <2>1. PICK j \in Own :
          /\ server' = [server EXCEPT ![j].state = "none"]
          /\ http' = Ask(Client, "submit", j, 0).http
    BY <1>2 DEF Submit
  <2>2. UNCHANGED <<store, conn, track>> BY <1>2 DEF Submit
  <2>3. j \in Jobs BY ExecutionAssumption
  <2> DEFINE R == [server[j] EXCEPT !.state = "none"]
             q == [kind |-> "submit", job |-> j, arg |-> 0, phase |-> "sent", body |-> <<>>]
  <2>4. SameLog(R, server[j]) BY <1>1, <2>3 DEF Runs, SameLog
  <2>5. server' = [server EXCEPT ![j] = R] BY <2>1
  <2>6. http' = http \union {q}
    <3>1. Client.http = http BY DEF Client
    <3>2. [Client EXCEPT !.http = @ \union {q}].http = Client.http \union {q} BY DEF Client
    <3>3. Ask(Client, "submit", j, 0) = [Client EXCEPT !.http = @ \union {q}] BY DEF Ask
    <3> HIDE DEF q
    <3> QED BY <2>1, <3>1, <3>2, <3>3
  <2>7. q.kind = "submit" OBVIOUS
  <2> HIDE DEF R, q
  <2>8. \A r : r.kind \in {"reconcile", "page"} => (r \in http' <=> r \in http) BY <2>6, <2>7
  <2> QED BY <2>2, <2>3, <2>4, <2>5, <2>8, UntoldSure
<1>3. CASE ServeSubmit
  <2>1. PICK r \in http :
          /\ r.kind = "submit"
          /\ server' = [server EXCEPT ![r.job].state = "queued", ![r.job].known = TRUE]
          /\ http' = (http \ {r}) \union {[r EXCEPT !.phase = "served"]}
    BY <1>3 DEF ServeSubmit
  <2>2. UNCHANGED <<store, conn, track>> BY <1>3 DEF ServeSubmit
  <2> DEFINE j == r.job
             R == [server[j] EXCEPT !.state = "queued", !.known = TRUE]
             q == [r EXCEPT !.phase = "served"]
  <2>3. r \in Exchanges(Verdicts) /\ j \in Jobs /\ q.kind = "submit"
    BY <1>1, <2>1 DEF Exchanges
  <2>4. SameLog(R, server[j]) BY <1>1, <2>3 DEF Runs, SameLog
  <2>5. server' = [server EXCEPT ![j] = R]
    <3>1. server[j] \in Runs BY <1>1, <2>3
    <3>2. [server EXCEPT ![j].state = "queued", ![j].known = TRUE] = [server EXCEPT ![j] = R]
      <4> HIDE DEF j
      <4> QED BY <1>1, <3>1
    <3> QED BY <2>1, <3>2
  <2>6. http' = (http \ {r}) \union {q} BY <2>1
  <2> HIDE DEF R, q, j
  <2>7. \A x : x.kind \in {"reconcile", "page"} => (x \in http' <=> x \in http)
    BY <2>1, <2>3, <2>6
  <2> QED BY <2>2, <2>3, <2>4, <2>5, <2>7, UntoldSure
<1>4. CASE Forget \/ Restore
  <2>1. PICK j \in Jobs, b \in BOOLEAN : server' = [server EXCEPT ![j].known = b]
    BY <1>4 DEF Forget, Restore
  <2>2. UNCHANGED <<store, conn, track, http>> BY <1>4 DEF Forget, Restore
  <2> DEFINE R == [server[j] EXCEPT !.known = b]
  <2>3. SameLog(R, server[j]) BY <1>1 DEF Runs, SameLog
  <2>4. server' = [server EXCEPT ![j] = R] BY <2>1
  <2> HIDE DEF R
  <2> QED BY <2>2, <2>3, <2>4, UntoldSure
<1>5. CASE LogIsShed
  <2>1. PICK j \in Jobs :
          LET n == server[j].seq + 1
          IN  server' = [server EXCEPT ![j].seq = n, ![j].logs = @ \union {n},
                                       ![j].shed = @ \union {n}]
    BY <1>5 DEF LogIsShed
  <2>2. UNCHANGED <<store, conn, track, http>> BY <1>5 DEF LogIsShed
  <2> DEFINE n == server[j].seq + 1
             R == [server[j] EXCEPT !.seq = n, !.logs = @ \union {n}, !.shed = @ \union {n}]
  <2>3. /\ R.seq = n /\ R.journal = server[j].journal
        /\ R.logs = server[j].logs \union {R.seq} /\ R.shed = server[j].shed \union {R.seq}
    <3> HIDE DEF n
    <3> QED BY <1>1 DEF Runs
  <2>4. server' = [server EXCEPT ![j] = R] BY <1>1, <2>1
  <2> HIDE DEF R
  <2> QED BY <2>2, <2>3, <2>4, UntoldSure
<1> QED BY <1>2, <1>3, <1>4, <1>5

(* An exchange goes on: a page that will bring a record still will. *)
LEMMA ExchangeSure ==
  ASSUME IInv, IInv', LInv, NEW r \in http, NEW q, q.kind = r.kind, q.arg = r.arg, q.job = r.job,
         http' = (http \ {r}) \union {q}, UNCHANGED <<store, conn, track, server>>,
         r.kind = "page" =>
           /\ q.body # <<>> => Turned(q, server[r.job])
           /\ \A n \in server[r.job].logs : Reaches(r, r.job, n) => Reaches(q, r.job, n),
         r.kind = "reconcile" =>
           q.body = <<>> \/ q.body[1].journal = server[r.job].journal
  PROVE  LInv'
<1> DEFINE d == [store |-> store', conn |-> conn', http |-> http']
           S == server
<1>1. d.store = store /\ d.conn = conn /\ d.http = http' OBVIOUS
<1>2. Client.store = store /\ Client.conn = conn /\ Client.http = http
      /\ server \in [Jobs -> Runs] /\ conn \in Conns(Verdicts)
  BY Holds
<1> HIDE DEF d
<1>3. \A R, j, m : Read(Client, R, j, m) <=> Read(d, R, j, m) BY <1>1, <1>2 DEF Read
<1>4. ASSUME NEW j \in Jobs, Sure(Client, S[j], j) PROVE Sure(d, S[j], j)
  <2> SUFFICES ASSUME Tracked(Client, S[j], j) PROVE Tracked(d, S[j], j)
    BY <1>1, <1>2, <1>4 DEF Sure
  <2> SUFFICES ASSUME NEW n \in S[j].logs \ S[j].shed
               PROVE  \/ Got(d.store, j, n) \/ LogComes(d.conn.wire, j, n)
                      \/ \E x \in d.http : Reaches(x, j, n)
    BY DEF Tracked
  <2>1. CASE Got(Client.store, j, n) \/ LogComes(Client.conn.wire, j, n) BY <1>1, <1>2, <2>1
  <2>2. CASE \E x \in Client.http : Reaches(x, j, n)
    <3>1. PICK x \in http : Reaches(x, j, n) BY <1>2, <2>2
    <3>2. CASE x # r BY <1>1, <3>1, <3>2
    <3>3. CASE x = r
      <4>1. r.kind = "page" /\ r.job = j BY <3>1, <3>3 DEF Reaches
      <4>2. Reaches(q, j, n) BY <3>1, <3>3, <4>1
      <4> QED BY <1>1, <4>2
    <3> QED BY <3>2, <3>3
  <2> QED BY <2>1, <2>2 DEF Tracked
<1>5. Heeds(Client, S) BY DEF LInv
<1>6. Heeds(d, S)
  <2>1. \A j \in Jobs : Read(d, S[j], j, d.conn.cursor[j]) BY <1>1, <1>2, <1>3, <1>5 DEF Heeds
  <2>2. \A j \in d.conn.passes : Sure(d, S[j], j)
    <3>1. conn.passes \subseteq Jobs BY <1>2 DEF Conns
    <3> QED BY <1>1, <1>2, <1>4, <1>5, <3>1 DEF Heeds
  <2>3. ASSUME NEW x \in d.http, x.kind = "page" PROVE RightPage(d, x, S[x.job])
    <3>1. CASE x \in http
      <4>1. RightPage(Client, x, S[x.job]) BY <1>2, <1>5, <2>3, <3>1 DEF Heeds
      <4> QED BY <1>3, <4>1 DEF RightPage
    <3>2. CASE x = q
      <4>1. RightPage(Client, r, S[r.job]) BY <1>2, <1>5, <2>3, <3>2 DEF Heeds
      <4> DEFINE R == S[r.job]
      <4>2. RightPage(Client, r, R) /\ S[q.job] = R /\ (q.body # <<>> => Turned(q, R))
        BY <2>3, <3>2, <4>1
      <4> HIDE DEF R
      <4>3. RightPage(d, q, R) BY <1>3, <4>2 DEF RightPage
      <4> QED BY <3>2, <4>2, <4>3
    <3> QED BY <1>1, <2>3, <3>1, <3>2
  <2> QED BY <2>1, <2>2, <2>3 DEF Heeds
<1>7. Advances(d, Client, S) BY <1>4, <1>6 DEF Advances
<1>8. ASSUME NEW j \in Jobs PROVE Grows(server'[j], S[j], d, j)
  <2>1. server[j].seq \in Nat BY <1>2 DEF Runs
  <2> QED BY <2>1 DEF Grows
<1>9. \A x \in http' : x.kind = "reconcile" /\ x.body # <<>> =>
        x \in http \/ x.body[1].journal = S[x.job].journal
  OBVIOUS
<1> QED BY <1>1, <1>7, <1>8, <1>9, StepSure

(* A record or a page is read. *)
LEMMA ServeReadSure ==
  ASSUME IInv, IInv', LInv, ServeRead
  PROVE  LInv'
<1>1. PICK r \in http :
        /\ r.kind \in {"reconcile", "page"} /\ r.phase = "sent"
        /\ http' = (http \ {r}) \union
             {[r EXCEPT !.phase = "served",
                        !.body = IF r.kind = "page" THEN Page(r.job, r.arg.after)
                                 ELSE Record(r.job)]}
  BY DEF ServeRead
<1>2. UNCHANGED <<store, conn, track, server>> BY DEF ServeRead
<1> DEFINE b == IF r.kind = "page" THEN Page(r.job, r.arg.after) ELSE Record(r.job)
           q == [r EXCEPT !.phase = "served", !.body = b]
           R == server[r.job]
           e == [state |-> R.state, node |-> R.node, journal |-> R.journal]
<1>3. r \in Exchanges(Verdicts) /\ Client.http = http /\ server \in [Jobs -> Runs] BY Holds
<1>4. /\ q.kind = r.kind /\ q.job = r.job /\ q.arg = r.arg /\ q.body = b /\ q.phase = "served"
      /\ r.job \in Jobs
  BY <1>3 DEF Exchanges
<1>5. http' = (http \ {r}) \union {q} BY <1>1
<1>6. r.kind = "reconcile" => b = <<e>> \/ b = <<>> BY DEF Record
<1>7. e.journal = R.journal OBVIOUS
<1>8. r.kind = "page" => b = Page(r.job, r.arg.after) OBVIOUS
<1> HIDE DEF q, b, e
<1>9. r.kind = "reconcile" => q.body = <<>> \/ q.body[1].journal = server[r.job].journal
  BY <1>4, <1>6, <1>7
<1>10. ASSUME r.kind = "page"
       PROVE  /\ q.body # <<>> => Turned(q, server[r.job])
              /\ \A n \in server[r.job].logs : Reaches(r, r.job, n) => Reaches(q, r.job, n)
  <2> DEFINE a == r.arg.after
             s == R.seq
             l == R.logs
             upto == IF a + PageLimit < s THEN a + PageLimit ELSE s
             page == [upto |-> upto, latest |-> s, logs |-> {n \in l : a < n /\ n <= upto}]
  <2>1. RightPage(Client, r, R) /\ R.logs \subseteq 1..R.seq
    BY <1>3, <1>4, <1>10 DEF LInv, Heeds, Numbered
  <2>2. a \in Nat /\ s \in Nat /\ PageLimit \in Nat /\ PageLimit >= 1 /\ a <= s
    <3>1. r.arg \in Spans BY <1>3, <1>10 DEF Exchanges
    <3>2. R \in Runs BY <1>3, <1>4
    <3> QED BY <2>1, <3>1, <3>2, ExecutionAssumption DEF Spans, Runs, RightPage, Read
  <2>3. q.body # <<>> => q.body = <<page>> BY <1>4, <1>8, <1>10 DEF Page
  <2>4. page.upto = upto /\ page.latest = s /\ page.logs = {n \in l : a < n /\ n <= upto}
    OBVIOUS
  <2>5. a <= upto /\ upto <= s /\ (upto = a + PageLimit \/ upto = s) BY <2>2
  <2>6. q.arg.after = a BY <1>4
  <2> HIDE DEF a, s, upto, page, l, R
  <2>7. q.body # <<>> => Turned(q, R)
    <3> SUFFICES ASSUME q.body # <<>> PROVE Turned(q, R) OBVIOUS
    <3>1. q.body[1] = page BY <2>3
    <3>2. R.logs = l /\ R.seq = s BY DEF l, s
    <3>3. s <= s BY <2>2
    <3> QED BY <2>4, <2>5, <2>6, <3>1, <3>2, <3>3 DEF Turned
  <2>8. ASSUME NEW n \in R.logs, Reaches(r, r.job, n) PROVE Reaches(q, r.job, n)
    <3>1. a < n BY <1>1, <2>8 DEF Reaches, a
    <3>2. n <= s BY <2>1, <2>2, <2>8 DEF s
    <3>3. q.body # <<>> => n <= q.body[1].latest BY <2>3, <2>4, <3>2
    <3> QED BY <1>4, <1>10, <2>6, <3>1, <3>3 DEF Reaches
  <2> QED BY <2>7, <2>8 DEF R
<1> QED BY <1>2, <1>4, <1>5, <1>9, <1>10, ExchangeSure

(* An exchange fails: a backfill will break off. *)
LEMMA ExchangeFailsSure ==
  ASSUME IInv, IInv', LInv, ExchangeFails
  PROVE  LInv'
<1>1. PICK r \in http :
        http' = (http \ {r}) \union {[r EXCEPT !.phase = "failed", !.body = <<>>]}
  BY DEF ExchangeFails
<1>2. UNCHANGED <<store, conn, track, server>> BY DEF ExchangeFails
<1> DEFINE q == [r EXCEPT !.phase = "failed", !.body = <<>>]
<1>3. /\ q.kind = r.kind /\ q.job = r.job /\ q.arg = r.arg /\ q.body = <<>>
      /\ q.phase = "failed"
  <2>1. r \in Exchanges(Verdicts) BY Holds
  <2> QED BY <2>1 DEF Exchanges
<1>4. http' = (http \ {r}) \union {q} BY <1>1
<1> HIDE DEF q
<1>5. \A n : Reaches(r, r.job, n) => Reaches(q, r.job, n) BY <1>3 DEF Reaches
<1> QED BY <1>2, <1>3, <1>4, <1>5, ExchangeSure

(* A wire with frames at its end. *)
LEMMA AppendedLog ==
  ASSUME NEW S, NEW w \in Seq(S), NEW v \in Seq(S), NEW j, NEW n,
         LogComes(w, j, n) \/ LogComes(v, j, n)
  PROVE  LogComes(w \o v, j, n)
<1> DEFINE x == w \o v
<1>1. /\ Len(w) \in Nat /\ Len(v) \in Nat /\ Len(x) = Len(w) + Len(v)
      /\ \A i \in 1..Len(x) : x[i] = IF i <= Len(w) THEN w[i] ELSE v[i - Len(w)]
  OBVIOUS
<1> HIDE DEF x
<1>2. /\ \A i \in 1..Len(w) : i \in 1..Len(x) /\ x[i] = w[i]
      /\ \A i \in 1..Len(v) : i + Len(w) \in 1..Len(x) /\ x[i + Len(w)] = v[i]
  BY <1>1
<1>3. LogComes(x, j, n) BY <1>2 DEF LogComes
<1> QED BY <1>3 DEF x

(* The server goes on with a run: its log grows, and who is connected will
   be told. *)
LEMMA PublishSure ==
  ASSUME IInv, IInv', LInv, NEW j \in Jobs, NEW fs, NEW m \in Nat, DOMAIN fs = 1..m, Len(fs) = m,
         NEW R \in Runs, SameLog(R, server[j]), Publish(j, fs, R)
  PROVE  LInv'
<1> DEFINE n == server[j].seq
           S(i) == [job |-> j, kind |-> fs[i].kind, seq |-> n + i,
                    arg |-> IF fs[i].kind = "log" THEN n + i ELSE fs[i].arg]
           v == [i \in 1..m |-> S(i)]
           logged == {n + i : i \in {k \in DOMAIN fs : fs[k].kind = "log"}}
           Q == [R EXCEPT !.seq = n + Len(fs), !.logs = @ \union logged]
           w == conn.wire
           x == w \o v
           M == Messages(Verdicts) \cup {S(i) : i \in 1..m}
           O == server[j]
           d == [store |-> store', conn |-> conn', http |-> http']
<1>1. /\ server' = [server EXCEPT ![j] = Q]
      /\ conn' = IF conn.up THEN [conn EXCEPT !.wire = x] ELSE conn
      /\ UNCHANGED <<store, track, http>>
  <2>1. conn' = IF conn.up THEN [conn EXCEPT !.wire = @ \o v] ELSE conn
    <3> HIDE DEF n
    <3> QED BY DEF Publish, n
  <2>2. server' = [server EXCEPT ![j] = Q]
    <3> HIDE DEF logged
    <3> QED BY DEF Publish, logged
  <2>3. UNCHANGED <<store, track, http>> BY DEF Publish
  <2> HIDE DEF v, Q
  <2> QED BY <2>1, <2>2, <2>3
<1>2. /\ server \in [Jobs -> Runs] /\ conn \in Conns(Verdicts)
      /\ Client.store = store /\ Client.conn = conn /\ Client.http = http
  BY Holds
<1>3. /\ Q.seq = n + m /\ Q.logs = R.logs \union logged /\ Q.shed = R.shed
      /\ Q.journal = R.journal
  <2> HIDE DEF logged, n
  <2> QED BY DEF Runs
<1>4. server'[j] = Q /\ \A k \in Jobs : k # j => server'[k] = server[k] BY <1>1, <1>2
<1>5. /\ w \in Seq(M) /\ v \in Seq(M) /\ Len(v) = m
      /\ \A i \in 1..m : /\ v[i].job = j /\ v[i].kind = fs[i].kind
                         /\ v[i].kind = "log" => v[i].arg = n + i
  <2>1. w \in Seq(Messages(Verdicts)) BY <1>2 DEF Conns
  <2>2. \A i \in 1..m : S(i) \in M OBVIOUS
  <2>3. \A i \in 1..m : /\ S(i).job = j /\ S(i).kind = fs[i].kind
                        /\ S(i).kind = "log" => S(i).arg = n + i
    OBVIOUS
  <2> DEFINE A == Messages(Verdicts)
  <2>4. A \subseteq M OBVIOUS
  <2> HIDE DEF S, A, M, w, n
  <2>5. w \in Seq(M) BY <2>1, <2>4 DEF A
  <2> QED BY <2>2, <2>3, <2>5
<1>6. n \in Nat /\ O.seq = n /\ SameLog(R, O) BY <1>2 DEF Runs
<1>7. d.store = store' /\ d.conn = conn' /\ d.http = http' OBVIOUS
<1>8. \A a \in logged : \E i \in 1..m : a = n + i /\ fs[i].kind = "log" OBVIOUS
<1> HIDE DEF S, v, Q, M, w, O, d, logged, n
<1>9. \A k, a : LogComes(w, k, a) \/ LogComes(v, k, a) => LogComes(x, k, a)
  BY <1>5, AppendedLog
<1> HIDE DEF x
<1>10. /\ conn'.up = conn.up /\ conn'.passes = conn.passes /\ conn'.holes = conn.holes
       /\ conn'.cursor = conn.cursor
       /\ conn'.wire = IF conn.up THEN x ELSE conn.wire
  BY <1>1, <1>2 DEF Conns
<1>11. Retains(d, Client)
  <2>1. Beside(d, Client) /\ d.conn.up = Client.conn.up BY <1>1, <1>2, <1>7, <1>10 DEF Beside
  <2>2. \A k, a : LogComes(conn.wire, k, a) => LogComes(conn'.wire, k, a)
    BY <1>9, <1>10 DEF w
  <2> QED BY <1>1, <1>2, <1>7, <2>1, <2>2 DEF Retains
<1>12. Advances(d, Client, server) BY <1>11, RetainsAdvances
<1>13. Grows(Q, O, d, j)
  <2>1. /\ O.seq <= Q.seq /\ O.logs \subseteq Q.logs /\ O.shed \subseteq Q.shed
        /\ Q.journal = O.journal
    BY <1>3, <1>6 DEF SameLog
  <2>2. ASSUME NEW a \in Q.logs \ O.logs
        PROVE  O.seq < a /\ a <= Q.seq /\ (d.conn.up => LogComes(d.conn.wire, j, a))
    <3>1. a \in logged BY <1>3, <1>6, <2>2 DEF SameLog
    <3>2. PICK i \in 1..m : a = n + i /\ fs[i].kind = "log" BY <1>8, <3>1
    <3>3. O.seq < a /\ a <= Q.seq BY <1>3, <1>6, <3>2
    <3>4. v[i].job = j /\ v[i].kind = "log" /\ v[i].arg = a /\ i \in 1..Len(v) BY <1>5, <3>2
    <3>5. LogComes(v, j, a) BY <3>4 DEF LogComes
    <3> QED BY <1>7, <1>9, <1>10, <3>3, <3>5
  <2> QED BY <2>1, <2>2 DEF Grows
<1>14. ASSUME NEW k \in Jobs PROVE Grows(server'[k], server[k], d, k)
  <2>1. CASE k = j BY <1>4, <1>13, <2>1 DEF O
  <2>2. CASE k # j
    <3>1. server[k].seq \in Nat BY <1>2 DEF Runs
    <3>2. Grows(server[k], server[k], d, k) BY <3>1 DEF Grows
    <3> QED BY <1>4, <2>2, <3>2
  <2> QED BY <2>1, <2>2
<1> QED BY <1>1, <1>7, <1>12, <1>14, StepSure

(* Every other step of a run tells of it, and keeps its log and its journal. *)
LEMMA RunStepSure ==
  ASSUME IInv, IInv', LInv, RunStep
  PROVE  LInv'
<1>1. server \in [Jobs -> Runs] BY Holds
<1>2. ASSUME NEW j \in Jobs, NEW f, NEW R \in Runs, Publish(j, <<f>>, R), SameLog(R, server[j])
      PROVE  LInv'
  <2> DEFINE fs == <<f>>
  <2>1. 1 \in Nat /\ DOMAIN fs = 1..1 /\ Len(fs) = 1 /\ Publish(j, fs, R) BY <1>2
  <2> HIDE DEF fs
  <2> QED BY <1>2, <2>1, PublishSure
<1>3. ASSUME NEW j \in Jobs, NEW f, NEW g, NEW R \in Runs, Publish(j, <<f, g>>, R),
             SameLog(R, server[j])
      PROVE  LInv'
  <2> DEFINE fs == <<f, g>>
  <2>1. 2 \in Nat /\ DOMAIN fs = 1..2 /\ Len(fs) = 2 /\ Publish(j, fs, R) BY <1>3
  <2> HIDE DEF fs
  <2> QED BY <1>3, <2>1, PublishSure
<1>4. CASE RunStarts \/ RunIsCancelled
  <2>1. PICK j \in Jobs, k \in {"run_started", "cancelled"}, s \in {"running", "cancelled"} :
          Publish(j, <<Frame(k, 0)>>, [server[j] EXCEPT !.state = s])
    BY <1>4 DEF RunStarts, RunIsCancelled
  <2> DEFINE R == [server[j] EXCEPT !.state = s]
  <2>2. R \in Runs /\ SameLog(R, server[j]) BY <1>1 DEF SameLog, Runs, States, Ended
  <2> HIDE DEF R
  <2> QED BY <1>2, <2>1, <2>2 DEF R
<1>5. CASE NodeStarts \/ NodeFinishes \/ NodeRunsAgain
  <2>1. PICK j \in Jobs, s \in {"running", "done"} :
          Publish(j, <<Frame("node", s)>>, [server[j] EXCEPT !.node = s])
    BY <1>5 DEF NodeStarts, NodeFinishes, NodeRunsAgain
  <2> DEFINE R == [server[j] EXCEPT !.node = s]
  <2>2. R \in Runs /\ SameLog(R, server[j]) BY <1>1 DEF SameLog, Runs, Nodes, NodeEnds
  <2> HIDE DEF R
  <2> QED BY <1>2, <2>1, <2>2 DEF R
<1>6. CASE Logs \/ Previews
  <2>1. PICK j \in Jobs, k \in {"log", "preview"}, a \in Slots \cup {Still, 0} :
          Publish(j, <<Frame(k, a)>>, server[j])
    BY <1>6 DEF Logs, Previews
  <2>2. server[j] \in Runs /\ SameLog(server[j], server[j]) BY <1>1 DEF SameLog
  <2> QED BY <1>2, <2>1, <2>2
<1>7. CASE RunSucceeds
  <2>1. PICK j \in Jobs :
          Publish(j, <<Frame("run_finished", 0), Frame("completed", 0)>>,
                  [server[j] EXCEPT !.state = "completed"])
    BY <1>7 DEF RunSucceeds
  <2> DEFINE R == [server[j] EXCEPT !.state = "completed"]
  <2>2. R \in Runs /\ SameLog(R, server[j]) BY <1>1 DEF SameLog, Runs, States, Ended
  <2> HIDE DEF R
  <2> QED BY <1>3, <2>1, <2>2 DEF R
<1>8. CASE RunFails
  <2>1. PICK j \in Jobs :
          Publish(j, (IF server[j].node = "none" THEN <<>> ELSE <<Frame("node", "error")>>)
                       \o <<Frame("failed", 0)>>,
                  [server[j] EXCEPT !.state = "failed", !.node = "error"])
    BY <1>8 DEF RunFails
  <2> DEFINE R == [server[j] EXCEPT !.state = "failed", !.node = "error"]
             f == Frame("node", "error")
             g == Frame("failed", 0)
  <2>2. R \in Runs /\ SameLog(R, server[j])
    BY <1>1 DEF SameLog, Runs, States, Ended, Nodes, NodeEnds
  <2>3. Publish(j, (IF server[j].node = "none" THEN <<>> ELSE <<f>>) \o <<g>>, R) BY <2>1
  <2> HIDE DEF R, f, g
  <2>4. <<>> \o <<g>> = <<g>> OBVIOUS
  <2>5. CASE server[j].node = "none"
    <3>1. Publish(j, <<g>>, R) BY <2>3, <2>4, <2>5
    <3> QED BY <1>2, <2>2, <3>1
  <2>6. CASE server[j].node # "none"
    <3> DEFINE fs == <<f>> \o <<g>>
    <3>1. 2 \in Nat /\ DOMAIN fs = 1..2 /\ Len(fs) = 2 OBVIOUS
    <3>2. Publish(j, fs, R) BY <2>3, <2>6
    <3> HIDE DEF fs
    <3> QED BY <2>2, <3>1, <3>2, PublishSure
  <2> QED BY <2>5, <2>6
<1>9. CASE LogIsShed BY <1>9, AdmissionSure
<1> QED BY <1>4, <1>5, <1>6, <1>7, <1>8, <1>9 DEF RunStep

(* At the start nothing is said, and no pass has heard of a run. *)
LEMMA InitSure == Init => LInv
<1> SUFFICES ASSUME Init PROVE LInv OBVIOUS
<1>1. /\ http = {} /\ track.covered = {} /\ conn.passes = {}
      /\ \A j \in Jobs : conn.cursor[j] = 0
  BY DEF Init
<1>2. \A j \in Jobs : server[j].seq = 0 /\ server[j].logs = {} BY DEF Init
<1>3. Client.conn = conn /\ Client.http = http BY DEF Client
<1>4. \A j \in Jobs : Read(Client, server[j], j, 0) BY <1>2 DEF Read
<1>5. Heeds(Client, server) BY <1>1, <1>3, <1>4 DEF Heeds
<1> QED BY <1>1, <1>2, <1>5 DEF LInv, CoveredSure, Numbered, JournalsTold

(* No step loses a record. *)
LEMMA NextSure ==
  ASSUME IInv, IInv', QInv, LInv, [Next]_vars
  PROVE  LInv'
<1>1. CASE ClientStep
  BY <1>1, DeliverSure, ReconnectedSure, SubmitAnsweredSure, ReconcileAnsweredSure,
     SightAnsweredSure, PageAnsweredSure, HydrateAnsweredSure
  DEF ClientStep
<1>2. CASE UserStep BY <1>2, AdmissionSure, ViewSure DEF UserStep
<1>3. CASE ServerStep BY <1>3, RunStepSure, AdmissionSure, ServeReadSure DEF ServerStep
<1>4. CASE FaultStep BY <1>4, ExchangeFailsSure, StreamDropsSure DEF FaultStep
<1>5. CASE UNCHANGED vars
  <2>1. UNCHANGED <<store, conn, track, http, server>> BY <1>5 DEF vars
  <2>2. \A j, n : Got(store, j, n) => Got(store', j, n) BY <2>1
  <2> QED BY <2>1, <2>2, GotSure
<1> QED BY <1>1, <1>2, <1>3, <1>4, <1>5 DEF Next

(* Once all is quiet after a gap, a run that was open at the start of the
   last pass, whose record the pass could read and which has a journal of
   not too many pages has its log records in the store, those the live
   socket shed before its last backfill included, unless that backfill was
   under way when a gap ended, or broke off
   (dinkster-connection.ts, backfillRunLog; dinkster-reconcile.ts). *)
THEOREM LogsComplete == Spec => []LogsAreComplete
<1>1. IInv /\ LInv => LogsAreComplete
  <2> SUFFICES ASSUME IInv, LInv, Quiet,
                      NEW j \in (track.covered \intersect Known(store)) \ (store.gone \union conn.holes),
                      server[j].journal, server[j].seq <= PageLimit * MaxPages
               PROVE  server[j].logs \subseteq
                        store.map[j].heard \union {n \in server[j].shed : n > conn.cursor[j]}
    BY DEF LogsAreComplete
  <2> DEFINE R == server[j]
  <2>1. /\ Passing(Client) /\ Client.track = track /\ track \in Tracks
        /\ Client.store = store /\ Client.conn = conn /\ Client.http = http
    BY Holds
  <2>2. j \in Jobs /\ track.ran = track.gen /\ ~Awaited(track, j)
    BY <2>1 DEF Passing, Quiet, Awaited, Tracks
  <2>3. Sure(Client, R, j) BY <2>2 DEF LInv, CoveredSure
  <2>4. R.seq <= PageLimit * MaxPages OBVIOUS
  <2> HIDE DEF R
  <2>5. Tracked(Client, R, j) BY <2>1, <2>3, <2>4 DEF Sure, Quiet
  <2>6. \A n : ~LogComes(conn.wire, j, n) BY DEF Quiet, LogComes
  <2>7. \A n \in R.logs \ R.shed : Got(store, j, n) BY <2>1, <2>5, <2>6 DEF Tracked, Quiet
  <2>8. Told(store, j) = store.map[j].heard BY DEF Told
  <2>9. \A n \in R.logs : n <= conn.cursor[j] => Got(store, j, n)
    BY <2>1, <2>2 DEF LInv, Heeds, Read, R
  <2>10. conn.cursor[j] \in Nat /\ R.logs \subseteq Nat
    BY <2>2, Holds DEF Conns, Runs, R
  <2>11. \A n \in R.logs : Got(store, j, n) \/ (n \in R.shed /\ n > conn.cursor[j])
    BY <2>7, <2>9, <2>10
  <2> QED BY <2>8, <2>11 DEF Got, R
<1>2. IInv /\ QInv /\ IInv' /\ LInv /\ [Next]_vars => LInv' BY NextSure
<1>3. IInv /\ QInv /\ [Next]_vars => QInv' BY NextQuiet
<1> QED BY <1>1, <1>2, <1>3, InitSure, InitQuiet, Invariance, PTL DEF Spec
=============================================================================
