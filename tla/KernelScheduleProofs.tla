------------------------- MODULE KernelScheduleProofs -------------------------
(***************************************************************************)
(* The launch of an admitted Schedule, for every shape, program map, loop  *)
(* nest, AccessMap and valid length that the parser accepts and the        *)
(* Verifier and the Triton preflight admit: its programs and iterations    *)
(* own the regions they store to, stay inside the buffers, respect the     *)
(* dependencies, and leave the destination whole.                          *)
(*                                                                         *)
(* The argument goes from the text to the launch.  Flattening loops and    *)
(* work items lists every execution once (Lists), a loop at the place of   *)
(* its first operation reorders nothing (KernelListed), and the walk of a  *)
(* grid is a numbering in a mixed radix (DecomposeInGrid and after), so    *)
(* each execution is of one program (ProgramListed, ProgramOfWork).        *)
(* Executions of a judged store that differ touch nothing in common        *)
(* (StoresApart).  IInv carries these facts along the interleaving.        *)
(***************************************************************************)
EXTENDS KernelLaunch, FiniteSetTheorems, TLAPS

(* An element of a sequence, and the finite set of its positions.          *)
LEMMA Member ==
    ASSUME NEW T, NEW q \in Seq(T), NEW n \in DOMAIN q
    PROVE  q[n] \in T
  OBVIOUS

LEMMA FiniteIndex ==
    ASSUME NEW T, NEW q \in Seq(T)
    PROVE  IsFiniteSet(DOMAIN q)
  <1>1. DOMAIN q = 1 .. Len(q) /\ Len(q) \in Nat
    OBVIOUS
  <1>. QED BY <1>1, FS_Interval

-------------------------------------------------------------------------------
(* Induction along an interval: a gap would have a least end. *)

(* Ordinary induction, with a set in place of the induction operator.      *)
LEMMA Upward ==
    ASSUME NEW N \in Nat, NEW G, 0 \in G, \A n \in 0 .. N - 1 : n \in G => n + 1 \in G
    PROVE  N \in G
  <1>. SUFFICES ASSUME N \notin G PROVE FALSE
    OBVIOUS
  <1>1. PICK S : S = 0 .. N
    OBVIOUS
  <1>2. PICK F : F = {0 .. k : k \in {j \in 0 .. N : j \notin G}}
    OBVIOUS
  <1>3. IsFiniteSet(S) /\ F # {} /\ F \in SUBSET SUBSET S
    <2>1. IsFiniteSet(S)
      BY <1>1, FS_Interval
    <2>2. N \in 0 .. N
      OBVIOUS
    <2>3. 0 .. N \in F
      BY <1>2, <2>2
    <2>4. \A k \in 0 .. N : 0 .. k \subseteq S
      BY <1>1
    <2>5. F \in SUBSET SUBSET S
      BY <1>2, <2>4
    <2>. QED BY <2>1, <2>3, <2>5
  <1>4. F \subseteq FiniteSubsetsOf(S)
    BY ONLY <1>3, FS_FiniteSubsetsOfFinite
  <1>5. \E x \in F : \A y \in F : <<y, x>> \notin StrictSubsetOrdering(S)
    BY ONLY <1>3, <1>4, FS_StrictSubsetOrderingWellFounded, WFMin
  <1>6. PICK x \in F : \A y \in F : ~ (y \subseteq x /\ y # x)
    BY ONLY <1>3, <1>5 DEF StrictSubsetOrdering
  <1>7. PICK k \in 0 .. N : k \notin G /\ x = 0 .. k
    BY <1>2, <1>6
  <1>8. k # 0 /\ k - 1 \in 0 .. N - 1 /\ (k - 1) + 1 = k
    BY <1>7
  <1>9. k - 1 \notin G
    BY <1>7, <1>8
  <1>10. 0 .. k - 1 \in F
    BY <1>2, <1>8, <1>9
  <1>. QED BY <1>6, <1>7, <1>8, <1>10

(* A sequence of values, each a function of the one before it. *)
Iterates(f, v, step, N) == f[0] = v /\ \A i \in 1 .. N : f[i] = step[<<i, f[i - 1]>>]

(* Any recurrence over an interval has a solution.                         *)
LEMMA Recursion ==
    ASSUME NEW V, NEW v \in V, NEW N \in Nat, NEW step \in [(1 .. N) \X V -> V]
    PROVE  \E f \in [0 .. N -> V] : Iterates(f, v, step, N)
  <1>. DEFINE Partial(n) ==
                \E f \in [0 .. n -> V] : f[0] = v /\ \A i \in 1 .. n : f[i] = step[<<i, f[i - 1]>>]
  <1>1. PICK G : G = {n \in 0 .. N : Partial(n)}
    OBVIOUS
  <1>2. 0 \in G
    <2>. PICK f : f = [i \in {0} |-> v]
      OBVIOUS
    <2>1. 0 .. 0 = {0} /\ 1 .. 0 = {}
      OBVIOUS
    <2>2. f \in [0 .. 0 -> V] /\ f[0] = v
      BY <2>1
    <2>. QED BY <1>1, <2>1, <2>2
  <1>3. ASSUME NEW n \in 0 .. N - 1, n \in G PROVE n + 1 \in G
    <2>1. PICK f \in [0 .. n -> V] : f[0] = v /\ \A i \in 1 .. n : f[i] = step[<<i, f[i - 1]>>]
      BY <1>1, <1>3
    <2>2. PICK w : w = step[<<n + 1, f[n]>>]
      OBVIOUS
    <2>3. w \in V /\ n \in Nat /\ n + 1 \in 1 .. N /\ n + 1 \in 0 .. N
      <3>1. n \in Nat /\ n + 1 \in 1 .. N /\ n + 1 \in 0 .. N
        OBVIOUS
      <3>2. n \in 0 .. n
        BY <3>1
      <3>3. <<n + 1, f[n]>> \in (1 .. N) \X V
        BY <3>1, <3>2
      <3>. QED BY <2>2, <3>1, <3>3
    <2>4. PICK g : g = [i \in 0 .. n + 1 |-> IF i = n + 1 THEN w ELSE f[i]]
      OBVIOUS
    <2>5. g \in [0 .. n + 1 -> V] /\ g[n + 1] = w /\ \A i \in 0 .. n : g[i] = f[i]
      BY <2>3, <2>4
    <2>6. ASSUME NEW i \in 1 .. n + 1 PROVE g[i] = step[<<i, g[i - 1]>>]
      <3>1. i - 1 \in 0 .. n /\ (i = n + 1 \/ (i \in 1 .. n /\ i \in 0 .. n)) /\ (n + 1) - 1 = n
        BY <2>3
      <3>. QED BY ONLY <3>1, <2>1, <2>2, <2>5
    <2>7. g[0] = v
      BY <2>1, <2>3, <2>5
    <2>. QED BY ONLY <1>1, <2>3, <2>5, <2>6, <2>7
  <1>4. N \in G
    BY ONLY <1>2, <1>3, N \in Nat, Upward
  <1>. QED BY <1>1, <1>4 DEF Iterates

-------------------------------------------------------------------------------
(* Where the elements of flattened sequences are. *)

(* g[i] is the concatenation of the first i. *)
Joins(g, q) == g[0] = << >> /\ \A i \in 1 .. Len(q) : g[i] = g[i - 1] \o q[i]

(* FlattenSeq appends one sequence after the other.                        *)
LEMMA FlattenSteps ==
    ASSUME NEW T, NEW q \in Seq(Seq(T))
    PROVE  \E g : Joins(g, q) /\ FlattenSeq(q) = g[Len(q)]
  <1>1. CASE Len(q) = 0
    <2>1. FlattenSeq(q) = q /\ q = << >>
      BY <1>1 DEF FlattenSeq
    <2>2. PICK g : g = [i \in {0} |-> q]
      OBVIOUS
    <2>3. g[0] = q /\ 1 .. Len(q) = {}
      BY <1>1, <2>2
    <2>. QED BY ONLY <1>1, <2>1, <2>3 DEF Joins
  <1>2. CASE Len(q) # 0
    <2>. PICK N \in Nat : N = Len(q) /\ N >= 1
      BY <1>2
    <2>1. PICK step : step = [p \in (1 .. N) \X Seq(T) |-> p[2] \o q[p[1]]]
      OBVIOUS
    <2>2. step \in [(1 .. N) \X Seq(T) -> Seq(T)]
      <3>1. \A p \in (1 .. N) \X Seq(T) : p[2] \in Seq(T) /\ q[p[1]] \in Seq(T)
        OBVIOUS
      <3>. QED BY <2>1, <3>1
    <2>3. << >> \in Seq(T)
      OBVIOUS
    <2>4. PICK g \in [0 .. N -> Seq(T)] : g[0] = << >> /\ \A i \in 1 .. N : g[i] = step[<<i, g[i - 1]>>]
      <3>1. PICK V, v : V = Seq(T) /\ v = << >>
        OBVIOUS
      <3>2. v \in V /\ step \in [(1 .. N) \X V -> V]
        BY <2>2, <2>3, <3>1
      <3>3. \E f \in [0 .. N -> V] : Iterates(f, v, step, N)
        BY ONLY N \in Nat, <3>2, Recursion
      <3>. QED BY <3>1, <3>3 DEF Iterates
    <2>5. ASSUME NEW i \in 1 .. N PROVE g[i] = g[i - 1] \o q[i]
      <3>1. i - 1 \in 0 .. N
        OBVIOUS
      <3>2. <<i, g[i - 1]>> \in (1 .. N) \X Seq(T)
        BY <3>1
      <3>. QED BY <2>1, <2>4, <3>2
    <2>6. g[1] = q[1]
      <3>1. << >> \o q[1] = q[1]
        OBVIOUS
      <3>2. 1 \in 1 .. N /\ 1 - 1 = 0
        OBVIOUS
      <3>3. g[1] = g[0] \o q[1]
        BY ONLY <2>5, <3>2
      <3>. QED BY ONLY <2>4, <3>1, <3>3
    <2>7. PICK h : h = [i \in 1 .. N |-> g[i]]
      OBVIOUS
    <2>8. h = [i \in 1 .. N |-> IF i = 1 THEN q[1] ELSE h[i - 1] \o q[i]]
      <3>1. ASSUME NEW i \in 1 .. N, i # 1 PROVE g[i] = h[i - 1] \o q[i]
        <4>1. i - 1 \in 1 .. N
          BY <3>1
        <4>. QED BY <2>5, <2>7, <4>1
      <3>. QED BY <2>6, <2>7, <3>1
    <2>9. PICK flat : /\ flat = [i \in 1 .. N |-> IF i = 1 THEN q[i] ELSE flat[i - 1] \o q[i]]
                      /\ FlattenSeq(q) = flat[N]
      BY <1>2, <2>8 DEF FlattenSeq
    <2>10. PICK e : e = [i \in 0 .. N |-> IF i = 0 THEN << >> ELSE flat[i]]
      OBVIOUS
    <2>11. ASSUME NEW i \in 1 .. N PROVE e[i] = e[i - 1] \o q[i]
      <3>1. CASE i = 1
        <4>1. flat[1] = q[1] /\ << >> \o q[1] = q[1]
          BY <2>9
        <4>. QED BY <2>10, <3>1, <4>1
      <3>2. CASE i # 1
        <4>1. i - 1 \in 0 .. N /\ i - 1 # 0 /\ i \in 0 .. N /\ i # 0
          BY <3>2
        <4>. QED BY <2>9, <2>10, <3>2, <4>1
      <3>. QED BY <3>1, <3>2
    <2>12. e[0] = << >> /\ e[N] = flat[N]
      BY <2>10
    <2>. QED BY <2>9, <2>11, <2>12 DEF Joins
  <1>. QED BY <1>1, <1>2

(* g[i] holds the first i sequences, each at its offset, and nothing else. *)
Gathered(g, q, T, i) ==
    /\ g[i] \in Seq(T)
    /\ \A k \in 1 .. i :
          /\ Len(g[k - 1]) \in Nat /\ Len(g[k - 1]) + Len(q[k]) <= Len(g[i])
          /\ \A j \in 1 .. Len(q[k]) : g[i][Len(g[k - 1]) + j] = q[k][j]
    /\ \A n \in 1 .. Len(g[i]) : \E k \in 1 .. i : n - Len(g[k - 1]) \in 1 .. Len(q[k])

LEMMA JoinsGather ==
    ASSUME NEW T, NEW q \in Seq(Seq(T)), NEW g, Joins(g, q), NEW N \in 0 .. Len(q)
    PROVE  Gathered(g, q, T, N)
  <1>1. PICK G : G = {i \in 0 .. N : Gathered(g, q, T, i)}
    OBVIOUS
  <1>2. 0 \in G
    <2>1. g[0] = << >> /\ << >> \in Seq(T) /\ Len(<< >>) = 0 /\ 1 .. 0 = {}
      BY DEF Joins
    <2>2. Gathered(g, q, T, 0)
      BY ONLY <2>1 DEF Gathered
    <2>. QED BY <1>1, <2>2
  <1>3. ASSUME NEW i \in 0 .. N - 1, i \in G PROVE i + 1 \in G
    <2>. PICK m : m = i + 1
      OBVIOUS
    <2>1. m \in 1 .. Len(q) /\ m - 1 = i /\ i \in Nat /\ m \in 0 .. N /\ m \in 1 .. m
      OBVIOUS
    <2>2. g[m] = g[i] \o q[m]
      BY <2>1 DEF Joins
    <2>3. g[i] \in Seq(T) /\ q[m] \in Seq(T)
      BY <1>1, <1>3, <2>1 DEF Gathered
    <2>4. PICK a, b : a = Len(g[i]) /\ b = Len(q[m])
      OBVIOUS
    <2>5. /\ a \in Nat /\ b \in Nat /\ g[m] \in Seq(T) /\ Len(g[m]) = a + b
          /\ \A n \in 1 .. a : g[m][n] = g[i][n]
          /\ \A j \in 1 .. b : g[m][a + j] = q[m][j]
      <3>1. PICK u, v : u = g[i] /\ v = q[m]
        OBVIOUS
      <3>2. u \in Seq(T) /\ v \in Seq(T)
        BY <2>3, <3>1
      <3>3. /\ Len(u) \in Nat /\ Len(v) \in Nat /\ u \o v \in Seq(T)
            /\ Len(u \o v) = Len(u) + Len(v)
        BY ONLY <3>2
      <3>4. \A n \in 1 .. Len(u) : (u \o v)[n] = u[n]
        BY ONLY <3>2
      <3>5. \A j \in 1 .. Len(v) : (u \o v)[Len(u) + j] = v[j]
        BY ONLY <3>2
      <3>. QED BY ONLY <2>2, <2>4, <3>1, <3>3, <3>4, <3>5
    <2>6. ASSUME NEW k \in 1 .. m
          PROVE  /\ Len(g[k - 1]) \in Nat /\ Len(g[k - 1]) + Len(q[k]) <= Len(g[m])
                 /\ \A j \in 1 .. Len(q[k]) : g[m][Len(g[k - 1]) + j] = q[k][j]
      <3>1. CASE k = m
        <4>1. Len(g[k - 1]) = a /\ Len(q[k]) = b /\ q[k] = q[m]
          BY ONLY <2>1, <2>4, <3>1
        <4>2. \A j \in 1 .. Len(q[k]) : g[m][Len(g[k - 1]) + j] = q[k][j]
          BY ONLY <2>5, <4>1
        <4>3. Len(g[k - 1]) \in Nat /\ Len(g[k - 1]) + Len(q[k]) <= Len(g[m])
          BY ONLY <2>5, <4>1
        <4>. QED BY ONLY <4>2, <4>3
      <3>2. CASE k # m
        <4>1. k \in 1 .. i
          BY <2>1, <3>2
        <4>2. PICK c, d : c = Len(g[k - 1]) /\ d = Len(q[k])
          OBVIOUS
        <4>3. d \in Nat
          <5>1. q[k] \in Seq(T)
            BY <2>1, <4>1
          <5>. QED BY <4>2, <5>1
        <4>4. /\ c \in Nat /\ c + d <= a
              /\ \A j \in 1 .. d : g[i][c + j] = q[k][j]
          BY <1>1, <1>3, <2>4, <4>1, <4>2 DEF Gathered
        <4>5. \A j \in 1 .. d : c + j \in 1 .. a
          BY ONLY <4>3, <4>4, <2>5
        <4>6. c + d <= a + b
          BY ONLY <4>3, <4>4, <2>5
        <4>7. \A j \in 1 .. d : g[m][c + j] = q[k][j]
          BY ONLY <4>4, <4>5, <2>5
        <4>8. Len(g[m]) = a + b
          BY <2>5
        <4>. QED BY ONLY <4>2, <4>4, <4>6, <4>7, <4>8
      <3>. QED BY <3>1, <3>2
    <2>7. ASSUME NEW n \in 1 .. Len(g[m])
          PROVE  \E k \in 1 .. m : n - Len(g[k - 1]) \in 1 .. Len(q[k])
      <3>1. CASE n <= a
        <4>1. n \in 1 .. a
          BY <2>5, <3>1
        <4>2. PICK k \in 1 .. i : n - Len(g[k - 1]) \in 1 .. Len(q[k])
          BY <1>1, <1>3, <2>4, <4>1 DEF Gathered
        <4>3. k \in 1 .. m
          BY ONLY <2>1, k \in 1 .. i
        <4>. QED BY <4>2, <4>3
      <3>2. CASE ~ (n <= a)
        <4>1. n - a \in 1 .. b
          BY ONLY <2>5, <3>2, n \in 1 .. Len(g[m])
        <4>. QED BY ONLY <4>1, <2>1, <2>4
      <3>. QED BY <3>1, <3>2
    <2>8. Gathered(g, q, T, m)
      BY ONLY <2>5, <2>6, <2>7 DEF Gathered
    <2>. QED BY <1>1, <2>1, <2>8
  <1>4. N \in Nat /\ \A i \in 0 .. N - 1 : i \in G => i + 1 \in G
    BY <1>3
  <1>5. N \in G
    BY ONLY <1>2, <1>4, Upward
  <1>. QED BY <1>1, <1>5

(* Element j of sequence k has place off[k] + j. *)
Flattened(q, flat, off) ==
    /\ off \in [DOMAIN q -> Nat]
    /\ \A k \in DOMAIN q : \A j \in DOMAIN q[k] :
          off[k] + j \in DOMAIN flat /\ flat[off[k] + j] = q[k][j]
    /\ \A n \in DOMAIN flat : \E k \in DOMAIN q : \E j \in DOMAIN q[k] : n = off[k] + j
    /\ \A k, l \in DOMAIN q : k < l => \A j \in DOMAIN q[k] : off[k] + j <= off[l]

(* A flattened sequence is its sequences side by side.                     *)
LEMMA Flattening ==
    ASSUME NEW T, NEW q \in Seq(Seq(T))
    PROVE  FlattenSeq(q) \in Seq(T) /\ \E off : Flattened(q, FlattenSeq(q), off)
  <1>1. PICK N, flat : N = Len(q) /\ flat = FlattenSeq(q)
    OBVIOUS
  <1>2. N \in Nat /\ DOMAIN q = 1 .. N /\ \A k \in 1 .. N : q[k] \in Seq(T)
    BY <1>1
  <1>3. \A k \in 1 .. N : Len(q[k]) \in Nat /\ DOMAIN q[k] = 1 .. Len(q[k])
    BY <1>2
  <1>4. PICK g : Joins(g, q) /\ flat = g[N]
    BY <1>1, FlattenSteps
  <1>5. ASSUME NEW i \in 0 .. N PROVE Gathered(g, q, T, i)
    BY <1>1, <1>4, JoinsGather
  <1>6. PICK off : off = [k \in 1 .. N |-> Len(g[k - 1])]
    OBVIOUS
  <1>7. flat \in Seq(T) /\ DOMAIN flat = 1 .. Len(flat)
    <2>1. Gathered(g, q, T, N)
      BY <1>2, <1>5
    <2>. QED BY <1>4, <2>1 DEF Gathered
  <1>8. ASSUME NEW k \in 1 .. N
        PROVE  /\ off[k] \in Nat /\ off[k] + Len(q[k]) <= Len(flat)
               /\ \A j \in 1 .. Len(q[k]) : flat[off[k] + j] = q[k][j]
    <2>1. Gathered(g, q, T, N)
      BY <1>2, <1>5
    <2>. QED BY <1>4, <1>6, <2>1 DEF Gathered
  <1>9. \A n \in 1 .. Len(flat) : \E k \in 1 .. N : n - off[k] \in 1 .. Len(q[k])
    <2>1. Gathered(g, q, T, N)
      BY <1>2, <1>5
    <2>. QED BY <1>4, <1>6, <2>1 DEF Gathered
  <1>10. ASSUME NEW k \in 1 .. N, NEW l \in 1 .. N, k < l
         PROVE  off[k] + Len(q[k]) <= off[l]
    <2>1. l - 1 \in 0 .. N /\ k \in 1 .. l - 1
      BY <1>2, <1>10
    <2>2. Gathered(g, q, T, l - 1)
      BY <1>5, <2>1
    <2>. QED BY <1>6, <2>1, <2>2 DEF Gathered
  <1>11. off \in [DOMAIN q -> Nat]
    BY ONLY <1>2, <1>6, <1>8
  <1>12. ASSUME NEW k \in DOMAIN q, NEW j \in DOMAIN q[k]
         PROVE  off[k] + j \in DOMAIN flat /\ flat[off[k] + j] = q[k][j]
    <2>1. k \in 1 .. N /\ j \in 1 .. Len(q[k]) /\ Len(q[k]) \in Nat
      BY <1>2, <1>3
    <2>2. off[k] \in Nat /\ off[k] + Len(q[k]) <= Len(flat) /\ flat[off[k] + j] = q[k][j]
      BY ONLY <2>1, <1>8
    <2>3. off[k] + j \in 1 .. Len(flat)
      BY ONLY <2>1, <2>2, <1>7
    <2>. QED BY ONLY <2>2, <2>3, <1>7
  <1>13. ASSUME NEW n \in DOMAIN flat PROVE \E k \in DOMAIN q : \E j \in DOMAIN q[k] : n = off[k] + j
    <2>1. PICK k \in 1 .. N : n - off[k] \in 1 .. Len(q[k])
      BY <1>7, <1>9
    <2>2. n \in Nat /\ off[k] \in Nat
      BY <1>7, <1>8
    <2>3. n = off[k] + (n - off[k])
      BY ONLY <2>2
    <2>. QED BY <1>2, <1>3, <2>1, <2>3
  <1>14. ASSUME NEW k \in DOMAIN q, NEW l \in DOMAIN q, k < l, NEW j \in DOMAIN q[k]
         PROVE  off[k] + j <= off[l]
    <2>1. k \in 1 .. N /\ l \in 1 .. N /\ j \in 1 .. Len(q[k]) /\ Len(q[k]) \in Nat
      BY <1>2, <1>3
    <2>2. off[k] + Len(q[k]) <= off[l] /\ off[k] \in Nat /\ off[l] \in Nat
      BY ONLY <2>1, <1>8, <1>10, <1>14
    <2>. QED BY ONLY <2>1, <2>2
  <1>15. Flattened(q, flat, off)
    BY ONLY <1>11, <1>12, <1>13, <1>14 DEF Flattened
  <1>. QED BY ONLY <1>1, <1>7, <1>15

(* What a place holds, and what all places before it hold. *)
HasPlace(q, flat, n, k, j) ==
    /\ k \in DOMAIN q /\ j \in DOMAIN q[k] /\ flat[n] = q[k][j]
    /\ \A c \in DOMAIN q : c < k => \A i \in DOMAIN q[c] :
          \E m \in DOMAIN flat : m < n /\ flat[m] = q[c][i]
    /\ \A i \in DOMAIN q[k] : i < j => \E m \in DOMAIN flat : m < n /\ flat[m] = q[k][i]

LEMMA FlattenPlace ==
    ASSUME NEW T, NEW q \in Seq(Seq(T)), NEW n \in DOMAIN FlattenSeq(q)
    PROVE  \E k, j : HasPlace(q, FlattenSeq(q), n, k, j)
  <1>1. PICK flat, off : flat = FlattenSeq(q) /\ Flattened(q, flat, off)
    BY Flattening
  <1>2. PICK k \in DOMAIN q : \E j \in DOMAIN q[k] : n = off[k] + j
    BY <1>1 DEF Flattened
  <1>20. PICK j \in DOMAIN q[k] : n = off[k] + j
    BY <1>2
  <1>3. j \in Nat /\ j >= 1 /\ k \in Nat /\ off[k] \in Nat
    <2>1. q[k] \in Seq(T) /\ k \in Nat
      OBVIOUS
    <2>2. j \in Nat /\ j >= 1
      BY <2>1
    <2>. QED BY <1>1, <2>1, <2>2 DEF Flattened
  <1>4. flat[n] = q[k][j]
    BY <1>1, <1>20 DEF Flattened
  <1>5. ASSUME NEW c \in DOMAIN q, c < k, NEW i \in DOMAIN q[c]
        PROVE  \E m \in DOMAIN flat : m < n /\ flat[m] = q[c][i]
    <2>1. off[c] + i <= off[k] /\ off[c] + i \in DOMAIN flat /\ flat[off[c] + i] = q[c][i]
      BY <1>1, <1>5 DEF Flattened
    <2>2. off[c] \in Nat /\ i \in Nat
      <3>1. q[c] \in Seq(T)
        OBVIOUS
      <3>2. i \in Nat
        BY <3>1
      <3>. QED BY <1>1, <3>2 DEF Flattened
    <2>3. off[c] + i < n
      BY ONLY <2>1, <2>2, <1>20, <1>3
    <2>. QED BY <2>1, <2>3
  <1>6. ASSUME NEW i \in DOMAIN q[k], i < j
        PROVE  \E m \in DOMAIN flat : m < n /\ flat[m] = q[k][i]
    <2>1. off[k] + i \in DOMAIN flat /\ flat[off[k] + i] = q[k][i]
      BY <1>1 DEF Flattened
    <2>2. i \in Nat
      <3>1. q[k] \in Seq(T)
        OBVIOUS
      <3>. QED BY <3>1
    <2>3. off[k] + i < n
      BY ONLY <2>2, <1>20, <1>3, <1>6
    <2>. QED BY <2>1, <2>3
  <1>7. HasPlace(q, flat, n, k, j)
    BY ONLY <1>4, <1>5, <1>6, k \in DOMAIN q, j \in DOMAIN q[k] DEF HasPlace
  <1>. QED BY <1>1, <1>7

LEMMA FlattenReach ==
    ASSUME NEW T, NEW q \in Seq(Seq(T)), NEW k \in DOMAIN q, NEW j \in DOMAIN q[k]
    PROVE  \E n \in DOMAIN FlattenSeq(q) : FlattenSeq(q)[n] = q[k][j]
  <1>1. PICK flat, off : flat = FlattenSeq(q) /\ Flattened(q, flat, off)
    BY Flattening
  <1>2. off[k] + j \in DOMAIN flat /\ flat[off[k] + j] = q[k][j]
    BY <1>1 DEF Flattened
  <1>. QED BY <1>1, <1>2

LEMMA FlattenInjective ==
    ASSUME NEW T, NEW q \in Seq(Seq(T)),
           \A k, c \in DOMAIN q : \A j \in DOMAIN q[k], i \in DOMAIN q[c] :
              q[k][j] = q[c][i] => k = c /\ j = i
    PROVE  IsInjective(FlattenSeq(q))
  <1>1. PICK flat, off : flat = FlattenSeq(q) /\ Flattened(q, flat, off)
    BY Flattening
  <1>2. ASSUME NEW n \in DOMAIN flat, NEW m \in DOMAIN flat, flat[n] = flat[m]
        PROVE  n = m
    <2>1. PICK k \in DOMAIN q : \E j \in DOMAIN q[k] : n = off[k] + j
      BY <1>1 DEF Flattened
    <2>10. PICK j \in DOMAIN q[k] : n = off[k] + j
      BY <2>1
    <2>2. PICK c \in DOMAIN q : \E i \in DOMAIN q[c] : m = off[c] + i
      BY <1>1 DEF Flattened
    <2>20. PICK i \in DOMAIN q[c] : m = off[c] + i
      BY <2>2
    <2>3. q[k][j] = q[c][i]
      BY <1>1, <1>2, <2>10, <2>20 DEF Flattened
    <2>. QED BY <2>10, <2>20, <2>3
  <1>. QED BY <1>1, <1>2 DEF IsInjective

-------------------------------------------------------------------------------
(* Numbers in a mixed radix T[1], ..., T[N], the first digit the lowest. *)

(* The digits, their products and the successive quotients of w.           *)
Radix(T, N) == N \in Positive /\ T \in [1 .. N -> Positive]

Multiplied(T, N, prod) ==
    /\ prod \in [0 .. N -> Positive] /\ prod[0] = 1
    /\ \A k \in 1 .. N : prod[k] = prod[k - 1] * T[k]

Divided(T, N, w, rest) ==
    /\ rest \in [1 .. N -> Nat] /\ rest[1] = w
    /\ \A k \in 1 .. N - 1 : rest[k + 1] = rest[k] \div T[k]

LEMMA Product ==
    ASSUME NEW a \in Nat, NEW b \in Nat
    PROVE  a * b \in Nat /\ a * b = b * a
  BY SMT

(* What the quotient and the remainder of a division are.                  *)
LEMMA Remaindered ==
    ASSUME NEW t \in Nat, t > 0, NEW n \in Nat,
           NEW b \in Nat, b = n \div t, NEW e \in Nat, e = n % t
    PROVE  n = b * t + e
  BY Z3

LEMMA DivMod ==
    ASSUME NEW t \in Positive, NEW n \in Nat
    PROVE  \E b, e \in Nat : b = n \div t /\ e = n % t /\ e < t /\ n = b * t + e
  <1>1. t \in Nat /\ t > 0
    BY DEF Positive
  <1>2. n \div t \in Nat /\ n % t \in Nat /\ n % t < t
    BY <1>1
  <1>3. PICK b, e \in Nat : b = n \div t /\ e = n % t
    BY <1>2
  <1>4. n = b * t + e
    BY ONLY <1>1, <1>3, n \in Nat, b \in Nat, e \in Nat, Remaindered
  <1>. QED BY ONLY <1>2, <1>3, <1>4, b \in Nat, e \in Nat

LEMMA DivUnique ==
    ASSUME NEW t \in Positive, NEW a \in Nat, NEW d \in Nat, d < t
    PROVE  (a * t + d) \div t = a /\ (a * t + d) % t = d
  <1>1. t \in Nat /\ t > 0 /\ a * t \in Nat
    BY Product DEF Positive
  <1>2. PICK n \in Nat : n = a * t + d
    BY ONLY <1>1, d \in Nat
  <1>3. a = n \div t
    <2>1. a * t <= n /\ n < a * t + t
      BY ONLY <1>1, <1>2, d \in Nat, d < t
    <2>. QED BY ONLY <1>1, <2>1, a \in Nat, n \in Nat, SMT
  <1>4. d = n % t
    BY ONLY <1>1, <1>2, a \in Nat, n \in Nat, d \in Nat, d < t, SMT
  <1>. QED BY <1>2, <1>3, <1>4

LEMMA ProductRise ==
    ASSUME NEW a \in Nat, NEW b \in Nat, NEW p \in Nat, a <= b
    PROVE  a * p \in Nat /\ b * p \in Nat /\ a * p <= b * p
  BY SMT

(* The last quotient of an item of the grid is a digit.                    *)
LEMMA RestBelow ==
    ASSUME NEW T, NEW N, Radix(T, N), NEW prod, Multiplied(T, N, prod),
           NEW w \in Nat, w < prod[N], NEW rest, Divided(T, N, w, rest)
    PROVE  rest[N] < T[N]
  <1>1. N \in Nat /\ N >= 1 /\ N - 1 \in Nat /\ (N - 1) + 1 = N
    BY DEF Radix, Positive
  <1>2. PICK G : G = {k \in 0 .. N - 1 : rest[k + 1] * prod[k] <= w}
    OBVIOUS
  <1>3. 0 \in G
    <2>1. 0 \in 0 .. N - 1 /\ 0 + 1 = 1
      BY <1>1
    <2>2. rest[1] = w /\ prod[0] = 1
      BY DEF Divided, Multiplied
    <2>3. w * 1 <= w
      OBVIOUS
    <2>. QED BY <1>2, <2>1, <2>2, <2>3
  <1>4. ASSUME NEW k \in 0 .. (N - 1) - 1, k \in G PROVE k + 1 \in G
    <2>1. /\ k \in Nat /\ k + 1 \in 1 .. N /\ k + 1 \in 1 .. N - 1 /\ k + 1 \in 0 .. N - 1
          /\ (k + 1) + 1 \in 1 .. N /\ k \in 0 .. N /\ (k + 1) - 1 = k
      BY <1>1
    <2>2. PICK r, q, t, p : r = rest[k + 1] /\ q = rest[(k + 1) + 1] /\ t = T[k + 1] /\ p = prod[k]
      OBVIOUS
    <2>3. r \in Nat /\ q \in Nat /\ t \in Positive /\ p \in Positive
      BY <2>1, <2>2 DEF Divided, Radix, Multiplied
    <2>4. q = r \div t /\ prod[k + 1] = p * t
      BY <2>1, <2>2 DEF Divided, Multiplied
    <2>5. r * p <= w
      BY <1>2, <1>4, <2>2
    <2>6. q * t <= r /\ q * t \in Nat
      <3>1. PICK e \in Nat : r = q * t + e
        BY ONLY <2>3, <2>4, DivMod
      <3>2. t \in Nat
        BY <2>3 DEF Positive
      <3>3. PICK x \in Nat : x = q * t
        BY ONLY <2>3, <3>2, Product
      <3>. QED BY ONLY <2>3, <3>1, <3>3
    <2>7. (q * t) * p <= r * p /\ (q * t) * p \in Nat /\ r * p \in Nat
      BY ONLY <2>3, <2>6, ProductRise DEF Positive
    <2>8. q * (p * t) = (q * t) * p
      BY ONLY <2>3, SMT DEF Positive
    <2>9. q * (p * t) <= w
      BY ONLY <2>5, <2>7, <2>8, w \in Nat
    <2>. QED BY ONLY <1>2, <2>1, <2>2, <2>4, <2>9
  <1>5. N - 1 \in G
    BY ONLY <1>1, <1>3, <1>4, Upward
  <1>6. PICK r, t, p : r = rest[N] /\ t = T[N] /\ p = prod[N - 1]
    OBVIOUS
  <1>7. r * p <= w
    BY <1>1, <1>2, <1>5, <1>6
  <1>8. r \in Nat /\ t \in Positive /\ p \in Positive /\ prod[N] = p * t
    BY <1>1, <1>6 DEF Divided, Radix, Multiplied
  <1>9. t <= r => p * t <= r * p
    BY ONLY <1>8, SMT DEF Positive
  <1>10. p * t \in Nat /\ r * p \in Nat /\ t \in Nat
    BY ONLY <1>8, SMT DEF Positive
  <1>. QED BY ONLY <1>6, <1>7, <1>8, <1>9, <1>10, w \in Nat, w < prod[N]

(* The digits determine the number.                                        *)
LEMMA RestInjective ==
    ASSUME NEW T, NEW N, Radix(T, N), NEW w, NEW v, NEW r, NEW q,
           Divided(T, N, w, r), Divided(T, N, v, q), r[N] = q[N],
           \A k \in 1 .. N - 1 : r[k] % T[k] = q[k] % T[k]
    PROVE  w = v
  <1>1. N \in Nat /\ N >= 1 /\ N - 1 \in Nat /\ N - (N - 1) = 1 /\ N - 0 = N
    BY DEF Radix, Positive
  <1>2. PICK G : G = {k \in 0 .. N - 1 : r[N - k] = q[N - k]}
    OBVIOUS
  <1>3. 0 \in G
    BY <1>1, <1>2
  <1>4. ASSUME NEW k \in 0 .. (N - 1) - 1, k \in G PROVE k + 1 \in G
    <2>1. PICK m : m = N - (k + 1)
      OBVIOUS
    <2>2. m \in 1 .. N /\ m \in 1 .. N - 1 /\ m + 1 = N - k /\ k + 1 \in 0 .. N - 1
      BY <1>1, <2>1
    <2>3. r[m] \in Nat /\ q[m] \in Nat /\ T[m] \in Positive
      BY <2>2 DEF Divided, Radix
    <2>4. r[m] \div T[m] = q[m] \div T[m]
      BY <1>2, <1>4, <2>2 DEF Divided
    <2>5. r[m] % T[m] = q[m] % T[m]
      BY <2>2
    <2>6. r[m] = q[m]
      <3>1. PICK b, e \in Nat : b = r[m] \div T[m] /\ e = r[m] % T[m] /\ r[m] = b * T[m] + e
        BY ONLY <2>3, DivMod
      <3>2. PICK c, f \in Nat : c = q[m] \div T[m] /\ f = q[m] % T[m] /\ q[m] = c * T[m] + f
        BY ONLY <2>3, DivMod
      <3>3. b = c /\ e = f
        BY ONLY <2>4, <2>5, <3>1, <3>2
      <3>. QED BY ONLY <3>1, <3>2, <3>3
    <2>. QED BY <1>2, <2>1, <2>2, <2>6
  <1>5. N - 1 \in G
    BY ONLY <1>1, <1>3, <1>4, Upward
  <1>. QED BY <1>1, <1>2, <1>5 DEF Divided

LEMMA ProductsExist ==
    ASSUME NEW T, NEW N, Radix(T, N)
    PROVE  \E prod : Multiplied(T, N, prod)
  <1>1. N \in Nat
    BY DEF Radix, Positive
  <1>2. PICK step : step = [p \in (1 .. N) \X Positive |-> p[2] * T[p[1]]]
    OBVIOUS
  <1>3. step \in [(1 .. N) \X Positive -> Positive]
    <2>1. ASSUME NEW p \in (1 .. N) \X Positive PROVE p[2] * T[p[1]] \in Positive
      <3>1. p[2] \in Positive /\ T[p[1]] \in Positive
        BY DEF Radix
      <3>2. PICK a, b \in Positive : a = p[2] /\ b = T[p[1]]
        BY <3>1
      <3>3. a * b \in Nat /\ a * b > 0
        BY ONLY a \in Positive, b \in Positive, SMT DEF Positive
      <3>. QED BY <3>2, <3>3 DEF Positive
    <2>. QED BY <1>2, <2>1
  <1>4. 1 \in Positive
    BY DEF Positive
  <1>5. PICK prod \in [0 .. N -> Positive] : Iterates(prod, 1, step, N)
    BY ONLY <1>1, <1>3, <1>4, Recursion
  <1>6. ASSUME NEW k \in 1 .. N PROVE prod[k] = prod[k - 1] * T[k]
    <2>1. k - 1 \in 0 .. N
      BY <1>1
    <2>2. <<k, prod[k - 1]>> \in (1 .. N) \X Positive
      BY <2>1
    <2>. QED BY <1>2, <1>5, <2>2 DEF Iterates
  <1>. QED BY <1>5, <1>6 DEF Multiplied, Iterates

LEMMA RestsExist ==
    ASSUME NEW T, NEW N, Radix(T, N), NEW w \in Nat
    PROVE  \E rest : Divided(T, N, w, rest)
  <1>1. N \in Nat /\ N - 1 \in Nat
    BY DEF Radix, Positive
  <1>2. PICK M \in Nat : M = N - 1
    BY <1>1
  <1>3. PICK step : step = [p \in (1 .. M) \X Nat |-> p[2] \div T[p[1]]]
    OBVIOUS
  <1>4. step \in [(1 .. M) \X Nat -> Nat]
    <2>1. ASSUME NEW p \in (1 .. M) \X Nat PROVE p[2] \div T[p[1]] \in Nat
      <3>1. p[2] \in Nat /\ p[1] \in 1 .. N
        BY <1>1, <1>2
      <3>2. T[p[1]] \in Positive
        BY <3>1 DEF Radix
      <3>. QED BY <3>1, <3>2, DivMod
    <2>. QED BY <1>3, <2>1
  <1>5. PICK f \in [0 .. M -> Nat] : Iterates(f, w, step, M)
    BY ONLY <1>4, M \in Nat, w \in Nat, Recursion
  <1>6. PICK rest : rest = [k \in 1 .. N |-> f[k - 1]]
    OBVIOUS
  <1>7. rest \in [1 .. N -> Nat] /\ rest[1] = w
    <2>1. \A k \in 1 .. N : k - 1 \in 0 .. M
      BY <1>1, <1>2
    <2>2. 1 \in 1 .. N /\ 1 - 1 = 0
      BY <1>1, <1>2
    <2>. QED BY <1>5, <1>6, <2>1, <2>2 DEF Iterates
  <1>8. ASSUME NEW k \in 1 .. N - 1 PROVE rest[k + 1] = rest[k] \div T[k]
    <2>1. k \in 1 .. M /\ k \in 1 .. N /\ k + 1 \in 1 .. N /\ k - 1 \in 0 .. M /\ (k + 1) - 1 = k
      BY <1>1, <1>2
    <2>2. f[k] = step[<<k, f[k - 1]>>] /\ f[k - 1] \in Nat
      BY <1>5, <2>1 DEF Iterates
    <2>3. <<k, f[k - 1]>> \in (1 .. M) \X Nat
      BY <2>1, <2>2
    <2>4. f[k] = f[k - 1] \div T[k]
      BY <1>3, <2>2, <2>3
    <2>. QED BY ONLY <1>6, <2>1, <2>4
  <1>. QED BY <1>7, <1>8 DEF Divided

HasDigits(T, N, w, d) ==
    \A rest : Divided(T, N, w, rest) =>
        rest[N] = d[N] /\ \A k \in 1 .. N - 1 : rest[k] % T[k] = d[k]

(* Every choice of digits is a number. *)
LEMMA RestReach ==
    ASSUME NEW T, NEW N, Radix(T, N), NEW prod, Multiplied(T, N, prod),
           NEW d \in [1 .. N -> Nat], \A k \in 1 .. N : d[k] < T[k]
    PROVE  \E w \in Nat : w < prod[N] /\ HasDigits(T, N, w, d)
  <1>1. N \in Nat /\ N >= 1 /\ N - 1 \in Nat
    BY DEF Radix, Positive
  <1>2. PICK M \in Nat : M = N - 1
    BY <1>1
  <1>3. PICK step : step = [p \in (1 .. M) \X Nat |-> p[2] * T[N - p[1]] + d[N - p[1]]]
    OBVIOUS
  <1>4. step \in [(1 .. M) \X Nat -> Nat]
    <2>1. ASSUME NEW p \in (1 .. M) \X Nat PROVE p[2] * T[N - p[1]] + d[N - p[1]] \in Nat
      <3>1. p[2] \in Nat /\ N - p[1] \in 1 .. N
        BY <1>1, <1>2
      <3>2. T[N - p[1]] \in Nat /\ d[N - p[1]] \in Nat
        BY <3>1 DEF Radix, Positive
      <3>3. p[2] * T[N - p[1]] \in Nat
        BY ONLY <3>1, <3>2, Product
      <3>. QED BY <3>2, <3>3
    <2>. QED BY <1>3, <2>1
  <1>5. PICK val \in [0 .. M -> Nat] : Iterates(val, d[N], step, M)
    <2>1. d[N] \in Nat
      BY <1>1
    <2>. QED BY ONLY <2>1, <1>4, M \in Nat, Recursion
  <1>6. ASSUME NEW k \in 1 .. N - 1
        PROVE  /\ val[N - k] \in Nat /\ val[N - (k + 1)] \in Nat
               /\ val[N - k] = val[N - (k + 1)] * T[k] + d[k]
    <2>1. PICK j : j = N - k
      OBVIOUS
    <2>2. j \in 1 .. M /\ j \in 0 .. M /\ j - 1 \in 0 .. M /\ N - (k + 1) = j - 1 /\ N - j = k
      BY <1>1, <1>2, <2>1
    <2>3. <<j, val[j - 1]>> \in (1 .. M) \X Nat
      BY <2>2
    <2>4. val[j] = val[j - 1] * T[N - j] + d[N - j]
      BY <1>3, <1>5, <2>2, <2>3 DEF Iterates
    <2>5. val[j] = val[j - 1] * T[k] + d[k]
      BY ONLY <2>2, <2>4
    <2>6. val[j] \in Nat /\ val[j - 1] \in Nat
      BY ONLY <2>2, val \in [0 .. M -> Nat]
    <2>. QED BY ONLY <2>1, <2>2, <2>5, <2>6
  <1>7. PICK w \in Nat : w = val[N - 1]
    <2>1. N - 1 \in 0 .. M
      BY <1>1, <1>2
    <2>. QED BY <2>1
  <1>8. val[0] = d[N]
    BY <1>5 DEF Iterates
  <1>9. ASSUME NEW rest, Divided(T, N, w, rest)
        PROVE  \A k \in 1 .. N : rest[k] = val[N - k]
    <2>1. PICK G : G = {k \in 0 .. N - 1 : rest[k + 1] = val[N - (k + 1)]}
      OBVIOUS
    <2>2. 0 \in G
      <3>1. 0 \in 0 .. N - 1 /\ N - (0 + 1) = N - 1 /\ 0 + 1 = 1
        BY <1>1
      <3>2. rest[1] = w
        BY <1>9 DEF Divided
      <3>. QED BY ONLY <1>7, <2>1, <3>1, <3>2
    <2>3. ASSUME NEW k \in 0 .. (N - 1) - 1, k \in G PROVE k + 1 \in G
      <3>1. PICK m : m = k + 1
        OBVIOUS
      <3>2. m \in 1 .. N - 1 /\ m \in 0 .. N - 1 /\ m \in 1 .. N
        BY <1>1, <3>1
      <3>3. rest[m] = val[N - m]
        BY <2>1, <2>3, <3>1
      <3>4. rest[m + 1] = rest[m] \div T[m]
        BY <1>9, <3>2 DEF Divided
      <3>5. PICK a, e, t : a = val[N - (m + 1)] /\ e = d[m] /\ t = T[m]
        OBVIOUS
      <3>6. a \in Nat /\ e \in Nat /\ t \in Positive /\ e < t
        BY <1>6, <3>2, <3>5 DEF Radix
      <3>7. rest[m + 1] = (a * t + e) \div t
        BY ONLY <1>6, <3>2, <3>3, <3>4, <3>5
      <3>8. rest[m + 1] = a
        BY ONLY <3>6, <3>7, DivUnique
      <3>. QED BY ONLY <2>1, <3>1, <3>2, <3>5, <3>8
    <2>4. ASSUME NEW k \in 1 .. N PROVE rest[k] = val[N - k]
      <3>1. PICK j \in Nat : j = k - 1
        OBVIOUS
      <3>2. j \in 0 .. N - 1 /\ j + 1 = k
        BY <1>1, <3>1
      <3>3. \A n \in 0 .. j - 1 : n \in G => n + 1 \in G
        <4>1. \A n \in 0 .. j - 1 : n \in 0 .. (N - 1) - 1
          BY ONLY <1>1, <3>2, j \in Nat
        <4>. QED BY ONLY <2>3, <4>1
      <3>4. j \in G
        BY ONLY <2>2, <3>3, j \in Nat, Upward
      <3>. QED BY <2>1, <3>2, <3>4
    <2>. QED BY <2>4
  <1>10. ASSUME NEW rest, Divided(T, N, w, rest)
         PROVE  rest[N] = d[N] /\ \A k \in 1 .. N - 1 : rest[k] % T[k] = d[k]
    <2>1. rest[N] = d[N]
      <3>1. N \in 1 .. N /\ N - N = 0
        BY <1>1
      <3>. QED BY ONLY <1>8, <1>9, <1>10, <3>1
    <2>2. ASSUME NEW k \in 1 .. N - 1 PROVE rest[k] % T[k] = d[k]
      <3>1. k \in 1 .. N
        BY <1>1
      <3>2. PICK a, e, t : a = val[N - (k + 1)] /\ e = d[k] /\ t = T[k]
        OBVIOUS
      <3>3. a \in Nat /\ e \in Nat /\ t \in Positive /\ e < t
        BY <1>6, <3>1, <3>2 DEF Radix
      <3>4. rest[k] = a * t + e
        <4>1. rest[k] = val[N - k]
          BY ONLY <1>9, <1>10, <3>1
        <4>. QED BY ONLY <1>6, <3>2, <4>1, k \in 1 .. N - 1
      <3>5. rest[k] % t = e
        BY ONLY <3>3, <3>4, DivUnique
      <3>. QED BY <3>2, <3>5
    <2>. QED BY <2>1, <2>2
  <1>11. w < prod[N]
    <2>1. PICK G : G = {k \in 0 .. N - 1 : w < prod[k] * (val[N - (k + 1)] + 1)}
      OBVIOUS
    <2>2. 0 \in G
      <3>1. prod[0] = 1 /\ 0 \in 0 .. N - 1 /\ N - (0 + 1) = N - 1
        BY <1>1 DEF Multiplied
      <3>2. w < 1 * (w + 1)
        OBVIOUS
      <3>. QED BY ONLY <1>7, <2>1, <3>1, <3>2
    <2>3. ASSUME NEW k \in 0 .. (N - 1) - 1, k \in G PROVE k + 1 \in G
      <3>1. PICK m : m = k + 1
        OBVIOUS
      <3>2. m \in 1 .. N - 1 /\ m \in 0 .. N - 1 /\ m \in 1 .. N /\ k \in 0 .. N /\ m - 1 = k
        BY <1>1, <3>1
      <3>3. PICK a, b, e, t, p : /\ a = val[N - (m + 1)] /\ b = val[N - m]
                                 /\ e = d[m] /\ t = T[m] /\ p = prod[k]
        OBVIOUS
      <3>4. a \in Nat /\ b \in Nat /\ e \in Nat /\ t \in Nat /\ e < t /\ p \in Nat
        BY <1>6, <3>2, <3>3 DEF Radix, Multiplied, Positive
      <3>5. b = a * t + e
        BY ONLY <1>6, <3>2, <3>3
      <3>6. w < p * (b + 1)
        BY ONLY <2>1, <2>3, <3>1, <3>3
      <3>7. b + 1 <= (a + 1) * t
        <4>1. PICK x \in Nat : x = a * t
          BY ONLY <3>4, Product
        <4>2. (a + 1) * t = x + t
          BY ONLY <3>4, <4>1, SMT
        <4>. QED BY ONLY <3>4, <3>5, <4>1, <4>2
      <3>8. p * (b + 1) <= p * ((a + 1) * t)
        <4>1. PICK x, y \in Nat : x = b + 1 /\ y = (a + 1) * t
          <5>1. b + 1 \in Nat /\ a + 1 \in Nat
            BY ONLY <3>4
          <5>2. (a + 1) * t \in Nat
            BY ONLY <3>4, <5>1, Product
          <5>. QED BY <5>1, <5>2
        <4>2. x * p <= y * p /\ x * p = p * x /\ y * p = p * y
          BY ONLY <3>4, <3>7, <4>1, x \in Nat, y \in Nat, ProductRise, Product
        <4>. QED BY ONLY <4>1, <4>2
      <3>9. prod[m] = p * t
        BY <3>2, <3>3 DEF Multiplied
      <3>10. p * ((a + 1) * t) = (p * t) * (a + 1)
        BY ONLY <3>4, SMT
      <3>11. p * (b + 1) \in Nat /\ (p * t) * (a + 1) \in Nat
        BY ONLY <3>4, SMT
      <3>12. w < (p * t) * (a + 1)
        BY ONLY <3>6, <3>8, <3>10, <3>11, w \in Nat
      <3>13. w < prod[m] * (val[N - (m + 1)] + 1)
        BY ONLY <3>3, <3>9, <3>12
      <3>. QED BY ONLY <2>1, <3>1, <3>2, <3>13
    <2>4. N - 1 \in G
      BY ONLY <1>1, <2>2, <2>3, Upward
    <2>5. PICK p, e, t : p = prod[N - 1] /\ e = d[N] /\ t = T[N]
      OBVIOUS
    <2>6. p \in Nat /\ e \in Nat /\ t \in Nat /\ e < t /\ prod[N] = p * t
      BY <1>1, <2>5 DEF Radix, Multiplied, Positive
    <2>7. w < p * (e + 1)
      <3>1. N - ((N - 1) + 1) = 0
        BY <1>1
      <3>. QED BY ONLY <1>8, <2>1, <2>4, <2>5, <3>1
    <2>8. (e + 1) * p <= t * p /\ (e + 1) * p \in Nat /\ t * p \in Nat
      <3>1. e + 1 \in Nat /\ e + 1 <= t
        BY ONLY <2>6
      <3>. QED BY ONLY <2>6, <3>1, ProductRise
    <2>9. p * (e + 1) = (e + 1) * p /\ p * t = t * p
      <3>1. e + 1 \in Nat
        BY ONLY <2>6
      <3>. QED BY ONLY <2>6, <3>1, Product
    <2>. QED BY ONLY <2>6, <2>7, <2>8, <2>9, w \in Nat
  <1>. QED BY <1>10, <1>11 DEF HasDigits

-------------------------------------------------------------------------------
(* The walk of a grid. *)

(* The places of the walk and the tiles of the axis at each.               *)
Places(s) == Len(Order(s))

Radices(s) == [k \in 1 .. Places(s) |-> Tiles(s, Order(s)[k])]

(* An extent has a tile.                                                   *)
LEMMA TileCountBounds ==
    ASSUME NEW t \in Positive, NEW e \in Positive
    PROVE  TileCount(t, e) \in Positive
  <1>1. PICK n \in Nat : n = e + t - 1
    BY DEF Positive
  <1>2. PICK b, r \in Nat : b = n \div t /\ r < t /\ n = b * t + r
    BY ONLY t \in Positive, n \in Nat, DivMod
  <1>3. t \in Nat /\ e \in Nat /\ e > 0
    BY DEF Positive
  <1>4. b # 0
    <2>. SUFFICES ASSUME b = 0 PROVE FALSE
      OBVIOUS
    <2>1. b * t = 0
      BY ONLY b = 0, <1>3
    <2>. QED BY ONLY <1>1, <1>2, <1>3, <2>1
  <1>. QED BY ONLY <1>1, <1>2, <1>4, b \in Nat DEF TileCount, Positive

LEMMA WellFormedOwner ==
    ASSUME NEW s, WellFormed(s), NEW x, x.buffer \in Buffers,
           x.dim \in DOMAIN s.shape[x.buffer]
    PROVE  Extent(s, x) \in Positive
  <1>1. s.shape[x.buffer] \in Seq(Positive)
    BY DEF WellFormed
  <1>. QED BY <1>1 DEF Extent

LEMMA AxisTyped ==
    ASSUME NEW s, WellFormed(s), NEW a \in Axes(s)
    PROVE  /\ s.axes[a].buffer \in Buffers /\ s.axes[a].tile \in Positive
           /\ s.axes[a].dim \in DOMAIN s.shape[s.axes[a].buffer]
           /\ Extent(s, s.axes[a]) \in Positive /\ Tiles(s, a) \in Positive
  <1>1. s.axes[a] \in [buffer : Buffers, dim : Positive, tile : Positive]
    BY Member DEF WellFormed, Axes
  <1>2. s.axes[a].buffer \in Buffers /\ s.axes[a].tile \in Positive
    BY <1>1
  <1>3. s.axes[a].dim \in DOMAIN s.shape[s.axes[a].buffer]
    BY DEF WellFormed
  <1>4. Extent(s, s.axes[a]) \in Positive
    BY <1>2, <1>3, WellFormedOwner
  <1>5. Tiles(s, a) \in Positive
    BY <1>2, <1>4, TileCountBounds DEF Tiles
  <1>. QED BY <1>2, <1>3, <1>4, <1>5

(* The walk names every axis once.                                         *)
LEMMA OrderSound ==
    ASSUME NEW s, WellFormed(s), ProgramMapSound(s)
    PROVE  /\ Order(s) \in Seq(Axes(s)) /\ Places(s) \in Positive
           /\ DOMAIN Order(s) = 1 .. Places(s) /\ IsInjective(Order(s))
           /\ \A a \in Axes(s) : \E k \in 1 .. Places(s) : Order(s)[k] = a
  <1>1. s.axes \in Seq([buffer : Buffers, dim : Positive, tile : Positive]) /\ s.axes # << >>
    BY DEF WellFormed
  <1>2. PICK n \in Nat : n = Len(s.axes) /\ Axes(s) = 1 .. n
    BY <1>1 DEF Axes
  <1>3. n # 0
    BY <1>1, <1>2
  <1>4. CASE s.walk = << >>
    <2>1. Order(s) = [a \in 1 .. n |-> a]
      BY <1>2, <1>4 DEF Order
    <2>2. Order(s) \in Seq(1 .. n) /\ Len(Order(s)) = n
      BY <2>1
    <2>. QED BY <1>2, <1>3, <2>1, <2>2 DEF Places, Positive, IsInjective
  <1>5. CASE s.walk # << >>
    <2>1. IsInjective(s.walk) /\ ToSet(s.walk) = Axes(s) /\ Order(s) = s.walk
      BY <1>5 DEF ProgramMapSound, Order
    <2>2. s.walk \in Seq(Positive)
      BY DEF WellFormed
    <2>3. PICK m \in Nat : m = Len(s.walk) /\ DOMAIN s.walk = 1 .. m
      BY <2>2
    <2>4. \A k \in 1 .. m : s.walk[k] \in Axes(s)
      BY <2>1, <2>3 DEF ToSet
    <2>5. \A a \in Axes(s) : \E k \in 1 .. m : s.walk[k] = a
      BY <2>1, <2>3 DEF ToSet
    <2>6. m # 0
      BY <1>2, <1>3, <2>5
    <2>7. s.walk \in Seq(Axes(s))
      BY <2>2, <2>3, <2>4
    <2>. QED BY <2>1, <2>3, <2>5, <2>6, <2>7 DEF Places, Positive
  <1>. QED BY <1>4, <1>5

LEMMA RadicesSound ==
    ASSUME NEW s, WellFormed(s), ProgramMapSound(s)
    PROVE  Radix(Radices(s), Places(s))
  <1>1. ASSUME NEW k \in 1 .. Places(s) PROVE Order(s)[k] \in Axes(s)
    <2>1. Order(s) \in Seq(Axes(s)) /\ k \in DOMAIN Order(s)
      BY OrderSound
    <2>. QED BY ONLY <2>1, Member
  <1>2. \A k \in 1 .. Places(s) : Tiles(s, Order(s)[k]) \in Positive
    BY <1>1, AxisTyped
  <1>. QED BY <1>2, OrderSound DEF Radix, Radices

(* The launch has one work item for each point of the grid.                *)
LEMMA TotalIsProduct ==
    ASSUME NEW s, WellFormed(s), ProgramMapSound(s)
    PROVE  \E prod : Multiplied(Radices(s), Places(s), prod) /\ Total(s) = prod[Places(s)]
  <1>1. PICK N, T : N = Places(s) /\ T = Radices(s) /\ Radix(T, N)
    BY RadicesSound
  <1>2. N \in Nat
    BY <1>1 DEF Radix, Positive
  <1>3. PICK prod : Multiplied(T, N, prod)
    BY <1>1, ProductsExist
  <1>4. prod = [k \in 0 .. N |-> IF k = 0 THEN 1 ELSE prod[k - 1] * Tiles(s, Order(s)[k])]
    <2>1. ASSUME NEW k \in 0 .. N, k # 0 PROVE prod[k] = prod[k - 1] * Tiles(s, Order(s)[k])
      <3>1. k \in 1 .. N
        BY <1>2, <2>1
      <3>. QED BY <1>1, <1>3, <3>1 DEF Multiplied, Radices
    <2>. QED BY <1>3, <2>1 DEF Multiplied
  <1>5. PICK p : /\ p = [k \in 0 .. N |-> IF k = 0 THEN 1 ELSE p[k - 1] * Tiles(s, Order(s)[k])]
                 /\ Total(s) = p[N]
    BY <1>1, <1>4 DEF Total, Places
  <1>6. PICK G : G = {k \in 0 .. N : p[k] = prod[k]}
    OBVIOUS
  <1>7. 0 \in G
    BY <1>2, <1>3, <1>5, <1>6 DEF Multiplied
  <1>8. ASSUME NEW k \in 0 .. N - 1, k \in G PROVE k + 1 \in G
    <2>1. k + 1 \in 0 .. N /\ k + 1 # 0 /\ (k + 1) - 1 = k
      BY <1>2
    <2>2. p[k + 1] = p[(k + 1) - 1] * Tiles(s, Order(s)[k + 1])
      BY ONLY <1>5, <2>1
    <2>3. prod[k + 1] = prod[(k + 1) - 1] * Tiles(s, Order(s)[k + 1])
      BY ONLY <1>4, <2>1
    <2>. QED BY ONLY <1>6, <1>8, <2>1, <2>2, <2>3
  <1>9. N \in G
    BY ONLY <1>2, <1>7, <1>8, Upward
  <1>. QED BY <1>1, <1>3, <1>5, <1>6, <1>9

LEMMA RemainderDivides ==
    ASSUME NEW s, WellFormed(s), ProgramMapSound(s), NEW w \in Nat
    PROVE  Divided(Radices(s), Places(s), w, Remainder(s, w))
  <1>1. PICK N, T : N = Places(s) /\ T = Radices(s) /\ Radix(T, N)
    BY RadicesSound
  <1>2. N \in Nat /\ N >= 1
    BY <1>1 DEF Radix, Positive
  <1>3. PICK rest : Divided(T, N, w, rest)
    BY <1>1, RestsExist
  <1>4. rest = [k \in 1 .. N |-> IF k = 1 THEN w ELSE rest[k - 1] \div Tiles(s, Order(s)[k - 1])]
    <2>1. ASSUME NEW k \in 1 .. N, k # 1
          PROVE  rest[k] = rest[k - 1] \div Tiles(s, Order(s)[k - 1])
      <3>1. k - 1 \in 1 .. N - 1 /\ (k - 1) + 1 = k /\ k - 1 \in 1 .. N
        BY <1>2, <2>1
      <3>2. rest[(k - 1) + 1] = rest[k - 1] \div T[k - 1]
        BY <1>3, <3>1 DEF Divided
      <3>3. T[k - 1] = Tiles(s, Order(s)[k - 1])
        BY <1>1, <3>1 DEF Radices
      <3>. QED BY ONLY <3>1, <3>2, <3>3
    <2>. QED BY <1>3, <2>1 DEF Divided
  <1>5. PICK p : /\ p = [k \in 1 .. N |-> IF k = 1 THEN w ELSE p[k - 1] \div Tiles(s, Order(s)[k - 1])]
                 /\ Remainder(s, w) = p
    BY <1>1, <1>4 DEF Remainder, Places
  <1>6. PICK G : G = {k \in 0 .. N - 1 : p[k + 1] = rest[k + 1]}
    OBVIOUS
  <1>7. 0 \in G
    <2>1. 0 \in 0 .. N - 1 /\ 0 + 1 = 1 /\ 1 \in 1 .. N
      BY <1>2
    <2>. QED BY ONLY <1>4, <1>5, <1>6, <2>1
  <1>8. ASSUME NEW k \in 0 .. (N - 1) - 1, k \in G PROVE k + 1 \in G
    <2>1. PICK m : m = (k + 1) + 1
      OBVIOUS
    <2>2. m \in 1 .. N /\ m # 1 /\ m - 1 = k + 1 /\ k + 1 \in 0 .. N - 1
      BY <1>2, <2>1
    <2>3. p[m] = p[m - 1] \div Tiles(s, Order(s)[m - 1])
      BY ONLY <1>5, <2>2
    <2>4. rest[m] = rest[m - 1] \div Tiles(s, Order(s)[m - 1])
      BY ONLY <1>4, <2>2
    <2>. QED BY ONLY <1>6, <1>8, <2>1, <2>2, <2>3, <2>4
  <1>9. ASSUME NEW k \in 1 .. N PROVE p[k] = rest[k]
    <2>1. PICK j \in Nat : j = k - 1
      OBVIOUS
    <2>2. j \in 0 .. N - 1 /\ j + 1 = k
      BY <1>2, <2>1
    <2>3. \A n \in 0 .. j - 1 : n \in G => n + 1 \in G
      <3>1. \A n \in 0 .. j - 1 : n \in 0 .. (N - 1) - 1
        BY ONLY <1>2, <2>2, j \in Nat
      <3>. QED BY ONLY <1>8, <3>1
    <2>4. j \in G
      BY ONLY <1>7, <2>3, j \in Nat, Upward
    <2>. QED BY <1>6, <2>2, <2>4
  <1>10. p = rest
    <2>1. p = [k \in 1 .. N |-> p[k]] /\ rest = [k \in 1 .. N |-> rest[k]]
      BY ONLY <1>4, <1>5
    <2>. QED BY ONLY <1>9, <2>1
  <1>. QED BY <1>1, <1>3, <1>5, <1>10

(* The grid of the program axes, and the work items that number it.        *)
Coordinate(s) == [Axes(s) -> Nat]

Grid(s) == {pid \in Coordinate(s) : \A a \in Axes(s) : pid[a] < Tiles(s, a)}

Items(s) == {w \in Nat : w < Total(s)}

(* Decompose, read in the order of the walk.                               *)
LEMMA Digits ==
    ASSUME NEW s, WellFormed(s), ProgramMapSound(s), NEW w, NEW k \in 1 .. Places(s)
    PROVE  Decompose(s, w)[Order(s)[k]] =
              IF k = Places(s) THEN Remainder(s, w)[k] ELSE Remainder(s, w)[k] % Radices(s)[k]
  <1>1. PICK a : a = Order(s)[k]
    OBVIOUS
  <1>2. a \in Axes(s) /\ k \in DOMAIN Order(s)
    <2>1. Order(s) \in Seq(Axes(s)) /\ k \in DOMAIN Order(s)
      BY OrderSound
    <2>. QED BY ONLY <1>1, <2>1, Member
  <1>3. k = CHOOSE i \in DOMAIN Order(s) : Order(s)[i] = a
    <2>1. \A i \in DOMAIN Order(s) : Order(s)[i] = a => i = k
      BY ONLY WellFormed(s), ProgramMapSound(s), <1>1, <1>2, OrderSound DEF IsInjective
    <2>. QED BY ONLY <1>1, <1>2, <2>1
  <1>4. Decompose(s, w)[a] =
          IF k = Len(Order(s)) THEN Remainder(s, w)[k] ELSE Remainder(s, w)[k] % Tiles(s, a)
    BY ONLY <1>2, <1>3 DEF Decompose
  <1>. QED BY ONLY <1>1, <1>4, k \in 1 .. Places(s) DEF Places, Radices

(* Decompose numbers the grid: each item has its point, no two items have  *)
(* the same one, and every point has an item.                              *)
LEMMA DecomposeInGrid ==
    ASSUME NEW s, WellFormed(s), ProgramMapSound(s), NEW w \in Items(s)
    PROVE  Decompose(s, w) \in Grid(s)
  <1>1. PICK N, T, rest : N = Places(s) /\ T = Radices(s) /\ rest = Remainder(s, w)
    OBVIOUS
  <1>2. w \in Nat /\ w < Total(s) /\ Radix(T, N) /\ Divided(T, N, w, rest)
    BY <1>1, RadicesSound, RemainderDivides DEF Items
  <1>3. rest[N] < T[N]
    BY <1>1, <1>2, TotalIsProduct, RestBelow
  <1>4. ASSUME NEW k \in 1 .. N
        PROVE  Decompose(s, w)[Order(s)[k]] \in Nat /\ Decompose(s, w)[Order(s)[k]] < T[k]
    <2>1. rest[k] \in Nat /\ T[k] \in Positive
      BY <1>2 DEF Divided, Radix
    <2>2. rest[k] % T[k] \in Nat /\ rest[k] % T[k] < T[k]
      BY ONLY <2>1, DivMod
    <2>3. Decompose(s, w)[Order(s)[k]] = IF k = N THEN rest[k] ELSE rest[k] % T[k]
      BY <1>1, Digits
    <2>. QED BY ONLY <1>3, <2>1, <2>2, <2>3
  <1>5. ASSUME NEW a \in Axes(s)
        PROVE  Decompose(s, w)[a] \in Nat /\ Decompose(s, w)[a] < Tiles(s, a)
    <2>1. PICK k \in 1 .. N : Order(s)[k] = a
      BY <1>1, OrderSound
    <2>2. T[k] = Tiles(s, a)
      BY <1>1, <2>1 DEF Radices
    <2>. QED BY ONLY <1>4, <2>1, <2>2
  <1>6. Decompose(s, w) = [a \in Axes(s) |-> Decompose(s, w)[a]]
    BY DEF Decompose
  <1>. QED BY ONLY <1>5, <1>6 DEF Grid, Coordinate

LEMMA DecomposeInjective ==
    ASSUME NEW s, WellFormed(s), ProgramMapSound(s), NEW w \in Items(s), NEW v \in Items(s),
           Decompose(s, w) = Decompose(s, v)
    PROVE  w = v
  <1>1. PICK N, T, r, q : /\ N = Places(s) /\ T = Radices(s)
                          /\ r = Remainder(s, w) /\ q = Remainder(s, v)
    OBVIOUS
  <1>2. w \in Nat /\ v \in Nat /\ Radix(T, N) /\ Divided(T, N, w, r) /\ Divided(T, N, v, q)
    BY <1>1, RadicesSound, RemainderDivides DEF Items
  <1>3. N \in Nat /\ N >= 1
    BY <1>2 DEF Radix, Positive
  <1>4. ASSUME NEW k \in 1 .. N
        PROVE  (IF k = N THEN r[k] ELSE r[k] % T[k]) = (IF k = N THEN q[k] ELSE q[k] % T[k])
    <2>1. Decompose(s, w)[Order(s)[k]] = IF k = N THEN r[k] ELSE r[k] % T[k]
      BY <1>1, Digits
    <2>2. Decompose(s, v)[Order(s)[k]] = IF k = N THEN q[k] ELSE q[k] % T[k]
      BY <1>1, Digits
    <2>. QED BY <2>1, <2>2
  <1>5. r[N] = q[N]
    BY <1>3, <1>4
  <1>6. \A k \in 1 .. N - 1 : r[k] % T[k] = q[k] % T[k]
    <2>1. \A k \in 1 .. N - 1 : k \in 1 .. N /\ k # N
      BY <1>3
    <2>. QED BY ONLY <1>4, <2>1
  <1>. QED BY ONLY <1>2, <1>5, <1>6, RestInjective

LEMMA DecomposeReaches ==
    ASSUME NEW s, WellFormed(s), ProgramMapSound(s), NEW pid \in Grid(s)
    PROVE  \E w \in Items(s) : Decompose(s, w) = pid
  <1>1. PICK N, T : N = Places(s) /\ T = Radices(s)
    OBVIOUS
  <1>2. Radix(T, N)
    BY <1>1, RadicesSound
  <1>3. PICK prod : Multiplied(T, N, prod) /\ Total(s) = prod[N]
    BY <1>1, TotalIsProduct
  <1>4. PICK d : d = [k \in 1 .. N |-> pid[Order(s)[k]]]
    OBVIOUS
  <1>5. ASSUME NEW k \in 1 .. N PROVE d[k] \in Nat /\ d[k] < T[k]
    <2>1. Order(s)[k] \in Axes(s)
      <3>1. Order(s) \in Seq(Axes(s)) /\ k \in DOMAIN Order(s)
        BY <1>1, OrderSound
      <3>. QED BY ONLY <3>1, Member
    <2>. QED BY <1>1, <1>4, <2>1 DEF Grid, Coordinate, Radices
  <1>6. d \in [1 .. N -> Nat]
    BY ONLY <1>4, <1>5
  <1>7. PICK w \in Nat : w < prod[N] /\ HasDigits(T, N, w, d)
    BY ONLY <1>2, <1>3, <1>5, <1>6, RestReach
  <1>8. PICK rest : rest = Remainder(s, w) /\ Divided(T, N, w, rest)
    BY <1>1, RemainderDivides
  <1>9. w \in Items(s)
    BY <1>3, <1>7 DEF Items
  <1>10. N \in Nat /\ N >= 1
    BY <1>2 DEF Radix, Positive
  <1>11. ASSUME NEW a \in Axes(s) PROVE Decompose(s, w)[a] = pid[a]
    <2>1. PICK k \in 1 .. N : Order(s)[k] = a
      BY <1>1, OrderSound
    <2>2. Decompose(s, w)[a] = IF k = N THEN rest[k] ELSE rest[k] % T[k]
      BY <1>1, <1>8, <2>1, Digits
    <2>3. k # N => k \in 1 .. N - 1
      BY <1>10
    <2>4. Decompose(s, w)[a] = d[k]
      BY ONLY <1>7, <1>8, <2>2, <2>3 DEF HasDigits
    <2>. QED BY ONLY <1>4, <2>1, <2>4
  <1>12. Decompose(s, w) = pid
    <2>1. Decompose(s, w) = [a \in Axes(s) |-> Decompose(s, w)[a]]
      BY DEF Decompose
    <2>2. pid = [a \in Axes(s) |-> pid[a]]
      BY DEF Grid, Coordinate
    <2>. QED BY ONLY <1>11, <2>1, <2>2
  <1>. QED BY <1>9, <1>12

-------------------------------------------------------------------------------
(* The work of the programs. *)

LEMMA TotalPositive ==
    ASSUME NEW s, WellFormed(s), ProgramMapSound(s)
    PROVE  Total(s) \in Positive /\ CTAs(s) \in Positive /\ CTAs(s) <= Total(s)
  <1>1. Total(s) \in Positive
    <2>1. Places(s) \in Positive
      BY OrderSound
    <2>. QED BY <2>1, TotalIsProduct DEF Multiplied, Positive
  <1>2. s.slots \in Nat
    BY DEF WellFormed
  <1>. QED BY <1>1, <1>2 DEF CTAs, Persistent, Positive

(* Item number i of a stride is one of the items exactly when the length   *)
(* admits it.                                                              *)
LEMMA WorkLength ==
    ASSUME NEW C \in Positive, NEW n \in Positive, NEW i \in Positive
    PROVE  TileCount(C, n) \in Nat /\ (i <= TileCount(C, n) <=> (i - 1) * C < n)
  <1>1. C \in Nat /\ n \in Nat /\ C > 0 /\ i \in Nat /\ i > 0
    BY DEF Positive
  <1>2. PICK m, j \in Nat : m = n + C - 1 /\ j = i - 1
    BY <1>1
  <1>3. PICK b, e \in Nat : b = m \div C /\ e < C /\ m = b * C + e
    BY ONLY C \in Positive, m \in Nat, DivMod
  <1>4. PICK bC, jC \in Nat : bC = b * C /\ jC = j * C
    BY <1>1, Product
  <1>5. b <= j => bC <= jC
    BY ONLY <1>1, <1>4, b \in Nat, j \in Nat, ProductRise
  <1>6. j + 1 <= b => jC + C <= bC
    <2>1. j + 1 \in Nat /\ (j + 1) * C = jC + C
      BY ONLY <1>1, <1>4, j \in Nat, SMT
    <2>. QED BY ONLY <1>1, <1>4, <2>1, b \in Nat, ProductRise
  <1>7. i <= b <=> jC < n
    BY ONLY <1>1, <1>2, <1>3, <1>4, <1>5, <1>6, b \in Nat, j \in Nat, e \in Nat, m \in Nat,
       bC \in Nat, jC \in Nat
  <1>8. TileCount(C, n) = b
    BY ONLY <1>2, <1>3 DEF TileCount
  <1>. QED BY ONLY <1>2, <1>4, <1>7, <1>8, b \in Nat

LEMMA WorkIsItems ==
    ASSUME NEW s, WellFormed(s), ProgramMapSound(s), NEW c \in Programs(s)
    PROVE  Work(s, c) \in Seq(Items(s))
  <1>1. PICK C, n : C = CTAs(s) /\ n = Total(s)
    OBVIOUS
  <1>2. C \in Positive /\ n \in Positive /\ C <= n /\ c \in 0 .. C - 1
    BY <1>1, TotalPositive DEF Programs
  <1>3. PICK m : m = n - c
    OBVIOUS
  <1>4. m \in Positive /\ c \in Nat /\ C \in Nat /\ n \in Nat
    BY ONLY <1>2, <1>3 DEF Positive
  <1>5. PICK L \in Nat : L = TileCount(C, m)
    <2>1. 1 \in Positive
      BY DEF Positive
    <2>. QED BY ONLY <1>2, <1>4, <2>1, WorkLength
  <1>6. ASSUME NEW i \in 1 .. L PROVE c + (i - 1) * C \in Items(s)
    <2>1. i \in Positive
      BY DEF Positive
    <2>2. (i - 1) * C < m
      BY ONLY <1>2, <1>4, <1>5, <2>1, i \in 1 .. L, WorkLength
    <2>3. (i - 1) * C \in Nat
      BY ONLY <1>4, i \in 1 .. L, L \in Nat, Product
    <2>4. c + (i - 1) * C \in Nat /\ c + (i - 1) * C < n
      BY ONLY <1>3, <1>4, <2>2, <2>3
    <2>. QED BY <1>1, <2>4 DEF Items
  <1>7. Work(s, c) = [i \in 1 .. L |-> c + (i - 1) * C]
    BY <1>1, <1>3, <1>5 DEF Work
  <1>. QED BY ONLY <1>6, <1>7, L \in Nat

(* No item is worked twice, by one program or by two, and none is left     *)
(* out.                                                                    *)
LEMMA WorkIsDisjoint ==
    ASSUME NEW s, WellFormed(s), ProgramMapSound(s), NEW c \in Programs(s), NEW d \in Programs(s),
           NEW i \in DOMAIN Work(s, c), NEW j \in DOMAIN Work(s, d), Work(s, c)[i] = Work(s, d)[j]
    PROVE  c = d /\ i = j
  <1>1. PICK C : C = CTAs(s)
    OBVIOUS
  <1>2. C \in Positive /\ c \in 0 .. C - 1 /\ d \in 0 .. C - 1
    BY <1>1, TotalPositive DEF Programs
  <1>3. i \in Nat /\ i >= 1 /\ j \in Nat /\ j >= 1
    <2>1. Work(s, c) \in Seq(Items(s)) /\ Work(s, d) \in Seq(Items(s))
      BY WorkIsItems
    <2>. QED BY ONLY <2>1, i \in DOMAIN Work(s, c), j \in DOMAIN Work(s, d)
  <1>4. c + (i - 1) * C = d + (j - 1) * C
    BY <1>1 DEF Work
  <1>5. PICK a, b \in Nat : a = i - 1 /\ b = j - 1
    BY <1>3
  <1>6. C \in Nat /\ c \in Nat /\ c < C /\ d \in Nat /\ d < C
    BY ONLY <1>2 DEF Positive
  <1>7. a * C + c = b * C + d
    <2>1. PICK x, y \in Nat : x = a * C /\ y = b * C
      BY ONLY <1>6, a \in Nat, b \in Nat, Product
    <2>. QED BY ONLY <1>4, <1>5, <1>6, <2>1
  <1>8. a = b /\ c = d
    BY ONLY <1>2, <1>6, <1>7, a \in Nat, b \in Nat, DivUnique
  <1>. QED BY ONLY <1>3, <1>5, <1>8

LEMMA WorkCovers ==
    ASSUME NEW s, WellFormed(s), ProgramMapSound(s), NEW w \in Items(s)
    PROVE  \E c \in Programs(s) : \E i \in DOMAIN Work(s, c) : Work(s, c)[i] = w
  <1>1. PICK C, n : C = CTAs(s) /\ n = Total(s)
    OBVIOUS
  <1>2. C \in Positive /\ n \in Positive /\ w \in Nat /\ w < n
    BY <1>1, TotalPositive DEF Items
  <1>3. PICK b, c \in Nat : c < C /\ w = b * C + c
    BY ONLY <1>2, DivMod
  <1>4. C \in Nat /\ n \in Nat /\ b * C \in Nat /\ c <= w
    <2>1. C \in Nat /\ n \in Nat
      BY <1>2 DEF Positive
    <2>2. PICK x \in Nat : x = b * C
      BY ONLY <2>1, b \in Nat, Product
    <2>. QED BY ONLY <1>2, <1>3, <2>1, <2>2, c \in Nat
  <1>5. PICK i \in Positive : i = b + 1
    BY DEF Positive
  <1>6. PICK m \in Positive : m = n - c
    <2>1. n - c \in Nat /\ n - c # 0
      BY ONLY <1>2, <1>3, <1>4, c \in Nat
    <2>. QED BY <2>1 DEF Positive
  <1>7. i - 1 = b
    BY ONLY <1>5, b \in Nat
  <1>8. (i - 1) * C < m
    <2>1. PICK x \in Nat : x = b * C
      BY <1>4
    <2>. QED BY ONLY <1>2, <1>3, <1>4, <1>6, <1>7, <2>1, c \in Nat
  <1>9. i <= TileCount(C, m) /\ TileCount(C, m) \in Nat
    BY ONLY <1>2, <1>8, i \in Positive, m \in Positive, WorkLength
  <1>10. i \in 1 .. TileCount(C, m)
    BY ONLY <1>9, i \in Positive DEF Positive
  <1>11. c \in Programs(s)
    BY ONLY <1>1, <1>3, <1>4, c \in Nat DEF Programs
  <1>12. Work(s, c) = [k \in 1 .. TileCount(C, m) |-> c + (k - 1) * C]
    BY ONLY <1>1, <1>6 DEF Work
  <1>13. i \in DOMAIN Work(s, c) /\ Work(s, c)[i] = c + (i - 1) * C
    BY ONLY <1>10, <1>12
  <1>14. Work(s, c)[i] = w
    <2>1. PICK x \in Nat : x = b * C
      BY <1>4
    <2>. QED BY ONLY <1>3, <1>7, <1>13, <2>1, c \in Nat
  <1>. QED BY <1>11, <1>13, <1>14

-------------------------------------------------------------------------------
(* R lists the elements of S, each once; what the relation B puts before   *)
(* an element is before it.                                                *)
Lists(R, S, B) ==
    /\ R \in Seq(S) /\ IsInjective(R)
    /\ \A x \in S : \E n \in DOMAIN R : R[n] = x
    /\ \A n \in DOMAIN R : \A x \in S :
          <<x, R[n]>> \in B => \E m \in DOMAIN R : m < n /\ R[m] = x

(* What is listed: nothing, one element, and the rows of a sequence that   *)
(* are apart.                                                              *)
LEMMA ListsNothing ==
    ASSUME NEW B
    PROVE  Lists(<< >>, {}, B)
  BY DEF Lists, IsInjective

LEMMA ListsOne ==
    ASSUME NEW x, NEW B, <<x, x>> \notin B
    PROVE  Lists(<<x>>, {x}, B)
  <1>1. <<x>> \in Seq({x}) /\ DOMAIN <<x>> = {1} /\ <<x>>[1] = x
    OBVIOUS
  <1>. QED BY ONLY <1>1, <<x, x>> \notin B DEF Lists, IsInjective

LEMMA SequenceRetyped ==
    ASSUME NEW T, NEW U, NEW q \in Seq(T), \A n \in DOMAIN q : q[n] \in U
    PROVE  q \in Seq(U)
  OBVIOUS

(* Row k shares nothing with row c and depends on nothing in it.           *)
Apart(S, B, k, c) == \A x \in S[k], y \in S[c] : x # y /\ <<y, x>> \notin B

LEMMA FlattenLists ==
    ASSUME NEW T, NEW q \in Seq(Seq(T)), NEW S, NEW B,
           \A k \in DOMAIN q : Lists(q[k], S[k], B),
           \A k, c \in DOMAIN q : k < c => Apart(S, B, k, c)
    PROVE  Lists(FlattenSeq(q), UNION {S[k] : k \in DOMAIN q}, B)
  <1>1. PICK flat, U : flat = FlattenSeq(q) /\ U = UNION {S[k] : k \in DOMAIN q}
    OBVIOUS
  <1>2. flat \in Seq(T)
    BY <1>1, Flattening
  <1>3. \A k \in DOMAIN q : k \in Nat
    OBVIOUS
  <1>4. ASSUME NEW k \in DOMAIN q, NEW j \in DOMAIN q[k]
        PROVE  q[k][j] \in S[k]
    <2>1. q[k] \in Seq(S[k])
      BY DEF Lists
    <2>. QED BY ONLY <2>1, j \in DOMAIN q[k], Member
  <1>5. flat \in Seq(U)
    <2>1. ASSUME NEW n \in DOMAIN flat PROVE flat[n] \in U
      <3>1. PICK k, j : HasPlace(q, flat, n, k, j)
        BY <1>1, FlattenPlace
      <3>. QED BY <1>1, <1>4, <3>1 DEF HasPlace
    <2>. QED BY ONLY <1>2, <2>1, SequenceRetyped
  <1>6. IsInjective(flat)
    <2>1. ASSUME NEW k \in DOMAIN q, NEW c \in DOMAIN q, NEW j \in DOMAIN q[k], NEW i \in DOMAIN q[c],
                 q[k][j] = q[c][i]
          PROVE  k = c /\ j = i
      <3>1. q[k][j] \in S[k] /\ q[c][i] \in S[c]
        BY <1>4
      <3>2. ~ (k < c) /\ ~ (c < k)
        BY <2>1, <3>1 DEF Apart
      <3>3. k = c
        BY ONLY <1>3, <3>2, k \in DOMAIN q, c \in DOMAIN q
      <3>4. IsInjective(q[k])
        BY DEF Lists
      <3>. QED BY <2>1, <3>3, <3>4 DEF IsInjective
    <2>. QED BY ONLY <1>1, <2>1, q \in Seq(Seq(T)), FlattenInjective
  <1>7. ASSUME NEW x \in U PROVE \E n \in DOMAIN flat : flat[n] = x
    <2>1. PICK k \in DOMAIN q : x \in S[k]
      BY <1>1
    <2>2. PICK j \in DOMAIN q[k] : q[k][j] = x
      BY <2>1 DEF Lists
    <2>. QED BY <1>1, <2>2, FlattenReach
  <1>8. ASSUME NEW n \in DOMAIN flat, NEW x \in U, <<x, flat[n]>> \in B
        PROVE  \E m \in DOMAIN flat : m < n /\ flat[m] = x
    <2>1. PICK k, j : HasPlace(q, flat, n, k, j)
      BY <1>1, FlattenPlace
    <2>2. k \in DOMAIN q /\ j \in DOMAIN q[k] /\ flat[n] = q[k][j]
      BY <2>1 DEF HasPlace
    <2>3. PICK c \in DOMAIN q : x \in S[c]
      BY <1>1
    <2>4. PICK i \in DOMAIN q[c] : q[c][i] = x
      BY <2>3 DEF Lists
    <2>5. ~ (k < c)
      BY <1>4, <1>8, <2>2, <2>3 DEF Apart
    <2>6. CASE c < k
      BY <2>1, <2>4, <2>6 DEF HasPlace
    <2>7. CASE c = k
      <3>1. \E m \in DOMAIN q[k] : m < j /\ q[k][m] = x
        BY <1>8, <2>2, <2>3, <2>7 DEF Lists
      <3>. QED BY <2>1, <3>1 DEF HasPlace
    <2>. QED BY ONLY <1>3, <2>2, <2>5, <2>6, <2>7, c \in DOMAIN q
  <1>9. Lists(flat, U, B)
    BY ONLY <1>5, <1>6, <1>7, <1>8 DEF Lists
  <1>. QED BY <1>1, <1>9

-------------------------------------------------------------------------------
(* The loops of an admitted nest. *)

(* What a body names.                                                      *)
Entries(s) == ({"op"} \X Ops(s)) \cup ({"loop"} \X Loops(s))

LEMMA LoopTyped ==
    ASSUME NEW s, WellFormed(s), NEW l \in Loops(s)
    PROVE  /\ s.loops[l].buffer \in Buffers /\ s.loops[l].tile \in Positive
           /\ s.loops[l].dim \in DOMAIN s.shape[s.loops[l].buffer]
           /\ Extent(s, s.loops[l]) \in Positive /\ Trips(s, l) \in Positive
           /\ s.loops[l].body \in Seq(Entries(s)) /\ l \in {1, 2}
  <1>1. s.loops \in Seq([buffer : Buffers, dim : Positive, tile : Positive, body : Seq(Entries(s))])
    BY DEF WellFormed, Entries
  <1>2. s.loops[l] \in [buffer : Buffers, dim : Positive, tile : Positive, body : Seq(Entries(s))]
    BY <1>1, Member DEF Loops
  <1>3. /\ s.loops[l].buffer \in Buffers /\ s.loops[l].tile \in Positive
        /\ s.loops[l].body \in Seq(Entries(s))
    BY ONLY <1>2
  <1>4. s.loops[l].dim \in DOMAIN s.shape[s.loops[l].buffer]
    BY DEF WellFormed
  <1>5. Extent(s, s.loops[l]) \in Positive
    BY <1>3, <1>4, WellFormedOwner
  <1>6. Trips(s, l) \in Positive
    BY <1>3, <1>5, TileCountBounds DEF Trips
  <1>7. l \in {1, 2}
    <2>1. Len(s.loops) <= 2
      BY DEF WellFormed
    <2>. QED BY ONLY <1>1, <2>1, l \in Loops(s) DEF Loops
  <1>. QED BY <1>3, <1>4, <1>5, <1>6, <1>7

LEMMA MentionsFinite ==
    ASSUME NEW s, WellFormed(s), NEW entry
    PROVE  IsFiniteSet(Mentions(s, entry))
  <1>1. PICK F : F = {{l} \X DOMAIN s.loops[l].body : l \in Loops(s)}
    OBVIOUS
  <1>2. PICK one, two : one = {1} \X DOMAIN s.loops[1].body /\ two = {2} \X DOMAIN s.loops[2].body
    OBVIOUS
  <1>3. IsFiniteSet(F)
    <2>1. F \in SUBSET ({one} \cup {two})
      BY <1>1, <1>2, LoopTyped
    <2>2. IsFiniteSet({one} \cup {two})
      BY FS_Singleton, FS_AddElement
    <2>. QED BY ONLY <2>1, <2>2, FS_Subset
  <1>4. ASSUME NEW x \in F PROVE IsFiniteSet(x)
    <2>1. PICK l \in Loops(s) : x = {l} \X DOMAIN s.loops[l].body
      BY <1>1
    <2>2. IsFiniteSet(DOMAIN s.loops[l].body)
      BY LoopTyped, FiniteIndex
    <2>. QED BY ONLY <2>1, <2>2, FS_Singleton, FS_Product
  <1>5. IsFiniteSet(UNION F)
    BY ONLY <1>3, <1>4, FS_UNION
  <1>6. Mentions(s, entry) \in SUBSET UNION F
    BY ONLY <1>1 DEF Mentions
  <1>. QED BY ONLY <1>5, <1>6, FS_Subset

(* A name that is mentioned once is mentioned in one place.                *)
LEMMA MentionedOnce ==
    ASSUME NEW s, WellFormed(s), NEW entry, Cardinality(Mentions(s, entry)) <= 1,
           NEW l \in Loops(s), NEW e \in DOMAIN s.loops[l].body, s.loops[l].body[e] = entry,
           NEW k \in Loops(s), NEW f \in DOMAIN s.loops[k].body, s.loops[k].body[f] = entry
    PROVE  k = l /\ f = e
  <1>1. PICK M : M = Mentions(s, entry)
    OBVIOUS
  <1>2. <<l, e>> \in M /\ <<k, f>> \in M
    BY <1>1 DEF Mentions
  <1>3. IsFiniteSet(M) /\ Cardinality(M) <= 1
    BY <1>1, MentionsFinite
  <1>4. Cardinality(M) = 1
    BY ONLY <1>2, <1>3, FS_EmptySet, FS_CardinalityType
  <1>5. PICK m : M = {m}
    BY ONLY <1>3, <1>4, FS_Singleton
  <1>. QED BY ONLY <1>2, <1>5

(* A body names an operation, or a loop that no other body names and that  *)
(* names only operations.                                                  *)
LEMMA EntryTyped ==
    ASSUME NEW s, WellFormed(s), NEW l \in Loops(s), NEW e \in DOMAIN s.loops[l].body
    PROVE  \/ \E o \in Ops(s) : s.loops[l].body[e] = <<"op", o>>
           \/ \E c \in Loops(s) : s.loops[l].body[e] = <<"loop", c>>
  <1>1. s.loops[l].body \in Seq(Entries(s))
    BY LoopTyped
  <1>2. s.loops[l].body[e] \in Entries(s)
    BY ONLY <1>1, e \in DOMAIN s.loops[l].body, Member
  <1>. QED BY <1>2 DEF Entries

(* The one place of an operation, and of a loop: a nest has two levels.    *)
LEMMA EntryOfOperation ==
    ASSUME NEW s, WellFormed(s), LoopNamesResolveOnce(s), NEW l \in Loops(s),
           NEW e \in DOMAIN s.loops[l].body, NEW o \in Ops(s), s.loops[l].body[e] = <<"op", o>>
    PROVE  /\ Direct(s, o) = {l}
           /\ \A k \in Loops(s) : \A f \in DOMAIN s.loops[k].body :
                 s.loops[k].body[f] = <<"op", o>> => k = l /\ f = e
  <1>1. PICK entry : entry = <<"op", o>>
    OBVIOUS
  <1>2. Cardinality(Mentions(s, entry)) <= 1
    BY <1>1 DEF LoopNamesResolveOnce
  <1>3. ASSUME NEW k \in Loops(s), NEW f \in DOMAIN s.loops[k].body, s.loops[k].body[f] = entry
        PROVE  k = l /\ f = e
    BY <1>1, <1>2, <1>3, MentionedOnce
  <1>4. <<l, e>> \in Mentions(s, entry)
    BY <1>1 DEF Mentions
  <1>5. ASSUME NEW m \in Mentions(s, entry) PROVE m[1] = l
    <2>1. m[1] \in Loops(s) /\ m[2] \in DOMAIN s.loops[m[1]].body /\ s.loops[m[1]].body[m[2]] = entry
      BY DEF Mentions
    <2>. QED BY ONLY <1>3, <2>1
  <1>6. Direct(s, o) = {l}
    BY ONLY <1>1, <1>4, <1>5 DEF Direct
  <1>. QED BY ONLY <1>1, <1>3, <1>6

(* The body of loop c has no loop. *)
Leaf(s, c) == \A f \in DOMAIN s.loops[c].body : \E o \in Ops(s) : s.loops[c].body[f] = <<"op", o>>

LEMMA EntryOfLoop ==
    ASSUME NEW s, WellFormed(s), LoopNamesResolveOnce(s), NEW l \in Loops(s),
           NEW e \in DOMAIN s.loops[l].body, NEW c \in Loops(s), s.loops[l].body[e] = <<"loop", c>>
    PROVE  /\ c # l /\ Parents(s, c) = {l} /\ Parents(s, l) = {}
           /\ \A k \in Loops(s) : \A f \in DOMAIN s.loops[k].body :
                 s.loops[k].body[f] = <<"loop", c>> => k = l /\ f = e
           /\ Leaf(s, c)
  <1>1. PICK entry : entry = <<"loop", c>>
    OBVIOUS
  <1>2. Cardinality(Mentions(s, entry)) <= 1
    BY <1>1 DEF LoopNamesResolveOnce
  <1>3. ASSUME NEW k \in Loops(s), NEW f \in DOMAIN s.loops[k].body, s.loops[k].body[f] = entry
        PROVE  k = l /\ f = e
    BY <1>1, <1>2, <1>3, MentionedOnce
  <1>4. <<l, e>> \in Mentions(s, entry)
    BY <1>1 DEF Mentions
  <1>5. ASSUME NEW m \in Mentions(s, entry) PROVE m[1] = l
    <2>1. m[1] \in Loops(s) /\ m[2] \in DOMAIN s.loops[m[1]].body /\ s.loops[m[1]].body[m[2]] = entry
      BY DEF Mentions
    <2>. QED BY ONLY <1>3, <2>1
  <1>6. Parents(s, c) = {l}
    BY ONLY <1>1, <1>4, <1>5 DEF Parents
  <1>7. c # l
    BY <1>6 DEF LoopNamesResolveOnce
  <1>8. \A d \in Loops(s) : d = l \/ d = c
    BY <1>7, LoopTyped
  <1>9. \A k \in Loops(s) : k \in Loops(s) /\ Parents(s, k) \subseteq Loops(s)
    BY DEF Parents, Mentions
  <1>10. Parents(s, l) = {}
    <2>1. l \notin Parents(s, l)
      BY DEF LoopNamesResolveOnce
    <2>2. c \notin Parents(s, l)
      BY <1>6 DEF LoopNamesResolveOnce
    <2>. QED BY ONLY <1>8, <1>9, <2>1, <2>2, l \in Loops(s)
  <1>11. ASSUME NEW f \in DOMAIN s.loops[c].body, NEW d \in Loops(s), s.loops[c].body[f] = <<"loop", d>>
         PROVE  FALSE
    <2>1. c \in Parents(s, d)
      <3>1. <<c, f>> \in Mentions(s, <<"loop", d>>)
        BY <1>11 DEF Mentions
      <3>. QED BY ONLY <3>1 DEF Parents
    <2>. QED BY ONLY <1>6, <1>7, <1>8, <1>10, <2>1, d \in Loops(s)
  <1>12. Leaf(s, c)
    BY <1>11, EntryTyped DEF Leaf
  <1>. QED BY ONLY <1>1, <1>3, <1>6, <1>7, <1>10, <1>12

LEMMA DirectMention ==
    ASSUME NEW s, NEW o, NEW l \in Direct(s, o)
    PROVE  l \in Loops(s) /\ \E e \in DOMAIN s.loops[l].body : s.loops[l].body[e] = <<"op", o>>
  BY DEF Direct, Mentions

LEMMA ParentMention ==
    ASSUME NEW s, NEW c, NEW l \in Parents(s, c)
    PROVE  l \in Loops(s) /\ \E e \in DOMAIN s.loops[l].body : s.loops[l].body[e] = <<"loop", c>>
  BY DEF Parents, Mentions

(* The three places an operation can have. *)
Outside(s, o) == Direct(s, o) = {} /\ Chain(s, o) = << >>

InLoop(s, o, l) == l \in Loops(s) /\ Direct(s, o) = {l} /\ Parents(s, l) = {} /\ Chain(s, o) = <<l>>

InNest(s, o, p, l) ==
    /\ p \in Loops(s) /\ l \in Loops(s) /\ p # l /\ Direct(s, o) = {l}
    /\ Parents(s, l) = {p} /\ Parents(s, p) = {} /\ Chain(s, o) = <<p, l>>

(* Every operation has one of the three.                                   *)
LEMMA PlaceOfOperation ==
    ASSUME NEW s, WellFormed(s), LoopNamesResolveOnce(s), NEW o \in Ops(s)
    PROVE  Outside(s, o) \/ \E p, l : InLoop(s, o, l) \/ InNest(s, o, p, l)
  <1>1. CASE Direct(s, o) = {}
    <2>1. Cardinality(Direct(s, o)) # 1
      BY <1>1, FS_EmptySet
    <2>. QED BY <1>1, <2>1 DEF Chain, Outside
  <1>2. CASE Direct(s, o) # {}
    <2>1. PICK l : l \in Direct(s, o)
      BY <1>2
    <2>2. l \in Loops(s) /\ \E e \in DOMAIN s.loops[l].body : s.loops[l].body[e] = <<"op", o>>
      BY ONLY <2>1, DirectMention
    <2>3. Direct(s, o) = {l}
      BY <2>2, EntryOfOperation
    <2>4. Cardinality(Direct(s, o)) = 1 /\ (CHOOSE d \in Direct(s, o) : TRUE) = l
      BY <2>3, FS_Singleton
    <2>5. l \notin Parents(s, l)
      BY <2>2 DEF LoopNamesResolveOnce
    <2>6. Parents(s, l) \ {l} = Parents(s, l)
      BY <2>5
    <2>7. Chain(s, o) = IF Parents(s, l) = {} THEN <<l>> ELSE <<CHOOSE p \in Parents(s, l) : TRUE, l>>
      <3>1. PICK D : D = Direct(s, o)
        OBVIOUS
      <3>2. Chain(s, o) =
               IF Cardinality(D) # 1 THEN << >>
               ELSE IF Parents(s, CHOOSE d \in D : TRUE) \ {CHOOSE d \in D : TRUE} = {}
                    THEN <<CHOOSE d \in D : TRUE>>
                    ELSE <<CHOOSE p \in Parents(s, CHOOSE d \in D : TRUE) \ {CHOOSE d \in D : TRUE} : TRUE,
                           CHOOSE d \in D : TRUE>>
        BY ONLY <3>1 DEF Chain
      <3>3. Chain(s, o) =
               IF Parents(s, l) \ {l} = {} THEN <<l>> ELSE <<CHOOSE p \in Parents(s, l) \ {l} : TRUE, l>>
        BY ONLY <2>4, <3>1, <3>2
      <3>. QED BY ONLY <2>6, <3>3
    <2>8. CASE Parents(s, l) = {}
      BY <2>2, <2>3, <2>7, <2>8 DEF InLoop
    <2>9. CASE Parents(s, l) # {}
      <3>1. PICK p : p \in Parents(s, l)
        BY <2>9
      <3>2. p \in Loops(s) /\ \E f \in DOMAIN s.loops[p].body : s.loops[p].body[f] = <<"loop", l>>
        BY ONLY <3>1, ParentMention
      <3>3. l # p /\ Parents(s, l) = {p} /\ Parents(s, p) = {}
        BY ONLY WellFormed(s), LoopNamesResolveOnce(s), <2>2, <3>2, EntryOfLoop
      <3>4. Chain(s, o) = <<p, l>>
        BY ONLY <2>7, <3>3
      <3>. QED BY <2>2, <2>3, <3>2, <3>3, <3>4 DEF InNest
    <2>. QED BY <2>8, <2>9
  <1>. QED BY <1>1, <1>2

-------------------------------------------------------------------------------
(* The instances of a work item: an operation and the iterators around it. *)

(* The iterators around an operation, the instances, and agreement on the  *)
(* loops that two instances share.                                         *)
Iterations(s, o) ==
    {at \in Seq(Nat) :
        /\ Len(at) = Len(Chain(s, o))
        /\ \A n \in 1 .. Len(at) : at[n] \in ToSet(Ticks(s, Chain(s, o)[n]))}

Nodes(s) == {x \in [op : Ops(s), at : Seq(Nat)] : x.at \in Iterations(s, x.op)}

Agree(s, x, y) ==
    \A l \in Enclosing(s, x.op) \cap Enclosing(s, y.op) : Iterator(s, x, l) = Iterator(s, y, l)

(* What an instance may depend on. *)
Precedence(s) == {p \in Nodes(s) \X Nodes(s) : p[1].op < p[2].op /\ Agree(s, p[1], p[2])}

(* range(0, extent, tile) has no value twice, and has one.                 *)
LEMMA TicksTyped ==
    ASSUME NEW s, WellFormed(s), NEW l \in Loops(s)
    PROVE  /\ Ticks(s, l) \in Seq(Nat) /\ IsInjective(Ticks(s, l)) /\ Ticks(s, l) # << >>
  <1>1. PICK n \in Nat, t \in Nat : n = Trips(s, l) /\ t = s.loops[l].tile /\ n > 0 /\ t > 0
    BY LoopTyped DEF Positive
  <1>2. Ticks(s, l) = [i \in 1 .. n |-> (i - 1) * t]
    BY ONLY <1>1 DEF Ticks
  <1>3. \A i \in 1 .. n : (i - 1) * t \in Nat
    BY ONLY n \in Nat, t \in Nat, Product
  <1>4. ASSUME NEW i \in 1 .. n, NEW j \in 1 .. n, (i - 1) * t = (j - 1) * t PROVE i = j
    <2>1. PICK a, b \in Nat : a = i - 1 /\ b = j - 1
      OBVIOUS
    <2>2. a * t = b * t
      BY ONLY <1>4, <2>1
    <2>3. a < b => a * t + t <= b * t
      BY ONLY a \in Nat, b \in Nat, t \in Nat, SMT
    <2>4. b < a => b * t + t <= a * t
      BY ONLY a \in Nat, b \in Nat, t \in Nat, SMT
    <2>5. PICK x, y \in Nat : x = a * t /\ y = b * t
      BY ONLY a \in Nat, b \in Nat, t \in Nat, Product
    <2>6. a = b
      BY ONLY <1>1, <2>2, <2>3, <2>4, <2>5, a \in Nat, b \in Nat, t \in Nat
    <2>. QED BY ONLY <2>1, <2>6, n \in Nat, i \in 1 .. n, j \in 1 .. n
  <1>5. /\ Ticks(s, l) \in Seq(Nat) /\ DOMAIN Ticks(s, l) = 1 .. n
        /\ \A i \in 1 .. n : Ticks(s, l)[i] = (i - 1) * t
    BY ONLY <1>2, <1>3, n \in Nat
  <1>6. IsInjective(Ticks(s, l))
    <2>1. ASSUME NEW i \in 1 .. n, NEW j \in 1 .. n, Ticks(s, l)[i] = Ticks(s, l)[j] PROVE i = j
      BY ONLY <1>4, <1>5, <2>1
    <2>. QED BY ONLY <1>5, <2>1 DEF IsInjective
  <1>7. Ticks(s, l) # << >>
    BY ONLY <1>1, <1>5, n \in Nat
  <1>. QED BY ONLY <1>5, <1>6, <1>7

(* The iterators at each of the three places.                              *)
LEMMA IterationsOutside ==
    ASSUME NEW s, NEW o, Outside(s, o)
    PROVE  Iterations(s, o) = {<< >>} /\ Enclosing(s, o) = {}
  <1>1. Chain(s, o) = << >> /\ Len(<< >>) = 0 /\ DOMAIN << >> = {}
    BY DEF Outside
  <1>2. \A at \in Seq(Nat) : Len(at) = 0 <=> at = << >>
    OBVIOUS
  <1>3. << >> \in Seq(Nat) /\ 1 .. 0 = {}
    OBVIOUS
  <1>. QED BY ONLY <1>1, <1>2, <1>3 DEF Iterations, Enclosing, ToSet

LEMMA IterationsInLoop ==
    ASSUME NEW s, NEW o, NEW l, InLoop(s, o, l)
    PROVE  /\ Iterations(s, o) = {at \in Seq(Nat) : \E t \in ToSet(Ticks(s, l)) : at = <<t>>}
           /\ Enclosing(s, o) = {l}
           /\ \A x : x.op = o /\ x.at \in Iterations(s, o) => Iterator(s, x, l) = x.at[1]
  <1>1. Chain(s, o) = <<l>> /\ Len(<<l>>) = 1 /\ <<l>>[1] = l /\ DOMAIN <<l>> = {1}
    BY DEF InLoop
  <1>2. Enclosing(s, o) = {l}
    BY ONLY <1>1 DEF Enclosing, ToSet
  <1>3. ASSUME NEW at \in Seq(Nat)
        PROVE  at \in Iterations(s, o) <=> \E t \in ToSet(Ticks(s, l)) : at = <<t>>
    <2>1. at \in Iterations(s, o) <=> Len(at) = 1 /\ at[1] \in ToSet(Ticks(s, l))
      BY ONLY <1>1, at \in Seq(Nat) DEF Iterations
    <2>2. Len(at) = 1 <=> at = <<at[1]>>
      OBVIOUS
    <2>3. \A t : Len(<<t>>) = 1 /\ <<t>>[1] = t
      OBVIOUS
    <2>. QED BY ONLY <2>1, <2>2, <2>3
  <1>4. ASSUME NEW x, x.op = o, x.at \in Iterations(s, o) PROVE Iterator(s, x, l) = x.at[1]
    <2>1. x.at \in Seq(Nat) /\ Len(x.at) = 1
      BY <1>1, <1>4 DEF Iterations
    <2>2. DOMAIN x.at = {1}
      BY ONLY <2>1
    <2>3. (CHOOSE n \in {1} : <<l>>[n] = l) = 1
      BY <1>1
    <2>4. Iterator(s, x, l) = x.at[CHOOSE n \in {1} : <<l>>[n] = l]
      BY ONLY <1>1, <1>4, <2>2 DEF Iterator
    <2>. QED BY ONLY <2>3, <2>4
  <1>5. Iterations(s, o) \subseteq Seq(Nat)
    BY DEF Iterations
  <1>. QED BY ONLY <1>2, <1>3, <1>4, <1>5

LEMMA IterationsInNest ==
    ASSUME NEW s, NEW o, NEW p, NEW l, InNest(s, o, p, l)
    PROVE  /\ Iterations(s, o) =
                {at \in Seq(Nat) : \E t \in ToSet(Ticks(s, p)) : \E u \in ToSet(Ticks(s, l)) : at = <<t, u>>}
           /\ Enclosing(s, o) = {p, l}
           /\ \A x : x.op = o /\ x.at \in Iterations(s, o) =>
                 Iterator(s, x, p) = x.at[1] /\ Iterator(s, x, l) = x.at[2]
  <1>1. /\ Chain(s, o) = <<p, l>> /\ Len(<<p, l>>) = 2 /\ <<p, l>>[1] = p /\ <<p, l>>[2] = l
        /\ DOMAIN <<p, l>> = {1, 2} /\ p # l
    BY DEF InNest
  <1>2. Enclosing(s, o) = {p, l}
    BY ONLY <1>1 DEF Enclosing, ToSet
  <1>3. ASSUME NEW at \in Seq(Nat)
        PROVE  at \in Iterations(s, o) <=>
                  \E t \in ToSet(Ticks(s, p)) : \E u \in ToSet(Ticks(s, l)) : at = <<t, u>>
    <2>1. at \in Iterations(s, o) <=>
             Len(at) = 2 /\ at[1] \in ToSet(Ticks(s, p)) /\ at[2] \in ToSet(Ticks(s, l))
      BY ONLY <1>1, at \in Seq(Nat) DEF Iterations
    <2>2. Len(at) = 2 <=> at = <<at[1], at[2]>>
      OBVIOUS
    <2>3. \A t, u : Len(<<t, u>>) = 2 /\ <<t, u>>[1] = t /\ <<t, u>>[2] = u
      OBVIOUS
    <2>. QED BY ONLY <2>1, <2>2, <2>3
  <1>4. ASSUME NEW x, x.op = o, x.at \in Iterations(s, o)
        PROVE  Iterator(s, x, p) = x.at[1] /\ Iterator(s, x, l) = x.at[2]
    <2>1. x.at \in Seq(Nat) /\ Len(x.at) = 2
      BY <1>1, <1>4 DEF Iterations
    <2>2. DOMAIN x.at = {1, 2}
      BY ONLY <2>1
    <2>3. (CHOOSE n \in {1, 2} : <<p, l>>[n] = p) = 1 /\ (CHOOSE n \in {1, 2} : <<p, l>>[n] = l) = 2
      BY <1>1
    <2>4. /\ Iterator(s, x, p) = x.at[CHOOSE n \in {1, 2} : <<p, l>>[n] = p]
          /\ Iterator(s, x, l) = x.at[CHOOSE n \in {1, 2} : <<p, l>>[n] = l]
      BY ONLY <1>1, <1>4, <2>2 DEF Iterator
    <2>. QED BY ONLY <2>3, <2>4
  <1>5. Iterations(s, o) \subseteq Seq(Nat)
    BY DEF Iterations
  <1>. QED BY ONLY <1>2, <1>3, <1>4, <1>5

-------------------------------------------------------------------------------
(* The operations of a loop are contiguous and keep the order of its body. *)

(* A contiguous sequence counts up from its first element.                 *)
LEMMA ContiguousRises ==
    ASSUME NEW q \in Seq(Nat), Contiguous(q), NEW i \in DOMAIN q
    PROVE  q[i] = q[1] + (i - 1)
  <1>1. PICK N \in Nat : N = Len(q) /\ DOMAIN q = 1 .. N
    OBVIOUS
  <1>2. PICK n \in Nat : i = n + 1 /\ n <= N - 1
    <2>1. i - 1 \in Nat /\ i = (i - 1) + 1 /\ i - 1 <= N - 1
      BY ONLY <1>1, i \in DOMAIN q
    <2>. QED BY ONLY <2>1
  <1>3. PICK G : G = {k \in 0 .. n : q[k + 1] = q[1] + k}
    OBVIOUS
  <1>4. q[1] \in Nat
    <2>1. 1 \in DOMAIN q
      BY ONLY <1>1, <1>2
    <2>. QED BY ONLY <2>1, q \in Seq(Nat), Member
  <1>5. 0 \in G
    <2>1. 0 \in 0 .. n /\ 0 + 1 = 1 /\ q[1] + 0 = q[1]
      BY ONLY <1>4, n \in Nat
    <2>. QED BY ONLY <1>3, <2>1
  <1>6. ASSUME NEW k \in 0 .. n - 1, k \in G PROVE k + 1 \in G
    <2>1. k + 1 \in 1 .. N - 1 /\ k + 1 \in 0 .. n /\ k \in Nat
      BY ONLY <1>2, n \in Nat, k \in 0 .. n - 1
    <2>2. q[(k + 1) + 1] = q[k + 1] + 1
      BY <1>1, <2>1 DEF Contiguous
    <2>3. q[k + 1] = q[1] + k
      BY <1>3, <1>6
    <2>4. q[(k + 1) + 1] = q[1] + (k + 1)
      BY ONLY <1>4, <2>1, <2>2, <2>3
    <2>. QED BY ONLY <1>3, <2>1, <2>4
  <1>7. n \in G
    BY ONLY <1>5, <1>6, n \in Nat, Upward
  <1>8. q[n + 1] = q[1] + n /\ i - 1 = n
    BY ONLY <1>2, <1>3, <1>7, n \in Nat
  <1>. QED BY ONLY <1>2, <1>8

(* Entry e of loop l has operation o. *)
Names(s, c, f, o) == f \in DOMAIN s.loops[c].body /\ s.loops[c].body[f] = <<"op", o>>

(* Entry e of loop l names o, or names the loop that does.                 *)
Holds(s, l, e, o) ==
    /\ e \in DOMAIN s.loops[l].body
    /\ \/ s.loops[l].body[e] = <<"op", o>>
       \/ \E c \in Loops(s) : s.loops[l].body[e] = <<"loop", c>> /\ \E f : Names(s, c, f, o)

(* The rows of Expanded. *)
Singles(body) == [i \in DOMAIN body |-> IF body[i][1] = "op" THEN <<body[i][2]>> ELSE << >>]

EntryRow(s, l, e) == IF e[1] = "op" THEN <<e[2]>>
                     ELSE IF e[2] = l THEN << >> ELSE FlattenSeq(Singles(s.loops[e[2]].body))

Rows(s, l) == [i \in DOMAIN s.loops[l].body |-> EntryRow(s, l, s.loops[l].body[i])]

LEMMA ExpandedIsRows ==
    ASSUME NEW s, NEW l
    PROVE  Expanded(s, l) = FlattenSeq(Rows(s, l))
  BY DEF Expanded, Rows, EntryRow, Singles

LEMMA SinglesTyped ==
    ASSUME NEW s, WellFormed(s), LoopNamesResolveOnce(s), NEW c \in Loops(s), Leaf(s, c)
    PROVE  /\ Singles(s.loops[c].body) \in Seq(Seq(Ops(s)))
           /\ DOMAIN Singles(s.loops[c].body) = DOMAIN s.loops[c].body
           /\ \A f, o : Names(s, c, f, o) => Singles(s.loops[c].body)[f] = <<o>>
  <1>1. PICK b : b = s.loops[c].body
    OBVIOUS
  <1>2. PICK n \in Nat : DOMAIN b = 1 .. n
    <2>1. b \in Seq(Entries(s))
      BY <1>1, LoopTyped
    <2>. QED BY ONLY <2>1
  <1>3. ASSUME NEW f \in DOMAIN b, NEW o, b[f] = <<"op", o>> PROVE Singles(b)[f] = <<o>>
    BY <1>3 DEF Singles
  <1>4. ASSUME NEW f \in DOMAIN b PROVE Singles(b)[f] \in Seq(Ops(s))
    <2>1. PICK o \in Ops(s) : b[f] = <<"op", o>>
      BY <1>1 DEF Leaf
    <2>2. Singles(b)[f] = <<o>>
      BY ONLY <1>3, <2>1, f \in DOMAIN b
    <2>. QED BY ONLY <2>2, o \in Ops(s)
  <1>5. Singles(b) = [f \in 1 .. n |-> Singles(b)[f]]
    BY <1>2 DEF Singles
  <1>6. Singles(b) \in Seq(Seq(Ops(s))) /\ DOMAIN Singles(b) = DOMAIN b
    BY ONLY <1>2, <1>4, <1>5, n \in Nat
  <1>. QED BY ONLY <1>1, <1>3, <1>6 DEF Names

(* Row e of Expanded lists what entry e holds.                             *)
RowOf(s, l, e) ==
    /\ Rows(s, l)[e] \in Seq(Ops(s))
    /\ \A o : Holds(s, l, e, o) <=> \E j \in DOMAIN Rows(s, l)[e] : Rows(s, l)[e][j] = o

LEMMA RowsTyped ==
    ASSUME NEW s, WellFormed(s), LoopNamesResolveOnce(s), NEW l \in Loops(s),
           NEW e \in DOMAIN s.loops[l].body
    PROVE  RowOf(s, l, e)
  <1>1. PICK x, row : x = s.loops[l].body[e] /\ row = Rows(s, l)[e]
    OBVIOUS
  <1>2. row = EntryRow(s, l, x)
    BY <1>1 DEF Rows
  <1>3. CASE \E o \in Ops(s) : x = <<"op", o>>
    <2>1. PICK o \in Ops(s) : x = <<"op", o>>
      BY <1>3
    <2>2. row = <<o>>
      BY ONLY <1>2, <2>1 DEF EntryRow
    <2>3. row \in Seq(Ops(s)) /\ DOMAIN row = {1} /\ row[1] = o
      BY ONLY <2>2, o \in Ops(s)
    <2>4. \A y : Holds(s, l, e, y) <=> y = o
      BY <1>1, <2>1 DEF Holds
    <2>. QED BY ONLY <1>1, <2>3, <2>4 DEF RowOf
  <1>4. CASE \E c \in Loops(s) : x = <<"loop", c>>
    <2>1. PICK c \in Loops(s) : x = <<"loop", c>>
      BY <1>4
    <2>2. c # l /\ Leaf(s, c)
      <3>1. s.loops[l].body[e] = <<"loop", c>>
        BY <1>1, <2>1
      <3>. QED BY <3>1, EntryOfLoop
    <2>3. PICK q : q = Singles(s.loops[c].body)
      OBVIOUS
    <2>4. /\ q \in Seq(Seq(Ops(s))) /\ DOMAIN q = DOMAIN s.loops[c].body
          /\ \A f, o : Names(s, c, f, o) => q[f] = <<o>>
      BY <2>2, <2>3, SinglesTyped
    <2>5. row = FlattenSeq(q)
      BY ONLY <1>2, <2>1, <2>2, <2>3 DEF EntryRow
    <2>6. row \in Seq(Ops(s))
      BY ONLY <2>4, <2>5, Flattening
    <2>7. ASSUME NEW o PROVE Holds(s, l, e, o) <=> \E f : Names(s, c, f, o)
      BY <1>1, <2>1 DEF Holds
    <2>8. ASSUME NEW o, NEW f, Names(s, c, f, o) PROVE \E j \in DOMAIN row : row[j] = o
      <3>1. f \in DOMAIN q /\ q[f] = <<o>>
        BY <2>4, <2>8 DEF Names
      <3>2. 1 \in DOMAIN q[f] /\ q[f][1] = o
        BY ONLY <3>1
      <3>. QED BY ONLY <2>4, <2>5, <3>1, <3>2, FlattenReach
    <2>9. ASSUME NEW j \in DOMAIN row PROVE \E f : Names(s, c, f, row[j])
      <3>1. PICK f, i : HasPlace(q, row, j, f, i)
        BY ONLY <2>4, <2>5, j \in DOMAIN row, FlattenPlace
      <3>2. f \in DOMAIN q /\ i \in DOMAIN q[f] /\ row[j] = q[f][i]
        BY ONLY <3>1 DEF HasPlace
      <3>3. PICK o \in Ops(s) : s.loops[c].body[f] = <<"op", o>>
        BY <2>2, <2>4, <3>2 DEF Leaf
      <3>4. q[f] = <<o>> /\ Names(s, c, f, o)
        BY ONLY <2>4, <3>2, <3>3 DEF Names
      <3>5. row[j] = o
        BY ONLY <3>2, <3>4
      <3>. QED BY ONLY <3>4, <3>5
    <2>. QED BY ONLY <1>1, <2>6, <2>7, <2>8, <2>9 DEF RowOf
  <1>. QED BY <1>1, <1>3, <1>4, EntryTyped

LEMMA RowsAreSequences ==
    ASSUME NEW s, WellFormed(s), LoopNamesResolveOnce(s), NEW l \in Loops(s)
    PROVE  DOMAIN Rows(s, l) = DOMAIN s.loops[l].body /\ Rows(s, l) \in Seq(Seq(Ops(s)))
  <1>1. PICK q, b : q = Rows(s, l) /\ b = s.loops[l].body
    OBVIOUS
  <1>2. PICK n \in Nat : DOMAIN b = 1 .. n
    <2>1. b \in Seq(Entries(s))
      BY <1>1, LoopTyped
    <2>. QED BY ONLY <2>1
  <1>3. q = [i \in 1 .. n |-> EntryRow(s, l, b[i])]
    BY ONLY <1>1, <1>2 DEF Rows
  <1>4. \A i \in 1 .. n : q[i] \in Seq(Ops(s))
    BY <1>1, <1>2, RowsTyped DEF RowOf
  <1>5. q = [i \in 1 .. n |-> q[i]]
    BY ONLY <1>3
  <1>6. q \in Seq(Seq(Ops(s))) /\ DOMAIN q = 1 .. n
    BY ONLY <1>4, <1>5, n \in Nat
  <1>. QED BY ONLY <1>1, <1>2, <1>6

LEMMA OpsAreNumbers ==
    ASSUME NEW s, WellFormed(s)
    PROVE  \E n \in Nat : Ops(s) = 1 .. n
  BY DEF WellFormed, Ops

(* Contiguity orders the entries of a body by their operations (the        *)
(* preflight, triton.py): an earlier entry holds earlier operations...     *)
LEMMA EntryOrder ==
    ASSUME NEW s, WellFormed(s), LoopNestSound(s), NEW l \in Loops(s), NEW e, NEW f, e < f,
           NEW o, NEW u, Holds(s, l, e, o), Holds(s, l, f, u)
    PROVE  o < u
  <1>1. PICK q, flat : q = Rows(s, l) /\ flat = FlattenSeq(q)
    OBVIOUS
  <1>2. e \in DOMAIN s.loops[l].body /\ f \in DOMAIN s.loops[l].body
    BY DEF Holds
  <1>3. LoopNamesResolveOnce(s) /\ Contiguous(flat)
    BY <1>1, ExpandedIsRows DEF LoopNestSound
  <1>4. DOMAIN q = DOMAIN s.loops[l].body /\ q \in Seq(Seq(Ops(s)))
    BY <1>1, <1>3, RowsAreSequences
  <1>5. PICK j \in DOMAIN q[e] : q[e][j] = o
    BY <1>1, <1>2, <1>3, RowsTyped DEF RowOf
  <1>6. PICK i \in DOMAIN q[f] : q[f][i] = u
    BY <1>1, <1>2, <1>3, RowsTyped DEF RowOf
  <1>7. flat \in Seq(Ops(s)) /\ \E off : Flattened(q, flat, off)
    BY ONLY <1>1, <1>4, Flattening
  <1>8. PICK off : Flattened(q, flat, off)
    BY <1>7
  <1>9. e \in DOMAIN q /\ f \in DOMAIN q
    BY <1>2, <1>4
  <1>10. /\ off[e] \in Nat /\ off[f] \in Nat /\ off[e] + j <= off[f]
         /\ off[e] + j \in DOMAIN flat /\ flat[off[e] + j] = o
         /\ off[f] + i \in DOMAIN flat /\ flat[off[f] + i] = u
    BY ONLY <1>5, <1>6, <1>8, <1>9, e < f, j \in DOMAIN q[e], i \in DOMAIN q[f] DEF Flattened
  <1>11. j \in Nat /\ i \in Nat /\ i >= 1
    <2>1. q[e] \in Seq(Ops(s)) /\ q[f] \in Seq(Ops(s))
      BY ONLY <1>4, <1>9, Member
    <2>. QED BY ONLY <2>1, j \in DOMAIN q[e], i \in DOMAIN q[f]
  <1>12. flat \in Seq(Nat)
    <2>1. Ops(s) \subseteq Nat
      BY OpsAreNumbers
    <2>. QED BY ONLY <1>7, <2>1, SequenceRetyped, Member
  <1>13. o = flat[1] + ((off[e] + j) - 1) /\ u = flat[1] + ((off[f] + i) - 1)
    BY ONLY <1>3, <1>10, <1>12, ContiguousRises
  <1>14. flat[1] \in Nat
    <2>1. 1 \in DOMAIN flat
      BY ONLY <1>10, <1>12
    <2>. QED BY ONLY <1>12, <2>1, Member
  <1>. QED BY ONLY <1>10, <1>11, <1>13, <1>14

(* ... and what lies between two operations of a loop is in the loop.      *)
LEMMA LoopInterval ==
    ASSUME NEW s, WellFormed(s), LoopNestSound(s), NEW l \in Loops(s), NEW e, NEW f,
           NEW o, NEW u, Holds(s, l, e, o), Holds(s, l, f, u),
           NEW z \in Nat, o <= z, z <= u
    PROVE  \E g : Holds(s, l, g, z)
  <1>1. PICK q, flat : q = Rows(s, l) /\ flat = FlattenSeq(q)
    OBVIOUS
  <1>2. e \in DOMAIN s.loops[l].body /\ f \in DOMAIN s.loops[l].body
    BY DEF Holds
  <1>3. LoopNamesResolveOnce(s) /\ Contiguous(flat)
    BY <1>1, ExpandedIsRows DEF LoopNestSound
  <1>4. DOMAIN q = DOMAIN s.loops[l].body /\ q \in Seq(Seq(Ops(s)))
    BY <1>1, <1>3, RowsAreSequences
  <1>5. PICK j \in DOMAIN q[e] : q[e][j] = o
    BY <1>1, <1>2, <1>3, RowsTyped DEF RowOf
  <1>6. PICK i \in DOMAIN q[f] : q[f][i] = u
    BY <1>1, <1>2, <1>3, RowsTyped DEF RowOf
  <1>7. flat \in Seq(Ops(s))
    BY ONLY <1>1, <1>4, Flattening
  <1>8. PICK a \in DOMAIN flat : flat[a] = o
    BY <1>1, <1>2, <1>4, <1>5, FlattenReach
  <1>9. PICK b \in DOMAIN flat : flat[b] = u
    BY <1>1, <1>2, <1>4, <1>6, FlattenReach
  <1>10. flat \in Seq(Nat)
    <2>1. Ops(s) \subseteq Nat
      BY OpsAreNumbers
    <2>. QED BY ONLY <1>7, <2>1, SequenceRetyped, Member
  <1>11. PICK N \in Nat : DOMAIN flat = 1 .. N
    BY ONLY <1>10
  <1>12. o = flat[1] + (a - 1) /\ u = flat[1] + (b - 1)
    BY ONLY <1>3, <1>8, <1>9, <1>10, ContiguousRises
  <1>13. flat[1] \in Nat
    <2>1. 1 \in DOMAIN flat
      BY ONLY <1>8, <1>11
    <2>. QED BY ONLY <1>10, <2>1, Member
  <1>14. PICK m : m = (z - flat[1]) + 1
    OBVIOUS
  <1>15. m \in DOMAIN flat /\ flat[1] + (m - 1) = z
    <2>1. PICK h : h = flat[1]
      OBVIOUS
    <2>2. /\ a \in 1 .. N /\ b \in 1 .. N /\ h \in Nat
          /\ o = h + (a - 1) /\ u = h + (b - 1) /\ m = (z - h) + 1
      BY ONLY <1>11, <1>12, <1>13, <1>14, <2>1, a \in DOMAIN flat, b \in DOMAIN flat
    <2>3. m \in 1 .. N /\ h + (m - 1) = z
      BY ONLY <2>2, N \in Nat, z \in Nat, o <= z, z <= u
    <2>. QED BY ONLY <1>11, <2>1, <2>3
  <1>16. flat[m] = z
    BY ONLY <1>3, <1>10, <1>15, ContiguousRises
  <1>17. PICK k, n : HasPlace(q, flat, m, k, n)
    BY ONLY <1>1, <1>4, <1>15, FlattenPlace
  <1>18. k \in DOMAIN q /\ n \in DOMAIN q[k] /\ q[k][n] = z
    BY ONLY <1>16, <1>17 DEF HasPlace
  <1>19. RowOf(s, l, k)
    BY <1>3, <1>4, <1>18, RowsTyped
  <1>20. Holds(s, l, k, z)
    BY ONLY <1>1, <1>18, <1>19 DEF RowOf
  <1>. QED BY <1>20

-------------------------------------------------------------------------------
(* The text of a work item lists its instances. *)

(* FlattenLists for a function over an interval.                           *)
LEMMA Listing ==
    ASSUME NEW T, NEW N \in Nat, NEW q, DOMAIN q = 1 .. N, q = [k \in 1 .. N |-> q[k]], NEW S, NEW B,
           \A k \in 1 .. N : S[k] \in SUBSET T /\ Lists(q[k], S[k], B),
           \A k, c \in 1 .. N : k < c => Apart(S, B, k, c),
           NEW U, \A x : x \in U <=> \E k \in 1 .. N : x \in S[k]
    PROVE  Lists(FlattenSeq(q), U, B)
  <1>1. ASSUME NEW k \in 1 .. N PROVE q[k] \in Seq(T)
    <2>1. q[k] \in Seq(S[k]) /\ S[k] \in SUBSET T
      BY DEF Lists
    <2>2. \A n \in DOMAIN q[k] : q[k][n] \in S[k]
      BY ONLY <2>1, Member
    <2>. QED BY ONLY <2>1, <2>2, SequenceRetyped
  <1>2. q \in Seq(Seq(T))
    BY ONLY <1>1, N \in Nat, q = [k \in 1 .. N |-> q[k]]
  <1>3. U = UNION {S[k] : k \in DOMAIN q}
    OBVIOUS
  <1>. QED BY <1>2, <1>3, FlattenLists

LEMMA PrecedenceType ==
    ASSUME NEW s, WellFormed(s), NEW x, NEW y, <<x, y>> \in Precedence(s)
    PROVE  /\ x \in Nodes(s) /\ y \in Nodes(s) /\ x.op < y.op /\ Agree(s, x, y)
           /\ x.op \in Nat /\ y.op \in Nat
  <1>1. x \in Nodes(s) /\ y \in Nodes(s) /\ x.op < y.op /\ Agree(s, x, y)
    BY DEF Precedence
  <1>2. x.op \in Ops(s) /\ y.op \in Ops(s)
    BY ONLY <1>1 DEF Nodes
  <1>3. Ops(s) \subseteq Nat
    BY OpsAreNumbers
  <1>. QED BY ONLY <1>1, <1>2, <1>3

(* No instance precedes itself.                                            *)
LEMMA NotItself ==
    ASSUME NEW s, WellFormed(s), NEW x
    PROVE  <<x, x>> \notin Precedence(s)
  <1>. SUFFICES ASSUME <<x, x>> \in Precedence(s) PROVE FALSE
    OBVIOUS
  <1>1. x.op \in Nat /\ x.op < x.op
    BY PrecedenceType
  <1>. QED BY ONLY <1>1

LEMMA NodeListed ==
    ASSUME NEW s, WellFormed(s), NEW o, NEW k
    PROVE  Lists(<<[op |-> o, at |-> k]>>, {[op |-> o, at |-> k]}, Precedence(s))
  <1>1. PICK x : x = [op |-> o, at |-> k]
    OBVIOUS
  <1>2. Lists(<<x>>, {x}, Precedence(s))
    BY NotItself, ListsOne
  <1>. QED BY ONLY <1>1, <1>2

(* An instance is its operation and its iterators.                         *)
LEMMA NodeIs ==
    ASSUME NEW s, NEW x \in Nodes(s), NEW o, NEW k, x.op = o, x.at = k
    PROVE  x = [op |-> o, at |-> k]
  BY DEF Nodes

LEMMA NodeTyped ==
    ASSUME NEW s, NEW x
    PROVE  x \in Nodes(s) <=> /\ x = [op |-> x.op, at |-> x.at] /\ x.op \in Ops(s)
                              /\ x.at \in Iterations(s, x.op)
  <1>1. Iterations(s, x.op) \subseteq Seq(Nat)
    BY DEF Iterations
  <1>2. x \in Nodes(s) => x = [op |-> x.op, at |-> x.at]
    BY NodeIs
  <1>3. ASSUME x = [op |-> x.op, at |-> x.at], x.op \in Ops(s), x.at \in Iterations(s, x.op)
        PROVE  x \in Nodes(s)
    <2>1. PICK o, k : o = x.op /\ k = x.at
      OBVIOUS
    <2>2. [op |-> o, at |-> k] \in [op : Ops(s), at : Seq(Nat)]
      BY ONLY <1>1, <1>3, <2>1
    <2>. QED BY ONLY <1>3, <2>1, <2>2 DEF Nodes
  <1>4. x \in Nodes(s) => x.op \in Ops(s) /\ x.at \in Iterations(s, x.op)
    BY DEF Nodes
  <1>. QED BY ONLY <1>2, <1>3, <1>4

(* Entry e of a root loop holds an operation of the loop or of its child. *)
Root(s, l) == l \in Loops(s) /\ Parents(s, l) = {}

Child(s, l, e, c) ==
    /\ c \in Loops(s) /\ e \in DOMAIN s.loops[l].body /\ s.loops[l].body[e] = <<"loop", c>>

(* Where the operation of an entry is.                                     *)
LEMMA HoldsDirectly ==
    ASSUME NEW s, WellFormed(s), LoopNamesResolveOnce(s), NEW l, Root(s, l), NEW e, NEW o \in Ops(s),
           Names(s, l, e, o)
    PROVE  InLoop(s, o, l)
  <1>1. Direct(s, o) = {l}
    BY EntryOfOperation DEF Root, Names
  <1>2. ~ Outside(s, o) /\ \A p, k : ~ InNest(s, o, p, k)
    <2>1. \A p, k : InNest(s, o, p, k) => k = l /\ Parents(s, l) = {p}
      BY ONLY <1>1 DEF InNest
    <2>. QED BY ONLY <1>1, <2>1, Root(s, l) DEF Outside, Root
  <1>3. PICK k : InLoop(s, o, k)
    BY <1>2, PlaceOfOperation
  <1>4. k = l
    BY ONLY <1>1, <1>3 DEF InLoop
  <1>. QED BY <1>3, <1>4

LEMMA HoldsInChild ==
    ASSUME NEW s, WellFormed(s), LoopNamesResolveOnce(s), NEW l, Root(s, l), NEW e, NEW c,
           Child(s, l, e, c), NEW o \in Ops(s), NEW f, Names(s, c, f, o)
    PROVE  InNest(s, o, l, c)
  <1>1. Direct(s, o) = {c}
    BY EntryOfOperation DEF Child, Names
  <1>2. Parents(s, c) = {l}
    BY EntryOfLoop DEF Child, Root
  <1>3. ~ Outside(s, o) /\ \A k : ~ InLoop(s, o, k)
    <2>1. \A k : InLoop(s, o, k) => k = c
      BY ONLY <1>1 DEF InLoop
    <2>. QED BY ONLY <1>1, <1>2, <2>1 DEF Outside, InLoop
  <1>4. PICK p, k : InNest(s, o, p, k)
    BY <1>3, PlaceOfOperation
  <1>5. k = c /\ p = l
    BY ONLY <1>1, <1>2, <1>4 DEF InNest
  <1>. QED BY <1>4, <1>5

LEMMA ChildIsLeaf ==
    ASSUME NEW s, WellFormed(s), LoopNamesResolveOnce(s), NEW l, Root(s, l), NEW e, NEW c,
           Child(s, l, e, c)
    PROVE  Leaf(s, c) /\ c # l
  BY EntryOfLoop DEF Child, Root

(* What entry e contributes at iteration t of its root loop. *)
Piece(s, l, t, e) == {x \in Nodes(s) : Holds(s, l, e, x.op) /\ x.at[1] = t}

(* An entry that is an operation contributes one instance.                 *)
LEMMA PieceOfOperation ==
    ASSUME NEW s, WellFormed(s), LoopNamesResolveOnce(s), NEW l, Root(s, l), NEW e, NEW o \in Ops(s),
           Names(s, l, e, o), NEW t \in ToSet(Ticks(s, l))
    PROVE  Piece(s, l, t, e) = {[op |-> o, at |-> <<t>>]}
  <1>1. InLoop(s, o, l)
    BY HoldsDirectly
  <1>2. \A y : Holds(s, l, e, y) <=> y = o
    BY DEF Holds, Names
  <1>3. t \in Nat
    BY TicksTyped DEF Root, ToSet
  <1>4. Iterations(s, o) = {at \in Seq(Nat) : \E u \in ToSet(Ticks(s, l)) : at = <<u>>}
    BY ONLY <1>1, IterationsInLoop
  <1>5. ASSUME NEW x \in Piece(s, l, t, e) PROVE x = [op |-> o, at |-> <<t>>]
    <2>1. x \in Nodes(s) /\ x.op = o /\ x.at[1] = t
      BY ONLY <1>2, <1>5 DEF Piece
    <2>2. PICK u : x.at = <<u>>
      BY ONLY <1>4, <2>1 DEF Nodes
    <2>3. x.at = <<t>>
      BY ONLY <2>1, <2>2
    <2>. QED BY ONLY <2>1, <2>3, NodeIs
  <1>6. [op |-> o, at |-> <<t>>] \in Piece(s, l, t, e)
    <2>1. PICK x : x = [op |-> o, at |-> <<t>>]
      OBVIOUS
    <2>2. <<t>> \in Iterations(s, o)
      BY ONLY <1>3, <1>4, t \in ToSet(Ticks(s, l))
    <2>3. x \in Nodes(s)
      BY <2>1, <2>2, NodeTyped
    <2>. QED BY ONLY <1>2, <2>1, <2>3 DEF Piece
  <1>. QED BY ONLY <1>5, <1>6

(* A pass of the child at iteration u. *)
RowText(s, c, k) ==
    FlattenSeq([f \in DOMAIN s.loops[c].body |-> <<[op |-> s.loops[c].body[f][2], at |-> k]>>])

InnerText(s, c, k) ==
    FlattenSeq([i \in DOMAIN Ticks(s, c) |-> RowText(s, c, Append(k, Ticks(s, c)[i]))])

(* What the emitter writes for entry e at iterators k.                     *)
PieceText(s, l, e, k) ==
    IF s.loops[l].body[e][1] = "op" THEN <<[op |-> s.loops[l].body[e][2], at |-> k]>>
    ELSE InnerText(s, s.loops[l].body[e][2], k)

(* The text of a body is the text of its entries.                          *)
LEMMA BodyTextIs ==
    ASSUME NEW s, NEW l, NEW k
    PROVE  BodyText(s, l, k) = FlattenSeq([e \in DOMAIN s.loops[l].body |-> PieceText(s, l, e, k)])
  BY DEF BodyText, PieceText, InnerText, RowText

(* The instances of one pass of the child, and the text that lists them.   *)
RowOfPiece(s, l, e, c, t, u) == {x \in Nodes(s) : (\E f : Names(s, c, f, x.op)) /\ x.at = <<t, u>>}

LEMMA RowListed ==
    ASSUME NEW s, WellFormed(s), LoopNestSound(s), NEW l, Root(s, l), NEW e, NEW c,
           Child(s, l, e, c), NEW t \in ToSet(Ticks(s, l)), NEW u \in ToSet(Ticks(s, c))
    PROVE  Lists(RowText(s, c, <<t, u>>), RowOfPiece(s, l, e, c, t, u), Precedence(s))
  <1>1. PICK k, b : k = <<t, u>> /\ b = s.loops[c].body
    OBVIOUS
  <1>2. LoopNamesResolveOnce(s) /\ c \in Loops(s) /\ l \in Loops(s)
    BY DEF LoopNestSound, Child, Root
  <1>3. PICK N \in Nat : DOMAIN b = 1 .. N
    <2>1. b \in Seq(Entries(s))
      BY <1>1, <1>2, LoopTyped
    <2>. QED BY ONLY <2>1
  <1>4. t \in Nat /\ u \in Nat
    BY <1>2, TicksTyped DEF ToSet
  <1>5. ASSUME NEW f \in 1 .. N PROVE b[f][2] \in Ops(s) /\ Names(s, c, f, b[f][2])
    <2>1. PICK o \in Ops(s) : b[f] = <<"op", o>>
      BY <1>1, <1>2, <1>3, ChildIsLeaf DEF Leaf
    <2>2. b[f][2] = o
      BY ONLY <2>1
    <2>. QED BY ONLY <1>1, <1>3, <2>1, <2>2 DEF Names
  <1>6. ASSUME NEW o \in Ops(s), NEW f, Names(s, c, f, o) PROVE k \in Iterations(s, o)
    <2>1. InNest(s, o, l, c)
      BY <1>2, <1>6, HoldsInChild
    <2>2. <<t, u>> \in Seq(Nat)
      BY ONLY <1>4
    <2>3. Iterations(s, o) =
             {at \in Seq(Nat) : \E m \in ToSet(Ticks(s, l)) : \E n \in ToSet(Ticks(s, c)) : at = <<m, n>>}
      BY ONLY <2>1, IterationsInNest
    <2>. QED BY ONLY <1>1, <2>2, <2>3, t \in ToSet(Ticks(s, l)), u \in ToSet(Ticks(s, c))
  <1>7. PICK S : S = [f \in 1 .. N |-> {[op |-> b[f][2], at |-> k]}]
    OBVIOUS
  <1>8. PICK q : q = [f \in 1 .. N |-> <<[op |-> b[f][2], at |-> k]>>]
    OBVIOUS
  <1>9. ASSUME NEW f \in 1 .. N PROVE S[f] \in SUBSET Nodes(s) /\ Lists(q[f], S[f], Precedence(s))
    <2>1. [op |-> b[f][2], at |-> k] \in Nodes(s)
      <3>1. PICK o : o = b[f][2]
        OBVIOUS
      <3>2. o \in Ops(s) /\ k \in Iterations(s, o)
        BY <1>5, <1>6, <3>1
      <3>3. [op |-> o, at |-> k] \in Nodes(s)
        BY ONLY <3>2, NodeTyped
      <3>. QED BY ONLY <3>1, <3>3
    <2>2. Lists(<<[op |-> b[f][2], at |-> k]>>, {[op |-> b[f][2], at |-> k]}, Precedence(s))
      BY NodeListed
    <2>3. q[f] = <<[op |-> b[f][2], at |-> k]>> /\ S[f] = {[op |-> b[f][2], at |-> k]}
      BY ONLY <1>7, <1>8, f \in 1 .. N
    <2>. QED BY ONLY <2>1, <2>2, <2>3
  <1>10. ASSUME NEW f \in 1 .. N, NEW g \in 1 .. N, f < g PROVE Apart(S, Precedence(s), f, g)
    <2>1. PICK o, y \in Ops(s) : o = b[f][2] /\ y = b[g][2]
      BY <1>5
    <2>2. Holds(s, c, f, o) /\ Holds(s, c, g, y)
      BY <1>5, <2>1 DEF Holds, Names
    <2>3. o < y
      BY <1>2, <1>10, <2>2, EntryOrder
    <2>4. o \in Nat /\ y \in Nat
      BY OpsAreNumbers
    <2>5. S[f] = {[op |-> o, at |-> k]} /\ S[g] = {[op |-> y, at |-> k]}
      BY ONLY <1>7, <2>1, f \in 1 .. N, g \in 1 .. N
    <2>6. [op |-> o, at |-> k] # [op |-> y, at |-> k]
      <3>1. o # y
        BY ONLY <2>3, <2>4
      <3>. QED BY ONLY <3>1
    <2>7. <<[op |-> y, at |-> k], [op |-> o, at |-> k]>> \notin Precedence(s)
      <3>. SUFFICES ASSUME <<[op |-> y, at |-> k], [op |-> o, at |-> k]>> \in Precedence(s) PROVE FALSE
        OBVIOUS
      <3>1. y < o
        BY PrecedenceType
      <3>. QED BY ONLY <2>3, <2>4, <3>1
    <2>. QED BY ONLY <2>5, <2>6, <2>7 DEF Apart
  <1>11. PICK U : U = RowOfPiece(s, l, e, c, t, u)
    OBVIOUS
  <1>12. ASSUME NEW x PROVE x \in U <=> \E f \in 1 .. N : x \in S[f]
    <2>1. ASSUME x \in U PROVE \E f \in 1 .. N : x \in S[f]
      <3>1. PICK f : x \in Nodes(s) /\ Names(s, c, f, x.op) /\ x.at = k
        BY ONLY <1>1, <1>11, <2>1 DEF RowOfPiece
      <3>2. f \in 1 .. N /\ b[f][2] = x.op
        BY ONLY <1>1, <1>3, <3>1 DEF Names
      <3>3. x = [op |-> b[f][2], at |-> k]
        BY ONLY <3>1, <3>2, NodeIs
      <3>. QED BY ONLY <1>7, <3>2, <3>3
    <2>2. ASSUME NEW f \in 1 .. N, x \in S[f] PROVE x \in U
      <3>1. x = [op |-> b[f][2], at |-> k]
        BY ONLY <1>7, <2>2
      <3>2. x \in Nodes(s)
        BY <1>9, <2>2
      <3>3. x.op = b[f][2] /\ x.at = k
        BY ONLY <3>1
      <3>. QED BY <1>1, <1>5, <1>11, <3>2, <3>3 DEF RowOfPiece
    <2>. QED BY ONLY <2>1, <2>2
  <1>13. DOMAIN q = 1 .. N /\ q = [f \in 1 .. N |-> q[f]]
    BY ONLY <1>8
  <1>14. Lists(FlattenSeq(q), U, Precedence(s))
    BY ONLY <1>9, <1>10, <1>12, <1>13, N \in Nat, Listing
  <1>15. RowText(s, c, k) = FlattenSeq(q)
    BY ONLY <1>1, <1>3, <1>8 DEF RowText
  <1>. QED BY ONLY <1>1, <1>11, <1>14, <1>15

(* The iterators of an instance in a child loop. *)
LEMMA ChildIterators ==
    ASSUME NEW s, WellFormed(s), LoopNamesResolveOnce(s), NEW l, Root(s, l), NEW e, NEW c,
           Child(s, l, e, c), NEW x \in Nodes(s), Holds(s, l, e, x.op)
    PROVE  /\ \E f : Names(s, c, f, x.op)
           /\ \E t \in ToSet(Ticks(s, l)) : \E u \in ToSet(Ticks(s, c)) : x.at = <<t, u>>
           /\ Enclosing(s, x.op) = {l, c}
           /\ Iterator(s, x, l) = x.at[1] /\ Iterator(s, x, c) = x.at[2]
  <1>1. PICK o \in Ops(s) : o = x.op /\ x.at \in Iterations(s, o)
    BY DEF Nodes
  <1>2. PICK f : Names(s, c, f, o)
    BY <1>1 DEF Holds, Child
  <1>3. InNest(s, o, l, c)
    BY <1>2, HoldsInChild
  <1>4. Iterations(s, o) =
           {at \in Seq(Nat) : \E m \in ToSet(Ticks(s, l)) : \E n \in ToSet(Ticks(s, c)) : at = <<m, n>>}
    BY ONLY <1>3, IterationsInNest
  <1>5. /\ Enclosing(s, o) = {l, c}
        /\ Iterator(s, x, l) = x.at[1] /\ Iterator(s, x, c) = x.at[2]
    BY ONLY <1>1, <1>3, IterationsInNest
  <1>. QED BY ONLY <1>1, <1>2, <1>4, <1>5

(* The first iterator of an instance is that of its root loop.             *)
LEMMA RootIterator ==
    ASSUME NEW s, WellFormed(s), LoopNamesResolveOnce(s), NEW l, Root(s, l), NEW e,
           NEW x \in Nodes(s), Holds(s, l, e, x.op)
    PROVE  /\ x.at[1] \in ToSet(Ticks(s, l)) /\ l \in Enclosing(s, x.op)
           /\ Iterator(s, x, l) = x.at[1] /\ Head(Chain(s, x.op)) = l
  <1>1. PICK o \in Ops(s) : o = x.op /\ x.at \in Iterations(s, o)
    BY DEF Nodes
  <1>2. CASE Names(s, l, e, o)
    <2>1. InLoop(s, o, l)
      BY <1>2, HoldsDirectly
    <2>2. Iterations(s, o) = {at \in Seq(Nat) : \E u \in ToSet(Ticks(s, l)) : at = <<u>>}
      BY ONLY <2>1, IterationsInLoop
    <2>3. Enclosing(s, o) = {l} /\ Iterator(s, x, l) = x.at[1]
      BY ONLY <1>1, <2>1, IterationsInLoop
    <2>4. Head(Chain(s, o)) = l
      BY <2>1 DEF InLoop
    <2>. QED BY ONLY <1>1, <2>2, <2>3, <2>4
  <1>3. CASE ~ Names(s, l, e, o)
    <2>1. PICK c : Child(s, l, e, c) /\ \E f : Names(s, c, f, o)
      BY <1>1, <1>3 DEF Holds, Child, Names
    <2>2. /\ \E t \in ToSet(Ticks(s, l)) : \E u \in ToSet(Ticks(s, c)) : x.at = <<t, u>>
          /\ Enclosing(s, x.op) = {l, c} /\ Iterator(s, x, l) = x.at[1]
      BY <2>1, ChildIterators
    <2>3. InNest(s, o, l, c)
      BY <2>1, HoldsInChild
    <2>4. Head(Chain(s, o)) = l
      BY <2>3 DEF InNest
    <2>. QED BY ONLY <1>1, <2>2, <2>4
  <1>. QED BY <1>2, <1>3

(* Instances that differ in an iterator they share do not depend. *)
LEMMA Disagree ==
    ASSUME NEW s, WellFormed(s), NEW x, NEW y, NEW l,
           l \in Enclosing(s, x.op), l \in Enclosing(s, y.op), Iterator(s, x, l) # Iterator(s, y, l)
    PROVE  <<y, x>> \notin Precedence(s)
  BY PrecedenceType DEF Agree

(* The iterators of a loop, by position.                                   *)
LEMMA TicksRange ==
    ASSUME NEW s, WellFormed(s), NEW l \in Loops(s)
    PROVE  \E N \in Nat : /\ DOMAIN Ticks(s, l) = 1 .. N
                          /\ \A i, j \in 1 .. N : i < j => Ticks(s, l)[i] # Ticks(s, l)[j]
                          /\ ToSet(Ticks(s, l)) = {Ticks(s, l)[i] : i \in 1 .. N}
                          /\ ToSet(Ticks(s, l)) \subseteq Nat
  <1>1. PICK q : q = Ticks(s, l) /\ q \in Seq(Nat) /\ IsInjective(q)
    BY TicksTyped
  <1>2. PICK N \in Nat : DOMAIN q = 1 .. N
    BY ONLY <1>1
  <1>3. \A i, j \in 1 .. N : i < j => q[i] # q[j]
    BY ONLY <1>1, <1>2, N \in Nat DEF IsInjective
  <1>4. ToSet(q) = {q[i] : i \in 1 .. N}
    BY ONLY <1>2 DEF ToSet
  <1>5. \A i \in 1 .. N : q[i] \in Nat
    BY ONLY <1>1, <1>2, Member
  <1>6. ToSet(q) \subseteq Nat
    BY ONLY <1>4, <1>5
  <1>. QED BY ONLY <1>1, <1>2, <1>3, <1>4, <1>6, N \in Nat

LEMMA AppendOne ==
    ASSUME NEW m \in Nat, NEW n \in Nat
    PROVE  Append(<<m>>, n) = <<m, n>>
  <1>1. PICK p : p = <<m>>
    OBVIOUS
  <1>2. p \in Seq(Nat) /\ Len(p) = 1 /\ p[1] = m
    BY ONLY <1>1, m \in Nat
  <1>3. ASSUME NEW q \in Seq(Nat), NEW i \in 1 .. Len(q) PROVE Append(q, n)[i] = q[i]
    OBVIOUS
  <1>4. ASSUME NEW q \in Seq(Nat) PROVE Append(q, n)[Len(q) + 1] = n
    OBVIOUS
  <1>5. 1 \in 1 .. Len(p) /\ Len(p) + 1 = 2
    BY ONLY <1>2
  <1>6. Append(p, n)[1] = m /\ Append(p, n)[2] = n
    <2>1. Append(p, n)[1] = p[1] /\ Append(p, n)[Len(p) + 1] = n
      BY ONLY <1>2, <1>3, <1>4, <1>5
    <2>. QED BY ONLY <1>2, <1>5, <2>1
  <1>7. Append(p, n) \in Seq(Nat) /\ Len(Append(p, n)) = 2
    <2>1. ASSUME NEW q \in Seq(Nat) PROVE Append(q, n) \in Seq(Nat) /\ Len(Append(q, n)) = Len(q) + 1
      OBVIOUS
    <2>2. Append(p, n) \in Seq(Nat)
      BY ONLY <1>2, <2>1
    <2>3. Len(Append(p, n)) = Len(p) + 1
      BY ONLY <1>2, <2>1
    <2>4. Len(Append(p, n)) = 2
      BY ONLY <1>5, <2>3
    <2>. QED BY ONLY <2>2, <2>4
  <1>8. \A at \in Seq(Nat) : Len(at) = 2 => at = <<at[1], at[2]>>
    OBVIOUS
  <1>. QED BY ONLY <1>1, <1>6, <1>7, <1>8

(* The passes of a child list its instances at one iteration of the        *)
(* root...                                                                 *)
LEMMA PieceOfChildListed ==
    ASSUME NEW s, WellFormed(s), LoopNestSound(s), NEW l, Root(s, l), NEW e, NEW c,
           Child(s, l, e, c), NEW t \in ToSet(Ticks(s, l))
    PROVE  Lists(InnerText(s, c, <<t>>), Piece(s, l, t, e), Precedence(s))
  <1>1. LoopNamesResolveOnce(s) /\ c \in Loops(s) /\ l \in Loops(s)
    BY DEF LoopNestSound, Child, Root
  <1>2. PICK u, N : /\ u = Ticks(s, c) /\ N \in Nat /\ DOMAIN u = 1 .. N
                    /\ \A i, j \in 1 .. N : i < j => u[i] # u[j]
                    /\ ToSet(u) = {u[i] : i \in 1 .. N}
    BY <1>1, TicksRange
  <1>3. PICK q : q = [i \in 1 .. N |-> RowText(s, c, <<t, u[i]>>)]
    OBVIOUS
  <1>4. PICK S : S = [i \in 1 .. N |-> RowOfPiece(s, l, e, c, t, u[i])]
    OBVIOUS
  <1>5. ASSUME NEW i \in 1 .. N PROVE S[i] \in SUBSET Nodes(s) /\ Lists(q[i], S[i], Precedence(s))
    <2>1. u[i] \in ToSet(Ticks(s, c))
      BY ONLY <1>2, i \in 1 .. N
    <2>2. Lists(RowText(s, c, <<t, u[i]>>), RowOfPiece(s, l, e, c, t, u[i]), Precedence(s))
      BY <2>1, RowListed
    <2>3. S[i] = RowOfPiece(s, l, e, c, t, u[i]) /\ q[i] = RowText(s, c, <<t, u[i]>>)
      BY ONLY <1>3, <1>4, i \in 1 .. N
    <2>. QED BY ONLY <2>2, <2>3 DEF RowOfPiece
  <1>6. ASSUME NEW i \in 1 .. N, NEW x \in S[i]
        PROVE  x \in Nodes(s) /\ Holds(s, l, e, x.op) /\ x.at = <<t, u[i]>>
    <2>1. x \in Nodes(s) /\ (\E f : Names(s, c, f, x.op)) /\ x.at = <<t, u[i]>>
      BY ONLY <1>4, <1>6 DEF RowOfPiece
    <2>. QED BY <2>1 DEF Holds, Child
  <1>7. ASSUME NEW i \in 1 .. N, NEW j \in 1 .. N, i < j PROVE Apart(S, Precedence(s), i, j)
    <2>. SUFFICES ASSUME NEW x \in S[i], NEW y \in S[j] PROVE x # y /\ <<y, x>> \notin Precedence(s)
      BY DEF Apart
    <2>1. x \in Nodes(s) /\ y \in Nodes(s) /\ Holds(s, l, e, x.op) /\ Holds(s, l, e, y.op)
      BY <1>6
    <2>2. x.at = <<t, u[i]>> /\ y.at = <<t, u[j]>> /\ u[i] # u[j]
      BY <1>2, <1>6, <1>7
    <2>3. x.at[2] # y.at[2]
      BY ONLY <2>2
    <2>4. Enclosing(s, x.op) = {l, c} /\ Iterator(s, x, c) = x.at[2]
      BY <1>1, <2>1, ChildIterators
    <2>5. Enclosing(s, y.op) = {l, c} /\ Iterator(s, y, c) = y.at[2]
      BY <1>1, <2>1, ChildIterators
    <2>6. <<y, x>> \notin Precedence(s)
      BY <2>3, <2>4, <2>5, Disagree
    <2>. QED BY ONLY <2>3, <2>6
  <1>8. ASSUME NEW x PROVE x \in Piece(s, l, t, e) <=> \E i \in 1 .. N : x \in S[i]
    <2>1. ASSUME x \in Piece(s, l, t, e) PROVE \E i \in 1 .. N : x \in S[i]
      <3>1. x \in Nodes(s) /\ Holds(s, l, e, x.op) /\ x.at[1] = t
        BY ONLY <2>1 DEF Piece
      <3>2. \E f : Names(s, c, f, x.op)
        BY <1>1, <3>1, ChildIterators
      <3>3. PICK m \in ToSet(Ticks(s, l)) : \E n \in ToSet(Ticks(s, c)) : x.at = <<m, n>>
        BY <1>1, <3>1, ChildIterators
      <3>4. PICK n \in ToSet(Ticks(s, c)) : x.at = <<m, n>>
        BY <3>3
      <3>5. x.at = <<t, n>>
        BY ONLY <3>1, <3>4
      <3>6. PICK i \in 1 .. N : n = u[i]
        BY ONLY <1>2, n \in ToSet(Ticks(s, c))
      <3>7. x \in RowOfPiece(s, l, e, c, t, u[i])
        BY ONLY <3>1, <3>2, <3>5, <3>6 DEF RowOfPiece
      <3>. QED BY ONLY <1>4, <3>7, i \in 1 .. N
    <2>2. ASSUME NEW i \in 1 .. N, x \in S[i] PROVE x \in Piece(s, l, t, e)
      <3>1. x \in Nodes(s) /\ Holds(s, l, e, x.op) /\ x.at = <<t, u[i]>>
        BY <1>6, <2>2
      <3>2. x.at[1] = t
        BY ONLY <3>1
      <3>. QED BY ONLY <3>1, <3>2 DEF Piece
    <2>. QED BY ONLY <2>1, <2>2
  <1>9. DOMAIN q = 1 .. N /\ q = [i \in 1 .. N |-> q[i]]
    BY ONLY <1>3
  <1>10. Lists(FlattenSeq(q), Piece(s, l, t, e), Precedence(s))
    BY ONLY <1>2, <1>5, <1>7, <1>8, <1>9, Listing
  <1>11. InnerText(s, c, <<t>>) = FlattenSeq(q)
    <2>1. \A m, n \in Nat : Append(<<m>>, n) = <<m, n>>
      BY AppendOne
    <2>2. t \in Nat /\ \A i \in 1 .. N : u[i] \in Nat
      BY <1>1, <1>2, TicksRange
    <2>. QED BY ONLY <1>2, <1>3, <2>1, <2>2 DEF InnerText
  <1>. QED BY ONLY <1>10, <1>11

(* ... so does every entry...                                              *)
LEMMA PieceListed ==
    ASSUME NEW s, WellFormed(s), LoopNestSound(s), NEW l, Root(s, l),
           NEW e \in DOMAIN s.loops[l].body, NEW t \in ToSet(Ticks(s, l))
    PROVE  Lists(PieceText(s, l, e, <<t>>), Piece(s, l, t, e), Precedence(s))
  <1>1. LoopNamesResolveOnce(s) /\ l \in Loops(s)
    BY DEF LoopNestSound, Root
  <1>2. PICK entry : entry = s.loops[l].body[e]
    OBVIOUS
  <1>3. ASSUME NEW o \in Ops(s), entry = <<"op", o>>
        PROVE  Lists(PieceText(s, l, e, <<t>>), Piece(s, l, t, e), Precedence(s))
    <2>1. PieceText(s, l, e, <<t>>) = <<[op |-> o, at |-> <<t>>]>>
      BY ONLY <1>2, <1>3 DEF PieceText
    <2>2. Names(s, l, e, o)
      BY <1>2, <1>3 DEF Names
    <2>3. Piece(s, l, t, e) = {[op |-> o, at |-> <<t>>]}
      BY <1>1, <2>2, PieceOfOperation
    <2>4. Lists(<<[op |-> o, at |-> <<t>>]>>, {[op |-> o, at |-> <<t>>]}, Precedence(s))
      BY NodeListed
    <2>. QED BY ONLY <2>1, <2>3, <2>4
  <1>4. ASSUME NEW c \in Loops(s), entry = <<"loop", c>>
        PROVE  Lists(PieceText(s, l, e, <<t>>), Piece(s, l, t, e), Precedence(s))
    <2>1. PieceText(s, l, e, <<t>>) = InnerText(s, c, <<t>>)
      BY ONLY <1>2, <1>4 DEF PieceText
    <2>2. Child(s, l, e, c)
      BY <1>2, <1>4 DEF Child
    <2>3. Lists(InnerText(s, c, <<t>>), Piece(s, l, t, e), Precedence(s))
      BY <2>2, PieceOfChildListed
    <2>. QED BY ONLY <2>1, <2>3
  <1>5. (\E o \in Ops(s) : entry = <<"op", o>>) \/ (\E c \in Loops(s) : entry = <<"loop", c>>)
    BY <1>1, <1>2, EntryTyped
  <1>. QED BY ONLY <1>3, <1>4, <1>5

(* ... so does one iteration of a root loop...                             *)
Pass(s, l, t) == {x \in Nodes(s) : (\E e : Holds(s, l, e, x.op)) /\ x.at[1] = t}

LEMMA BodyListed ==
    ASSUME NEW s, WellFormed(s), LoopNestSound(s), NEW l, Root(s, l), NEW t \in ToSet(Ticks(s, l))
    PROVE  Lists(BodyText(s, l, <<t>>), Pass(s, l, t), Precedence(s))
  <1>1. LoopNamesResolveOnce(s) /\ l \in Loops(s)
    BY DEF LoopNestSound, Root
  <1>2. PICK b, N : b = s.loops[l].body /\ N \in Nat /\ DOMAIN b = 1 .. N
    <2>1. PICK b : b = s.loops[l].body
      OBVIOUS
    <2>2. b \in Seq(Entries(s))
      BY <1>1, <2>1, LoopTyped
    <2>3. PICK N \in Nat : DOMAIN b = 1 .. N
      BY ONLY <2>2
    <2>. QED BY <2>1, <2>3
  <1>3. PICK q : q = [e \in 1 .. N |-> PieceText(s, l, e, <<t>>)]
    OBVIOUS
  <1>4. PICK S : S = [e \in 1 .. N |-> Piece(s, l, t, e)]
    OBVIOUS
  <1>5. ASSUME NEW e \in 1 .. N PROVE S[e] \in SUBSET Nodes(s) /\ Lists(q[e], S[e], Precedence(s))
    <2>1. Lists(PieceText(s, l, e, <<t>>), Piece(s, l, t, e), Precedence(s))
      BY <1>2, PieceListed
    <2>2. S[e] = Piece(s, l, t, e) /\ q[e] = PieceText(s, l, e, <<t>>)
      BY ONLY <1>3, <1>4, e \in 1 .. N
    <2>. QED BY ONLY <2>1, <2>2 DEF Piece
  <1>6. ASSUME NEW e \in 1 .. N, NEW f \in 1 .. N, e < f PROVE Apart(S, Precedence(s), e, f)
    <2>. SUFFICES ASSUME NEW x \in S[e], NEW y \in S[f] PROVE x # y /\ <<y, x>> \notin Precedence(s)
      BY DEF Apart
    <2>1. /\ x \in Nodes(s) /\ y \in Nodes(s)
          /\ Holds(s, l, e, x.op) /\ Holds(s, l, f, y.op)
      BY ONLY <1>4, x \in S[e], y \in S[f], e \in 1 .. N, f \in 1 .. N DEF Piece
    <2>2. x.op < y.op
      BY <1>1, <1>6, <2>1, EntryOrder
    <2>3. x.op \in Nat /\ y.op \in Nat
      <3>1. x.op \in Ops(s) /\ y.op \in Ops(s)
        BY ONLY <2>1 DEF Nodes
      <3>2. Ops(s) \subseteq Nat
        BY OpsAreNumbers
      <3>. QED BY ONLY <3>1, <3>2
    <2>4. <<y, x>> \notin Precedence(s)
      <3>. SUFFICES ASSUME <<y, x>> \in Precedence(s) PROVE FALSE
        OBVIOUS
      <3>1. y.op < x.op
        BY PrecedenceType
      <3>. QED BY ONLY <2>2, <2>3, <3>1
    <2>5. x # y
      BY ONLY <2>2, <2>3
    <2>. QED BY ONLY <2>4, <2>5
  <1>7. ASSUME NEW x PROVE x \in Pass(s, l, t) <=> \E e \in 1 .. N : x \in S[e]
    <2>1. \A e : Holds(s, l, e, x.op) => e \in 1 .. N
      BY ONLY <1>2 DEF Holds
    <2>. QED BY ONLY <1>4, <2>1 DEF Pass, Piece
  <1>8. DOMAIN q = 1 .. N /\ q = [e \in 1 .. N |-> q[e]]
    BY ONLY <1>3
  <1>9. Lists(FlattenSeq(q), Pass(s, l, t), Precedence(s))
    BY ONLY <1>2, <1>5, <1>6, <1>7, <1>8, Listing
  <1>10. BodyText(s, l, <<t>>) = FlattenSeq(q)
    BY ONLY <1>2, <1>3, BodyTextIs
  <1>. QED BY ONLY <1>9, <1>10

(* ... and so does the loop.                                               *)
LoopNodes(s, l) == {x \in Nodes(s) : \E e : Holds(s, l, e, x.op)}

LEMMA LoopListed ==
    ASSUME NEW s, WellFormed(s), LoopNestSound(s), NEW l, Root(s, l)
    PROVE  Lists(LoopText(s, l), LoopNodes(s, l), Precedence(s))
  <1>1. LoopNamesResolveOnce(s) /\ l \in Loops(s)
    BY DEF LoopNestSound, Root
  <1>2. PICK t, N : /\ t = Ticks(s, l) /\ N \in Nat /\ DOMAIN t = 1 .. N
                    /\ \A i, j \in 1 .. N : i < j => t[i] # t[j]
                    /\ ToSet(t) = {t[i] : i \in 1 .. N}
    BY <1>1, TicksRange
  <1>3. PICK q : q = [i \in 1 .. N |-> BodyText(s, l, <<t[i]>>)]
    OBVIOUS
  <1>4. PICK S : S = [i \in 1 .. N |-> Pass(s, l, t[i])]
    OBVIOUS
  <1>5. ASSUME NEW i \in 1 .. N PROVE S[i] \in SUBSET Nodes(s) /\ Lists(q[i], S[i], Precedence(s))
    <2>1. t[i] \in ToSet(Ticks(s, l))
      BY ONLY <1>2, i \in 1 .. N
    <2>2. Lists(BodyText(s, l, <<t[i]>>), Pass(s, l, t[i]), Precedence(s))
      BY <2>1, BodyListed
    <2>3. S[i] = Pass(s, l, t[i]) /\ q[i] = BodyText(s, l, <<t[i]>>)
      BY ONLY <1>3, <1>4, i \in 1 .. N
    <2>. QED BY ONLY <2>2, <2>3 DEF Pass
  <1>6. ASSUME NEW i \in 1 .. N, NEW j \in 1 .. N, i < j PROVE Apart(S, Precedence(s), i, j)
    <2>. SUFFICES ASSUME NEW x \in S[i], NEW y \in S[j] PROVE x # y /\ <<y, x>> \notin Precedence(s)
      BY DEF Apart
    <2>1. /\ x \in Nodes(s) /\ (\E e : Holds(s, l, e, x.op)) /\ x.at[1] = t[i]
          /\ y \in Nodes(s) /\ (\E e : Holds(s, l, e, y.op)) /\ y.at[1] = t[j]
      BY ONLY <1>4, x \in S[i], y \in S[j], i \in 1 .. N, j \in 1 .. N DEF Pass
    <2>2. l \in Enclosing(s, x.op) /\ Iterator(s, x, l) = x.at[1]
      BY <1>1, <2>1, RootIterator
    <2>3. l \in Enclosing(s, y.op) /\ Iterator(s, y, l) = y.at[1]
      BY <1>1, <2>1, RootIterator
    <2>4. x.at[1] # y.at[1]
      BY ONLY <1>2, <1>6, <2>1, i \in 1 .. N, j \in 1 .. N
    <2>5. <<y, x>> \notin Precedence(s)
      BY <2>2, <2>3, <2>4, Disagree
    <2>. QED BY ONLY <2>4, <2>5
  <1>7. ASSUME NEW x PROVE x \in LoopNodes(s, l) <=> \E i \in 1 .. N : x \in S[i]
    <2>1. ASSUME x \in LoopNodes(s, l) PROVE \E i \in 1 .. N : x \in S[i]
      <3>1. x \in Nodes(s) /\ \E e : Holds(s, l, e, x.op)
        BY ONLY <2>1 DEF LoopNodes
      <3>2. x.at[1] \in ToSet(t)
        BY <1>1, <1>2, <3>1, RootIterator
      <3>3. PICK i \in 1 .. N : x.at[1] = t[i]
        BY ONLY <1>2, <3>2
      <3>. QED BY ONLY <1>4, <3>1, <3>3 DEF Pass
    <2>2. ASSUME NEW i \in 1 .. N, x \in S[i] PROVE x \in LoopNodes(s, l)
      BY ONLY <1>4, <2>2, i \in 1 .. N DEF Pass, LoopNodes
    <2>. QED BY ONLY <2>1, <2>2
  <1>8. DOMAIN q = 1 .. N /\ q = [i \in 1 .. N |-> q[i]]
    BY ONLY <1>3
  <1>9. Lists(FlattenSeq(q), LoopNodes(s, l), Precedence(s))
    BY ONLY <1>2, <1>5, <1>6, <1>7, <1>8, Listing
  <1>10. LoopText(s, l) = FlattenSeq(q)
    BY ONLY <1>2, <1>3 DEF LoopText
  <1>. QED BY ONLY <1>9, <1>10

(* A set of numbers has a least one.                                       *)
LEMMA Least ==
    ASSUME NEW T \in SUBSET Nat, NEW x \in T
    PROVE  \E n \in T : \A m \in T : n <= m
  <1>. SUFFICES ASSUME \A n \in T : \E m \in T : m < n PROVE FALSE
    OBVIOUS
  <1>1. PICK G : G = {n \in 0 .. x : \A k \in 0 .. n : k \notin T}
    OBVIOUS
  <1>2. 0 \in G
    <2>1. 0 \notin T
      OBVIOUS
    <2>2. \A k \in 0 .. 0 : k = 0
      OBVIOUS
    <2>. QED BY <1>1, <2>1, <2>2
  <1>3. ASSUME NEW n \in 0 .. x - 1, n \in G PROVE n + 1 \in G
    <2>1. \A k \in 0 .. n : k \notin T
      BY <1>1, <1>3
    <2>2. n + 1 \notin T
      <3>. SUFFICES ASSUME n + 1 \in T PROVE FALSE
        OBVIOUS
      <3>1. PICK m \in T : m < n + 1
        OBVIOUS
      <3>2. m \in 0 .. n
        BY <3>1
      <3>. QED BY <2>1, <3>2
    <2>3. \A k \in 0 .. n + 1 : k \in 0 .. n \/ k = n + 1
      OBVIOUS
    <2>. QED BY <1>1, <2>1, <2>2, <2>3
  <1>4. x \in G
    BY ONLY <1>2, <1>3, x \in T, T \in SUBSET Nat, Upward
  <1>. QED BY <1>1, <1>4

(* The head of its chain is the root loop that holds an operation.         *)
LEMMA RootOfOperation ==
    ASSUME NEW s, WellFormed(s), LoopNamesResolveOnce(s), NEW o \in Ops(s), Chain(s, o) # << >>
    PROVE  Root(s, Head(Chain(s, o))) /\ \E e : Holds(s, Head(Chain(s, o)), e, o)
  <1>1. ASSUME NEW l, InLoop(s, o, l) PROVE Root(s, l) /\ Head(Chain(s,
      o)) = l /\ \E e : Holds(s, l, e, o)
    <2>1. Root(s, l) /\ Head(Chain(s, o)) = l /\ l \in Direct(s, o)
      BY <1>1 DEF InLoop, Root
    <2>2. \E e \in DOMAIN s.loops[l].body : s.loops[l].body[e] = <<"op", o>>
      BY ONLY <2>1, DirectMention
    <2>. QED BY ONLY <2>1, <2>2 DEF Holds
  <1>2. ASSUME NEW l, NEW c, InNest(s, o, l, c)
        PROVE  Root(s, l) /\ Head(Chain(s, o)) = l /\ \E e : Holds(s, l, e, o)
    <2>1. /\ Root(s, l) /\ Head(Chain(s, o)) = l
          /\ c \in Direct(s, o) /\ l \in Parents(s, c) /\ c \in Loops(s)
      BY <1>2 DEF InNest, Root
    <2>2. \E f \in DOMAIN s.loops[c].body : s.loops[c].body[f] = <<"op", o>>
      BY ONLY <2>1, DirectMention
    <2>3. \E e \in DOMAIN s.loops[l].body : s.loops[l].body[e] = <<"loop", c>>
      BY ONLY <2>1, ParentMention
    <2>. QED BY ONLY <2>1, <2>2, <2>3 DEF Holds, Names
  <1>3. ~ Outside(s, o)
    BY DEF Outside
  <1>. QED BY <1>1, <1>2, <1>3, PlaceOfOperation

LEMMA HeldByRoot ==
    ASSUME NEW s, WellFormed(s), LoopNamesResolveOnce(s), NEW l, Root(s, l), NEW e, NEW o \in Ops(s),
           Holds(s, l, e, o)
    PROVE  Chain(s, o) # << >> /\ Head(Chain(s, o)) = l
  <1>1. CASE Names(s, l, e, o)
    <2>1. InLoop(s, o, l)
      BY <1>1, HoldsDirectly
    <2>2. Chain(s, o) = <<l>>
      BY ONLY <2>1 DEF InLoop
    <2>. QED BY ONLY <2>2
  <1>2. CASE ~ Names(s, l, e, o)
    <2>1. PICK c : Child(s, l, e, c) /\ \E f : Names(s, c, f, o)
      BY <1>2 DEF Holds, Child, Names
    <2>2. InNest(s, o, l, c)
      BY <2>1, HoldsInChild
    <2>3. Chain(s, o) = <<l, c>>
      BY ONLY <2>2 DEF InNest
    <2>. QED BY ONLY <2>3
  <1>. QED BY <1>1, <1>2

(* The place of a root loop is that of the first operation it holds.       *)
First(s, o) == \A e \in 1 .. o - 1 : Chain(s, e) = << >> \/ Head(Chain(s, e)) # Head(Chain(s, o))

(* What the emitter writes at the place of operation o, and what it lists. *)
PlaceText(s, o) ==
    IF Chain(s, o) = << >> THEN <<[op |-> o, at |-> << >>]>>
    ELSE IF First(s, o) THEN LoopText(s, Head(Chain(s, o))) ELSE << >>

PlaceNodes(s, o) ==
    IF Chain(s, o) = << >> THEN {[op |-> o, at |-> << >>]}
    ELSE IF First(s, o) THEN LoopNodes(s, Head(Chain(s, o))) ELSE {}

LEMMA BodyOfKernelIs ==
    ASSUME NEW s
    PROVE  BodyOfKernel(s) = FlattenSeq([o \in Ops(s) |-> PlaceText(s, o)])
  BY DEF BodyOfKernel, PlaceText, First

LEMMA PlaceListed ==
    ASSUME NEW s, WellFormed(s), LoopNestSound(s), NEW o \in Ops(s)
    PROVE  /\ PlaceNodes(s, o) \in SUBSET Nodes(s)
           /\ Lists(PlaceText(s, o), PlaceNodes(s, o), Precedence(s))
  <1>1. LoopNamesResolveOnce(s)
    BY DEF LoopNestSound
  <1>2. CASE Chain(s, o) = << >>
    <2>1. PICK x : x = [op |-> o, at |-> << >>]
      OBVIOUS
    <2>2. Outside(s, o)
      <3>1. \A p, l : ~ InLoop(s, o, l) /\ ~ InNest(s, o, p, l)
        BY ONLY <1>2 DEF InLoop, InNest
      <3>. QED BY <1>1, <3>1, PlaceOfOperation
    <2>3. << >> \in Iterations(s, o)
      BY ONLY <2>2, IterationsOutside
    <2>4. x \in Nodes(s)
      BY <2>1, <2>3, NodeTyped
    <2>5. Lists(<<[op |-> o, at |-> << >>]>>, {[op |-> o, at |-> << >>]}, Precedence(s))
      BY NodeListed
    <2>. QED BY ONLY <1>2, <2>1, <2>4, <2>5 DEF PlaceText, PlaceNodes
  <1>3. CASE Chain(s, o) # << >> /\ First(s, o)
    <2>1. Root(s, Head(Chain(s, o)))
      BY <1>1, <1>3, RootOfOperation
    <2>2. Lists(LoopText(s, Head(Chain(s, o))), LoopNodes(s, Head(Chain(s, o))), Precedence(s))
      BY <2>1, LoopListed
    <2>. QED BY ONLY <1>3, <2>2 DEF PlaceText, PlaceNodes, LoopNodes
  <1>4. CASE Chain(s, o) # << >> /\ ~ First(s, o)
    BY ONLY <1>4, ListsNothing DEF PlaceText, PlaceNodes
  <1>. QED BY <1>2, <1>3, <1>4

(* An instance is written at the place of its operation or of its root.    *)
LEMMA PlaceOfNode ==
    ASSUME NEW s, WellFormed(s), LoopNestSound(s), NEW o \in Ops(s), NEW x \in PlaceNodes(s, o)
    PROVE  /\ x \in Nodes(s) /\ x.op \in Ops(s) /\ o <= x.op
           /\ \/ Chain(s, o) = << >> /\ x.op = o
              \/ /\ Chain(s, o) # << >> /\ First(s, o) /\ Chain(s, x.op) # << >>
                 /\ Head(Chain(s, x.op)) = Head(Chain(s, o))
  <1>1. x \in Nodes(s)
    BY PlaceListed
  <1>2. x.op \in Ops(s)
    BY <1>1 DEF Nodes
  <1>3. o \in Nat /\ x.op \in Nat /\ x.op >= 1
    BY <1>2, OpsAreNumbers
  <1>4. CASE Chain(s, o) = << >>
    <2>1. x = [op |-> o, at |-> << >>]
      BY ONLY <1>4, x \in PlaceNodes(s, o) DEF PlaceNodes
    <2>2. x.op = o
      BY ONLY <2>1
    <2>. QED BY ONLY <1>1, <1>2, <1>3, <1>4, <2>2
  <1>5. CASE Chain(s, o) # << >>
    <2>1. First(s, o) /\ \E e : Holds(s, Head(Chain(s, o)), e, x.op)
      BY ONLY <1>5, x \in PlaceNodes(s, o) DEF PlaceNodes, LoopNodes
    <2>2. LoopNamesResolveOnce(s)
      BY DEF LoopNestSound
    <2>3. Root(s, Head(Chain(s, o)))
      BY <1>5, <2>2, RootOfOperation
    <2>4. Chain(s, x.op) # << >> /\ Head(Chain(s, x.op)) = Head(Chain(s, o))
      BY <1>2, <2>1, <2>2, <2>3, HeldByRoot
    <2>5. ~ (x.op \in 1 .. o - 1)
      BY ONLY <2>1, <2>4 DEF First
    <2>6. o <= x.op
      BY ONLY <1>3, <2>5
    <2>. QED BY ONLY <1>1, <1>2, <1>5, <2>1, <2>4, <2>6
  <1>. QED BY <1>4, <1>5

(* Since the operations of a loop are contiguous, an earlier place holds   *)
(* earlier operations: the loop moved nothing past another operation.      *)
LEMMA PlacesApart ==
    ASSUME NEW s, WellFormed(s), LoopNestSound(s), NEW k \in Ops(s), NEW c \in Ops(s), k < c,
           NEW x \in PlaceNodes(s, k), NEW y \in PlaceNodes(s, c)
    PROVE  x.op < y.op
  <1>1. /\ x.op \in Ops(s) /\ k <= x.op
        /\ \/ Chain(s, k) = << >> /\ x.op = k
           \/ /\ Chain(s, k) # << >> /\ First(s, k) /\ Chain(s, x.op) # << >>
              /\ Head(Chain(s, x.op)) = Head(Chain(s, k))
    BY PlaceOfNode
  <1>2. /\ y.op \in Ops(s) /\ c <= y.op
        /\ \/ Chain(s, c) = << >> /\ y.op = c
           \/ /\ Chain(s, c) # << >> /\ First(s, c) /\ Chain(s, y.op) # << >>
              /\ Head(Chain(s, y.op)) = Head(Chain(s, c))
    BY PlaceOfNode
  <1>3. k \in Nat /\ c \in Nat /\ x.op \in Nat /\ y.op \in Nat /\ k >= 1
    BY <1>1, <1>2, OpsAreNumbers
  <1>4. CASE Chain(s, k) = << >>
    BY ONLY <1>1, <1>2, <1>3, <1>4, k < c
  <1>5. CASE Chain(s, k) # << >>
    <2>. SUFFICES ASSUME ~ (x.op < y.op) PROVE FALSE
      OBVIOUS
    <2>1. PICK l : l = Head(Chain(s, k))
      OBVIOUS
    <2>2. LoopNamesResolveOnce(s)
      BY DEF LoopNestSound
    <2>3. Root(s, l) /\ \E e : Holds(s, l, e, k)
      BY <1>5, <2>1, <2>2, RootOfOperation
    <2>4. \E f : Holds(s, l, f, x.op)
      BY <1>1, <1>5, <2>1, <2>2, RootOfOperation
    <2>5. k <= y.op /\ y.op <= x.op
      BY ONLY <1>2, <1>3, k < c, ~ (x.op < y.op)
    <2>6. \E g : Holds(s, l, g, y.op)
      <3>1. l \in Loops(s)
        BY <2>3 DEF Root
      <3>. QED BY <1>3, <2>3, <2>4, <2>5, <3>1, LoopInterval
    <2>7. Chain(s, y.op) # << >> /\ Head(Chain(s, y.op)) = l
      BY <1>2, <2>2, <2>3, <2>6, HeldByRoot
    <2>8. Chain(s, c) # << >> /\ First(s, c) /\ Head(Chain(s, c)) = l
      BY ONLY <1>2, <2>7
    <2>9. k \in 1 .. c - 1
      BY ONLY <1>3, k < c
    <2>. QED BY ONLY <1>5, <2>1, <2>8, <2>9 DEF First
  <1>. QED BY <1>4, <1>5

(* The emitted kernel lists every instance of a work item once, and each   *)
(* after every earlier operation whose iterators agree with its own.       *)
LEMMA KernelListed ==
    ASSUME NEW s, WellFormed(s), LoopNestSound(s)
    PROVE  Lists(BodyOfKernel(s), Nodes(s), Precedence(s))
  <1>1. LoopNamesResolveOnce(s)
    BY DEF LoopNestSound
  <1>2. PICK N \in Nat : Ops(s) = 1 .. N
    BY OpsAreNumbers
  <1>3. PICK q : q = [o \in 1 .. N |-> PlaceText(s, o)]
    OBVIOUS
  <1>4. PICK S : S = [o \in 1 .. N |-> PlaceNodes(s, o)]
    OBVIOUS
  <1>5. ASSUME NEW o \in 1 .. N PROVE S[o] \in SUBSET Nodes(s) /\ Lists(q[o], S[o], Precedence(s))
    <2>1. /\ PlaceNodes(s, o) \in SUBSET Nodes(s)
          /\ Lists(PlaceText(s, o), PlaceNodes(s, o), Precedence(s))
      BY <1>2, PlaceListed
    <2>. QED BY ONLY <1>3, <1>4, <2>1, o \in 1 .. N
  <1>6. ASSUME NEW k \in 1 .. N, NEW c \in 1 .. N, k < c PROVE Apart(S, Precedence(s), k, c)
    <2>. SUFFICES ASSUME NEW x \in S[k], NEW y \in S[c] PROVE x # y /\ <<y, x>> \notin Precedence(s)
      BY DEF Apart
    <2>1. x \in PlaceNodes(s, k) /\ y \in PlaceNodes(s, c)
      BY ONLY <1>4, x \in S[k], y \in S[c], k \in 1 .. N, c \in 1 .. N
    <2>2. x.op < y.op
      BY <1>2, <1>6, <2>1, PlacesApart
    <2>3. x.op \in Nat /\ y.op \in Nat
      <3>1. x.op \in Ops(s) /\ y.op \in Ops(s)
        BY <1>2, <2>1, PlaceOfNode
      <3>. QED BY ONLY <1>2, <3>1
    <2>4. <<y, x>> \notin Precedence(s)
      <3>. SUFFICES ASSUME <<y, x>> \in Precedence(s) PROVE FALSE
        OBVIOUS
      <3>1. y.op < x.op
        BY PrecedenceType
      <3>. QED BY ONLY <2>2, <2>3, <3>1
    <2>5. x # y
      BY ONLY <2>2, <2>3
    <2>. QED BY ONLY <2>4, <2>5
  <1>7. ASSUME NEW x PROVE x \in Nodes(s) <=> \E o \in 1 .. N : x \in S[o]
    <2>1. ASSUME NEW o \in 1 .. N, x \in S[o] PROVE x \in Nodes(s)
      BY <1>5, <2>1
    <2>2. ASSUME x \in Nodes(s) PROVE \E o \in 1 .. N : x \in S[o]
      <3>1. PICK u \in 1 .. N : u = x.op /\ x.at \in Iterations(s, u)
        BY <1>2, <2>2 DEF Nodes
      <3>2. CASE Chain(s, u) = << >>
        <4>1. Outside(s, u)
          <5>1. \A p, l : ~ InLoop(s, u, l) /\ ~ InNest(s, u, p, l)
            BY ONLY <3>2 DEF InLoop, InNest
          <5>. QED BY <1>1, <1>2, <5>1, PlaceOfOperation
        <4>2. x.at = << >>
          BY ONLY <3>1, <4>1, IterationsOutside
        <4>3. x = [op |-> u, at |-> << >>]
          BY ONLY <2>2, <3>1, <4>2, NodeIs
        <4>. QED BY ONLY <1>4, <3>2, <4>3, u \in 1 .. N DEF PlaceNodes
      <3>3. CASE Chain(s, u) # << >>
        <4>1. PICK l : l = Head(Chain(s, u))
          OBVIOUS
        <4>2. Root(s, l) /\ \E e : Holds(s, l, e, u)
          BY <1>1, <1>2, <3>3, <4>1, RootOfOperation
        <4>3. x \in LoopNodes(s, l)
          BY ONLY <2>2, <3>1, <4>2 DEF LoopNodes
        <4>4. PICK T : T = {o \in 1 .. N : Chain(s, o) # << >> /\ Head(Chain(s, o)) = l}
          OBVIOUS
        <4>5. T \in SUBSET Nat /\ u \in T
          BY ONLY <3>3, <4>1, <4>4, u \in 1 .. N
        <4>6. PICK o \in T : \A m \in T : o <= m
          BY ONLY <4>5, Least
        <4>7. o \in 1 .. N /\ Chain(s, o) # << >> /\ Head(Chain(s, o)) = l
          BY ONLY <4>4, o \in T
        <4>8. First(s, o)
          <5>. SUFFICES ASSUME NEW e \in 1 .. o - 1, Chain(s, e) # << >>, Head(Chain(s,
              e)) = Head(Chain(s, o))
                        PROVE  FALSE
            BY DEF First
          <5>1. e \in 1 .. N /\ ~ (o <= e)
            BY ONLY <4>7, N \in Nat, e \in 1 .. o - 1
          <5>2. e \in T
            BY ONLY <4>4, <4>7, <5>1, Chain(s, e) # << >>, Head(Chain(s, e)) = Head(Chain(s, o))
          <5>. QED BY <4>6, <5>1, <5>2
        <4>9. x \in S[o]
          BY ONLY <1>4, <4>3, <4>7, <4>8 DEF PlaceNodes
        <4>. QED BY ONLY <4>7, <4>9
      <3>. QED BY <3>2, <3>3
    <2>. QED BY ONLY <2>1, <2>2
  <1>8. DOMAIN q = 1 .. N /\ q = [o \in 1 .. N |-> q[o]]
    BY ONLY <1>3
  <1>9. Lists(FlattenSeq(q), Nodes(s), Precedence(s))
    BY ONLY <1>5, <1>6, <1>7, <1>8, N \in Nat, Listing
  <1>10. BodyOfKernel(s) = FlattenSeq(q)
    BY ONLY <1>2, <1>3, BodyOfKernelIs
  <1>. QED BY ONLY <1>9, <1>10

-------------------------------------------------------------------------------
(* The text of a program lists the executions of its work items. *)

(* An execution is an instance at a point of the grid; it follows those of *)
(* the same point that its instance follows.                               *)
Node(i) == [op |-> i.op, at |-> i.at]

Executions(s) == {i \in [op : Ops(s), pid : Grid(s), at : Seq(Nat)] : Node(i) \in Nodes(s)}

Before(s) == {p \in Executions(s) \X Executions(s) :
                 p[1].pid = p[2].pid /\ <<Node(p[1]), Node(p[2])>> \in Precedence(s)}

(* What a program executes for one work item, and what that lists.         *)
ItemText(s, len, w) ==
    LET pid == Decompose(s, w) body == BodyOfKernel(s) IN
    IF Skips(s, len, pid) THEN << >>
    ELSE [n \in DOMAIN body |-> [op |-> body[n].op, pid |-> pid, at |-> body[n].at]]

ItemExecutions(s, len, w) == {i \in Executions(s) : i.pid = Decompose(s, w) /\ ~ Skips(s, len, i.pid)}

(* The text of a program is that of its work items.                        *)
LEMMA ProgramTextIs ==
    ASSUME NEW s, NEW len, NEW c
    PROVE  ProgramText(s, len, c) =
              FlattenSeq([i \in DOMAIN Work(s, c) |-> ItemText(s, len, Work(s, c)[i])])
  BY DEF ProgramText, ItemText

(* An execution made of its parts, and taken apart.                        *)
LEMMA ExecutionTyped ==
    ASSUME NEW s, NEW pid \in Grid(s), NEW x \in Nodes(s)
    PROVE  /\ [op |-> x.op, pid |-> pid, at |-> x.at] \in Executions(s)
           /\ Node([op |-> x.op, pid |-> pid, at |-> x.at]) = x
  <1>1. PICK i : i = [op |-> x.op, pid |-> pid, at |-> x.at]
    OBVIOUS
  <1>2. Node(i) = x
    <2>1. Node(i) = [op |-> x.op, at |-> x.at]
      BY <1>1 DEF Node
    <2>2. x = [op |-> x.op, at |-> x.at]
      BY NodeTyped
    <2>. QED BY ONLY <2>1, <2>2
  <1>3. x.op \in Ops(s) /\ x.at \in Seq(Nat)
    BY DEF Nodes
  <1>4. i \in [op : Ops(s), pid : Grid(s), at : Seq(Nat)]
    BY ONLY <1>1, <1>3, pid \in Grid(s)
  <1>. QED BY ONLY <1>1, <1>2, <1>4, x \in Nodes(s) DEF Executions

LEMMA ExecutionIs ==
    ASSUME NEW s, NEW i \in Executions(s)
    PROVE  /\ i = [op |-> i.op, pid |-> i.pid, at |-> i.at] /\ i.op \in Ops(s) /\ i.pid \in Grid(s)
           /\ Node(i) \in Nodes(s) /\ Node(i).op = i.op /\ Node(i).at = i.at
           /\ i.at \in Iterations(s, i.op)
  <1>1. i \in [op : Ops(s), pid : Grid(s), at : Seq(Nat)] /\ Node(i) \in Nodes(s)
    BY DEF Executions
  <1>2. Node(i).op = i.op /\ Node(i).at = i.at
    BY DEF Node
  <1>3. i.at \in Iterations(s, i.op)
    BY ONLY <1>1, <1>2 DEF Nodes
  <1>. QED BY ONLY <1>1, <1>2, <1>3

LEMMA ItemListed ==
    ASSUME NEW s, WellFormed(s), LoopNestSound(s), ProgramMapSound(s), NEW len, NEW w \in Items(s)
    PROVE  Lists(ItemText(s, len, w), ItemExecutions(s, len, w), Before(s))
  <1>1. PICK pid \in Grid(s) : pid = Decompose(s, w)
    BY DecomposeInGrid
  <1>2. CASE Skips(s, len, pid)
    <2>1. ItemText(s, len, w) = << >> /\ ItemExecutions(s, len, w) = {}
      BY <1>1, <1>2 DEF ItemText, ItemExecutions
    <2>. QED BY ONLY <2>1, ListsNothing
  <1>3. CASE ~ Skips(s, len, pid)
    <2>1. PICK body : body = BodyOfKernel(s)
      OBVIOUS
    <2>2. Lists(body, Nodes(s), Precedence(s))
      BY <2>1, KernelListed
    <2>3. PICK N \in Nat : DOMAIN body = 1 .. N /\ \A n \in 1 .. N : body[n] \in Nodes(s)
      <3>1. body \in Seq(Nodes(s))
        BY ONLY <2>2 DEF Lists
      <3>2. PICK N \in Nat : DOMAIN body = 1 .. N
        BY ONLY <3>1
      <3>3. \A n \in 1 .. N : body[n] \in Nodes(s)
        BY ONLY <3>1, <3>2, Member
      <3>. QED BY <3>2, <3>3
    <2>4. PICK R : R = [n \in 1 .. N |-> [op |-> body[n].op, pid |-> pid, at |-> body[n].at]]
      OBVIOUS
    <2>5. ItemText(s, len, w) = R
      BY ONLY <1>1, <1>3, <2>1, <2>3, <2>4 DEF ItemText
    <2>6. PICK S : S = ItemExecutions(s, len, w)
      OBVIOUS
    <2>7. ASSUME NEW n \in 1 .. N PROVE R[n] \in S /\ Node(R[n]) = body[n]
      <3>1. R[n] = [op |-> body[n].op, pid |-> pid, at |-> body[n].at] /\ body[n] \in Nodes(s)
        BY ONLY <2>3, <2>4, n \in 1 .. N
      <3>2. R[n] \in Executions(s) /\ Node(R[n]) = body[n]
        BY ONLY <3>1, pid \in Grid(s), ExecutionTyped
      <3>3. R[n].pid = pid
        BY ONLY <3>1
      <3>. QED BY ONLY <1>1, <1>3, <2>6, <3>2, <3>3 DEF ItemExecutions
    <2>8. R \in Seq(S) /\ DOMAIN R = 1 .. N
      BY ONLY <2>4, <2>7, N \in Nat
    <2>9. IsInjective(R)
      <3>1. ASSUME NEW n \in 1 .. N, NEW m \in 1 .. N, R[n] = R[m] PROVE n = m
        <4>1. body[n] = body[m]
          BY ONLY <2>7, <3>1
        <4>. QED BY ONLY <2>2, <2>3, <4>1, n \in 1 .. N, m \in 1 .. N DEF Lists, IsInjective
      <3>. QED BY ONLY <2>8, <3>1 DEF IsInjective
    <2>10. ASSUME NEW i \in S PROVE i \in Executions(s) /\ i.pid = pid
      BY ONLY <1>1, <2>6, <2>10 DEF ItemExecutions
    <2>11. ASSUME NEW i \in S, NEW n \in 1 .. N, body[n] = Node(i) PROVE R[n] = i
      <3>1. i = [op |-> i.op, pid |-> i.pid, at |-> i.at] /\ Node(i).op = i.op /\ Node(i).at = i.at
        BY ONLY <2>10, ExecutionIs
      <3>2. i.pid = pid
        BY <2>10
      <3>. QED BY ONLY <2>4, <2>11, <3>1, <3>2
    <2>12. ASSUME NEW i \in S PROVE \E n \in 1 .. N : R[n] = i
      <3>1. Node(i) \in Nodes(s)
        BY ONLY <2>10, ExecutionIs
      <3>2. PICK n \in 1 .. N : body[n] = Node(i)
        BY ONLY <2>2, <2>3, <3>1 DEF Lists
      <3>. QED BY <2>11, <3>2
    <2>13. ASSUME NEW n \in 1 .. N, NEW i \in S, <<i, R[n]>> \in Before(s)
           PROVE  \E m \in 1 .. N : m < n /\ R[m] = i
      <3>1. <<Node(i), Node(R[n])>> \in Precedence(s)
        BY <2>13 DEF Before
      <3>2. <<Node(i), body[n]>> \in Precedence(s) /\ Node(i) \in Nodes(s)
        <4>1. Node(i) \in Nodes(s)
          BY ONLY <2>10, ExecutionIs
        <4>. QED BY ONLY <2>7, <3>1, <4>1
      <3>3. PICK m \in 1 .. N : m < n /\ body[m] = Node(i)
        BY ONLY <2>2, <2>3, <3>2, n \in 1 .. N DEF Lists
      <3>. QED BY <2>11, <3>3
    <2>14. Lists(R, S, Before(s))
      BY ONLY <2>8, <2>9, <2>12, <2>13 DEF Lists
    <2>. QED BY ONLY <2>5, <2>6, <2>14
  <1>. QED BY <1>2, <1>3

(* What program c executes. *)
Assigned(s, len, c) ==
    {i \in Executions(s) : /\ ~ Skips(s, len, i.pid)
                           /\ \E k \in DOMAIN Work(s, c) : i.pid = Decompose(s, Work(s, c)[k])}

LEMMA WorkRange ==
    ASSUME NEW s, WellFormed(s), ProgramMapSound(s), NEW c \in Programs(s)
    PROVE  \E N \in Nat : /\ DOMAIN Work(s, c) = 1 .. N
                          /\ \A i \in 1 .. N : Work(s, c)[i] \in Items(s)
                          /\ \A i, j \in 1 .. N : i < j => Work(s, c)[i] # Work(s, c)[j]
  <1>1. PICK q : q = Work(s, c)
    OBVIOUS
  <1>2. q \in Seq(Items(s))
    BY <1>1, WorkIsItems
  <1>3. PICK N \in Nat : DOMAIN q = 1 .. N
    BY ONLY <1>2
  <1>4. \A i \in 1 .. N : q[i] \in Items(s)
    BY ONLY <1>2, <1>3, Member
  <1>5. ASSUME NEW i \in 1 .. N, NEW j \in 1 .. N, i < j PROVE q[i] # q[j]
    <2>. SUFFICES ASSUME q[i] = q[j] PROVE FALSE
      OBVIOUS
    <2>1. i = j
      BY <1>1, <1>3, WorkIsDisjoint
    <2>. QED BY ONLY <1>5, <2>1, N \in Nat, i \in 1 .. N
  <1>. QED BY ONLY <1>1, <1>3, <1>4, <1>5, N \in Nat

(* A program lists the executions of its work items.                       *)
LEMMA ProgramListed ==
    ASSUME NEW s, WellFormed(s), LoopNestSound(s), ProgramMapSound(s), NEW len, NEW c \in Programs(s)
    PROVE  Lists(ProgramText(s, len, c), Assigned(s, len, c), Before(s))
  <1>1. PICK w, N : /\ w = Work(s, c) /\ N \in Nat /\ DOMAIN w = 1 .. N
                    /\ \A i \in 1 .. N : w[i] \in Items(s)
                    /\ \A i, j \in 1 .. N : i < j => w[i] # w[j]
    BY WorkRange
  <1>2. PICK q : q = [i \in 1 .. N |-> ItemText(s, len, w[i])]
    OBVIOUS
  <1>3. PICK S : S = [i \in 1 .. N |-> ItemExecutions(s, len, w[i])]
    OBVIOUS
  <1>4. ASSUME NEW i \in 1 .. N PROVE S[i] \in SUBSET Executions(s) /\ Lists(q[i], S[i], Before(s))
    <2>1. w[i] \in Items(s)
      BY <1>1
    <2>2. Lists(ItemText(s, len, w[i]), ItemExecutions(s, len, w[i]), Before(s))
      BY <2>1, ItemListed
    <2>. QED BY ONLY <1>2, <1>3, <2>2, i \in 1 .. N DEF ItemExecutions
  <1>5. ASSUME NEW i \in 1 .. N, NEW j \in 1 .. N, i < j PROVE Apart(S, Before(s), i, j)
    <2>. SUFFICES ASSUME NEW x \in S[i], NEW y \in S[j] PROVE x # y /\ <<y, x>> \notin Before(s)
      BY DEF Apart
    <2>1. x.pid = Decompose(s, w[i]) /\ y.pid = Decompose(s, w[j])
      BY ONLY <1>3, x \in S[i], y \in S[j], i \in 1 .. N, j \in 1 .. N DEF ItemExecutions
    <2>2. w[i] \in Items(s) /\ w[j] \in Items(s) /\ w[i] # w[j]
      BY ONLY <1>1, <1>5, i \in 1 .. N, j \in 1 .. N
    <2>3. x.pid # y.pid
      BY <2>1, <2>2, DecomposeInjective
    <2>4. <<y, x>> \notin Before(s)
      BY ONLY <2>3 DEF Before
    <2>. QED BY ONLY <2>3, <2>4
  <1>6. ASSUME NEW x PROVE x \in Assigned(s, len, c) <=> \E i \in 1 .. N : x \in S[i]
    BY ONLY <1>1, <1>3 DEF Assigned, ItemExecutions
  <1>7. DOMAIN q = 1 .. N /\ q = [i \in 1 .. N |-> q[i]]
    BY ONLY <1>2
  <1>8. Lists(FlattenSeq(q), Assigned(s, len, c), Before(s))
    BY ONLY <1>1, <1>4, <1>5, <1>6, <1>7, Listing
  <1>9. ProgramText(s, len, c) = FlattenSeq(q)
    BY ONLY <1>1, <1>2, ProgramTextIs
  <1>. QED BY ONLY <1>8, <1>9

(* One program executes all of a work item.                                *)
LEMMA ProgramOfWork ==
    ASSUME NEW s, WellFormed(s), ProgramMapSound(s), NEW len, NEW c \in Programs(s),
        NEW d \in Programs(s),
           NEW x \in Assigned(s, len, c), NEW y \in Assigned(s, len, d), x.pid = y.pid
    PROVE  c = d
  <1>1. PICK k \in DOMAIN Work(s, c) : x.pid = Decompose(s, Work(s, c)[k])
    BY DEF Assigned
  <1>2. PICK m \in DOMAIN Work(s, d) : y.pid = Decompose(s, Work(s, d)[m])
    BY DEF Assigned
  <1>3. Work(s, c)[k] \in Items(s) /\ Work(s, d)[m] \in Items(s)
    <2>1. Work(s, c) \in Seq(Items(s)) /\ Work(s, d) \in Seq(Items(s))
      BY WorkIsItems
    <2>. QED BY ONLY <2>1, k \in DOMAIN Work(s, c), m \in DOMAIN Work(s, d), Member
  <1>4. Work(s, c)[k] = Work(s, d)[m]
    BY <1>1, <1>2, <1>3, DecomposeInjective
  <1>. QED BY <1>4, WorkIsDisjoint

-------------------------------------------------------------------------------
(* What an instance depends on: some instance of that operation agrees.    *)

(* A chain names each of its loops once.                                   *)
LEMMA ChainSound ==
    ASSUME NEW s, WellFormed(s), LoopNamesResolveOnce(s), NEW o \in Ops(s)
    PROVE  Chain(s, o) \in Seq(Loops(s)) /\ IsInjective(Chain(s, o))
  <1>1. ASSUME Outside(s, o) PROVE Chain(s, o) \in Seq(Loops(s)) /\ IsInjective(Chain(s, o))
    <2>1. Chain(s, o) = << >>
      BY ONLY <1>1 DEF Outside
    <2>2. << >> \in Seq(Loops(s)) /\ DOMAIN << >> = {}
      OBVIOUS
    <2>. QED BY ONLY <2>1, <2>2 DEF IsInjective
  <1>2. ASSUME NEW l, InLoop(s, o, l) PROVE Chain(s, o) \in Seq(Loops(s)) /\ IsInjective(Chain(s, o))
    <2>1. Chain(s, o) = <<l>> /\ l \in Loops(s)
      BY ONLY <1>2 DEF InLoop
    <2>2. <<l>> \in Seq(Loops(s)) /\ DOMAIN <<l>> = {1}
      BY ONLY <2>1
    <2>. QED BY ONLY <2>1, <2>2 DEF IsInjective
  <1>3. ASSUME NEW p, NEW l, InNest(s, o, p, l)
        PROVE  Chain(s, o) \in Seq(Loops(s)) /\ IsInjective(Chain(s, o))
    <2>1. Chain(s, o) = <<p, l>> /\ l \in Loops(s) /\ p \in Loops(s) /\ p # l
      BY ONLY <1>3 DEF InNest
    <2>2. <<p, l>> \in Seq(Loops(s)) /\ DOMAIN <<p, l>> = {1, 2} /\ <<p, l>>[1] = p /\ <<p, l>>[2] = l
      BY ONLY <2>1
    <2>. QED BY ONLY <2>1, <2>2 DEF IsInjective
  <1>. QED BY <1>1, <1>2, <1>3, PlaceOfOperation

(* The iterator of the n-th loop around it is its n-th. *)
LEMMA IteratorIs ==
    ASSUME NEW s, WellFormed(s), LoopNamesResolveOnce(s), NEW x, x.op \in Ops(s),
           x.at \in Iterations(s, x.op), NEW n \in DOMAIN Chain(s, x.op)
    PROVE  /\ Iterator(s, x, Chain(s, x.op)[n]) = x.at[n]
           /\ x.at[n] \in ToSet(Ticks(s, Chain(s, x.op)[n]))
  <1>1. PICK q : q = Chain(s, x.op)
    OBVIOUS
  <1>2. q \in Seq(Loops(s)) /\ IsInjective(q)
    BY <1>1, ChainSound
  <1>3. /\ x.at \in Seq(Nat) /\ Len(x.at) = Len(q)
        /\ \A k \in 1 .. Len(x.at) : x.at[k] \in ToSet(Ticks(s, q[k]))
    BY ONLY <1>1, x.at \in Iterations(s, x.op) DEF Iterations
  <1>4. DOMAIN x.at = DOMAIN q /\ DOMAIN q = 1 .. Len(x.at) /\ n \in DOMAIN q
    BY ONLY <1>1, <1>2, <1>3, n \in DOMAIN Chain(s, x.op)
  <1>5. (CHOOSE k \in DOMAIN x.at : q[k] = q[n]) = n
    BY ONLY <1>2, <1>4 DEF IsInjective
  <1>. QED BY ONLY <1>1, <1>3, <1>4, <1>5 DEF Iterator

(* An iterator is one of the values of its loop.                           *)
LEMMA IteratorTyped ==
    ASSUME NEW s, WellFormed(s), LoopNamesResolveOnce(s), NEW x, x.op \in Ops(s),
           x.at \in Iterations(s, x.op), NEW l \in Enclosing(s, x.op)
    PROVE  l \in Loops(s) /\ Iterator(s, x, l) \in ToSet(Ticks(s, l)) /\ Iterator(s, x, l) \in Nat
  <1>1. PICK n \in DOMAIN Chain(s, x.op) : Chain(s, x.op)[n] = l
    BY DEF Enclosing, ToSet
  <1>2. Iterator(s, x, l) \in ToSet(Ticks(s, l))
    BY <1>1, IteratorIs
  <1>3. l \in Loops(s)
    <2>1. Chain(s, x.op) \in Seq(Loops(s))
      BY ChainSound
    <2>. QED BY ONLY <1>1, <2>1, Member
  <1>4. ToSet(Ticks(s, l)) \subseteq Nat
    BY <1>3, TicksRange
  <1>. QED BY ONLY <1>2, <1>3, <1>4

(* One can choose the iterators of an operation freely. *)
LEMMA ChooseIterators ==
    ASSUME NEW s, WellFormed(s), LoopNamesResolveOnce(s), NEW o \in Ops(s),
           NEW tick, \A l \in Enclosing(s, o) : tick[l] \in ToSet(Ticks(s, l))
    PROVE  \E y \in Nodes(s) : y.op = o /\ \A l \in Enclosing(s, o) : Iterator(s, y, l) = tick[l]
  <1>1. PICK q : q = Chain(s, o)
    OBVIOUS
  <1>2. q \in Seq(Loops(s))
    BY <1>1, ChainSound
  <1>3. PICK N \in Nat : N = Len(q) /\ DOMAIN q = 1 .. N
    BY ONLY <1>2
  <1>4. PICK at : at = [n \in 1 .. N |-> tick[q[n]]]
    OBVIOUS
  <1>5. ASSUME NEW n \in 1 .. N PROVE q[n] \in Enclosing(s, o) /\ at[n] \in ToSet(Ticks(s,
      q[n])) /\ at[n] \in Nat
    <2>1. q[n] \in Enclosing(s, o) /\ q[n] \in Loops(s)
      BY <1>1, <1>2, <1>3 DEF Enclosing, ToSet
    <2>2. at[n] \in ToSet(Ticks(s, q[n]))
      BY <1>4, <2>1
    <2>3. ToSet(Ticks(s, q[n])) \subseteq Nat
      BY <2>1, TicksRange
    <2>. QED BY ONLY <2>1, <2>2, <2>3
  <1>6. at \in Seq(Nat) /\ Len(at) = N
    BY ONLY <1>4, <1>5, N \in Nat
  <1>7. at \in Iterations(s, o)
    BY ONLY <1>1, <1>3, <1>5, <1>6 DEF Iterations
  <1>8. PICK y : y = [op |-> o, at |-> at]
    OBVIOUS
  <1>9. y.op = o /\ y.at = at /\ y \in Nodes(s)
    <2>1. y.op = o /\ y.at = at
      BY ONLY <1>8
    <2>. QED BY ONLY <1>7, <1>8, <2>1, o \in Ops(s), NodeTyped
  <1>10. ASSUME NEW l \in Enclosing(s, o) PROVE Iterator(s, y, l) = tick[l]
    <2>1. PICK n \in 1 .. N : q[n] = l
      BY <1>1, <1>3 DEF Enclosing, ToSet
    <2>2. Iterator(s, y, q[n]) = at[n]
      BY <1>1, <1>3, <1>7, <1>9, IteratorIs
    <2>. QED BY ONLY <1>4, <2>1, <2>2
  <1>. QED BY ONLY <1>9, <1>10

(* A loop has an iteration.                                                *)
LEMMA SomeTick ==
    ASSUME NEW s, WellFormed(s), NEW l \in Loops(s)
    PROVE  \E t : t \in ToSet(Ticks(s, l))
  <1>1. PICK q : q = Ticks(s, l) /\ q \in Seq(Nat) /\ q # << >>
    BY TicksTyped
  <1>2. 1 \in DOMAIN q
    BY ONLY <1>1
  <1>. QED BY ONLY <1>1, <1>2 DEF ToSet

(* An operation has an instance that agrees with a given one.              *)
LEMMA AgreeingNode ==
    ASSUME NEW s, WellFormed(s), LoopNamesResolveOnce(s), NEW x \in Nodes(s), NEW o \in Ops(s)
    PROVE  \E y \in Nodes(s) : y.op = o /\ Agree(s, y, x)
  <1>1. x.op \in Ops(s) /\ x.at \in Iterations(s, x.op)
    BY DEF Nodes
  <1>2. PICK tick : tick = [l \in Loops(s) |->
                       IF l \in Enclosing(s, x.op) THEN Iterator(s, x, l)
                       ELSE CHOOSE t : t \in ToSet(Ticks(s, l))]
    OBVIOUS
  <1>3. ASSUME NEW l \in Enclosing(s, o) PROVE l \in Loops(s) /\ tick[l] \in ToSet(Ticks(s, l))
    <2>1. l \in Loops(s)
      <3>1. Chain(s, o) \in Seq(Loops(s))
        BY ChainSound
      <3>2. PICK n \in DOMAIN Chain(s, o) : Chain(s, o)[n] = l
        BY DEF Enclosing, ToSet
      <3>. QED BY ONLY <3>1, <3>2, Member
    <2>2. CASE l \in Enclosing(s, x.op)
      <3>1. Iterator(s, x, l) \in ToSet(Ticks(s, l))
        BY <1>1, <2>2, IteratorTyped
      <3>. QED BY ONLY <1>2, <2>1, <2>2, <3>1
    <2>3. CASE l \notin Enclosing(s, x.op)
      <3>1. \E t : t \in ToSet(Ticks(s, l))
        BY <2>1, SomeTick
      <3>. QED BY ONLY <1>2, <2>1, <2>3, <3>1
    <2>. QED BY <2>1, <2>2, <2>3
  <1>4. PICK y \in Nodes(s) : y.op = o /\ \A l \in Enclosing(s, o) : Iterator(s, y, l) = tick[l]
    BY <1>3, ChooseIterators
  <1>5. Agree(s, y, x)
    <2>1. ASSUME NEW l \in Enclosing(s, y.op) \cap Enclosing(s, x.op) PROVE Iterator(s, y,
        l) = Iterator(s, x, l)
      <3>1. l \in Enclosing(s, o) /\ l \in Enclosing(s, x.op)
        BY ONLY <1>4, <2>1
      <3>. QED BY <1>2, <1>3, <1>4, <3>1
    <2>. QED BY ONLY <2>1 DEF Agree
  <1>. QED BY <1>4, <1>5

LEMMA TilesAreDisjoint ==
    ASSUME NEW t \in Positive, NEW p \in Nat, NEW q \in Nat, NEW n \in Int,
           n \in Lanes(p * t, t), n \in Lanes(q * t, t)
    PROVE  p = q
  <1>1. p * t <= n /\ n < p * t + t /\ q * t <= n /\ n < q * t + t
    BY SMT DEF Lanes, Positive
  <1>2. p < q => p * t + t <= q * t
    BY SMT DEF Positive
  <1>3. q < p => q * t + t <= p * t
    BY SMT DEF Positive
  <1>. QED BY <1>1, <1>2, <1>3, SMT DEF Positive

LEMMA UsedOnce ==
    ASSUME NEW index, IsFiniteSet(DOMAIN index), NEW a, Cardinality(Uses(index, a)) = 1
    PROVE  \E p \in DOMAIN index :
              /\ ByProgram(index[p]) /\ index[p].of = a
              /\ \A q \in DOMAIN index : ByProgram(index[q]) /\ index[q].of = a => q = p
  <1>1. IsFiniteSet(Uses(index, a))
    BY FS_Subset DEF Uses
  <1>2. PICK p : Uses(index, a) = {p}
    BY <1>1, FS_Singleton
  <1>. QED BY <1>2 DEF Uses

(* A coordinate is in a tile of its extent.                                *)
LEMMA TilesCover ==
    ASSUME NEW t \in Positive, NEW e \in Positive, NEW n \in Nat, n < e
    PROVE  /\ n \div t \in Nat
           /\ n \div t < TileCount(t, e)
           /\ n \in Lanes((n \div t) * t, t)
  <1>1. n \div t < (e + t - 1) \div t
    BY SMT DEF Positive
  <1>2. n \div t \in Nat /\ (n \div t) * t <= n /\ n < (n \div t) * t + t
    BY SMT DEF Positive
  <1>. QED BY <1>1, <1>2, SMT DEF Lanes, TileCount, Positive

(* A coordinate named once is masked by the extent of its own position.    *)
LEMMA FirstAlone ==
    ASSUME NEW T, NEW index \in Seq(T), NEW p \in DOMAIN index,
           \A q \in DOMAIN index : index[q] = index[p] => q = p
    PROVE  FirstNaming(index, p) = p
  <1>1. \A r \in 1 .. p - 1 : r \in DOMAIN index /\ r # p
    OBVIOUS
  <1>2. index[p] = index[p] /\ \A r \in 1 .. p - 1 : index[r] # index[p]
    BY <1>1
  <1>. QED BY ONLY <1>2, p \in DOMAIN index, \A q \in DOMAIN index : index[q] = index[p] => q = p
         DEF FirstNaming

-------------------------------------------------------------------------------
(* The regions of a state store, of an axis each (docs/adr/0069). *)

(* A schedule with a state store o, as the parser builds it. *)
StateSchedule(s, o) ==
    /\ DOMAIN s.shape = {"dst", "src"}
    /\ s.shape["dst"] \in Seq(Positive)
    /\ s.valid = << >>
    /\ s.axes \in Seq([buffer : {"dst", "src"}, dim : Positive, tile : Positive])
    /\ s.ops[o].buffer = "dst"
    /\ s.ops[o].index \in Seq([source : {"program", "program_tile", "loop_tile", "dimension"},
                               of : Positive, offset : Nat, extent : Nat])

(* The instances of o and of the loads with its AccessMap. *)
SameRegion(s, o, i) == s.ops[i.op].buffer = "dst" /\ s.ops[i.op].index = s.ops[o].index

(* Two programs of the kernel touch no common element by the AccessMap of  *)
(* an admitted state store: not in their stores, and not in the loads that *)
(* read what they are to update.                                           *)
THEOREM RegionsAreDisjoint ==
    ASSUME NEW s, NEW o, StateSchedule(s, o), StateStoreOwned(s, o), NEW len,
           NEW i, NEW j, SameRegion(s, o, i), SameRegion(s, o, j),
           i.pid \in Coordinate(s), j.pid \in Coordinate(s), i.pid # j.pid
    PROVE  Touched(s, len, i) \cap Touched(s, len, j) = {}
  <1>. DEFINE index == s.ops[o].index
  <1>1. PICK a \in Axes(s) : i.pid[a] # j.pid[a]
    BY DEF Coordinate
  <1>2. PICK p \in DOMAIN index : ByProgram(index[p]) /\ index[p].of = a
    <2>1. IsFiniteSet(DOMAIN index)
      BY FiniteIndex DEF StateSchedule
    <2>2. Cardinality(Uses(index, a)) = 1
      BY DEF StateStoreOwned
    <2>. QED BY <2>1, <2>2, UsedOnce
  <1>3. s.axes[a].tile \in Positive /\ i.pid[a] \in Nat /\ j.pid[a] \in Nat
    <2>1. s.axes[a] \in [buffer : {"dst", "src"}, dim : Positive, tile : Positive]
      BY Member DEF StateSchedule, Axes
    <2>2. i.pid[a] \in Nat /\ j.pid[a] \in Nat
      BY DEF Coordinate
    <2>. QED BY <2>1, <2>2
  <1>4. SUFFICES ASSUME NEW e, e \in Touched(s, len, i), e \in Touched(s, len, j)
                 PROVE  FALSE
    OBVIOUS
  <1>5. e[p] \in Coordinates(s, i, index[p]) /\ e[p] \in Coordinates(s, j, index[p])
    BY <1>4, <1>2 DEF Touched, SameRegion
  <1>6. CASE index[p].source = "program"
    BY <1>1, <1>2, <1>5, <1>6 DEF Coordinates
  <1>7. CASE index[p].source = "program_tile"
    <2>1. /\ e[p] \in Lanes(i.pid[a] * s.axes[a].tile, s.axes[a].tile)
          /\ e[p] \in Lanes(j.pid[a] * s.axes[a].tile, s.axes[a].tile)
      BY <1>2, <1>5, <1>7 DEF Coordinates
    <2>2. e[p] \in Int
      BY <2>1 DEF Lanes
    <2>. QED BY <2>1, <2>2, <1>1, <1>3, TilesAreDisjoint
  <1>. QED BY <1>2, <1>6, <1>7 DEF ByProgram

(* Together the programs of the grid write every element of the state.     *)
THEOREM RegionsCoverState ==
    ASSUME NEW s, NEW o, StateSchedule(s, o), AccessSound(s, o), StateStoreOwned(s, o),
           NEW len, NEW e \in Elements(s, "dst")
    PROVE  \E pid \in Grid(s) : e \in Touched(s, len, [op |-> o, pid |-> pid, at |-> << >>])
  <1>. DEFINE index == s.ops[o].index
              shape == s.shape["dst"]
              Pos(a) == CHOOSE p \in DOMAIN index : ByProgram(index[p]) /\ index[p].of = a
              pid == [a \in Axes(s) |-> e[Pos(a)] \div s.axes[a].tile]
              i == [op |-> o, pid |-> pid, at |-> << >>]
              lanes == [p \in DOMAIN index |-> Coordinates(s, i, index[p])]
  <1>1. /\ DOMAIN index = DOMAIN shape
        /\ \A p \in DOMAIN index : shape[p] \in Positive
    <2>1. Len(index) = Len(shape)
      BY DEF AccessSound, StateSchedule
    <2>2. index \in Seq([source : {"program", "program_tile", "loop_tile", "dimension"},
                         of : Positive, offset : Nat, extent : Nat])
      BY DEF StateSchedule
    <2>3. shape \in Seq(Positive)
      BY DEF StateSchedule
    <2>4. DOMAIN index = DOMAIN shape
      BY <2>1, <2>2, <2>3
    <2>. QED BY <2>3, <2>4
  <1>2. \A p \in DOMAIN index : e[p] \in Nat /\ e[p] < shape[p]
    <2>1. /\ e \in [DOMAIN shape -> UNION {Lanes(0, shape[p]) : p \in DOMAIN shape}]
          /\ \A p \in DOMAIN shape : e[p] < shape[p]
      BY DEF Elements
    <2>2. ASSUME NEW p \in DOMAIN index PROVE e[p] \in Nat
      <3>1. PICK q \in DOMAIN shape : e[p] \in Lanes(0, shape[q])
        BY <2>1, <1>1
      <3>2. shape[q] \in Nat
        BY <1>1 DEF Positive
      <3>. QED BY <3>1, <3>2, SMT DEF Lanes
    <2>. QED BY <2>1, <2>2, <1>1
  <1>3. \A a \in Axes(s) :
          /\ Pos(a) \in DOMAIN index /\ ByProgram(index[Pos(a)]) /\ index[Pos(a)].of = a
          /\ \A q \in DOMAIN index : ByProgram(index[q]) /\ index[q].of = a => q = Pos(a)
    <2>1. SUFFICES ASSUME NEW a \in Axes(s)
          PROVE  /\ Pos(a) \in DOMAIN index /\ ByProgram(index[Pos(a)]) /\ index[Pos(a)].of = a
                 /\ \A q \in DOMAIN index : ByProgram(index[q]) /\ index[q].of = a => q = Pos(a)
      OBVIOUS
    <2>2. IsFiniteSet(DOMAIN index) /\ Cardinality(Uses(index, a)) = 1
      BY FiniteIndex DEF StateSchedule, StateStoreOwned
    <2>3. PICK p \in DOMAIN index :
              /\ ByProgram(index[p]) /\ index[p].of = a
              /\ \A q \in DOMAIN index : ByProgram(index[q]) /\ index[q].of = a => q = p
      BY <2>2, UsedOnce
    <2>. QED BY <2>3
  <1>4. \A a \in Axes(s) :
          /\ s.axes[a].tile \in Positive
          /\ Extent(s, s.axes[a]) = shape[Pos(a)]
          /\ (index[Pos(a)].source = "program") = (s.axes[a].tile = 1)
    <2>1. SUFFICES ASSUME NEW a \in Axes(s)
          PROVE  /\ s.axes[a].tile \in Positive
                 /\ Extent(s, s.axes[a]) = shape[Pos(a)]
                 /\ (index[Pos(a)].source = "program") = (s.axes[a].tile = 1)
      OBVIOUS
    <2>2. s.axes[a] \in [buffer : {"dst", "src"}, dim : Positive, tile : Positive]
      BY Member DEF StateSchedule, Axes
    <2>3. StateCoordinateOwned(s, o, Pos(a))
      BY <1>3 DEF StateStoreOwned
    <2>4. /\ s.axes[a].buffer = "dst" /\ s.axes[a].dim = Pos(a)
          /\ (index[Pos(a)].source = "program") = (s.axes[a].tile = 1)
      BY <1>3, <2>3 DEF StateCoordinateOwned, ByProgram
    <2>. QED BY <2>2, <2>4 DEF Extent
  <1>5. \A a \in Axes(s) :
          /\ pid[a] \in Nat /\ pid[a] < Tiles(s, a)
          /\ e[Pos(a)] \in Lanes(pid[a] * s.axes[a].tile, s.axes[a].tile)
    <2>1. SUFFICES ASSUME NEW a \in Axes(s)
          PROVE  /\ pid[a] \in Nat /\ pid[a] < Tiles(s, a)
                 /\ e[Pos(a)] \in Lanes(pid[a] * s.axes[a].tile, s.axes[a].tile)
      OBVIOUS
    <2>2. /\ e[Pos(a)] \in Nat /\ e[Pos(a)] < shape[Pos(a)]
          /\ shape[Pos(a)] \in Positive /\ s.axes[a].tile \in Positive
      BY <1>1, <1>2, <1>3, <1>4
    <2>3. pid[a] = e[Pos(a)] \div s.axes[a].tile
      OBVIOUS
    <2>4. Tiles(s, a) = TileCount(s.axes[a].tile, shape[Pos(a)])
      BY <1>4 DEF Tiles
    <2>. HIDE DEF pid, Pos, shape
    <2>. QED BY <2>2, <2>3, <2>4, TilesCover
  <1>6. pid \in Grid(s)
    BY <1>5 DEF Grid, Coordinate
  <1>7. ASSUME NEW p \in DOMAIN index PROVE e[p] \in Coordinates(s, i, index[p])
    <2>1. StateCoordinateOwned(s, o, p)
      BY DEF StateStoreOwned
    <2>2. CASE ByProgram(index[p])
      <3>. DEFINE a == index[p].of
      <3>1. a \in Axes(s)
        BY <2>2 DEF AccessSound, ComponentSound, ByProgram
      <3>2. Pos(a) = p
        BY <2>2, <3>1, <1>3
      <3>3. e[p] \in Lanes(i.pid[a] * s.axes[a].tile, s.axes[a].tile)
        BY <3>1, <3>2, <1>5
      <3>4. CASE index[p].source = "program_tile"
        BY <3>3, <3>4 DEF Coordinates
      <3>5. CASE index[p].source = "program"
        <4>1. s.axes[a].tile = 1 /\ i.pid[a] \in Nat
          BY <3>1, <3>2, <3>5, <1>4, <1>5
        <4>2. ASSUME NEW x \in Nat, NEW n \in Nat, n \in Lanes(x * 1, 1) PROVE n = x
          BY <4>2, SMT DEF Lanes
        <4>3. e[p] = i.pid[a]
          <5>. HIDE DEF i
          <5>. QED BY <4>1, <4>2, <3>3, <1>2
        <4>. QED BY <4>3, <3>5 DEF Coordinates
      <3>. QED BY <2>2, <3>4, <3>5 DEF ByProgram
    <2>3. CASE /\ index[p].source = "dimension" /\ index[p].of = p
               /\ index[p].offset = 0 /\ index[p].extent = 0
      <3>1. Coordinates(s, i, index[p]) = Lanes(0, Span(index[p], shape[p]))
        BY <2>3 DEF Coordinates, StateSchedule
      <3>2. Span(index[p], shape[p]) = shape[p]
        BY <2>3, <1>1, SMT DEF Span, Positive
      <3>3. e[p] \in Lanes(0, shape[p])
        BY <1>1, <1>2, SMT DEF Lanes, Positive
      <3>. QED BY <3>1, <3>2, <3>3
    <2>. QED BY <2>1, <2>2, <2>3 DEF StateCoordinateOwned
  <1>8. e \in [DOMAIN index -> UNION {lanes[p] : p \in DOMAIN index}]
    BY <1>1, <1>7 DEF Elements
  <1>9. ASSUME NEW p \in DOMAIN index, NEW q \in DOMAIN index, index[q] = index[p] PROVE q = p
    <2>1. StateCoordinateOwned(s, o, p) /\ StateCoordinateOwned(s, o, q)
      BY DEF StateStoreOwned
    <2>. QED BY ONLY <1>9, <2>1 DEF StateCoordinateOwned, ByProgram
  <1>10. \A p \in DOMAIN index : FirstNaming(index, p) = p
    <2>1. PICK T, x : x = s.ops[o].index /\ x \in Seq(T)
      BY DEF StateSchedule
    <2>2. \A p, q \in DOMAIN x : x[q] = x[p] => q = p
      BY ONLY <1>9, <2>1
    <2>3. \A p \in DOMAIN x : FirstNaming(x, p) = p
      BY ONLY <2>1, <2>2, FirstAlone
    <2>. QED BY ONLY <2>1, <2>3
  <1>11. Masked(s, len, "dst", index, e)
    <2>1. \A p \in DOMAIN index : e[p] < Bound(s, "dst", index, p)
      BY ONLY <1>2, <1>10 DEF Bound
    <2>2. s.valid = << >>
      BY DEF StateSchedule
    <2>. QED BY ONLY <2>1, <2>2 DEF Masked
  <1>12. e \in Touched(s, len, i)
    <2>1. s.ops[i.op].index = index /\ s.ops[i.op].buffer = "dst"
      BY DEF StateSchedule
    <2>2. \A p, q \in DOMAIN index : index[p] = index[q] => e[p] = e[q]
      BY <1>9
    <2>3. \A p \in DOMAIN index : e[p] \in lanes[p]
      BY <1>7
    <2>. HIDE DEF i, index, pid, shape, Pos
    <2>. QED BY ONLY <1>8, <1>11, <2>1, <2>2, <2>3 DEF Touched
  <1>. QED BY <1>6, <1>12

-------------------------------------------------------------------------------
(* The elements that an execution touches. *)

(* The parts of an operation, as the parser types them.                    *)
LEMMA OperationTyped ==
    ASSUME NEW s, WellFormed(s), NEW o \in Ops(s)
    PROVE  /\ s.ops[o].kind \in {"load", "store", "compute"} /\ s.ops[o].buffer \in Buffers
           /\ s.ops[o].index \in Seq(Component) /\ s.ops[o].after \in SUBSET Ops(s)
           /\ s.shape[s.ops[o].buffer] \in Seq(Positive)
  <1>1. s.ops \in Seq([kind : {"load", "store", "compute"}, buffer : Buffers,
                       index : Seq(Component), after : SUBSET Ops(s)])
    BY DEF WellFormed
  <1>2. s.ops[o] \in [kind : {"load", "store", "compute"}, buffer : Buffers,
                      index : Seq(Component), after : SUBSET Ops(s)]
    BY <1>1, Member DEF Ops
  <1>3. s.ops[o].buffer \in Buffers
    BY ONLY <1>2
  <1>4. s.shape[s.ops[o].buffer] \in Seq(Positive)
    BY <1>3 DEF WellFormed
  <1>. QED BY ONLY <1>2, <1>4

LEMMA ComponentTyped ==
    ASSUME NEW s, WellFormed(s), NEW o \in Ops(s), NEW p \in DOMAIN s.ops[o].index
    PROVE  /\ s.ops[o].index[p].source \in {"program", "program_tile", "loop_tile", "dimension"}
           /\ s.ops[o].index[p].offset \in Nat /\ s.ops[o].index[p].extent \in Nat
  <1>1. PICK q : q = s.ops[o].index /\ q \in Seq(Component)
    BY OperationTyped
  <1>2. q[p] \in Component
    BY ONLY <1>1, p \in DOMAIN s.ops[o].index, Member
  <1>. QED BY ONLY <1>1, <1>2 DEF Component

(* A sound access has a component for each dimension.                      *)
LEMMA AccessShape ==
    ASSUME NEW s, WellFormed(s), NEW o \in Ops(s), AccessSound(s, o)
    PROVE  /\ DOMAIN s.ops[o].index = DOMAIN s.shape[s.ops[o].buffer]
           /\ \A p \in DOMAIN s.ops[o].index : s.shape[s.ops[o].buffer][p] \in Positive
  <1>1. PICK q, h : q = s.ops[o].index /\ h = s.shape[s.ops[o].buffer]
    OBVIOUS
  <1>2. q \in Seq(Component) /\ h \in Seq(Positive)
    BY <1>1, OperationTyped
  <1>3. Len(q) = Len(h)
    BY <1>1 DEF AccessSound
  <1>4. DOMAIN q = DOMAIN h
    BY ONLY <1>2, <1>3
  <1>5. \A p \in DOMAIN h : h[p] \in Positive
    BY ONLY <1>2, Member
  <1>. QED BY ONLY <1>1, <1>4, <1>5

(* Elements and regions, coordinate by coordinate.                         *)
LEMMA ElementIs ==
    ASSUME NEW s, NEW b, s.shape[b] \in Seq(Positive), NEW a
    PROVE  a \in Elements(s, b) <=>
              /\ a = [p \in DOMAIN s.shape[b] |-> a[p]]
              /\ \A p \in DOMAIN s.shape[b] : a[p] \in Nat /\ a[p] < s.shape[b][p]
  <1>1. PICK h : h = s.shape[b]
    OBVIOUS
  <1>2. \A p \in DOMAIN h : h[p] \in Nat
    BY <1>1, Member DEF Positive
  <1>3. \A p \in DOMAIN h : Lanes(0, h[p]) = 0 .. h[p] - 1
    BY <1>2 DEF Lanes
  <1>4. ASSUME a \in Elements(s, b)
        PROVE  a = [p \in DOMAIN h |-> a[p]] /\ \A p \in DOMAIN h : a[p] \in Nat /\ a[p] < h[p]
    <2>1. a \in [DOMAIN h -> UNION {Lanes(0, h[p]) : p \in DOMAIN h}] /\ \A p \in DOMAIN h : a[p] < h[p]
      BY ONLY <1>1, <1>4 DEF Elements
    <2>2. ASSUME NEW p \in DOMAIN h PROVE a[p] \in Nat
      <3>1. PICK q \in DOMAIN h : a[p] \in Lanes(0, h[q])
        BY <2>1
      <3>. QED BY ONLY <1>2, <1>3, <3>1, q \in DOMAIN h
    <2>. QED BY ONLY <2>1, <2>2
  <1>5. ASSUME a = [p \in DOMAIN h |-> a[p]], \A p \in DOMAIN h : a[p] \in Nat /\ a[p] < h[p]
        PROVE  a \in Elements(s, b)
    <2>1. ASSUME NEW p \in DOMAIN h PROVE a[p] \in UNION {Lanes(0, h[q]) : q \in DOMAIN h}
      <3>1. a[p] \in Lanes(0, h[p])
        BY ONLY <1>2, <1>3, <1>5, p \in DOMAIN h
      <3>. QED BY ONLY <3>1, p \in DOMAIN h
    <2>2. a \in [DOMAIN h -> UNION {Lanes(0, h[q]) : q \in DOMAIN h}]
      BY ONLY <1>5, <2>1
    <2>. QED BY ONLY <1>1, <1>5, <2>2 DEF Elements
  <1>. QED BY ONLY <1>1, <1>4, <1>5

LEMMA TouchedIs ==
    ASSUME NEW s, NEW len, NEW i, NEW a
    PROVE  a \in Touched(s, len, i) <=>
              /\ a = [p \in DOMAIN s.ops[i.op].index |-> a[p]]
              /\ \A p \in DOMAIN s.ops[i.op].index : a[p] \in Coordinates(s, i, s.ops[i.op].index[p])
              /\ \A p, q \in DOMAIN s.ops[i.op].index :
                    s.ops[i.op].index[p] = s.ops[i.op].index[q] => a[p] = a[q]
              /\ Masked(s, len, s.ops[i.op].buffer, s.ops[i.op].index, a)
  <1>1. PICK index : index = s.ops[i.op].index
    OBVIOUS
  <1>2. PICK lanes : lanes = [p \in DOMAIN index |-> Coordinates(s, i, index[p])]
    OBVIOUS
  <1>3. PICK R : R = UNION {lanes[p] : p \in DOMAIN index}
    OBVIOUS
  <1>4. a \in Touched(s, len, i) <=>
           /\ a \in [DOMAIN index -> R] /\ \A p \in DOMAIN index : a[p] \in lanes[p]
           /\ \A p, q \in DOMAIN index : index[p] = index[q] => a[p] = a[q]
           /\ Masked(s, len, s.ops[i.op].buffer, index, a)
    BY ONLY <1>1, <1>2, <1>3 DEF Touched
  <1>5. ASSUME a = [p \in DOMAIN index |-> a[p]], \A p \in DOMAIN index : a[p] \in lanes[p]
        PROVE  a \in [DOMAIN index -> R]
    BY ONLY <1>3, <1>5
  <1>6. a \in [DOMAIN index -> R] => a = [p \in DOMAIN index |-> a[p]]
    OBVIOUS
  <1>. QED BY ONLY <1>1, <1>2, <1>4, <1>5, <1>6

(* Some position is the first to name a coordinate.                        *)
LEMMA FirstNames ==
    ASSUME NEW T, NEW index \in Seq(T), NEW p \in DOMAIN index
    PROVE  FirstNaming(index, p) \in DOMAIN index /\ index[FirstNaming(index, p)] = index[p]
  <1>1. PICK N : N = {q \in DOMAIN index : index[q] = index[p]}
    OBVIOUS
  <1>2. N \in SUBSET Nat /\ p \in N
    BY <1>1
  <1>3. PICK q \in N : \A m \in N : q <= m
    BY ONLY <1>2, Least
  <1>4. q \in DOMAIN index /\ index[q] = index[p]
    BY ONLY <1>1, q \in N
  <1>5. ASSUME NEW r \in 1 .. q - 1 PROVE index[r] # index[p]
    <2>1. r \in DOMAIN index /\ ~ (q <= r)
      BY <1>4
    <2>. QED BY ONLY <1>1, <1>3, <2>1
  <1>. QED BY ONLY <1>4, <1>5 DEF FirstNaming

(* What the Verifier requires of a component and the masks of the emitter, *)
(* where they suffice, keep an access in the declared shape.               *)
LEMMA TouchedInBounds ==
    ASSUME NEW s, WellFormed(s), LoopNamesResolveOnce(s), NEW i \in Executions(s), AccessSound(s, i.op),
           MaskSuffices(s, i.op), NEW len
    PROVE  Touched(s, len, i) \subseteq Elements(s, s.ops[i.op].buffer)
  <1>1. PICK o \in Ops(s) : o = i.op /\ i.pid \in Grid(s) /\ i.at \in Iterations(s, o)
    BY ExecutionIs
  <1>2. PICK index, b, h : index = s.ops[o].index /\ b = s.ops[o].buffer /\ h = s.shape[b]
    OBVIOUS
  <1>3. DOMAIN index = DOMAIN h /\ \A p \in DOMAIN index : h[p] \in Positive
    BY <1>1, <1>2, AccessShape
  <1>. SUFFICES ASSUME NEW a \in Touched(s, len, i) PROVE a \in Elements(s, b)
    BY <1>1, <1>2
  <1>4. /\ a = [p \in DOMAIN index |-> a[p]]
        /\ \A p \in DOMAIN index : a[p] \in Coordinates(s, i, index[p])
        /\ Masked(s, len, b, index, a)
    BY <1>1, <1>2, TouchedIs
  <1>5. ASSUME NEW p \in DOMAIN index PROVE a[p] \in Nat /\ a[p] < h[p]
    <2>1. PICK x : x = index[p]
      OBVIOUS
    <2>2. ComponentSound(s, o, h, p)
      BY <1>1, <1>2 DEF AccessSound
    <2>3. a[p] \in Coordinates(s, i, x)
      BY <1>4, <2>1
    <2>5. h[p] \in Nat
      BY <1>3 DEF Positive
    <2>4. x.source \in {"program_tile", "loop_tile"} /\ a[p] \in Nat => a[p] < h[p]
      <3>. SUFFICES ASSUME x.source \in {"program_tile", "loop_tile"}, a[p] \in Nat PROVE a[p] < h[p]
        OBVIOUS
      <3>5. Tiled(x)
        BY ONLY x.source \in {"program_tile", "loop_tile"} DEF Tiled
      <3>1. PICK n : n = h[FirstNaming(index, p)]
        OBVIOUS
      <3>2. a[p] < n
        <4>1. \A q \in DOMAIN index : Tiled(index[q]) => a[q] < Bound(s, b, index, q)
          BY ONLY <1>4 DEF Masked
        <4>2. a[p] < Bound(s, b, index, p)
          BY ONLY <2>1, <3>5, <4>1, p \in DOMAIN index
        <4>. QED BY ONLY <1>2, <3>1, <4>2 DEF Bound
      <3>3. n <= h[p]
        BY ONLY <1>1, <1>2, <2>1, <3>1, <3>5, MaskSuffices(s, i.op), p \in DOMAIN index
           DEF MaskSuffices
      <3>4. n \in Nat
        <4>1. FirstNaming(index, p) \in DOMAIN index
          BY ONLY <1>1, <1>2, WellFormed(s), OperationTyped, FirstNames
        <4>. QED BY ONLY <1>3, <3>1, <4>1 DEF Positive
      <3>. QED BY ONLY <2>5, <3>2, <3>3, <3>4, a[p] \in Nat
    <2>6. CASE x.source = "program"
      <3>1. a[p] = i.pid[x.of]
        BY ONLY <2>3, <2>6 DEF Coordinates
      <3>2. x.of \in Axes(s) /\ Tiles(s, x.of) <= h[p]
        BY ONLY <1>2, <2>1, <2>2, <2>6 DEF ComponentSound
      <3>3. i.pid[x.of] \in Nat /\ i.pid[x.of] < Tiles(s, x.of) /\ Tiles(s, x.of) \in Nat
        BY <1>1, <3>2, AxisTyped DEF Grid, Coordinate, Positive
      <3>. QED BY ONLY <2>5, <3>1, <3>2, <3>3
    <2>7. CASE x.source = "program_tile"
      <3>1. a[p] \in Lanes(i.pid[x.of] * s.axes[x.of].tile, s.axes[x.of].tile)
        BY ONLY <2>3, <2>7 DEF Coordinates
      <3>2. x.of \in Axes(s)
        BY ONLY <1>2, <2>1, <2>2, <2>7 DEF ComponentSound
      <3>3. i.pid[x.of] \in Nat /\ s.axes[x.of].tile \in Nat
        BY <1>1, <3>2, AxisTyped DEF Grid, Coordinate, Positive
      <3>4. PICK n, t \in Nat : n = i.pid[x.of] * s.axes[x.of].tile /\ t = s.axes[x.of].tile
        BY ONLY <3>3, Product
      <3>5. a[p] \in Nat
        BY ONLY <3>1, <3>4, n \in Nat, t \in Nat DEF Lanes
      <3>. QED BY ONLY <2>4, <2>7, <3>5
    <2>8. CASE x.source = "loop_tile"
      <3>1. a[p] \in Lanes(Iterator(s, i, x.of), s.loops[x.of].tile)
        BY ONLY <2>3, <2>8 DEF Coordinates
      <3>2. x.of \in Enclosing(s, o)
        BY ONLY <1>2, <2>1, <2>2, <2>8 DEF ComponentSound
      <3>3. x.of \in Loops(s) /\ Iterator(s, i, x.of) \in Nat
        BY <1>1, <3>2, IteratorTyped
      <3>4. s.loops[x.of].tile \in Nat
        BY <3>3, LoopTyped DEF Positive
      <3>5. a[p] \in Nat
        BY ONLY <3>1, <3>3, <3>4 DEF Lanes
      <3>. QED BY ONLY <2>4, <2>8, <3>5
    <2>9. CASE x.source = "dimension"
      <3>1. PICK n, f, e : n = h[x.of] /\ f = x.offset /\ e = Span(x, n)
        OBVIOUS
      <3>2. a[p] \in Lanes(f, e)
        BY ONLY <1>1, <1>2, <2>3, <2>9, <3>1 DEF Coordinates
      <3>3. x.of \in DOMAIN h /\ f < n /\ f + e <= n /\ (x.of # p => f + e <= h[p])
        BY ONLY <1>2, <2>1, <2>2, <2>9, <3>1 DEF ComponentSound
      <3>4. f \in Nat /\ x.extent \in Nat
        BY <1>2, <2>1, <3>1, ComponentTyped
      <3>5. n \in Nat
        BY ONLY <1>3, <3>1, <3>3 DEF Positive
      <3>6. e \in Int /\ f + e <= h[p]
        <4>1. e \in Int
          BY ONLY <3>1, <3>4, <3>5 DEF Span
        <4>. QED BY ONLY <3>1, <3>3, <4>1
      <3>. QED BY ONLY <2>5, <3>2, <3>4, <3>6 DEF Lanes
    <2>10. x.source \in {"program", "program_tile", "loop_tile", "dimension"}
      BY <1>2, <2>1, ComponentTyped
    <2>. QED BY ONLY <2>6, <2>7, <2>8, <2>9, <2>10
  <1>6. h \in Seq(Positive)
    BY <1>2, OperationTyped
  <1>. QED BY ONLY <1>2, <1>3, <1>4, <1>5, <1>6, ElementIs

(* Two executions that differ in an axis or a loop that both address by. *)
Meets(s, len, i, j) == \E a : a \in Touched(s, len, i) /\ a \in Touched(s, len, j)

(* Executions that differ on an axis or a loop that the AccessMap uses     *)
(* touch nothing in common.                                                *)
LEMMA AxisSeparates ==
    ASSUME NEW s, WellFormed(s), NEW len, NEW i, NEW j, s.ops[i.op].index = s.ops[j.op].index,
           NEW p \in DOMAIN s.ops[i.op].index, NEW a \in Axes(s), ByProgram(s.ops[i.op].index[p]),
           s.ops[i.op].index[p].of = a, i.pid[a] \in Nat, j.pid[a] \in Nat, i.pid[a] # j.pid[a]
    PROVE  ~ Meets(s, len, i, j)
  <1>. SUFFICES ASSUME NEW e, e \in Touched(s, len, i), e \in Touched(s, len, j) PROVE FALSE
    BY DEF Meets
  <1>1. PICK x : x = s.ops[i.op].index[p]
    OBVIOUS
  <1>2. e[p] \in Coordinates(s, i, x) /\ e[p] \in Coordinates(s, j, x)
    BY <1>1, TouchedIs
  <1>3. CASE x.source = "program"
    <2>1. e[p] = i.pid[a] /\ e[p] = j.pid[a]
      BY <1>1, <1>2, <1>3 DEF Coordinates
    <2>. QED BY <2>1
  <1>4. CASE x.source = "program_tile"
    <2>1. PICK t \in Positive : t = s.axes[a].tile
      BY AxisTyped
    <2>2. e[p] \in Lanes(i.pid[a] * t, t) /\ e[p] \in Lanes(j.pid[a] * t, t)
      BY ONLY <1>1, <1>2, <1>4, <2>1, s.ops[i.op].index[p].of = a DEF Coordinates
    <2>3. e[p] \in Int
      BY ONLY <2>2 DEF Lanes
    <2>. QED BY <2>2, <2>3, TilesAreDisjoint
  <1>. QED BY <1>1, <1>3, <1>4 DEF ByProgram

LEMMA LoopSeparates ==
    ASSUME NEW s, WellFormed(s), LoopNamesResolveOnce(s), NEW len,
           NEW i \in Executions(s), NEW j \in Executions(s), i.op = j.op,
           NEW p \in DOMAIN s.ops[i.op].index, NEW l \in Enclosing(s, i.op),
           s.ops[i.op].index[p].source = "loop_tile", s.ops[i.op].index[p].of = l,
           Iterator(s, i, l) # Iterator(s, j, l)
    PROVE  ~ Meets(s, len, i, j)
  <1>. SUFFICES ASSUME NEW e, e \in Touched(s, len, i), e \in Touched(s, len, j) PROVE FALSE
    BY DEF Meets
  <1>1. PICK x : x = s.ops[i.op].index[p]
    OBVIOUS
  <1>2. e[p] \in Coordinates(s, i, x) /\ e[p] \in Coordinates(s, j, x)
    BY <1>1, TouchedIs
  <1>3. PICK u, v : u = Iterator(s, i, l) /\ v = Iterator(s, j, l)
    OBVIOUS
  <1>4. l \in Loops(s) /\ u \in ToSet(Ticks(s, l)) /\ v \in ToSet(Ticks(s, l))
    <2>1. i.op \in Ops(s) /\ i.at \in Iterations(s, i.op) /\ j.at \in Iterations(s, j.op)
      BY ExecutionIs
    <2>. QED BY <1>3, <2>1, IteratorTyped
  <1>5. PICK t \in Positive, N \in Nat : t = s.loops[l].tile /\ N = Trips(s, l)
    BY <1>4, LoopTyped DEF Positive
  <1>6. ToSet(Ticks(s, l)) = {(n - 1) * t : n \in 1 .. N}
    BY ONLY <1>5 DEF Ticks, ToSet
  <1>7. PICK m \in 1 .. N : u = (m - 1) * t
    BY ONLY <1>4, <1>6
  <1>8. PICK n \in 1 .. N : v = (n - 1) * t
    BY ONLY <1>4, <1>6
  <1>9. PICK a, b \in Nat : a = m - 1 /\ b = n - 1
    OBVIOUS
  <1>10. e[p] \in Lanes(a * t, t) /\ e[p] \in Lanes(b * t, t)
    <2>1. e[p] \in Lanes(u, t) /\ e[p] \in Lanes(v, t)
      BY <1>1, <1>2, <1>3, <1>5 DEF Coordinates
    <2>. QED BY ONLY <1>7, <1>8, <1>9, <2>1
  <1>11. e[p] \in Int
    BY ONLY <1>10 DEF Lanes
  <1>12. a = b
    BY ONLY <1>10, <1>11, a \in Nat, b \in Nat, t \in Positive, TilesAreDisjoint
  <1>. QED BY ONLY <1>3, <1>7, <1>8, <1>9, <1>12, Iterator(s, i, l) # Iterator(s, j, l)

(* An execution is its operation, its point and its iterators.             *)
LEMMA SameIterators ==
    ASSUME NEW s, WellFormed(s), LoopNamesResolveOnce(s), NEW i \in Executions(s),
        NEW j \in Executions(s),
           i.op = j.op, i.pid = j.pid,
           \A l \in Enclosing(s, i.op) : Iterator(s, i, l) = Iterator(s, j, l)
    PROVE  i = j
  <1>1. PICK o \in Ops(s) : /\ o = i.op /\ o = j.op
                            /\ i.at \in Iterations(s, o) /\ j.at \in Iterations(s, o)
                            /\ i = [op |-> i.op, pid |-> i.pid, at |-> i.at]
                            /\ j = [op |-> j.op, pid |-> j.pid, at |-> j.at]
    BY ExecutionIs
  <1>2. PICK q : q = Chain(s, o) /\ q \in Seq(Loops(s))
    BY ChainSound
  <1>3. /\ i.at \in Seq(Nat) /\ j.at \in Seq(Nat) /\ Len(i.at) = Len(q) /\ Len(j.at) = Len(q)
    BY ONLY <1>1, <1>2 DEF Iterations
  <1>4. ASSUME NEW n \in 1 .. Len(q) PROVE i.at[n] = j.at[n]
    <2>1. n \in DOMAIN q
      BY ONLY <1>2, n \in 1 .. Len(q)
    <2>2. q[n] \in Enclosing(s, o)
      BY ONLY <1>2, <2>1 DEF Enclosing, ToSet
    <2>3. Iterator(s, i, q[n]) = i.at[n]
      BY <1>1, <1>2, <2>1, IteratorIs
    <2>4. Iterator(s, j, q[n]) = j.at[n]
      BY <1>1, <1>2, <2>1, IteratorIs
    <2>. QED BY <1>1, <2>2, <2>3, <2>4
  <1>5. i.at = j.at
    <2>1. PICK u, v \in Seq(Nat) : u = i.at /\ v = j.at
      BY <1>3
    <2>2. Len(u) = Len(v) /\ \A n \in 1 .. Len(u) : u[n] = v[n]
      BY ONLY <1>3, <1>4, <2>1
    <2>3. u = [n \in 1 .. Len(u) |-> u[n]] /\ v = [n \in 1 .. Len(v) |-> v[n]]
      BY ONLY u \in Seq(Nat), v \in Seq(Nat)
    <2>4. [n \in 1 .. Len(u) |-> u[n]] = [n \in 1 .. Len(u) |-> v[n]]
      BY ONLY <2>2
    <2>5. u = v
      BY ONLY <2>2, <2>3, <2>4
    <2>. QED BY ONLY <2>1, <2>5
  <1>. QED BY ONLY <1>1, <1>5, i.op = j.op, i.pid = j.pid

(* A judged store touches no element in two executions: of two that        *)
(* differ, an axis or a loop that the rule requires tells them apart.      *)
LEMMA StoresApart ==
    ASSUME NEW s, WellFormed(s), LoopNamesResolveOnce(s), NEW len, Judged(s),
           NEW o \in Stores(s), StoreOwned(s, o),
           NEW i \in Executions(s), NEW j \in Executions(s), i.op = o, j.op = o, i # j
    PROVE  ~ Meets(s, len, i, j)
  <1>1. o \in Ops(s) /\ i.pid \in Grid(s) /\ j.pid \in Grid(s)
    BY ExecutionIs DEF Stores
  <1>2. PICK index : index = s.ops[o].index
    OBVIOUS
  <1>3. IsFiniteSet(DOMAIN index)
    BY <1>1, <1>2, OperationTyped, FiniteIndex
  <1>4. ASSUME NEW a \in Axes(s)
        PROVE  /\ i.pid[a] \in Nat /\ j.pid[a] \in Nat /\ Tiles(s, a) \in Nat
               /\ i.pid[a] < Tiles(s, a) /\ j.pid[a] < Tiles(s, a)
    BY <1>1, AxisTyped DEF Grid, Coordinate, Positive
  <1>5. ASSUME NEW a \in Axes(s), i.pid[a] # j.pid[a], Uses(index, a) # {} PROVE ~ Meets(s, len, i, j)
    <2>1. PICK p \in DOMAIN index : ByProgram(index[p]) /\ index[p].of = a
      BY <1>5 DEF Uses
    <2>. QED BY <1>2, <1>4, <1>5, <2>1, AxisSeparates
  <1>6. ASSUME NEW a, Cardinality(Uses(index, a)) = 1 PROVE Uses(index, a) # {}
    BY <1>6, FS_EmptySet
  <1>7. Chain(s, o) = << >> <=> Direct(s, o) = {}
    <2>1. (Outside(s, o) => Chain(s, o) = << >> /\ Direct(s, o) = {})
      BY ONLY TRUE DEF Outside
    <2>2. ASSUME NEW l, InLoop(s, o, l) PROVE Chain(s, o) # << >> /\ Direct(s, o) # {}
      <3>1. Chain(s, o) = <<l>> /\ Direct(s, o) = {l}
        BY ONLY <2>2 DEF InLoop
      <3>. QED BY ONLY <3>1
    <2>3. ASSUME NEW p, NEW l, InNest(s, o, p, l) PROVE Chain(s, o) # << >> /\ Direct(s, o) # {}
      <3>1. Chain(s, o) = <<p, l>> /\ Direct(s, o) = {l}
        BY ONLY <2>3 DEF InNest
      <3>. QED BY ONLY <3>1
    <2>. QED BY <1>1, <2>1, <2>2, <2>3, PlaceOfOperation
  <1>8. ASSUME NEW a \in Axes(s), i.pid[a] # j.pid[a] PROVE Uses(index, a) # {}
    <2>1. CASE s.mode = "state"
      <3>1. Cardinality(Uses(index, a)) = 1
        BY <1>2, <2>1 DEF StoreOwned, StateStoreOwned
      <3>. QED BY <1>6, <3>1
    <2>2. CASE s.mode # "state" /\ Chain(s, o) = << >>
      <3>1. ~ Persistent(s)
        BY <2>2 DEF Judged
      <3>2. Direct(s, o) = {}
        BY <1>7, <2>2
      <3>3. Tiles(s, a) > 1 => Uses(index, a) # {}
        BY <1>2, <2>2, <3>1, <3>2 DEF StoreOwned, OutputStoreOwned
      <3>4. Tiles(s, a) > 1
        BY <1>4, <1>8
      <3>. QED BY ONLY <3>3, <3>4
    <2>3. CASE Chain(s, o) # << >>
      <3>1. Cardinality(Uses(index, a)) = 1
        BY <1>2, <2>3 DEF StoreOwned, LoopStoreOwned
      <3>. QED BY <1>6, <3>1
    <2>. QED BY <2>1, <2>2, <2>3
  <1>9. CASE i.pid # j.pid
    <2>1. PICK a \in Axes(s) : i.pid[a] # j.pid[a]
      BY <1>1, <1>9 DEF Grid, Coordinate
    <2>. QED BY <1>5, <1>8, <2>1
  <1>10. CASE i.pid = j.pid
    <2>1. PICK l \in Enclosing(s, o) : Iterator(s, i, l) # Iterator(s, j, l)
      BY <1>10, SameIterators
    <2>2. Chain(s, o) # << >>
      <3>1. DOMAIN << >> = {}
        OBVIOUS
      <3>. QED BY ONLY <2>1, <3>1 DEF Enclosing, ToSet
    <2>3. PICK P : P = {p \in DOMAIN index : index[p].source = "loop_tile" /\ index[p].of = l}
      OBVIOUS
    <2>4. Cardinality(P) = 1
      BY <1>2, <2>2, <2>3 DEF StoreOwned, LoopStoreOwned
    <2>5. PICK p : p \in P
      BY <2>4, FS_EmptySet
    <2>6. p \in DOMAIN index /\ index[p].source = "loop_tile" /\ index[p].of = l
      BY ONLY <2>3, <2>5
    <2>. QED BY <1>2, <2>1, <2>6, LoopSeparates
  <1>. QED BY <1>9, <1>10

(* An iterator is read from the operation and the iterators alone.         *)
LEMMA IteratorOfNode ==
    ASSUME NEW s, NEW i, NEW y, y.op = i.op, y.at = i.at, NEW l
    PROVE  Iterator(s, y, l) = Iterator(s, i, l)
  BY DEF Iterator

(* There is one store.                                                     *)
LEMMA OneStore ==
    ASSUME NEW s, WellFormed(s), DataFlowSound(s), NEW o \in Stores(s), NEW u \in Stores(s)
    PROVE  o = u
  <1>1. PICK N \in Nat : Ops(s) = 1 .. N
    BY OpsAreNumbers
  <1>2. IsFiniteSet(Stores(s))
    <2>1. IsFiniteSet(1 .. N)
      BY FS_Interval
    <2>. QED BY <1>1, <2>1, FS_Subset DEF Stores
  <1>3. Cardinality(Stores(s)) = 1
    BY DEF DataFlowSound
  <1>4. PICK x : Stores(s) = {x}
    BY <1>2, <1>3, FS_Singleton
  <1>. QED BY <1>4

(* An operation of the same item that an instance must follow. *)
LEMMA DependencyBefore ==
    ASSUME NEW s, WellFormed(s), LoopNamesResolveOnce(s), NEW len, NEW c, NEW i \in Assigned(s, len, c),
           NEW d \in Ops(s), d < i.op
    PROVE  \E x \in Assigned(s, len, c) :
              /\ x.op = d /\ x.pid = i.pid /\ <<x, i>> \in Before(s)
              /\ \A l \in Enclosing(s, d) \cap Enclosing(s, i.op) :
                    Iterator(s, x, l) = Iterator(s, i, l)
  <1>1. i \in Executions(s) /\ ~ Skips(s, len, i.pid)
        /\ \E k \in DOMAIN Work(s, c) : i.pid = Decompose(s, Work(s, c)[k])
    BY DEF Assigned
  <1>2. i.pid \in Grid(s) /\ Node(i) \in Nodes(s) /\ Node(i).op = i.op /\ Node(i).at = i.at
    BY <1>1, ExecutionIs
  <1>3. PICK y \in Nodes(s) : y.op = d /\ Agree(s, y, Node(i))
    BY <1>2, AgreeingNode
  <1>4. PICK x : x = [op |-> y.op, pid |-> i.pid, at |-> y.at]
    OBVIOUS
  <1>5. x \in Executions(s) /\ Node(x) = y /\ x.op = d /\ x.pid = i.pid /\ x.at = y.at
    <2>1. x.op = d /\ x.pid = i.pid /\ x.at = y.at
      BY ONLY <1>3, <1>4
    <2>. QED BY ONLY <1>2, <1>4, <2>1, y \in Nodes(s), ExecutionTyped
  <1>6. x \in Assigned(s, len, c)
    BY ONLY <1>1, <1>5 DEF Assigned
  <1>7. <<y, Node(i)>> \in Precedence(s)
    BY ONLY <1>2, <1>3, y \in Nodes(s), d < i.op DEF Precedence
  <1>8. <<x, i>> \in Before(s)
    BY ONLY <1>1, <1>5, <1>7 DEF Before
  <1>9. ASSUME NEW l \in Enclosing(s, d) \cap Enclosing(s, i.op)
        PROVE  Iterator(s, x, l) = Iterator(s, i, l)
    <2>1. Iterator(s, y, l) = Iterator(s, Node(i), l)
      BY ONLY <1>2, <1>3, <1>9 DEF Agree
    <2>2. Iterator(s, x, l) = Iterator(s, y, l)
      BY ONLY <1>3, <1>5, IteratorOfNode
    <2>3. Iterator(s, Node(i), l) = Iterator(s, i, l)
      BY ONLY <1>2, IteratorOfNode
    <2>. QED BY ONLY <2>1, <2>2, <2>3
  <1>. QED BY ONLY <1>5, <1>6, <1>8, <1>9

-------------------------------------------------------------------------------
(* The inductive invariant of a launch. *)

(* What the programs have executed, and the elements a store touches.      *)
Executed(i) == \E c \in DOMAIN pc : \E n \in 1 .. pc[c] : text[c][n] = i

StoreTouches(i, a) == sched.ops[i.op].kind = "store" /\ a \in Touched(sched, lengths, i)

(* Each program has executed a prefix of its text, and what is written is  *)
(* what the executed stores touch.                                         *)
Launched ==
    /\ Admitted(sched) /\ lengths \in Lengths
    /\ text = [c \in Programs(sched) |-> ProgramText(sched, lengths, c)]
    /\ pc \in [Programs(sched) -> Nat] /\ \A c \in Programs(sched) : pc[c] <= Len(text[c])
    /\ DOMAIN written = Elements(sched, "dst") /\ \A a \in DOMAIN written : written[a] \in Nat
    /\ \A a \in DOMAIN written : written[a] > 0 <=> \E i : Executed(i) /\ StoreTouches(i, a)

(* Of a launched Schedule all of this holds; before the launch nothing has *)
(* run.  The two properties that a store or a load could break are kept    *)
(* from step to step, the others follow from Launched.                     *)
IInv ==
    /\ sched \in Schedules
    /\ verdict = "launched" => Launched
    /\ verdict # "launched" => pc = << >> /\ written = << >> /\ late = {}
    /\ OneWriter /\ OwnRegionReadsInitial

(* What the constants and the verdict say of the launched Schedule.        *)
LEMMA ScheduleSound ==
    ASSUME sched \in Schedules
    PROVE  WellFormed(sched)
  BY ScheduleAssumption

LEMMA NestSound ==
    ASSUME NEW s, Admitted(s)
    PROVE  /\ ProgramMapSound(s) /\ LoopNestSound(s) /\ LoopNamesResolveOnce(s) /\ DataFlowSound(s)
           /\ DependenciesInOrder(s)
           /\ \A o \in Accesses(s) : AccessSound(s, o)
           /\ \A o \in Stores(s) : StoreOwned(s, o)
  BY DEF Admitted, LoopNestSound

(* The text of a running program, and what runs next.                      *)
LEMMA TextListed ==
    ASSUME sched \in Schedules, Launched, NEW c \in Programs(sched)
    PROVE  /\ Lists(text[c], Assigned(sched, lengths, c), Before(sched))
           /\ Len(text[c]) \in Nat /\ DOMAIN text[c] = 1 .. Len(text[c])
           /\ pc[c] \in Nat /\ pc[c] <= Len(text[c])
  <1>1. WellFormed(sched) /\ LoopNestSound(sched) /\ ProgramMapSound(sched)
    BY ScheduleSound, NestSound DEF Launched
  <1>2. text[c] = ProgramText(sched, lengths, c)
    BY DEF Launched
  <1>3. Lists(ProgramText(sched, lengths, c), Assigned(sched, lengths, c), Before(sched))
    BY <1>1, ProgramListed
  <1>4. PICK q : q = text[c]
    OBVIOUS
  <1>5. q \in Seq(Assigned(sched, lengths, c))
    BY ONLY <1>2, <1>3, <1>4 DEF Lists
  <1>6. Len(q) \in Nat /\ DOMAIN q = 1 .. Len(q)
    BY ONLY <1>5
  <1>7. pc[c] \in Nat /\ pc[c] <= Len(text[c])
    BY DEF Launched
  <1>. QED BY ONLY <1>2, <1>3, <1>4, <1>6, <1>7

LEMMA AheadTyped ==
    ASSUME IInv, NEW c \in DOMAIN pc, Running(c)
    PROVE  /\ Launched /\ WellFormed(sched) /\ c \in Programs(sched) /\ DOMAIN pc = Programs(sched)
           /\ Ahead(c) \in Assigned(sched, lengths, c) /\ Ahead(c) \in Executions(sched)
           /\ pc[c] + 1 \in DOMAIN text[c]
  <1>1. Launched /\ sched \in Schedules /\ WellFormed(sched)
    BY ScheduleSound DEF IInv, Running
  <1>2. c \in Programs(sched) /\ DOMAIN pc = Programs(sched)
    BY <1>1 DEF Launched
  <1>3. PICK q : q = text[c]
    OBVIOUS
  <1>4. /\ Lists(q, Assigned(sched, lengths, c), Before(sched))
        /\ Len(q) \in Nat /\ DOMAIN q = 1 .. Len(q) /\ pc[c] \in Nat
    BY <1>1, <1>2, <1>3, TextListed
  <1>5. pc[c] < Len(q)
    BY <1>3 DEF Running
  <1>6. pc[c] + 1 \in DOMAIN q
    BY ONLY <1>4, <1>5
  <1>7. q \in Seq(Assigned(sched, lengths, c))
    BY ONLY <1>4 DEF Lists
  <1>8. q[pc[c] + 1] \in Assigned(sched, lengths, c)
    BY ONLY <1>6, <1>7, Member
  <1>9. Ahead(c) \in Assigned(sched, lengths, c)
    BY ONLY <1>3, <1>8 DEF Ahead
  <1>10. Ahead(c) \in Executions(sched)
    BY ONLY <1>9 DEF Assigned
  <1>. QED BY ONLY <1>1, <1>2, <1>3, <1>6, <1>9, <1>10

(* What has run is a program's own.                                        *)
LEMMA ExecutedTyped ==
    ASSUME IInv, Launched, NEW i, Executed(i)
    PROVE  \E c \in Programs(sched) : \E n \in 1 .. pc[c] :
              /\ text[c][n] = i /\ n \in DOMAIN text[c] /\ i \in Assigned(sched, lengths, c)
              /\ i \in Executions(sched)
  <1>1. PICK c \in DOMAIN pc : \E n \in 1 .. pc[c] : text[c][n] = i
    BY DEF Executed
  <1>2. PICK n \in 1 .. pc[c] : text[c][n] = i
    BY <1>1
  <1>3. c \in Programs(sched) /\ sched \in Schedules
    BY DEF Launched, IInv
  <1>4. PICK q : q = text[c]
    OBVIOUS
  <1>5. /\ Lists(q, Assigned(sched, lengths, c), Before(sched))
        /\ Len(q) \in Nat /\ DOMAIN q = 1 .. Len(q) /\ pc[c] \in Nat /\ pc[c] <= Len(q)
    BY <1>3, <1>4, TextListed
  <1>6. n \in DOMAIN q
    BY ONLY <1>5, n \in 1 .. pc[c]
  <1>7. q \in Seq(Assigned(sched, lengths, c))
    BY ONLY <1>5 DEF Lists
  <1>8. q[n] \in Assigned(sched, lengths, c)
    BY ONLY <1>6, <1>7, Member
  <1>9. q[n] \in Executions(sched)
    BY ONLY <1>8 DEF Assigned
  <1>. QED BY ONLY <1>2, <1>3, <1>4, <1>6, <1>8, <1>9, n \in 1 .. pc[c]

(* What runs next has not run, and of the same work item only what is not  *)
(* to follow it has.                                                       *)
LEMMA AheadIsNew ==
    ASSUME IInv, NEW c \in DOMAIN pc, Running(c), NEW j, Executed(j)
    PROVE  j # Ahead(c) /\ (j.pid = Ahead(c).pid => <<Ahead(c), j>> \notin Before(sched))
  <1>1. /\ Launched /\ WellFormed(sched) /\ c \in Programs(sched) /\ sched \in Schedules
        /\ Ahead(c) \in Assigned(sched, lengths, c) /\ pc[c] + 1 \in DOMAIN text[c]
        /\ ProgramMapSound(sched)
    <2>1. Launched /\ WellFormed(sched) /\ sched \in Schedules
      BY AheadTyped DEF IInv
    <2>2. ProgramMapSound(sched)
      BY <2>1, NestSound DEF Launched
    <2>. QED BY <2>1, <2>2, AheadTyped
  <1>2. PICK d \in Programs(sched) : \E n \in 1 .. pc[d] :
              text[d][n] = j /\ n \in DOMAIN text[d] /\ j \in Assigned(sched, lengths, d)
    BY <1>1, ExecutedTyped
  <1>3. PICK n \in 1 .. pc[d] :
              text[d][n] = j /\ n \in DOMAIN text[d] /\ j \in Assigned(sched, lengths, d)
    BY <1>2
  <1>4. j.pid = Ahead(c).pid => c = d
    BY <1>1, <1>3, ProgramOfWork
  <1>5. ASSUME c = d PROVE j # Ahead(c) /\ <<Ahead(c), j>> \notin Before(sched)
    <2>1. PICK q, k : q = text[c] /\ k = pc[c]
      OBVIOUS
    <2>2. Lists(q, Assigned(sched, lengths, c), Before(sched)) /\ k \in Nat /\ k <= Len(q)
      BY <1>1, <2>1, TextListed
    <2>3. q[n] = j /\ n \in DOMAIN q /\ n \in 1 .. k /\ k + 1 \in DOMAIN q /\ q[k + 1] = Ahead(c)
      BY ONLY <1>1, <1>3, <1>5, <2>1, n \in 1 .. pc[d] DEF Ahead
    <2>4. IsInjective(q)
      BY ONLY <2>2 DEF Lists
    <2>5. \A m \in DOMAIN q : q[m] = q[k + 1] => m = k + 1
      BY ONLY <2>3, <2>4 DEF IsInjective
    <2>6. j # Ahead(c)
      BY ONLY <2>2, <2>3, <2>5
    <2>7. ASSUME <<Ahead(c), j>> \in Before(sched) PROVE FALSE
      <3>1. PICK m \in DOMAIN q : m < n /\ q[m] = Ahead(c)
        BY ONLY <1>1, <2>2, <2>3, <2>7 DEF Lists
      <3>2. m = k + 1
        BY ONLY <2>3, <2>5, <3>1
      <3>. QED BY ONLY <2>2, <2>3, <3>1, <3>2
    <2>. QED BY ONLY <2>6, <2>7
  <1>. QED BY <1>4, <1>5

-------------------------------------------------------------------------------
(* The conditions of the two safety properties at a step. *)

(* A judged store finds its region unwritten.                              *)
LEMMA StoreIsFresh ==
    ASSUME IInv, NEW c \in DOMAIN pc, Running(c), sched.ops[Ahead(c).op].kind = "store", Judged(sched),
           NEW a \in DOMAIN written, a \in Touched(sched, lengths, Ahead(c))
    PROVE  written[a] = 0
  <1>. SUFFICES ASSUME written[a] # 0 PROVE FALSE
    OBVIOUS
  <1>1. Launched /\ WellFormed(sched) /\ Ahead(c) \in Executions(sched)
    BY AheadTyped
  <1>2. /\ LoopNamesResolveOnce(sched) /\ DataFlowSound(sched)
        /\ \A o \in Stores(sched) : StoreOwned(sched, o)
    BY <1>1, NestSound DEF Launched
  <1>3. written[a] > 0
    BY <1>1 DEF Launched
  <1>4. PICK j : Executed(j) /\ StoreTouches(j, a)
    BY <1>1, <1>3 DEF Launched
  <1>5. j \in Executions(sched)
    BY <1>1, <1>4, ExecutedTyped
  <1>6. Ahead(c).op \in Stores(sched) /\ j.op \in Stores(sched)
    BY <1>1, <1>4, <1>5, ExecutionIs DEF Stores, StoreTouches
  <1>7. j.op = Ahead(c).op
    BY <1>1, <1>2, <1>6, OneStore
  <1>8. j # Ahead(c)
    BY <1>4, AheadIsNew
  <1>9. ~ Meets(sched, lengths, j, Ahead(c))
    BY <1>1, <1>2, <1>5, <1>6, <1>7, <1>8, StoresApart
  <1>. QED BY <1>4, <1>9 DEF Meets, StoreTouches

(* A load that addresses what the update addresses meets nothing updated:  *)
(* another point of the grid has another region, and at its own point the  *)
(* load comes first.                                                       *)
LEMMA OwnReadIsEarly ==
    ASSUME IInv, NEW c \in DOMAIN pc, Running(c), sched.ops[Ahead(c).op].kind = "load",
           sched.ops[Ahead(c).op].buffer = "dst", BeforeUpdate(sched, Ahead(c).op),
           NEW w \in Stores(sched), sched.ops[w].index = sched.ops[Ahead(c).op].index,
           NEW a \in DOMAIN written, a \in Touched(sched, lengths, Ahead(c))
    PROVE  ~ (written[a] > 0)
  <1>. SUFFICES ASSUME written[a] > 0 PROVE FALSE
    OBVIOUS
  <1>1. PICK i : i = Ahead(c)
    OBVIOUS
  <1>2. Launched /\ WellFormed(sched) /\ i \in Executions(sched)
    BY <1>1, AheadTyped
  <1>3. /\ LoopNamesResolveOnce(sched) /\ DataFlowSound(sched)
        /\ \A o \in Stores(sched) : StoreOwned(sched, o)
    BY <1>2, NestSound DEF Launched
  <1>4. PICK j : Executed(j) /\ StoreTouches(j, a)
    BY <1>2 DEF Launched
  <1>5. j \in Executions(sched) /\ j.op \in Stores(sched)
    BY <1>2, <1>4, ExecutedTyped, ExecutionIs DEF Stores, StoreTouches
  <1>6. j.op = w
    BY <1>2, <1>3, <1>5, OneStore
  <1>7. i.op \in Ops(sched) /\ w \in Ops(sched) /\ i.op < w /\ i.op \in Loads(sched, "dst")
    BY <1>1, <1>2, ExecutionIs DEF BeforeUpdate, Loads, Stores
  <1>8. Ops(sched) \subseteq Nat
    BY <1>2, OpsAreNumbers
  <1>9. sched.mode = "state"
    <2>1. sched.mode \in {"state", "output"}
      BY <1>2 DEF WellFormed
    <2>2. sched.mode = "output" => w < i.op
      BY <1>3, <1>7 DEF DataFlowSound
    <2>3. i.op \in Nat /\ w \in Nat
      BY <1>7, <1>8
    <2>. QED BY ONLY <1>7, <2>1, <2>2, <2>3
  <1>10. StateStoreOwned(sched, w)
    BY <1>3, <1>9 DEF StoreOwned
  <1>11. i.pid \in Grid(sched) /\ j.pid \in Grid(sched)
    BY <1>2, <1>5, ExecutionIs
  <1>12. CASE i.pid # j.pid
    <2>1. PICK x \in Axes(sched) : i.pid[x] # j.pid[x]
      BY <1>11, <1>12 DEF Grid, Coordinate
    <2>2. i.pid[x] \in Nat /\ j.pid[x] \in Nat
      BY <1>11 DEF Grid, Coordinate
    <2>3. Cardinality(Uses(sched.ops[w].index, x)) = 1
      BY <1>10 DEF StateStoreOwned
    <2>4. Uses(sched.ops[w].index, x) # {}
      BY <2>3, FS_EmptySet
    <2>5. PICK p \in DOMAIN sched.ops[w].index :
             ByProgram(sched.ops[w].index[p]) /\ sched.ops[w].index[p].of = x
      BY <2>4 DEF Uses
    <2>6. ~ Meets(sched, lengths, i, j)
      BY <1>1, <1>2, <1>6, <2>1, <2>2, <2>5, AxisSeparates
    <2>. QED BY <1>1, <1>4, <2>6 DEF Meets, StoreTouches
  <1>13. CASE i.pid = j.pid
    <2>1. <<i, j>> \notin Before(sched)
      BY <1>1, <1>4, <1>13, AheadIsNew
    <2>2. Enclosing(sched, w) = {}
      <3>1. Direct(sched, w) = {}
        BY <1>10 DEF StateStoreOwned
      <3>2. Cardinality(Direct(sched, w)) # 1
        BY <3>1, FS_EmptySet
      <3>3. Chain(sched, w) = << >>
        BY <3>2 DEF Chain
      <3>4. DOMAIN << >> = {}
        OBVIOUS
      <3>. QED BY ONLY <3>3, <3>4 DEF Enclosing, ToSet
    <2>3. /\ Node(i) \in Nodes(sched) /\ Node(j) \in Nodes(sched)
          /\ Node(i).op = i.op /\ Node(j).op = j.op
      BY <1>2, <1>5, ExecutionIs
    <2>4. Agree(sched, Node(i), Node(j))
      BY ONLY <1>6, <2>2, <2>3 DEF Agree
    <2>5. <<Node(i), Node(j)>> \in Precedence(sched)
      BY ONLY <1>6, <1>7, <2>3, <2>4 DEF Precedence
    <2>6. <<i, j>> \in Before(sched)
      BY ONLY <1>2, <1>5, <1>13, <2>5 DEF Before
    <2>. QED BY ONLY <2>1, <2>6
  <1>. QED BY <1>12, <1>13

-------------------------------------------------------------------------------
(* The invariant holds at first, and each step preserves it.               *)
LEMMA InitInvariant ==
    ASSUME Init
    PROVE  IInv
  <1>1. written = << >> /\ late = {} /\ pc = << >> /\ verdict = "authored" /\ sched \in Schedules
    BY DEF Init
  <1>2. DOMAIN << >> = {}
    OBVIOUS
  <1>. QED BY <1>1, <1>2 DEF IInv, OneWriter, OwnRegionReadsInitial

LEMMA LaunchInvariant ==
    ASSUME IInv, Launch
    PROVE  IInv'
  <1>1. /\ sched' = sched /\ late' = late /\ verdict' = "launched" /\ Admitted(sched) /\ late = {}
        /\ text' = [c \in Programs(sched) |-> ProgramText(sched, lengths', c)]
        /\ pc' = [c \in Programs(sched) |-> 0]
        /\ written' = [a \in Elements(sched, "dst") |-> 0]
    BY DEF Launch, IInv
  <1>2. \A c \in Programs(sched) : 0 <= Len(text[c]')
    <2>1. WellFormed(sched) /\ LoopNestSound(sched) /\ ProgramMapSound(sched)
      BY <1>1, ScheduleSound, NestSound DEF IInv
    <2>2. ASSUME NEW c \in Programs(sched) PROVE 0 <= Len(text[c]')
      <3>1. Lists(ProgramText(sched, lengths', c), Assigned(sched, lengths', c), Before(sched))
        BY <2>1, ProgramListed
      <3>2. PICK q : q = text[c]'
        OBVIOUS
      <3>3. q \in Seq(Assigned(sched, lengths', c))
        BY ONLY <1>1, <3>1, <3>2, c \in Programs(sched) DEF Lists
      <3>. QED BY ONLY <3>2, <3>3
    <2>. QED BY <2>2
  <1>3. Launched'
    <2>0. (lengths \in Lengths)'
      BY <1>1 DEF Launch, Lengths
    <2>1. pc' \in [Programs(sched) -> Nat] /\ \A c \in Programs(sched) : pc'[c] = 0
      BY ONLY <1>1
    <2>2. \A i : ~ Executed(i)'
      BY ONLY <1>1 DEF Executed
    <2>3. DOMAIN written' = Elements(sched, "dst") /\ \A a \in DOMAIN written' : written'[a] = 0
      BY ONLY <1>1
    <2>. QED BY ONLY <1>1, <1>2, <2>0, <2>1, <2>2, <2>3 DEF Launched
  <1>4. OneWriter'
    BY ONLY <1>1 DEF OneWriter
  <1>5. OwnRegionReadsInitial'
    BY ONLY <1>1 DEF OwnRegionReadsInitial
  <1>6. sched' \in Schedules
    BY <1>1 DEF IInv
  <1>. QED BY ONLY <1>1, <1>3, <1>4, <1>5, <1>6 DEF IInv

(* A step executes what is ahead.                                          *)
LEMMA ExecutedNext ==
    ASSUME IInv, NEW c \in DOMAIN pc, Running(c), Advance(c), text' = text, NEW i
    PROVE  Executed(i)' <=> Executed(i) \/ i = Ahead(c)
  <1>1. pc \in [Programs(sched) -> Nat] /\ c \in Programs(sched)
    BY AheadTyped DEF Launched
  <1>2. /\ pc' \in [Programs(sched) -> Nat] /\ pc'[c] = pc[c] + 1
        /\ \A d \in Programs(sched) : d # c => pc'[d] = pc[d]
    BY ONLY <1>1, Advance(c) DEF Advance
  <1>3. Ahead(c) = text[c][pc[c] + 1]
    BY DEF Ahead
  <1>4. \A n : n \in 1 .. pc[c] + 1 <=> n \in 1 .. pc[c] \/ n = pc[c] + 1
    BY ONLY <1>1
  <1>5. Executed(i) => Executed(i)'
    <2>. SUFFICES ASSUME NEW d \in DOMAIN pc, NEW n \in 1 .. pc[d], text[d][n] = i PROVE Executed(i)'
      BY DEF Executed
    <2>1. d \in DOMAIN pc' /\ n \in 1 .. pc'[d]
      BY ONLY <1>1, <1>2, <1>4, d \in DOMAIN pc, n \in 1 .. pc[d]
    <2>. QED BY <2>1 DEF Executed
  <1>6. i = Ahead(c) => Executed(i)'
    <2>1. pc[c] + 1 \in 1 .. pc'[c] /\ c \in DOMAIN pc'
      BY ONLY <1>1, <1>2
    <2>. QED BY <1>3, <2>1 DEF Executed
  <1>7. Executed(i)' => Executed(i) \/ i = Ahead(c)
    <2>. SUFFICES ASSUME NEW d \in DOMAIN pc', NEW n \in 1 .. pc'[d], text'[d][n] = i
                  PROVE  Executed(i) \/ i = Ahead(c)
      BY DEF Executed
    <2>1. d \in DOMAIN pc /\ (n \in 1 .. pc[d] \/ (d = c /\ n = pc[c] + 1))
      BY ONLY <1>1, <1>2, <1>4, d \in DOMAIN pc', n \in 1 .. pc'[d]
    <2>. QED BY <1>3, <2>1 DEF Executed
  <1>. QED BY ONLY <1>5, <1>6, <1>7

(* What every step of a program keeps. *)
LEMMA AdvanceKeeps ==
    ASSUME IInv, NEW c \in DOMAIN pc, Running(c), Advance(c)
    PROVE  pc' \in [Programs(sched) -> Nat] /\ \A d \in Programs(sched) : pc'[d] <= Len(text[d])
  <1>1. /\ pc \in [Programs(sched) -> Nat] /\ c \in Programs(sched) /\ Launched /\ sched \in Schedules
        /\ \A d \in Programs(sched) : pc[d] <= Len(text[d])
    BY AheadTyped DEF Launched, IInv
  <1>2. /\ pc' \in [Programs(sched) -> Nat] /\ pc'[c] = pc[c] + 1
        /\ \A d \in Programs(sched) : d # c => pc'[d] = pc[d]
    BY ONLY <1>1, Advance(c) DEF Advance
  <1>3. Len(text[c]) \in Nat /\ pc[c] \in Nat /\ pc[c] < Len(text[c])
    <2>1. Len(text[c]) \in Nat /\ pc[c] \in Nat
      BY <1>1, TextListed
    <2>. QED BY ONLY <2>1, Running(c) DEF Running
  <1>4. pc'[c] <= Len(text[c])
    BY ONLY <1>2, <1>3
  <1>. QED BY ONLY <1>1, <1>2, <1>4

(* A step that writes nothing. *)
LEMMA ReadingStep ==
    ASSUME IInv, NEW c \in DOMAIN pc, Running(c), sched.ops[Ahead(c).op].kind # "store", Advance(c),
           UNCHANGED <<sched, verdict, lengths, text, written>>
    PROVE  Launched' /\ OneWriter' /\ sched' \in Schedules
  <1>1. Launched /\ sched \in Schedules
    BY AheadTyped DEF IInv
  <1>2. pc' \in [Programs(sched) -> Nat] /\ \A d \in Programs(sched) : pc'[d] <= Len(text[d])
    BY AdvanceKeeps
  <1>3. ASSUME NEW i, NEW a PROVE Executed(i)' /\ StoreTouches(i,
      a)' <=> Executed(i) /\ StoreTouches(i, a)
    <2>1. Executed(i)' <=> Executed(i) \/ i = Ahead(c)
      BY ExecutedNext
    <2>2. StoreTouches(i, a)' <=> StoreTouches(i, a)
      BY DEF StoreTouches
    <2>3. i = Ahead(c) => ~ StoreTouches(i, a)
      BY DEF StoreTouches
    <2>. QED BY ONLY <2>1, <2>2, <2>3
  <1>4. \A a \in DOMAIN written' : written'[a] > 0 <=> \E i : Executed(i)' /\ StoreTouches(i, a)'
    <2>1. \A a \in DOMAIN written : written[a] > 0 <=> \E i : Executed(i) /\ StoreTouches(i, a)
      BY ONLY <1>1 DEF Launched
    <2>. QED BY ONLY <1>3, <2>1, written' = written
  <1>5. Launched'
    <2>1. (lengths \in Lengths)'
      BY <1>1 DEF Launched, Lengths
    <2>. QED BY ONLY <1>1, <1>2, <1>4, <2>1, UNCHANGED <<sched, verdict, lengths, text,
                written>> DEF Launched
  <1>6. OneWriter'
    BY DEF IInv, OneWriter
  <1>. QED BY ONLY <1>1, <1>5, <1>6, UNCHANGED <<sched, verdict, lengths, text, written>>

LEMMA LoadInvariant ==
    ASSUME IInv, NEW c \in DOMAIN pc, Load(c)
    PROVE  IInv'
  <1>1. /\ Running(c) /\ sched.ops[Ahead(c).op].kind = "load" /\ Advance(c)
        /\ UNCHANGED <<sched, verdict, lengths, text, written>>
    BY DEF Load
  <1>2. Launched' /\ OneWriter' /\ sched' \in Schedules
    BY <1>1, ReadingStep
  <1>3. verdict' = "launched"
    BY <1>1 DEF Running
  <1>4. OwnRegionReadsInitial'
    <2>. SUFFICES ASSUME NEW i \in late', BeforeUpdate(sched, i.op), NEW w \in Stores(sched)
                  PROVE  sched.ops[w].index # sched.ops[i.op].index
      BY <1>1 DEF OwnRegionReadsInitial
    <2>1. CASE i \in late
      BY <2>1 DEF IInv, OwnRegionReadsInitial
    <2>2. CASE i \notin late
      <3>1. i = Ahead(c) /\ sched.ops[i.op].buffer = "dst"
            /\ \E a \in Touched(sched, lengths, i) \cap DOMAIN written : written[a] > 0
        BY <2>2 DEF Load
      <3>2. PICK a \in DOMAIN written : a \in Touched(sched, lengths, i) /\ written[a] > 0
        BY <3>1
      <3>. QED BY <1>1, <3>1, <3>2, OwnReadIsEarly
    <2>. QED BY <2>1, <2>2
  <1>. QED BY ONLY <1>2, <1>3, <1>4 DEF IInv

LEMMA ComputeInvariant ==
    ASSUME IInv, NEW c \in DOMAIN pc, Compute(c)
    PROVE  IInv'
  <1>1. /\ Running(c) /\ sched.ops[Ahead(c).op].kind = "compute" /\ Advance(c)
        /\ UNCHANGED <<sched, verdict, lengths, text, written>> /\ late' = late
    BY DEF Compute
  <1>2. Launched' /\ OneWriter' /\ sched' \in Schedules
    BY <1>1, ReadingStep
  <1>3. verdict' = "launched"
    BY <1>1 DEF Running
  <1>4. OwnRegionReadsInitial'
    BY <1>1 DEF IInv, OwnRegionReadsInitial
  <1>. QED BY ONLY <1>2, <1>3, <1>4 DEF IInv

LEMMA StoreInvariant ==
    ASSUME IInv, NEW c \in DOMAIN pc, Store(c)
    PROVE  IInv'
  <1>1. /\ Running(c) /\ sched.ops[Ahead(c).op].kind = "store" /\ Advance(c)
        /\ UNCHANGED <<sched, verdict, lengths, text, late>>
    BY DEF Store
  <1>2. PICK region : /\ region = Touched(sched, lengths, Ahead(c))
                      /\ written' = [a \in DOMAIN written |->
                                        written[a] + IF a \in region THEN 1 ELSE 0]
    BY DEF Store
  <1>3. Launched /\ sched \in Schedules
    BY <1>1, AheadTyped DEF IInv
  <1>4. pc' \in [Programs(sched) -> Nat] /\ \A d \in Programs(sched) : pc'[d] <= Len(text[d])
    BY <1>1, AdvanceKeeps
  <1>5. /\ DOMAIN written = Elements(sched, "dst") /\ \A a \in DOMAIN written : written[a] \in Nat
        /\ \A a \in DOMAIN written : written[a] > 0 <=> \E i : Executed(i) /\ StoreTouches(i, a)
    BY ONLY <1>3 DEF Launched
  <1>6. DOMAIN written' = DOMAIN written
    BY ONLY <1>2
  <1>7. ASSUME NEW a \in DOMAIN written
        PROVE  /\ written'[a] \in Nat
               /\ a \in region => written'[a] = written[a] + 1
               /\ a \notin region => written'[a] = written[a]
    BY ONLY <1>2, <1>5, a \in DOMAIN written
  <1>8. ASSUME NEW a \in DOMAIN written
        PROVE  written'[a] > 0 <=> \E i : Executed(i)' /\ StoreTouches(i, a)'
    <2>1. \A i : Executed(i)' <=> Executed(i) \/ i = Ahead(c)
      BY <1>1, ExecutedNext
    <2>2. \A i : StoreTouches(i, a)' <=> StoreTouches(i, a)
      BY <1>1 DEF StoreTouches
    <2>3. StoreTouches(Ahead(c), a) <=> a \in region
      BY ONLY <1>1, <1>2 DEF StoreTouches
    <2>4. (\E i : Executed(i)' /\ StoreTouches(i, a)')
              <=> (\E i : Executed(i) /\ StoreTouches(i, a)) \/ a \in region
      BY ONLY <2>1, <2>2, <2>3
    <2>5. written[a] \in Nat /\ (written[a] > 0 <=> \E i : Executed(i) /\ StoreTouches(i, a))
      BY ONLY <1>5, a \in DOMAIN written
    <2>6. written'[a] > 0 <=> written[a] > 0 \/ a \in region
      BY ONLY <1>7, <2>5, a \in DOMAIN written
    <2>. QED BY ONLY <2>4, <2>5, <2>6
  <1>9. Launched'
    <2>1. \A a \in DOMAIN written' : written'[a] \in Nat
      BY ONLY <1>6, <1>7
    <2>2. \A a \in DOMAIN written' : written'[a] > 0 <=> \E i : Executed(i)' /\ StoreTouches(i, a)'
      BY ONLY <1>6, <1>8
    <2>3. (lengths \in Lengths)'
      BY <1>1, <1>3 DEF Launched, Lengths
    <2>. QED BY ONLY <1>1, <1>3, <1>4, <1>5, <1>6, <2>1, <2>2, <2>3 DEF Launched
  <1>10. OneWriter'
    <2>. SUFFICES ASSUME Judged(sched), \A o \in Stores(sched) : MaskSuffices(sched, o),
                         NEW a \in DOMAIN written
                  PROVE  written'[a] <= 1
      BY <1>1, <1>6 DEF OneWriter
    <2>1. written[a] <= 1 /\ written[a] \in Nat
      BY <1>5 DEF IInv, OneWriter
    <2>2. a \in region => written[a] = 0
      BY <1>1, <1>2, StoreIsFresh
    <2>. QED BY ONLY <1>7, <2>1, <2>2, a \in DOMAIN written
  <1>11. verdict' = "launched"
    BY <1>1 DEF Running
  <1>12. OwnRegionReadsInitial'
    BY <1>1 DEF IInv, OwnRegionReadsInitial
  <1>13. sched' \in Schedules
    BY <1>1, <1>3
  <1>. QED BY ONLY <1>9, <1>10, <1>11, <1>12, <1>13 DEF IInv

LEMMA StepInvariant ==
    ASSUME IInv, [Next]_vars
    PROVE  IInv'
  <1>1. CASE Refuse
    <2>1. /\ verdict' # "launched" /\ UNCHANGED <<sched, lengths, text, pc, written, late>>
          /\ verdict # "launched"
      BY <1>1 DEF Refuse
    <2>. QED BY <2>1 DEF IInv, OneWriter, OwnRegionReadsInitial
  <1>2. CASE Launch
    BY <1>2, LaunchInvariant
  <1>3. CASE \E c \in DOMAIN pc : Load(c) \/ Compute(c) \/ Store(c)
    BY <1>3, LoadInvariant, ComputeInvariant, StoreInvariant
  <1>4. CASE UNCHANGED vars
    BY <1>4 DEF vars, IInv, Launched, Lengths, Executed, StoreTouches, OneWriter, OwnRegionReadsInitial
  <1>. QED BY <1>1, <1>2, <1>3, <1>4 DEF Next

(* IInv holds throughout every launch of every authored Schedule.          *)
THEOREM LaunchSound == Spec => []IInv
  BY InitInvariant, StepInvariant, PTL DEF Spec

(* Programs and iterations own the regions they store to, for every        *)
(* authored Schedule: no element of a judged store is written twice, and a *)
(* load of the state that precedes the update and addresses what it        *)
(* addresses reads the initial value (docs/adr/0069;                       *)
(* compiler/verifier/program_safety.py).                                   *)
THEOREM RegionsOwned == Spec => []RegionsAreOwned
  <1>1. IInv => RegionsAreOwned
    BY DEF IInv, RegionsAreOwned
  <1>. QED BY <1>1, LaunchSound, PTL

(* No load or store of an admitted Schedule leaves the declared shape of   *)
(* its buffer, whoever owns the axes and loops it walks (triton.py         *)
(* 1050-1058), unless it names one tile at two positions and the first of  *)
(* them, whose extent masks both, is the longer.                           *)
THEOREM AccessesInBounds == Spec => []InBounds
  <1>1. IInv => InBounds
    <2>. SUFFICES ASSUME IInv, NEW c \in DOMAIN pc, Running(c), sched.ops[Ahead(c).op].kind # "compute",
                         MaskSuffices(sched, Ahead(c).op)
                  PROVE  Touched(sched, lengths, Ahead(c)) \subseteq
                            Elements(sched, sched.ops[Ahead(c).op].buffer)
      BY DEF InBounds
    <2>1. Launched /\ WellFormed(sched) /\ Ahead(c) \in Executions(sched)
      BY AheadTyped
    <2>2. LoopNamesResolveOnce(sched) /\ \A o \in Accesses(sched) : AccessSound(sched, o)
      BY <2>1, NestSound DEF Launched
    <2>3. Ahead(c).op \in Accesses(sched)
      <3>1. Ahead(c).op \in Ops(sched)
        BY <2>1, ExecutionIs
      <3>2. sched.ops[Ahead(c).op].kind \in {"load", "store", "compute"}
        BY <2>1, <3>1, OperationTyped
      <3>. QED BY <3>1, <3>2 DEF Accesses
    <2>. QED BY <2>1, <2>2, <2>3, TouchedInBounds
  <1>. QED BY <1>1, LaunchSound, PTL

(* An operation runs after what it depends on, in the same work item and   *)
(* in the same iteration of every loop the two share, although a loop is   *)
(* emitted at the place of its first operation.                            *)
THEOREM DependenciesRespected == Spec => []DependenciesMet
  <1>1. IInv => DependenciesMet
    <2>. SUFFICES ASSUME IInv, NEW c \in DOMAIN pc, Running(c), NEW d \in sched.ops[Ahead(c).op].after
                  PROVE  \E n \in 1 .. pc[c] :
                            /\ text[c][n].op = d /\ text[c][n].pid = Ahead(c).pid
                            /\ \A l \in Enclosing(sched, d) \cap Enclosing(sched, Ahead(c).op) :
                                  Iterator(sched, text[c][n], l) = Iterator(sched, Ahead(c), l)
      BY DEF DependenciesMet
    <2>1. /\ Launched /\ WellFormed(sched) /\ c \in Programs(sched) /\ sched \in Schedules
          /\ Ahead(c) \in Assigned(sched, lengths, c) /\ pc[c] + 1 \in DOMAIN text[c]
          /\ Ahead(c) \in Executions(sched)
      BY AheadTyped DEF IInv
    <2>2. LoopNamesResolveOnce(sched) /\ DependenciesInOrder(sched)
      BY <2>1, NestSound DEF Launched
    <2>3. Ahead(c).op \in Ops(sched)
      BY <2>1, ExecutionIs
    <2>4. d \in Ops(sched) /\ d < Ahead(c).op
      <3>1. sched.ops[Ahead(c).op].after \in SUBSET Ops(sched)
        BY <2>1, <2>3, OperationTyped
      <3>. QED BY <2>2, <2>3, <3>1 DEF DependenciesInOrder
    <2>5. PICK x \in Assigned(sched, lengths, c) :
              /\ x.op = d /\ x.pid = Ahead(c).pid /\ <<x, Ahead(c)>> \in Before(sched)
              /\ \A l \in Enclosing(sched, d) \cap Enclosing(sched, Ahead(c).op) :
                    Iterator(sched, x, l) = Iterator(sched, Ahead(c), l)
      BY <2>1, <2>2, <2>4, DependencyBefore
    <2>6. PICK q, k : q = text[c] /\ k = pc[c]
      OBVIOUS
    <2>7. Lists(q, Assigned(sched, lengths, c), Before(sched)) /\ k \in Nat /\ DOMAIN q = 1 .. Len(q)
      BY <2>1, <2>6, TextListed
    <2>8. k + 1 \in DOMAIN q /\ q[k + 1] = Ahead(c)
      BY ONLY <2>1, <2>6 DEF Ahead
    <2>9. PICK m \in DOMAIN q : m < k + 1 /\ q[m] = x
      BY ONLY <2>5, <2>7, <2>8, x \in Assigned(sched, lengths, c) DEF Lists
    <2>10. m \in 1 .. k
      BY ONLY <2>7, <2>9, m \in DOMAIN q
    <2>. QED BY ONLY <2>5, <2>6, <2>9, <2>10
  <1>. QED BY <1>1, LaunchSound, PTL

-------------------------------------------------------------------------------
(* Where an element is at home. *)

(* The partition of "dst" that holds an element. *)
OwnAxis(s, a) == s.axes[a].buffer = "dst"

OwnLoop(s, l) == s.loops[l].buffer = "dst"

(* The point of the grid that holds x; an axis of "src" may have any       *)
(* value.                                                                  *)
HomeAxis(s, a, x) == IF OwnAxis(s, a) THEN x[s.axes[a].dim] \div s.axes[a].tile ELSE 0

LEMMA HomeInGrid ==
    ASSUME NEW s, WellFormed(s), NEW x \in Elements(s, "dst")
    PROVE  [a \in Axes(s) |-> HomeAxis(s, a, x)] \in Grid(s)
  <1>1. s.shape["dst"] \in Seq(Positive)
    BY DEF WellFormed, Buffers
  <1>2. \A p \in DOMAIN s.shape["dst"] : x[p] \in Nat /\ x[p] < s.shape["dst"][p]
    BY <1>1, ElementIs
  <1>3. ASSUME NEW a \in Axes(s) PROVE HomeAxis(s, a, x) \in Nat /\ HomeAxis(s, a, x) < Tiles(s, a)
    <2>1. CASE OwnAxis(s, a)
      <3>1. PICK t, e, n : /\ t = s.axes[a].tile /\ e = Extent(s, s.axes[a]) /\ n = x[s.axes[a].dim]
        OBVIOUS
      <3>2. t \in Positive /\ e \in Positive /\ n \in Nat /\ n < e
        BY <1>2, <2>1, <3>1, AxisTyped DEF OwnAxis, Extent
      <3>3. n \div t \in Nat /\ n \div t < TileCount(t, e)
        BY ONLY <3>2, TilesCover
      <3>. QED BY ONLY <2>1, <3>1, <3>3 DEF HomeAxis, Tiles
    <2>2. CASE ~ OwnAxis(s, a)
      <3>1. Tiles(s, a) \in Positive
        BY AxisTyped
      <3>. QED BY ONLY <2>2, <3>1 DEF HomeAxis, Positive
    <2>. QED BY <2>1, <2>2
  <1>. QED BY ONLY <1>3 DEF Grid, Coordinate

(* The iterators that hold x; a loop over "src" may have any.              *)
LEMMA HomeTicks ==
    ASSUME NEW s, WellFormed(s), NEW x \in Elements(s, "dst")
    PROVE  \E tick : \A l \in Loops(s) :
              /\ tick[l] \in ToSet(Ticks(s, l))
              /\ OwnLoop(s, l) => tick[l] = (x[s.loops[l].dim] \div s.loops[l].tile) * s.loops[l].tile
  <1>1. s.shape["dst"] \in Seq(Positive)
    BY DEF WellFormed, Buffers
  <1>2. \A p \in DOMAIN s.shape["dst"] : x[p] \in Nat /\ x[p] < s.shape["dst"][p]
    BY <1>1, ElementIs
  <1>3. ASSUME NEW l \in Loops(s), OwnLoop(s, l)
        PROVE  (x[s.loops[l].dim] \div s.loops[l].tile) * s.loops[l].tile \in ToSet(Ticks(s, l))
    <2>1. PICK t, e, n : /\ t = s.loops[l].tile /\ e = Extent(s, s.loops[l]) /\ n = x[s.loops[l].dim]
      OBVIOUS
    <2>2. t \in Positive /\ e \in Positive /\ n \in Nat /\ n < e
      BY <1>2, <1>3, <2>1, LoopTyped DEF OwnLoop, Extent
    <2>3. PICK k : k = n \div t
      OBVIOUS
    <2>4. k \in Nat /\ k < TileCount(t, e)
      BY ONLY <2>2, <2>3, TilesCover
    <2>5. Trips(s, l) = TileCount(t, e) /\ Trips(s, l) \in Nat
      BY <2>1, LoopTyped DEF Trips, Positive
    <2>6. k + 1 \in 1 .. Trips(s, l) /\ (k + 1) - 1 = k
      BY ONLY <2>4, <2>5
    <2>7. k + 1 \in DOMAIN Ticks(s, l) /\ Ticks(s, l)[k + 1] = k * t
      BY ONLY <2>1, <2>6 DEF Ticks
    <2>. QED BY ONLY <2>1, <2>3, <2>7 DEF ToSet
  <1>4. PICK tick : tick = [l \in Loops(s) |->
            IF OwnLoop(s, l) THEN (x[s.loops[l].dim] \div s.loops[l].tile) * s.loops[l].tile
            ELSE CHOOSE t : t \in ToSet(Ticks(s, l))]
    OBVIOUS
  <1>5. ASSUME NEW l \in Loops(s)
        PROVE  /\ tick[l] \in ToSet(Ticks(s, l))
               /\ OwnLoop(s, l) => tick[l] = (x[s.loops[l].dim] \div s.loops[l].tile) * s.loops[l].tile
    <2>1. CASE OwnLoop(s, l)
      BY <1>3, <1>4, <2>1
    <2>2. CASE ~ OwnLoop(s, l)
      <3>1. \E t : t \in ToSet(Ticks(s, l))
        BY SomeTick
      <3>2. tick[l] = CHOOSE t : t \in ToSet(Ticks(s, l))
        BY ONLY <1>4, <2>2, l \in Loops(s)
      <3>. QED BY ONLY <2>2, <3>1, <3>2
    <2>. QED BY <2>1, <2>2
  <1>. QED BY ONLY <1>5

(* An execution at home touches the element. *)
LEMMA HomeCoordinate ==
    ASSUME NEW s, WellFormed(s), LoopNamesResolveOnce(s), NEW i \in Executions(s), AccessSound(s, i.op),
           Partitions(s, i.op), s.ops[i.op].buffer = "dst", NEW x \in Elements(s, "dst"),
           NEW p \in DOMAIN s.ops[i.op].index,
           i.pid = [a \in Axes(s) |-> HomeAxis(s, a, x)],
           \A l \in Enclosing(s, i.op) : OwnLoop(s, l) =>
              Iterator(s, i, l) = (x[s.loops[l].dim] \div s.loops[l].tile) * s.loops[l].tile
    PROVE  x[p] \in Coordinates(s, i, s.ops[i.op].index[p])
  <1>1. PICK o \in Ops(s) : o = i.op
    BY ExecutionIs
  <1>2. PICK c, h : c = s.ops[o].index[p] /\ h = s.shape["dst"]
    OBVIOUS
  <1>3. /\ p \in DOMAIN h /\ x[p] \in Nat /\ h[p] \in Positive /\ x[p] < h[p] /\ h \in Seq(Positive)
        /\ ComponentSound(s, o, h, p)
    <2>1. s.shape["dst"] \in Seq(Positive)
      BY DEF WellFormed, Buffers
    <2>2. DOMAIN s.ops[o].index = DOMAIN h
      BY <1>1, <1>2, AccessShape
    <2>3. \A q \in DOMAIN h : x[q] \in Nat /\ x[q] < h[q]
      BY <1>2, <2>1, ElementIs
    <2>4. ComponentSound(s, o, h, p)
      BY <1>1, <1>2 DEF AccessSound
    <2>. QED BY <1>1, <1>2, <2>1, <2>2, <2>3, <2>4, Member
  <1>4. /\ c.source = "dimension" => c.of = p /\ c.offset = 0 /\ c.extent = 0
        /\ c.source = "loop_tile" => s.loops[c.of].buffer = "dst" /\ s.loops[c.of].dim = p
        /\ c.source \in {"program", "program_tile"} =>
              s.axes[c.of].buffer = "dst" /\ s.axes[c.of].dim = p
        /\ c.source = "program" => s.axes[c.of].tile = 1
    BY <1>1, <1>2 DEF Partitions
  <1>5. c.source \in {"program", "program_tile", "loop_tile", "dimension"}
    BY <1>1, <1>2, ComponentTyped
  <1>6. CASE c.source \in {"program", "program_tile"}
    <2>1. c.of \in Axes(s)
      BY ONLY <1>2, <1>3, <1>6 DEF ComponentSound
    <2>2. PICK t, n, k : t = s.axes[c.of].tile /\ n = x[p] /\ k = n \div t
      OBVIOUS
    <2>3. t \in Positive /\ n \in Nat /\ h[p] \in Positive /\ n < h[p]
      BY <1>3, <2>1, <2>2, AxisTyped
    <2>4. k \in Nat /\ n \in Lanes(k * t, t)
      BY ONLY <2>2, <2>3, TilesCover
    <2>5. i.pid[c.of] = k
      BY ONLY <1>4, <1>6, <2>1, <2>2, i.pid = [a \in Axes(s) |-> HomeAxis(s, a, x)] DEF HomeAxis,
         OwnAxis
    <2>6. CASE c.source = "program_tile"
      BY ONLY <1>1, <1>2, <2>2, <2>4, <2>5, <2>6 DEF Coordinates
    <2>7. CASE c.source = "program"
      <3>1. t = 1
        BY ONLY <1>4, <2>2, <2>7
      <3>2. n = k
        BY ONLY <2>3, <2>4, <3>1 DEF Lanes, Positive
      <3>. QED BY ONLY <1>1, <1>2, <2>2, <2>5, <2>7, <3>2 DEF Coordinates
    <2>. QED BY ONLY <1>6, <2>6, <2>7
  <1>7. CASE c.source = "loop_tile"
    <2>1. c.of \in Enclosing(s, o)
      BY ONLY <1>2, <1>3, <1>7 DEF ComponentSound
    <2>2. c.of \in Loops(s)
      BY <1>1, <2>1, IteratorTyped, ExecutionIs
    <2>3. PICK t, n, k : t = s.loops[c.of].tile /\ n = x[p] /\ k = n \div t
      OBVIOUS
    <2>4. t \in Positive /\ n \in Nat /\ h[p] \in Positive /\ n < h[p]
      BY <1>3, <2>2, <2>3, LoopTyped
    <2>5. n \in Lanes(k * t, t)
      BY ONLY <2>3, <2>4, TilesCover
    <2>6. Iterator(s, i, c.of) = k * t
      BY <1>1, <1>4, <1>7, <2>1, <2>3 DEF OwnLoop
    <2>. QED BY ONLY <1>1, <1>2, <1>7, <2>3, <2>5, <2>6 DEF Coordinates
  <1>8. CASE c.source = "dimension"
    <2>1. c.of = p /\ c.offset = 0 /\ c.extent = 0
      BY <1>4, <1>8
    <2>2. Coordinates(s, i, c) = Lanes(0, Span(c, h[p]))
      BY ONLY <1>1, <1>2, <1>8, <2>1, s.ops[i.op].buffer = "dst" DEF Coordinates
    <2>3. Span(c, h[p]) = h[p]
      BY ONLY <1>3, <2>1 DEF Span, Positive
    <2>4. x[p] \in Lanes(0, h[p])
      BY ONLY <1>3 DEF Lanes, Positive
    <2>. QED BY ONLY <1>1, <1>2, <2>2, <2>3, <2>4
  <1>. QED BY ONLY <1>5, <1>6, <1>7, <1>8

(* A partitioning store names no coordinate twice. *)
LEMMA PartitionNamesOnce ==
    ASSUME NEW s, NEW o, Partitions(s, o), NEW p \in DOMAIN s.ops[o].index,
           NEW q \in DOMAIN s.ops[o].index, s.ops[o].index[q] = s.ops[o].index[p]
    PROVE  q = p
  <1>1. PICK c : c = s.ops[o].index[p] /\ c = s.ops[o].index[q]
    OBVIOUS
  <1>2. CASE c.source = "dimension"
    <2>1. c.of = p /\ c.of = q
      BY ONLY <1>1, <1>2, Partitions(s, o), p \in DOMAIN s.ops[o].index,
              q \in DOMAIN s.ops[o].index DEF Partitions
    <2>. QED BY ONLY <2>1
  <1>3. CASE c.source = "loop_tile"
    <2>1. s.loops[c.of].dim = p /\ s.loops[c.of].dim = q
      BY ONLY <1>1, <1>3, Partitions(s, o), p \in DOMAIN s.ops[o].index,
              q \in DOMAIN s.ops[o].index DEF Partitions
    <2>. QED BY ONLY <2>1
  <1>4. CASE c.source \notin {"dimension", "loop_tile"}
    <2>1. s.axes[c.of].dim = p /\ s.axes[c.of].dim = q
      BY ONLY <1>1, <1>4, Partitions(s, o), p \in DOMAIN s.ops[o].index,
              q \in DOMAIN s.ops[o].index DEF Partitions
    <2>. QED BY ONLY <2>1
  <1>. QED BY ONLY <1>2, <1>3, <1>4

(* The execution at the home of a valid element writes it.                 *)
LEMMA HomeTouches ==
    ASSUME NEW s, WellFormed(s), LoopNamesResolveOnce(s), NEW i \in Executions(s), AccessSound(s, i.op),
           Partitions(s, i.op), s.ops[i.op].buffer = "dst", NEW x \in Elements(s, "dst"), NEW len,
           s.valid # << >> => x[s.valid[1]] < len[x[s.valid[2]]],
           i.pid = [a \in Axes(s) |-> HomeAxis(s, a, x)],
           \A l \in Enclosing(s, i.op) : OwnLoop(s, l) =>
              Iterator(s, i, l) = (x[s.loops[l].dim] \div s.loops[l].tile) * s.loops[l].tile
    PROVE  x \in Touched(s, len, i)
  <1>1. \A p \in DOMAIN s.ops[i.op].index : x[p] \in Coordinates(s, i, s.ops[i.op].index[p])
    BY HomeCoordinate
  <1>2. i.op \in Ops(s)
    BY ExecutionIs
  <1>3. s.shape["dst"] \in Seq(Positive)
    BY DEF WellFormed, Buffers
  <1>4. DOMAIN s.ops[i.op].index = DOMAIN s.shape["dst"]
    BY <1>2, AccessShape
  <1>5. /\ x = [p \in DOMAIN s.shape["dst"] |-> x[p]]
        /\ \A p \in DOMAIN s.shape["dst"] : x[p] < s.shape["dst"][p]
    BY <1>3, ElementIs
  <1>6. \A p, q \in DOMAIN s.ops[i.op].index : s.ops[i.op].index[q] = s.ops[i.op].index[p] => q = p
    BY PartitionNamesOnce
  <1>7. \A p \in DOMAIN s.ops[i.op].index : FirstNaming(s.ops[i.op].index, p) = p
    <2>1. PICK index : index = s.ops[i.op].index /\ index \in Seq(Component)
      BY <1>2, OperationTyped
    <2>. QED BY ONLY <1>6, <2>1, FirstAlone
  <1>8. Masked(s, len, "dst", s.ops[i.op].index, x)
    <2>1. \A p \in DOMAIN s.ops[i.op].index : x[p] < Bound(s, "dst", s.ops[i.op].index, p)
      BY ONLY <1>4, <1>5, <1>7 DEF Bound
    <2>. QED BY ONLY <2>1, s.valid # << >> => x[s.valid[1]] < len[x[s.valid[2]]] DEF Masked
  <1>9. x = [p \in DOMAIN s.ops[i.op].index |-> x[p]]
    BY ONLY <1>4, <1>5
  <1>10. \A p, q \in DOMAIN s.ops[i.op].index :
            s.ops[i.op].index[p] = s.ops[i.op].index[q] => x[p] = x[q]
    BY ONLY <1>6
  <1>. QED BY ONLY <1>1, <1>8, <1>9, <1>10, TouchedIs, s.ops[i.op].buffer = "dst"

(* The program of a valid element is not skipped. *)
LEMMA HomeIsNotSkipped ==
    ASSUME NEW s, WellFormed(s), NEW o \in Stores(s), DataFlowSound(s), AccessSound(s, o),
        Partitions(s, o),
           NEW x \in Elements(s, "dst"), NEW len,
           s.valid # << >> => /\ len[x[s.valid[2]]] \in Nat
                              /\ x[s.valid[1]] < len[x[s.valid[2]]]
    PROVE  ~ Skips(s, len, [a \in Axes(s) |-> HomeAxis(s, a, x)])
  <1>. DEFINE pid == [a \in Axes(s) |-> HomeAxis(s, a, x)]
  <1>. SUFFICES ASSUME Skips(s, len, pid) PROVE FALSE
    OBVIOUS
  <1>1. PICK index : index = s.ops[o].index
    OBVIOUS
  <1>2. PICK v, g : v = s.valid[1] /\ g = s.valid[2]
    OBVIOUS
  <1>3. /\ HasOutputDomain(s, index)
        /\ pid[index[v].of] * s.axes[index[v].of].tile >= len[pid[index[g].of]]
    <2>1. PICK u \in Stores(s) :
              /\ HasOutputDomain(s, s.ops[u].index)
              /\ pid[s.ops[u].index[v].of] * s.axes[s.ops[u].index[v].of].tile
                    >= len[pid[s.ops[u].index[g].of]]
      BY <1>2 DEF Skips
    <2>2. u = o
      BY OneStore
    <2>. QED BY <1>1, <2>1, <2>2
  <1>4. s.valid # << >> /\ index[v].source = "program_tile" /\ index[g].source = "program"
        /\ s.axes[index[g].of].tile = 1
    BY ONLY <1>2, <1>3 DEF HasOutputDomain
  <1>5. s.shape["dst"] \in Seq(Positive) /\ s.ops[o].buffer = "dst" /\ o \in Ops(s)
    BY DEF WellFormed, Buffers, DataFlowSound, Stores
  <1>6. v \in DOMAIN s.shape["dst"] /\ g \in DOMAIN s.shape["dst"]
    <2>1. \E d, e \in DOMAIN s.shape["dst"] : d # e /\ s.valid = <<d, e>>
      BY ONLY <1>4, WellFormed(s) DEF WellFormed
    <2>. QED BY ONLY <1>2, <2>1
  <1>7. v \in DOMAIN index /\ g \in DOMAIN index
    BY <1>1, <1>5, <1>6, AccessShape
  <1>8. x[v] \in Nat /\ x[g] \in Nat
    BY <1>5, <1>6, ElementIs
  <1>9. PICK row, group : row = index[v].of /\ group = index[g].of
    OBVIOUS
  <1>10. row \in Axes(s) /\ group \in Axes(s)
    <2>1. ComponentSound(s, o, s.shape["dst"], v) /\ ComponentSound(s, o, s.shape["dst"], g)
      BY ONLY <1>1, <1>5, <1>7, AccessSound(s, o) DEF AccessSound
    <2>. QED BY ONLY <1>1, <1>4, <1>9, <2>1 DEF ComponentSound
  <1>11. /\ s.axes[row].buffer = "dst" /\ s.axes[row].dim = v
         /\ s.axes[group].buffer = "dst" /\ s.axes[group].dim = g
    BY ONLY <1>1, <1>4, <1>7, <1>9, Partitions(s, o) DEF Partitions
  <1>12. pid[row] = x[v] \div s.axes[row].tile /\ pid[group] = x[g] \div s.axes[group].tile
    BY ONLY <1>10, <1>11 DEF HomeAxis, OwnAxis
  <1>13. PICK t, k, n : t = s.axes[row].tile /\ k = pid[row] * t /\ n = x[v]
    OBVIOUS
  <1>14. t \in Positive /\ n \in Nat /\ n < n + 1
    BY <1>8, <1>10, <1>13, AxisTyped
  <1>15. k <= n /\ k \in Nat
    <2>1. n \div t \in Nat /\ (n \div t) * t <= n /\ (n \div t) * t \in Nat
      BY ONLY <1>14, SMT DEF Positive
    <2>. QED BY ONLY <1>12, <1>13, <2>1
  <1>16. pid[group] = x[g]
    <2>1. x[g] \div 1 = x[g]
      BY ONLY <1>8
    <2>. QED BY ONLY <1>4, <1>9, <1>12, <2>1
  <1>17. k >= len[x[g]]
    BY ONLY <1>3, <1>9, <1>13, <1>16
  <1>18. len[x[g]] \in Nat /\ n < len[x[g]]
    BY <1>2, <1>4, <1>13
  <1>. QED BY ONLY <1>14, <1>15, <1>17, <1>18

(* Every execution that is not skipped is some program's, and has run in   *)
(* the end.                                                                *)
LEMMA EveryAssigned ==
    ASSUME NEW s, WellFormed(s), ProgramMapSound(s), NEW len, NEW i \in Executions(s), ~ Skips(s,
        len, i.pid)
    PROVE  \E c \in Programs(s) : i \in Assigned(s, len, c)
  <1>1. i.pid \in Grid(s)
    BY ExecutionIs
  <1>2. PICK w \in Items(s) : Decompose(s, w) = i.pid
    BY <1>1, DecomposeReaches
  <1>3. PICK c \in Programs(s) : \E k \in DOMAIN Work(s, c) : Work(s, c)[k] = w
    BY <1>2, WorkCovers
  <1>. QED BY <1>2, <1>3 DEF Assigned

LEMMA FinishedExecutes ==
    ASSUME IInv, Launched, Finished, NEW c \in Programs(sched), NEW i \in Assigned(sched, lengths, c)
    PROVE  Executed(i)
  <1>1. sched \in Schedules
    BY DEF IInv
  <1>2. c \in DOMAIN pc
    BY DEF Launched
  <1>3. PICK q : q = text[c]
    OBVIOUS
  <1>4. Lists(q, Assigned(sched, lengths, c), Before(sched)) /\ DOMAIN q = 1 .. Len(q)
    BY <1>1, <1>3, TextListed
  <1>5. PICK n \in DOMAIN q : q[n] = i
    BY ONLY <1>4, i \in Assigned(sched, lengths, c) DEF Lists
  <1>6. pc[c] = Len(q)
    BY <1>2, <1>3 DEF Finished
  <1>7. n \in 1 .. pc[c] /\ text[c][n] = i
    BY ONLY <1>3, <1>4, <1>5, <1>6
  <1>. QED BY ONLY <1>2, <1>7 DEF Executed

(* The caller passes a length for each group.                              *)
LEMMA LengthTyped ==
    ASSUME IInv, Launched, NEW x \in Elements(sched, "dst"), sched.valid # << >>
    PROVE  lengths[x[sched.valid[2]]] \in Nat
  <1>1. WellFormed(sched)
    BY ScheduleSound DEF IInv
  <1>2. PICK d, g \in DOMAIN sched.shape["dst"] : sched.valid = <<d, g>>
    BY <1>1 DEF WellFormed
  <1>3. sched.valid[1] = d /\ sched.valid[2] = g
    BY ONLY <1>2
  <1>4. sched.shape["dst"] \in Seq(Positive)
    BY <1>1 DEF WellFormed, Buffers
  <1>5. x[g] \in Nat /\ x[g] < sched.shape["dst"][g]
    BY <1>4, ElementIs
  <1>6. sched.shape["dst"][g] \in Nat /\ sched.shape["dst"][d] \in Nat
    BY ONLY <1>4, g \in DOMAIN sched.shape["dst"], d \in DOMAIN sched.shape["dst"] DEF Positive
  <1>7. lengths \in [Lanes(0, sched.shape["dst"][g]) -> 0 .. sched.shape["dst"][d]]
    BY <1>3 DEF Launched, Lengths
  <1>8. x[g] \in Lanes(0, sched.shape["dst"][g])
    BY ONLY <1>5, <1>6 DEF Lanes
  <1>9. lengths[x[g]] \in 0 .. sched.shape["dst"][d]
    BY ONLY <1>7, <1>8
  <1>. QED BY ONLY <1>3, <1>6, <1>9

(* In the end what is valid is written, and at any time only that is.      *)
LEMMA ValidIsWritten ==
    ASSUME IInv, Finished, \A o \in Stores(sched) : Partitions(sched, o),
        NEW x \in DOMAIN written, Valid(x)
    PROVE  written[x] > 0
  <1>1. Launched /\ WellFormed(sched) /\ x \in Elements(sched, "dst") /\ Admitted(sched)
    BY ScheduleSound DEF IInv, Finished, Launched
  <1>2. /\ LoopNamesResolveOnce(sched) /\ ProgramMapSound(sched) /\ DataFlowSound(sched)
        /\ \A o \in Accesses(sched) : AccessSound(sched, o)
    BY <1>1, NestSound
  <1>3. PICK o \in Stores(sched) : TRUE
    BY <1>2, FS_EmptySet DEF DataFlowSound
  <1>4. /\ o \in Ops(sched) /\ sched.ops[o].buffer = "dst" /\ sched.ops[o].kind = "store"
        /\ AccessSound(sched, o) /\ Partitions(sched, o)
    BY <1>2 DEF Stores, Accesses, DataFlowSound
  <1>5. PICK pid : pid = [a \in Axes(sched) |-> HomeAxis(sched, a, x)]
    OBVIOUS
  <1>6. pid \in Grid(sched)
    BY <1>1, <1>5, HomeInGrid
  <1>7. PICK tick : \A l \in Loops(sched) :
            /\ tick[l] \in ToSet(Ticks(sched, l))
            /\ OwnLoop(sched, l) =>
                  tick[l] = (x[sched.loops[l].dim] \div sched.loops[l].tile) * sched.loops[l].tile
    BY <1>1, HomeTicks
  <1>8. Enclosing(sched, o) \subseteq Loops(sched)
    <2>1. Chain(sched, o) \in Seq(Loops(sched))
      BY <1>1, <1>2, <1>4, ChainSound
    <2>. QED BY ONLY <2>1 DEF Enclosing, ToSet
  <1>9. PICK y \in Nodes(sched) :
            y.op = o /\ \A l \in Enclosing(sched, o) : Iterator(sched, y, l) = tick[l]
    BY <1>1, <1>2, <1>4, <1>7, <1>8, ChooseIterators
  <1>10. PICK i : i = [op |-> y.op, pid |-> pid, at |-> y.at]
    OBVIOUS
  <1>11. i \in Executions(sched) /\ i.op = o /\ i.pid = pid /\ i.at = y.at
    <2>1. i \in Executions(sched)
      BY ONLY <1>6, <1>10, y \in Nodes(sched), ExecutionTyped
    <2>. QED BY ONLY <1>9, <1>10, <2>1
  <1>12. \A l \in Enclosing(sched, o) : Iterator(sched, i, l) = tick[l]
    BY ONLY <1>9, <1>11, IteratorOfNode
  <1>13. sched.valid # << >> => /\ lengths[x[sched.valid[2]]] \in Nat
                                /\ x[sched.valid[1]] < lengths[x[sched.valid[2]]]
    BY <1>1, LengthTyped DEF Valid
  <1>14. x \in Touched(sched, lengths, i)
    <2>1. \A l \in Enclosing(sched, i.op) : OwnLoop(sched, l) =>
              Iterator(sched, i, l) =
                  (x[sched.loops[l].dim] \div sched.loops[l].tile) * sched.loops[l].tile
      BY ONLY <1>7, <1>8, <1>11, <1>12
    <2>2. i.pid = [a \in Axes(sched) |-> HomeAxis(sched, a, x)]
      BY ONLY <1>5, <1>11
    <2>. QED BY ONLY <1>1, <1>2, <1>4, <1>11, <1>13, <2>1, <2>2, HomeTouches
  <1>15. ~ Skips(sched, lengths, i.pid)
    BY ONLY <1>1, <1>2, <1>4, <1>5, <1>11, <1>13, o \in Stores(sched), HomeIsNotSkipped
  <1>16. PICK c \in Programs(sched) : i \in Assigned(sched, lengths, c)
    BY ONLY <1>1, <1>2, <1>11, <1>15, EveryAssigned
  <1>17. Executed(i)
    BY <1>1, <1>16, FinishedExecutes
  <1>18. StoreTouches(i, x)
    BY ONLY <1>4, <1>11, <1>14 DEF StoreTouches
  <1>. QED BY <1>1, <1>17, <1>18 DEF Launched

LEMMA WrittenIsValid ==
    ASSUME IInv, Finished, NEW x \in DOMAIN written, written[x] > 0
    PROVE  Valid(x)
  <1>1. Launched /\ WellFormed(sched) /\ DataFlowSound(sched)
    BY ScheduleSound, NestSound DEF IInv, Finished, Launched
  <1>2. PICK i : Executed(i) /\ StoreTouches(i, x)
    BY <1>1 DEF Launched
  <1>3. i \in Executions(sched)
    BY <1>1, <1>2, ExecutedTyped
  <1>4. i.op \in Stores(sched)
    BY <1>2, <1>3, ExecutionIs DEF Stores, StoreTouches
  <1>5. sched.ops[i.op].buffer = "dst"
    BY <1>1, <1>4 DEF DataFlowSound
  <1>6. Masked(sched, lengths, "dst", sched.ops[i.op].index, x)
    BY <1>2, <1>5, TouchedIs DEF StoreTouches
  <1>. QED BY ONLY <1>6 DEF Masked, Valid

(* When every program has ended, a destination that the store partitions   *)
(* by its own axes, loops and full dimensions is written in all its valid  *)
(* elements and in no other, whatever the tails, the persistent walk and   *)
(* the programs skipped as empty.                                          *)
THEOREM StoresWhole == Spec => []WrittenWhole
  <1>1. IInv => WrittenWhole
    BY ValidIsWritten, WrittenIsValid DEF WrittenWhole
  <1>. QED BY <1>1, LaunchSound, PTL
===============================================================================
