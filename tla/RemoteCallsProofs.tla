------------------------- MODULE RemoteCallsProofs -------------------------
(***************************************************************************)
(* Proofs about RemoteCalls, LoggerHandlers and UrlDispatch, for any       *)
(* threads that share a client, any functions that they call and whatever  *)
(* the network loses, cuts off or delivers late:                           *)
(*   - a table of handlers, once sorted, gives each key its row;           *)
(*   - what a function reports is true of the server;                      *)
(*   - a recording is in order, and a value that was set stays             *)
(*     (WriterAssumption: both come from one thread).                      *)
(*                                                                         *)
(* The order of the proofs: recursion on numbers; the sort, the search and *)
(* the table; what each handler returns and does to the store; what each   *)
(* function of the three clients sends and when it reports success; and    *)
(* the invariant CallsInv, which each step of the calls keeps.             *)
(***************************************************************************)
EXTENDS RemoteCalls, TLAPS, SequenceTheorems, WellFoundedInduction,
        FiniteSetTheorems
-----------------------------------------------------------------------------
(* Numbers, and functions defined by recursion on them. *)

\* A set of numbers has a least element.
LEMMA Least ==
    ASSUME NEW T, T \subseteq Nat, T # {}
    PROVE  \E x \in T : \A y \in T : x <= y
<1> DEFINE R == OpToRel(<, Nat)
<1>1. IsWellFoundedOn(R, Nat)
  BY NatLessThanWellFounded
<1>2. PICK x \in T : \A y \in T : <<y, x>> \notin R
  <2> HIDE DEF R
  <2>1. QED
    BY <1>1, WFMin
<1>3. ASSUME NEW y \in T PROVE x <= y
  <2>1. <<y, x>> \notin {ss \in Nat \X Nat : ss[1] < ss[2]}
    BY <1>2 DEF OpToRel
  <2>2. x \in Nat /\ y \in Nat
    OBVIOUS
  <2>3. QED
    BY <2>1, <2>2
<1>4. QED
  BY <1>3

\* Induction from lo to hi, for what the numbers of a set have in common.
LEMMA Climb ==
    ASSUME NEW S, NEW lo \in Int, NEW hi \in Int, lo \in S,
           \A k \in lo..(hi - 1) : k \in S => k + 1 \in S
    PROVE  \A k \in lo..hi : k \in S
<1> DEFINE T == {n \in Nat : lo + n <= hi /\ lo + n \notin S}
<1> SUFFICES ASSUME NEW k \in lo..hi, k \notin S PROVE FALSE
  OBVIOUS
<1>1. k - lo \in T
  OBVIOUS
<1>2. PICK n \in T : \A y \in T : n <= y
  <2> HIDE DEF T
  <2>1. T \subseteq Nat
    BY DEF T
  <2>2. QED
    BY <1>1, <2>1, Least
<1>3. n # 0
  OBVIOUS
<1>4. n - 1 \notin T
  BY <1>2
<1>5. lo + (n - 1) \in S /\ lo + (n - 1) \in lo..(hi - 1)
  BY <1>3, <1>4
<1>6. (lo + (n - 1)) + 1 = lo + n
  OBVIOUS
<1>7. QED
  BY <1>5, <1>6

\* A step goes from a number and a value to the next value.
IsStep(step, lo, hi, V) == step \in [(lo..hi) \X V -> V]

\* Each value of f follows from the one before it by step.
Unrolls(f, lo, hi, V, base, step) ==
    /\ f \in [lo..hi -> V]
    /\ \A j \in lo..hi :
          f[j] = IF j = lo THEN base ELSE step[<<j, f[j - 1]>>]

\* There is a function that a recursion describes.
LEMMA RecursionExists ==
    ASSUME NEW lo \in Int, NEW hi \in Int, lo <= hi, NEW V, NEW base \in V,
           NEW step, IsStep(step, lo, hi, V)
    PROVE  \E f : Unrolls(f, lo, hi, V, base, step)
<1> DEFINE Fits(f, k) ==
             \A j \in lo..k : f[j] = IF j = lo THEN base
                                     ELSE step[<<j, f[j - 1]>>]
           S == {k \in Int : \E f \in [lo..hi -> V] : Fits(f, k)}
<1>0. step \in [(lo..hi) \X V -> V]
  BY DEF IsStep
<1>1. lo \in S
  <2> DEFINE f == [j \in lo..hi |-> base]
  <2>1. f \in [lo..hi -> V] /\ Fits(f, lo)
    OBVIOUS
  <2>2. QED
    BY <2>1
<1>2. ASSUME NEW k \in lo..(hi - 1), k \in S PROVE k + 1 \in S
  <2>1. PICK f \in [lo..hi -> V] : Fits(f, k)
    BY <1>2
  <2> DEFINE g == [f EXCEPT ![k + 1] = step[<<k + 1, f[k]>>]]
  <2>2. k + 1 \in lo..hi /\ k \in lo..hi /\ k + 1 # lo
    OBVIOUS
  <2>3. step[<<k + 1, f[k]>>] \in V
    BY <2>2, <1>0
  <2>4. g \in [lo..hi -> V]
    BY <2>3
  <2>5. ASSUME NEW j \in lo..(k + 1)
        PROVE  g[j] = IF j = lo THEN base ELSE step[<<j, g[j - 1]>>]
    <3>1. j \in lo..hi
      OBVIOUS
    <3>2. j # lo => j - 1 \in lo..hi /\ j - 1 # k + 1
      OBVIOUS
    <3>3. CASE j = k + 1
      <4>1. g[j] = step[<<k + 1, f[k]>>] /\ g[j - 1] = f[k]
        BY <3>1, <3>3, <2>2
      <4>2. QED
        BY <4>1, <3>3, <2>2
    <3>4. CASE j # k + 1
      <4>1. j \in lo..k /\ g[j] = f[j]
        BY <3>1, <3>4
      <4>2. j # lo => g[j - 1] = f[j - 1]
        BY <3>2
      <4>3. QED
        BY <4>1, <4>2, <2>1
    <3>5. QED
      BY <3>3, <3>4
  <2>6. Fits(g, k + 1)
    BY <2>5
  <2> HIDE DEF g, Fits
  <2>7. QED
    BY <2>4, <2>6
<1>3. hi \in S
  <2> HIDE DEF S
  <2>1. \A k \in lo..(hi - 1) : k \in S => k + 1 \in S
    BY <1>2
  <2>2. \A k \in lo..hi : k \in S
    BY <1>1, <2>1, Climb
  <2>3. QED
    BY <2>2
<1>4. PICK f \in [lo..hi -> V] : Fits(f, hi)
  BY <1>3
<1>5. QED
  BY <1>4 DEF Unrolls

-----------------------------------------------------------------------------
(* The sort of the handlers' table. *)

\* A table of n rows.
Tables(n) == [1..n -> Int]

\* The rows are the same, in another order; those before i keep their places.
Rearranged(r, table, n, i) ==
    \E p \in [1..n -> 1..n] :
      /\ \A a, b \in 1..n : p[a] = p[b] => a = b
      /\ \A b \in 1..n : \E a \in 1..n : p[a] = b
      /\ \A a \in 1..n : r[a] = table[p[a]]
      /\ \A a \in 1..n : a < i => p[a] = a

\* A rearrangement of a rearrangement.
LEMMA RearrangedTwice ==
    ASSUME NEW n \in Nat, NEW i \in Int, NEW t \in Tables(n),
           NEW r \in Tables(n), NEW s \in Tables(n),
           Rearranged(r, t, n, i), Rearranged(s, r, n, i)
    PROVE  Rearranged(s, t, n, i)
<1>1. PICK p \in [1..n -> 1..n] :
            /\ \A a, b \in 1..n : p[a] = p[b] => a = b
            /\ \A b \in 1..n : \E a \in 1..n : p[a] = b
            /\ \A a \in 1..n : r[a] = t[p[a]]
            /\ \A a \in 1..n : a < i => p[a] = a
  BY DEF Rearranged
<1>2. PICK u \in [1..n -> 1..n] :
            /\ \A a, b \in 1..n : u[a] = u[b] => a = b
            /\ \A b \in 1..n : \E a \in 1..n : u[a] = b
            /\ \A a \in 1..n : s[a] = r[u[a]]
            /\ \A a \in 1..n : a < i => u[a] = a
  BY DEF Rearranged
<1> DEFINE w == [a \in 1..n |-> p[u[a]]]
<1>3. w \in [1..n -> 1..n]
  OBVIOUS
<1>4. ASSUME NEW a \in 1..n, NEW b \in 1..n, w[a] = w[b] PROVE a = b
  <2>1. u[a] \in 1..n /\ u[b] \in 1..n /\ p[u[a]] = p[u[b]]
    BY <1>4
  <2>2. u[a] = u[b]
    BY <1>1, <2>1
  <2>3. QED
    BY <1>2, <2>2
<1>5. ASSUME NEW b \in 1..n PROVE \E a \in 1..n : w[a] = b
  <2>1. PICK c \in 1..n : p[c] = b
    BY <1>1
  <2>2. PICK a \in 1..n : u[a] = c
    BY <1>2
  <2>3. w[a] = b
    BY <2>1, <2>2
  <2>4. QED
    BY <2>3
<1>6. \A a \in 1..n : s[a] = t[w[a]]
  BY <1>1, <1>2
<1>7. \A a \in 1..n : a < i => w[a] = a
  BY <1>1, <1>2
<1> HIDE DEF w
<1>8. QED
  BY <1>3, <1>4, <1>5, <1>6, <1>7 DEF Rearranged

\* A table is a rearrangement of itself.
LEMMA NotRearranged ==
    ASSUME NEW n \in Nat, NEW i \in Int, NEW t \in Tables(n)
    PROVE  Rearranged(t, t, n, i)
<1> DEFINE p == [a \in 1..n |-> a]
<1>1. /\ p \in [1..n -> 1..n]
      /\ \A a, b \in 1..n : p[a] = p[b] => a = b
      /\ \A b \in 1..n : p[b] = b
      /\ \A a \in 1..n : t[a] = t[p[a]]
      /\ \A a \in 1..n : a < i => p[a] = a
  OBVIOUS
<1> HIDE DEF p
<1>2. QED
  BY <1>1 DEF Rearranged

\* A sequence of numbers is a table and the other way round.
LEMMA TableIsSeq ==
    ASSUME NEW n \in Nat, NEW t \in Tables(n)
    PROVE  t \in Seq(Int) /\ Len(t) = n /\ DOMAIN t = 1..n
<1>1. t \in Seq(Int)
  <2>1. t = [i \in 1..n |-> t[i]] /\ \A i \in 1..n : t[i] \in Int
    BY DEF Tables
  <2>2. [i \in 1..n |-> t[i]] \in Seq(Int)
    BY <2>1
  <2>3. QED
    BY <2>1, <2>2
<1>2. DOMAIN t = 1..n
  BY DEF Tables
<1>3. Len(t) = n
  BY <1>1, <1>2, LenProperties
<1>4. QED
  BY <1>1, <1>2, <1>3

\* An exchange puts the smaller of two rows first.
LEMMA ExchangeIs ==
    ASSUME NEW n \in Nat, NEW t \in Tables(n), NEW i \in 1..n,
           NEW j \in i..n
    PROVE  LET r == Exchange(t, i, j)
           IN  /\ r \in Tables(n) /\ Rearranged(r, t, n, i)
               /\ r[i] <= r[j] /\ r[i] <= t[i]
               /\ \A a \in 1..n : a # i /\ a # j => r[a] = t[a]
<1> DEFINE r == Exchange(t, i, j)
           p == [a \in 1..n |-> IF a = i THEN j ELSE IF a = j THEN i ELSE a]
<1>1. Len(t) = n
  BY TableIsSeq
<1>2. CASE t[i] > t[j]
  <2>1. r = [a \in 1..n |-> t[p[a]]]
    BY <1>1, <1>2 DEF Exchange, Swapped
  <2>2. p \in [1..n -> 1..n]
    OBVIOUS
  <2>3. r \in Tables(n)
    BY <2>1, <2>2 DEF Tables
  <2>4. \A a \in 1..n : r[a] = t[p[a]]
    BY <2>1
  <2>5. \A a \in 1..n : p[p[a]] = a
    OBVIOUS
  <2>6. \A a \in 1..n : a < i => p[a] = a
    OBVIOUS
  <2>7. r[i] = t[j] /\ r[j] = t[i]
    BY <2>4
  <2>8. \A a \in 1..n : a # i /\ a # j => r[a] = t[a]
    BY <2>4
  <2>9. t[i] \in Int /\ t[j] \in Int
    BY DEF Tables
  <2> HIDE DEF p, r
  <2>10. Rearranged(r, t, n, i)
    <3>1. \A a, b \in 1..n : p[a] = p[b] => a = b
      BY <2>5
    <3>2. \A b \in 1..n : \E a \in 1..n : p[a] = b
      BY <2>5, <2>2
    <3>3. QED
      BY <3>1, <3>2, <2>2, <2>4, <2>6 DEF Rearranged
  <2>11. QED
    BY <2>3, <2>7, <2>8, <2>9, <2>10, <1>2 DEF r
<1>3. CASE ~(t[i] > t[j])
  <2>1. r = t
    BY <1>3 DEF Exchange
  <2>2. t[i] \in Int /\ t[j] \in Int
    BY DEF Tables
  <2>3. QED
    BY <2>1, <2>2, <1>3, NotRearranged
<1>4. QED
  BY <1>2, <1>3

\* The inner loop finds the least of the rows from i on and keeps the others.
LEMMA InnerLoopIs ==
    ASSUME NEW n \in Nat, NEW t \in Tables(n), NEW i \in 1..n
    PROVE  LET r == InnerLoop(t, i)
           IN  /\ r \in Tables(n) /\ Rearranged(r, t, n, i)
               /\ \A b \in i..n : r[i] <= r[b]
<1> DEFINE step == [x \in (i..n) \X Tables(n) |-> Exchange(x[2], i, x[1])]
           upTo == CHOOSE f : f = [j \in i..n |->
                     IF j = i THEN t ELSE Exchange(f[j - 1], i, j)]
           S == {j \in i..n :
                   /\ upTo[j] \in Tables(n) /\ Rearranged(upTo[j], t, n, i)
                   /\ \A b \in i..j : upTo[j][i] <= upTo[j][b]}
<1>1. IsStep(step, i, n, Tables(n))
  BY ExchangeIs DEF IsStep
<1>2. PICK f : Unrolls(f, i, n, Tables(n), t, step)
  <2> HIDE DEF step
  <2>1. i \in Int /\ n \in Int /\ i <= n
    OBVIOUS
  <2>2. QED
    BY <1>1, <2>1, RecursionExists
<1>3. f = [j \in i..n |-> IF j = i THEN t ELSE Exchange(f[j - 1], i, j)]
  <2>1. \A j \in i..n : j # i =>
          step[<<j, f[j - 1]>>] = Exchange(f[j - 1], i, j)
    <3>1. \A j \in i..n : j # i => f[j - 1] \in Tables(n)
      BY <1>2 DEF Unrolls
    <3>2. QED
      BY <3>1
  <2> HIDE DEF step
  <2>2. QED
    BY <1>2, <2>1 DEF Unrolls
<1>4. upTo = [j \in i..n |-> IF j = i THEN t ELSE Exchange(upTo[j - 1], i, j)]
  BY <1>3
<1>5. InnerLoop(t, i) = upTo[n]
  BY TableIsSeq DEF InnerLoop
<1> HIDE DEF upTo
<1>6. i \in S
  <2>1. upTo[i] = t /\ t[i] \in Int
    BY <1>4 DEF Tables
  <2>2. QED
    BY <2>1, NotRearranged
<1>7. ASSUME NEW j \in i..(n - 1), j \in S PROVE j + 1 \in S
  <2> DEFINE u == upTo[j]
             r == Exchange(u, i, j + 1)
  <2>1. upTo[j + 1] = r /\ j + 1 \in i..n /\ j + 1 # i
    BY <1>4
  <2>2. /\ u \in Tables(n) /\ Rearranged(u, t, n, i)
        /\ \A b \in i..j : u[i] <= u[b]
    BY <1>7
  <2> HIDE DEF u
  <2>3. /\ r \in Tables(n) /\ Rearranged(r, u, n, i)
        /\ r[i] <= r[j + 1] /\ r[i] <= u[i]
        /\ \A a \in 1..n : a # i /\ a # j + 1 => r[a] = u[a]
    BY <2>1, <2>2, ExchangeIs
  <2> HIDE DEF r
  <2>4. Rearranged(r, t, n, i)
    BY <2>2, <2>3, RearrangedTwice
  <2>5. ASSUME NEW b \in i..(j + 1) PROVE r[i] <= r[b]
    <3>1. r[i] \in Int /\ u[i] \in Int /\ b \in 1..n
      BY <2>2, <2>3 DEF Tables
    <3>2. CASE b = j + 1 \/ b = i
      BY <3>1, <3>2, <2>3
    <3>3. CASE b # j + 1 /\ b # i
      <4>1. r[b] = u[b] /\ b \in i..j
        BY <3>1, <3>3, <2>3
      <4>2. u[i] <= u[b] /\ u[b] \in Int
        BY <3>1, <4>1, <2>2 DEF Tables
      <4>3. QED
        BY <4>1, <4>2, <3>1, <2>3
    <3>4. QED
      BY <3>2, <3>3
  <2>6. QED
    BY <2>1, <2>3, <2>4, <2>5
<1>8. n \in S
  <2> HIDE DEF S
  <2>1. \A k \in i..(n - 1) : k \in S => k + 1 \in S
    BY <1>7
  <2>2. \A k \in i..n : k \in S
    BY <1>6, <2>1, Climb
  <2>3. QED
    BY <2>2
<1>9. QED
  BY <1>5, <1>8

\* The constructor's two loops sort the table and keep its rows.
LEMMA SortTableIs ==
    ASSUME NEW n \in Nat, NEW t \in Tables(n)
    PROVE  LET r == SortTable(t)
           IN  /\ r \in Tables(n) /\ Rearranged(r, t, n, 1)
               /\ \A a, b \in 1..n : a <= b => r[a] <= r[b]
<1> DEFINE step == [x \in (0..n) \X Tables(n) |->
                      IF x[1] = 0 THEN x[2] ELSE InnerLoop(x[2], x[1])]
           upTo == CHOOSE f : f = [i \in 0..n |->
                     IF i = 0 THEN t ELSE InnerLoop(f[i - 1], i)]
           S == {i \in 0..n :
                   /\ upTo[i] \in Tables(n) /\ Rearranged(upTo[i], t, n, 1)
                   /\ \A a \in 1..i, b \in 1..n :
                         a <= b => upTo[i][a] <= upTo[i][b]}
<1>1. IsStep(step, 0, n, Tables(n))
  <2>1. ASSUME NEW i \in 0..n, NEW u \in Tables(n)
        PROVE  (IF i = 0 THEN u ELSE InnerLoop(u, i)) \in Tables(n)
    <3>1. i # 0 => i \in 1..n
      OBVIOUS
    <3>2. QED
      BY <3>1, InnerLoopIs
  <2>2. QED
    BY <2>1 DEF IsStep
<1>2. PICK f : Unrolls(f, 0, n, Tables(n), t, step)
  <2> HIDE DEF step
  <2>1. 0 \in Int /\ n \in Int /\ 0 <= n
    OBVIOUS
  <2>2. QED
    BY <1>1, <2>1, RecursionExists
<1>3. f = [i \in 0..n |-> IF i = 0 THEN t ELSE InnerLoop(f[i - 1], i)]
  <2>1. \A i \in 0..n : i # 0 =>
          step[<<i, f[i - 1]>>] = InnerLoop(f[i - 1], i)
    <3>1. \A i \in 0..n : i # 0 => f[i - 1] \in Tables(n)
      BY <1>2 DEF Unrolls
    <3>2. QED
      BY <3>1
  <2> HIDE DEF step
  <2>2. QED
    BY <1>2, <2>1 DEF Unrolls
<1>4. upTo = [i \in 0..n |-> IF i = 0 THEN t ELSE InnerLoop(upTo[i - 1], i)]
  BY <1>3
<1>5. SortTable(t) = upTo[n]
  BY TableIsSeq DEF SortTable
<1> HIDE DEF upTo
<1>6. 0 \in S
  BY <1>4, NotRearranged
<1>7. ASSUME NEW k \in 0..(n - 1), k \in S PROVE k + 1 \in S
  <2> DEFINE u == upTo[k]
             i == k + 1
             r == InnerLoop(u, i)
  <2>1. upTo[k + 1] = r /\ i \in 1..n
    BY <1>4
  <2>2. /\ u \in Tables(n) /\ Rearranged(u, t, n, 1)
        /\ \A a \in 1..k, b \in 1..n : a <= b => u[a] <= u[b]
    BY <1>7
  <2> HIDE DEF u
  <2>3. /\ r \in Tables(n) /\ Rearranged(r, u, n, i)
        /\ \A b \in i..n : r[i] <= r[b]
    BY <2>1, <2>2, InnerLoopIs
  <2> HIDE DEF r
  <2>4. PICK p \in [1..n -> 1..n] :
              /\ \A a, b \in 1..n : p[a] = p[b] => a = b
              /\ \A b \in 1..n : \E a \in 1..n : p[a] = b
              /\ \A a \in 1..n : r[a] = u[p[a]]
              /\ \A a \in 1..n : a < i => p[a] = a
    BY <2>3 DEF Rearranged
  <2>5. Rearranged(r, u, n, 1)
    <3>1. \A a \in 1..n : a < 1 => p[a] = a
      OBVIOUS
    <3>2. QED
      BY <2>4, <3>1 DEF Rearranged
  <2>6. Rearranged(r, t, n, 1)
    BY <2>2, <2>3, <2>5, RearrangedTwice
  <2>7. ASSUME NEW a \in 1..i, NEW b \in 1..n, a <= b
        PROVE  r[a] <= r[b]
    <3>1. CASE a = i
      BY <3>1, <2>3, <2>7
    <3>2. CASE a # i
      <4>1. a \in 1..k /\ a \in 1..n /\ a < i
        BY <3>2, <2>1
      <4>2. r[a] = u[a] /\ r[b] = u[p[b]] /\ p[b] \in 1..n
        BY <4>1, <2>4
      <4>3. a <= p[b]
        <5>1. CASE b < i
          BY <5>1, <2>4, <2>7
        <5>2. CASE ~(b < i)
          <6>1. SUFFICES ASSUME p[b] < a PROVE FALSE
            BY <4>2
          <6>2. p[b] < i
            BY <6>1, <4>1, <4>2
          <6>3. p[p[b]] = p[b]
            BY <6>2, <4>2, <2>4
          <6>4. p[b] = b
            BY <6>3, <4>2, <2>4
          <6>5. QED
            BY <6>2, <6>4, <5>2
        <5>3. QED
          BY <5>1, <5>2
      <4>4. QED
        BY <4>1, <4>2, <4>3, <2>2
    <3>3. QED
      BY <3>1, <3>2
  <2>8. QED
    BY <2>1, <2>3, <2>6, <2>7
<1>8. n \in S
  <2> HIDE DEF S
  <2>1. \A k \in 0..(n - 1) : k \in S => k + 1 \in S
    BY <1>7
  <2>2. \A k \in 0..n : k \in S
    BY <1>6, <2>1, Climb
  <2>3. QED
    BY <2>2
<1>9. QED
  BY <1>5, <1>8

-----------------------------------------------------------------------------
(* The search. *)

\* The ranges the search meets.
Ranges(n) == {r \in [lo : 1..(n + 1), hi : 1..(n + 1)] : r.lo <= r.hi}

\* A probe that does not miss looks inside its range, and goes on to a
\* smaller one.
LEMMA ProbeIs ==
    ASSUME NEW n \in Nat, NEW t \in Tables(n), NEW key \in Int,
           NEW r \in Ranges(n)
    PROVE  /\ Missed(r) <=> r.lo = r.hi
           /\ ~Missed(r) =>
                 /\ Middle(r) \in 1..n /\ Middle(r) \in r.lo..(r.hi - 1)
                 /\ Probe(t, key, r) \in Ranges(n)
                 /\ Probe(t, key, r).hi - Probe(t, key, r).lo < r.hi - r.lo
                 /\ IF key > t[Middle(r)]
                    THEN Probe(t, key, r) = [lo |-> Middle(r) + 1, hi |-> r.hi]
                    ELSE Probe(t, key, r) = [lo |-> r.lo, hi |-> Middle(r)]
<1> DEFINE mid == (r.lo + r.hi) \div 2
<1>1. /\ r = [lo |-> r.lo, hi |-> r.hi]
      /\ r.lo \in 1..(n + 1) /\ r.hi \in 1..(n + 1) /\ r.lo <= r.hi
  BY DEF Ranges
<1>2. mid = r.hi <=> r.lo = r.hi
  BY <1>1
<1>3. r.lo # r.hi => mid \in r.lo..(r.hi - 1)
  BY <1>1
<1>4. Middle(r) = mid
  BY DEF Middle
<1> HIDE DEF mid
<1>5. Missed(r) <=> r.lo = r.hi
  BY <1>2, <1>4 DEF Missed
<1>6. ASSUME ~Missed(r)
      PROVE  /\ Middle(r) \in 1..n /\ Middle(r) \in r.lo..(r.hi - 1)
             /\ Probe(t, key, r) \in Ranges(n)
             /\ Probe(t, key, r).hi - Probe(t, key, r).lo < r.hi - r.lo
             /\ IF key > t[Middle(r)]
                THEN Probe(t, key, r) = [lo |-> Middle(r) + 1, hi |-> r.hi]
                ELSE Probe(t, key, r) = [lo |-> r.lo, hi |-> Middle(r)]
  <2>1. mid \in r.lo..(r.hi - 1) /\ mid \in 1..n
    BY <1>1, <1>3, <1>5, <1>6
  <2>2. IF key > t[mid]
        THEN Probe(t, key, r) = [lo |-> mid + 1, hi |-> r.hi]
        ELSE Probe(t, key, r) = [lo |-> r.lo, hi |-> mid]
    BY <1>1, <1>4 DEF Probe
  <2>3. [lo |-> mid + 1, hi |-> r.hi] \in Ranges(n)
    BY <1>1, <2>1 DEF Ranges
  <2>4. [lo |-> r.lo, hi |-> mid] \in Ranges(n)
    BY <1>1, <2>1 DEF Ranges
  <2>5. QED
    BY <1>1, <1>4, <2>1, <2>2, <2>3, <2>4
<1>7. QED
  BY <1>5, <1>6

\* What the search says of a range, by what it says of the next one.
Goes(f, t, key, r) ==
    f[r] = IF Missed(r) THEN 0
           ELSE IF t[Middle(r)] = key THEN Middle(r)
           ELSE f[Probe(t, key, r)]

\* The search ends: there is a function that its loop describes.
LEMMA SearchExists ==
    ASSUME NEW n \in Nat, NEW t \in Tables(n), NEW key \in Int
    PROVE  \E f \in [Ranges(n) -> 0..n] :
              \A r \in Ranges(n) : Goes(f, t, key, r)
<1> DEFINE R == Ranges(n)
           Size(r) == r.hi - r.lo
           S == {k \in Int : \E f \in [R -> 0..n] :
                   \A r \in R : Size(r) <= k => Goes(f, t, key, r)}
<1>1. \A r \in R : Size(r) \in 0..n
  BY DEF Ranges
<1>2. 0 \in S
  <2> DEFINE f == [r \in R |-> 0]
  <2>1. ASSUME NEW r \in R, Size(r) <= 0 PROVE Goes(f, t, key, r)
    <3>1. r.lo = r.hi
      BY <2>1 DEF Ranges
    <3>2. Missed(r)
      BY <3>1, ProbeIs
    <3>3. QED
      BY <3>2 DEF Goes
  <2>2. f \in [R -> 0..n]
    OBVIOUS
  <2>3. QED
    BY <2>1, <2>2
<1>3. ASSUME NEW k \in 0..(n - 1), k \in S PROVE k + 1 \in S
  <2>1. PICK f \in [R -> 0..n] :
              \A r \in R : Size(r) <= k => Goes(f, t, key, r)
    BY <1>3
  <2> DEFINE next(r) == IF Missed(r) THEN 0
                        ELSE IF t[Middle(r)] = key THEN Middle(r)
                        ELSE f[Probe(t, key, r)]
             g == [r \in R |-> IF Size(r) = k + 1 THEN next(r) ELSE f[r]]
  <2>2. \A r \in R : next(r) \in 0..n
    BY ProbeIs
  <2>3. g \in [R -> 0..n]
    BY <2>2
  <2>4. ASSUME NEW r \in R, Size(r) <= k + 1 PROVE Goes(g, t, key, r)
    <3>1. ~Missed(r) => /\ Probe(t, key, r) \in R
                        /\ Size(Probe(t, key, r)) < Size(r)
      BY ProbeIs
    <3>2. Size(r) \in 0..n
      BY <1>1
    <3>3. ~Missed(r) => g[Probe(t, key, r)] = f[Probe(t, key, r)]
      <4>1. ~Missed(r) => Size(Probe(t, key, r)) \in 0..n
        BY <3>1, <1>1
      <4>2. QED
        BY <4>1, <3>1, <3>2, <2>4
    <3>4. g[r] = next(r)
      <4>1. CASE Size(r) = k + 1
        BY <4>1
      <4>2. CASE Size(r) # k + 1
        <5>1. Size(r) <= k
          BY <4>2, <3>2, <2>4
        <5>2. Goes(f, t, key, r)
          BY <5>1, <2>1
        <5>3. g[r] = f[r]
          BY <4>2
        <5>4. QED
          BY <5>2, <5>3 DEF Goes
      <4>3. QED
        BY <4>1, <4>2
    <3> HIDE DEF g
    <3>5. QED
      BY <3>3, <3>4 DEF Goes
  <2> HIDE DEF g, R, Size
  <2>5. QED
    BY <2>3, <2>4
<1>4. n \in S
  <2> HIDE DEF S
  <2>1. \A k \in 0..(n - 1) : k \in S => k + 1 \in S
    BY <1>3
  <2>2. \A k \in 0..n : k \in S
    BY <1>2, <2>1, Climb
  <2>3. QED
    BY <2>2
<1>5. PICK f \in [R -> 0..n] :
            \A r \in R : Size(r) <= n => Goes(f, t, key, r)
  BY <1>4
<1>6. \A r \in R : Goes(f, t, key, r)
  BY <1>1, <1>5
<1>7. QED
  BY <1>6

\* In a sorted table the search finds a row with the key if there is one.
LEMMA LookupIs ==
    ASSUME NEW n \in Nat, NEW t \in Tables(n), NEW key \in Int,
           \A a, b \in 1..n : a <= b => t[a] <= t[b]
    PROVE  /\ Lookup(t, key) \in 0..n
           /\ Lookup(t, key) # 0 => t[Lookup(t, key)] = key
           /\ (\E a \in 1..n : t[a] = key) => Lookup(t, key) # 0
<1> DEFINE R == Ranges(n)
           Size(r) == r.hi - r.lo
           from == CHOOSE f : f = [r \in R |->
                     IF Missed(r) THEN 0
                     ELSE IF t[Middle(r)] = key THEN Middle(r)
                     ELSE f[Probe(t, key, r)]]
           Right(r) ==
             /\ from[r] # 0 => from[r] \in 1..n /\ t[from[r]] = key
             /\ from[r] \in Int
             /\ (\E a \in r.lo..(r.hi - 1) : t[a] = key) => from[r] # 0
           S == {k \in Int : \A r \in R : Size(r) <= k => Right(r)}
<1>1. PICK f \in [R -> 0..n] : \A r \in R : Goes(f, t, key, r)
  BY SearchExists
<1>2. f = [r \in R |-> IF Missed(r) THEN 0
                       ELSE IF t[Middle(r)] = key THEN Middle(r)
                       ELSE f[Probe(t, key, r)]]
  BY <1>1 DEF Goes
<1>3. from = [r \in R |-> IF Missed(r) THEN 0
                          ELSE IF t[Middle(r)] = key THEN Middle(r)
                          ELSE from[Probe(t, key, r)]]
  BY <1>2
<1>4. Len(t) = n
  BY TableIsSeq
<1>5. Lookup(t, key) = from[[lo |-> 1, hi |-> n + 1]]
  BY <1>4 DEF Lookup, WholeTable, Ranges
<1> HIDE DEF from
<1>6. \A r \in R : Goes(from, t, key, r)
  BY <1>3 DEF Goes
<1>7. \A r \in R :
        /\ Size(r) \in 0..n
        /\ r.lo \in 1..(n + 1) /\ r.hi \in 1..(n + 1)
  BY DEF Ranges
<1>8. 0 \in S
  <2>1. ASSUME NEW r \in R, Size(r) <= 0 PROVE Right(r)
    <3>1. r.lo = r.hi
      BY <2>1 DEF Ranges
    <3>2. Missed(r)
      BY <3>1, ProbeIs
    <3>3. from[r] = 0
      BY <3>2, <1>6 DEF Goes
    <3>4. QED
      BY <3>1, <3>3, <1>7
  <2>2. QED
    BY <2>1
<1>9. ASSUME NEW k \in 0..(n - 1), k \in S PROVE k + 1 \in S
  <2>1. \A r \in R : Size(r) <= k => Right(r)
    BY <1>9
  <2>2. ASSUME NEW r \in R, Size(r) <= k + 1 PROVE Right(r)
    <3>1. CASE Missed(r)
      <4>1. from[r] = 0 /\ r.lo = r.hi
        BY <3>1, <1>6, ProbeIs DEF Goes
      <4>2. QED
        BY <4>1, <1>7
    <3>2. CASE ~Missed(r) /\ t[Middle(r)] = key
      <4>1. from[r] = Middle(r) /\ Middle(r) \in 1..n
        BY <3>2, <1>6, ProbeIs DEF Goes
      <4>2. QED
        BY <4>1, <3>2
    <3>3. CASE ~Missed(r) /\ t[Middle(r)] # key
      <4> DEFINE mid == Middle(r)
                 u == Probe(t, key, r)
      <4>1. from[r] = from[u]
        BY <3>3, <1>6 DEF Goes
      <4>2. /\ mid \in 1..n /\ mid \in r.lo..(r.hi - 1)
            /\ u \in R /\ Size(u) < Size(r)
            /\ IF key > t[mid] THEN u = [lo |-> mid + 1, hi |-> r.hi]
               ELSE u = [lo |-> r.lo, hi |-> mid]
        BY <3>3, ProbeIs
      <4>3. Right(u)
        <5>1. Size(u) \in Int /\ Size(r) \in Int
          BY <4>2, <1>7
        <5> HIDE DEF u, Right, Size
        <5>2. Size(u) <= k
          BY <5>1, <4>2, <2>2
        <5>3. QED
          BY <5>2, <4>2, <2>1
      <4> HIDE DEF u, mid
      <4>4. ASSUME NEW a \in r.lo..(r.hi - 1), t[a] = key
            PROVE  a \in u.lo..(u.hi - 1)
        <5>1. a \in 1..n /\ r.lo \in Int /\ r.hi \in Int
          BY <1>7
        <5>2. t[mid] \in Int /\ t[mid] # key
          BY <3>3, <4>2 DEF mid, Tables
        <5>3. CASE key > t[mid]
          <6>1. ~(a <= mid)
            BY <5>1, <5>2, <5>3, <4>2, <4>4
          <6>2. u.lo = mid + 1 /\ u.hi = r.hi
            BY <5>3, <4>2
          <6>3. QED
            BY <6>1, <6>2, <5>1, <4>2
        <5>4. CASE ~(key > t[mid])
          <6>1. ~(mid <= a)
            BY <5>1, <5>2, <5>4, <4>2, <4>4
          <6>2. u.lo = r.lo /\ u.hi = mid
            BY <5>4, <4>2
          <6>3. QED
            BY <6>1, <6>2, <5>1, <4>2
        <5>5. QED
          BY <5>3, <5>4
      <4>5. QED
        BY <4>1, <4>3, <4>4
    <3>4. QED
      BY <3>1, <3>2, <3>3
  <2> HIDE DEF Right, Size, R
  <2>3. QED
    BY <2>2
<1>10. n \in S
  <2> HIDE DEF S
  <2>1. \A k \in 0..(n - 1) : k \in S => k + 1 \in S
    BY <1>9
  <2>2. \A k \in 0..n : k \in S
    BY <1>8, <2>1, Climb
  <2>3. QED
    BY <2>2
<1> DEFINE whole == [lo |-> 1, hi |-> n + 1]
<1>11. whole \in R /\ whole.lo = 1 /\ whole.hi - 1 = n
  BY DEF Ranges
<1>12. Right(whole)
  BY <1>7, <1>10, <1>11
<1> HIDE DEF whole
<1>13. QED
  BY <1>5, <1>11, <1>12 DEF whole

-----------------------------------------------------------------------------
(* The handlers' table. *)

\* A URL and a method that the table knows.
LEMMA KeyIs ==
    ASSUME NEW url, NEW m, \E i \in DOMAIN Urls : Urls[i] = url,
           \E i \in DOMAIN Methods : Methods[i] = m
    PROVE  Key(url, m) \in 1..(4 * Len(Urls) + 4)
<1>1. Len(Urls) = 24 /\ DOMAIN Urls = 1..24
  BY DEF Urls
<1>2. Len(Methods) = 4 /\ DOMAIN Methods = 1..4
  BY SMTT(30) DEF Methods
<1>3. (CHOOSE i \in DOMAIN Urls : Urls[i] = url) \in DOMAIN Urls
  BY SMTT(30)
<1>4. (CHOOSE i \in DOMAIN Methods : Methods[i] = m) \in DOMAIN Methods
  BY SMTT(30)
<1> DEFINE a == CHOOSE i \in DOMAIN Urls : Urls[i] = url
           b == CHOOSE i \in DOMAIN Methods : Methods[i] = m
<1>5. a \in 1..24 /\ b \in 1..4
  BY <1>1, <1>2, <1>3, <1>4
<1>6. Key(url, m) = 4 * a + b
  BY DEF Key
<1> HIDE DEF a, b
<1>7. QED
  BY <1>1, <1>5, <1>6

\* A URL of the table.
UrlKnown(url) == \E i \in DOMAIN Urls : Urls[i] = url

\* The URLs of the table, by their place.
LEMMA UrlsAre ==
    /\ DOMAIN Urls = 1..24 /\ 4 * Len(Urls) + 4 = 100
    /\ Urls[1] = "audio_rec/data" /\ Urls[2] = "audio_rec/footer"
    /\ Urls[3] = "audio_rec/header" /\ Urls[4] = "client_config/info"
    /\ Urls[5] = "client_event" /\ Urls[6] = "server_event"
    /\ Urls[7] = "client_address" /\ Urls[8] = "client_firmware"
    /\ Urls[9] = "current_time" /\ Urls[10] = "interface_statistic"
    /\ Urls[11] = "server_info" /\ Urls[12] = "session_id"
    /\ Urls[13] = "storage_info" /\ Urls[14] = "daq_list"
    /\ Urls[15] = "daq_trend" /\ Urls[16] = "mailbox_daq_list"
    /\ Urls[17] = "mailbox_list" /\ Urls[18] = "mailbox_meta"
    /\ Urls[19] = "mailbox_value" /\ Urls[20] = "mam_daq_list"
    /\ Urls[21] = "mam_values" /\ Urls[22] = "var_list"
    /\ Urls[23] = "var_meta" /\ Urls[24] = "var_value"
  BY DEF Urls

\* Each of them has a row.
LEMMA UrlsAreKnown ==
    /\ UrlKnown("audio_rec/data") /\ UrlKnown("audio_rec/footer")
    /\ UrlKnown("audio_rec/header") /\ UrlKnown("client_config/info")
    /\ UrlKnown("client_event") /\ UrlKnown("server_event")
    /\ UrlKnown("client_address") /\ UrlKnown("client_firmware")
    /\ UrlKnown("current_time") /\ UrlKnown("interface_statistic")
    /\ UrlKnown("server_info") /\ UrlKnown("session_id")
    /\ UrlKnown("storage_info") /\ UrlKnown("daq_list")
    /\ UrlKnown("daq_trend") /\ UrlKnown("mailbox_daq_list")
    /\ UrlKnown("mailbox_list") /\ UrlKnown("mailbox_meta")
    /\ UrlKnown("mailbox_value") /\ UrlKnown("mam_daq_list")
    /\ UrlKnown("mam_values") /\ UrlKnown("var_list") /\ UrlKnown("var_meta")
    /\ UrlKnown("var_value")
  BY UrlsAre DEF UrlKnown

\* So have the methods.
LEMMA MethodsAreKnown ==
    \A m \in {"GET", "POST", "PUT", "DELETE"} :
      \E i \in DOMAIN Methods : Methods[i] = m
<1>1. /\ Methods[1] = "GET" /\ Methods[2] = "POST" /\ Methods[3] = "PUT"
      /\ Methods[4] = "DELETE" /\ DOMAIN Methods = 1..4
  BY DEF Methods
<1>2. QED
  BY <1>1

\* The rows of the table as it is written down.
LEMMA RowsAre ==
    /\ DOMAIN ResponseTable = 1..31 /\ Len(ResponseTable) = 31
    /\ ResponseTable[1] = Key("client_address", "GET")
    /\ ResponseTable[2] = Key("client_event", "PUT")
    /\ ResponseTable[3] = Key("daq_list", "PUT")
    /\ ResponseTable[4] = Key("mailbox_daq_list", "PUT")
    /\ ResponseTable[5] = Key("mam_daq_list", "PUT")
    /\ ResponseTable[6] = Key("daq_list", "DELETE")
    /\ ResponseTable[7] = Key("mailbox_daq_list", "DELETE")
    /\ ResponseTable[8] = Key("mam_daq_list", "DELETE")
    /\ ResponseTable[9] = Key("daq_trend", "PUT")
    /\ ResponseTable[10] = Key("daq_trend", "DELETE")
    /\ ResponseTable[11] = Key("server_event", "GET")
    /\ ResponseTable[12] = Key("session_id", "POST")
    /\ ResponseTable[13] = Key("session_id", "DELETE")
    /\ ResponseTable[14] = Key("var_list", "GET")
    /\ ResponseTable[15] = Key("mailbox_list", "GET")
    /\ ResponseTable[16] = Key("var_meta", "POST")
    /\ ResponseTable[17] = Key("mailbox_meta", "POST")
    /\ ResponseTable[18] = Key("interface_statistic", "GET")
    /\ ResponseTable[19] = Key("server_info", "GET")
    /\ ResponseTable[20] = Key("current_time", "GET")
    /\ ResponseTable[21] = Key("storage_info", "GET")
    /\ ResponseTable[22] = Key("var_value", "POST")
    /\ ResponseTable[23] = Key("var_value", "PUT")
    /\ ResponseTable[24] = Key("mam_values", "POST")
    /\ ResponseTable[25] = Key("mailbox_value", "POST")
    /\ ResponseTable[26] = Key("mailbox_value", "PUT")
    /\ ResponseTable[27] = Key("client_firmware", "POST")
    /\ ResponseTable[28] = Key("client_config/info", "POST")
    /\ ResponseTable[29] = Key("audio_rec/header", "PUT")
    /\ ResponseTable[30] = Key("audio_rec/data", "PUT")
    /\ ResponseTable[31] = Key("audio_rec/footer", "PUT")
<1>1. /\ ResponseTable[1] = Key("client_address", "GET")
      /\ ResponseTable[2] = Key("client_event", "PUT")
      /\ ResponseTable[3] = Key("daq_list", "PUT")
      /\ ResponseTable[4] = Key("mailbox_daq_list", "PUT")
      /\ ResponseTable[5] = Key("mam_daq_list", "PUT")
      /\ ResponseTable[6] = Key("daq_list", "DELETE")
      /\ ResponseTable[7] = Key("mailbox_daq_list", "DELETE")
      /\ ResponseTable[8] = Key("mam_daq_list", "DELETE")
  BY SMTT(30) DEF ResponseTable
<1>2. /\ ResponseTable[9] = Key("daq_trend", "PUT")
      /\ ResponseTable[10] = Key("daq_trend", "DELETE")
      /\ ResponseTable[11] = Key("server_event", "GET")
      /\ ResponseTable[12] = Key("session_id", "POST")
      /\ ResponseTable[13] = Key("session_id", "DELETE")
      /\ ResponseTable[14] = Key("var_list", "GET")
      /\ ResponseTable[15] = Key("mailbox_list", "GET")
      /\ ResponseTable[16] = Key("var_meta", "POST")
  BY SMTT(30) DEF ResponseTable
<1>3. /\ ResponseTable[17] = Key("mailbox_meta", "POST")
      /\ ResponseTable[18] = Key("interface_statistic", "GET")
      /\ ResponseTable[19] = Key("server_info", "GET")
      /\ ResponseTable[20] = Key("current_time", "GET")
      /\ ResponseTable[21] = Key("storage_info", "GET")
      /\ ResponseTable[22] = Key("var_value", "POST")
      /\ ResponseTable[23] = Key("var_value", "PUT")
      /\ ResponseTable[24] = Key("mam_values", "POST")
  BY SMTT(30) DEF ResponseTable
<1>4. /\ ResponseTable[25] = Key("mailbox_value", "POST")
      /\ ResponseTable[26] = Key("mailbox_value", "PUT")
      /\ ResponseTable[27] = Key("client_firmware", "POST")
      /\ ResponseTable[28] = Key("client_config/info", "POST")
      /\ ResponseTable[29] = Key("audio_rec/header", "PUT")
      /\ ResponseTable[30] = Key("audio_rec/data", "PUT")
      /\ ResponseTable[31] = Key("audio_rec/footer", "PUT")
  BY SMTT(30) DEF ResponseTable
<1>5. DOMAIN ResponseTable = 1..31 /\ Len(ResponseTable) = 31
  BY SMTT(30) DEF ResponseTable
<1>6. QED
  BY <1>1, <1>2, <1>3, <1>4, <1>5

\* They are numbers that Row has in its domain.
LEMMA TableOfKeys ==
    /\ ResponseTable \in Tables(31)
    /\ \A k \in 1..31 : ResponseTable[k] \in 1..100
<1>1. ASSUME NEW url, UrlKnown(url),
             NEW m \in {"GET", "POST", "PUT", "DELETE"}
      PROVE  Key(url, m) \in 1..100
  BY <1>1, MethodsAreKnown, UrlsAre, KeyIs DEF UrlKnown
<1>2. /\ ResponseTable[1] \in 1..100 /\ ResponseTable[2] \in 1..100
      /\ ResponseTable[3] \in 1..100 /\ ResponseTable[4] \in 1..100
      /\ ResponseTable[5] \in 1..100 /\ ResponseTable[6] \in 1..100
      /\ ResponseTable[7] \in 1..100 /\ ResponseTable[8] \in 1..100
  BY <1>1, UrlsAreKnown, RowsAre
<1>3. /\ ResponseTable[9] \in 1..100 /\ ResponseTable[10] \in 1..100
      /\ ResponseTable[11] \in 1..100 /\ ResponseTable[12] \in 1..100
      /\ ResponseTable[13] \in 1..100 /\ ResponseTable[14] \in 1..100
      /\ ResponseTable[15] \in 1..100 /\ ResponseTable[16] \in 1..100
  BY <1>1, UrlsAreKnown, RowsAre
<1>4. /\ ResponseTable[17] \in 1..100 /\ ResponseTable[18] \in 1..100
      /\ ResponseTable[19] \in 1..100 /\ ResponseTable[20] \in 1..100
      /\ ResponseTable[21] \in 1..100 /\ ResponseTable[22] \in 1..100
      /\ ResponseTable[23] \in 1..100 /\ ResponseTable[24] \in 1..100
  BY <1>1, UrlsAreKnown, RowsAre
<1>5. /\ ResponseTable[25] \in 1..100 /\ ResponseTable[26] \in 1..100
      /\ ResponseTable[27] \in 1..100 /\ ResponseTable[28] \in 1..100
      /\ ResponseTable[29] \in 1..100 /\ ResponseTable[30] \in 1..100
      /\ ResponseTable[31] \in 1..100
  BY <1>1, UrlsAreKnown, RowsAre
<1>6. ASSUME NEW k \in 1..31 PROVE ResponseTable[k] \in 1..100
  <2>1. k \in 1..8 \/ k \in 9..16 \/ k \in 17..24 \/ k \in 25..31
    OBVIOUS
  <2>2. CASE k \in 1..8
    BY <2>2, <1>2
  <2>3. CASE k \in 9..16
    BY <2>3, <1>3
  <2>4. CASE k \in 17..24
    BY <2>4, <1>4
  <2>5. CASE k \in 25..31
    BY <2>5, <1>5
  <2>6. QED
    BY <2>1, <2>2, <2>3, <2>4, <2>5
<1>7. ResponseTable = [k \in 1..31 |-> ResponseTable[k]]
  BY DEF ResponseTable
<1>8. \A k \in 1..31 : ResponseTable[k] \in Int
  BY <1>6
<1>9. ResponseTable \in Tables(31)
  BY <1>7, <1>8 DEF Tables
<1>10. QED
  BY <1>6, <1>9

\* Every row of the table is found.
LEMMA RowIsFound ==
    ASSUME NEW k \in 1..31
    PROVE  Row[ResponseTable[k]] # 0
<1> DEFINE key == ResponseTable[k]
<1>1. /\ SortedTable \in Tables(31)
      /\ Rearranged(SortedTable, ResponseTable, 31, 1)
      /\ \A a, b \in 1..31 : a <= b => SortedTable[a] <= SortedTable[b]
  BY TableOfKeys, SortTableIs, SMTT(30) DEF SortedTable
<1>2. key \in 1..100 /\ key \in Int
  <2>1. key \in 1..100
    BY TableOfKeys, ZenonT(30)
  <2>2. QED
    BY <2>1
<1>3. \E a \in 1..31 : SortedTable[a] = key
  <2>1. PICK p \in [1..31 -> 1..31] :
              /\ \A b \in 1..31 : \E a \in 1..31 : p[a] = b
              /\ \A a \in 1..31 : SortedTable[a] = ResponseTable[p[a]]
    BY <1>1, ZenonT(30) DEF Rearranged
  <2>2. PICK a \in 1..31 : p[a] = k
    BY <2>1
  <2>3. SortedTable[a] = key
    BY <2>1, <2>2
  <2>4. QED
    BY <2>3, ZenonT(30)
<1>4. Row[key] = Lookup(SortedTable, key)
  BY <1>2, UrlsAre DEF Row
<1> HIDE DEF key
<1>5. Lookup(SortedTable, key) # 0
  BY <1>1, <1>2, <1>3, LookupIs
<1>6. QED
  BY <1>4, <1>5 DEF key

\* What the clients send has a row.
LEMMA RequestsAreFound ==
    /\ Row[Key("client_address", "GET")] # 0
    /\ Row[Key("client_event", "PUT")] # 0
    /\ Row[Key("session_id", "POST")] # 0
    /\ Row[Key("session_id", "DELETE")] # 0
    /\ Row[Key("var_list", "GET")] # 0
    /\ Row[Key("mailbox_list", "GET")] # 0
    /\ Row[Key("var_meta", "POST")] # 0
    /\ Row[Key("mailbox_meta", "POST")] # 0
    /\ Row[Key("interface_statistic", "GET")] # 0
    /\ Row[Key("server_info", "GET")] # 0
    /\ Row[Key("current_time", "GET")] # 0
    /\ Row[Key("storage_info", "GET")] # 0
    /\ Row[Key("var_value", "POST")] # 0
    /\ Row[Key("var_value", "PUT")] # 0
    /\ Row[Key("mailbox_value", "POST")] # 0
    /\ Row[Key("mailbox_value", "PUT")] # 0
    /\ Row[Key("client_firmware", "POST")] # 0
    /\ Row[Key("client_config/info", "POST")] # 0
    /\ Row[Key("audio_rec/header", "PUT")] # 0
    /\ Row[Key("audio_rec/data", "PUT")] # 0
    /\ Row[Key("audio_rec/footer", "PUT")] # 0
  BY RowIsFound, RowsAre

-----------------------------------------------------------------------------
(* The handler of each request a client sends. *)

\* Which handler serves which URL and method; all of them have a row.
Serves(s, q, rsp) ==
    \/ q.url = "client_address" /\ q.m = "GET"
       /\ rsp = GetClientAddress(s)
    \/ q.url = "client_event" /\ q.m = "PUT"
       /\ rsp = PutClientEvent(s, q)
    \/ q.url = "session_id" /\ q.m = "POST"
       /\ rsp = PostSession(s, q)
    \/ q.url = "session_id" /\ q.m = "DELETE"
       /\ rsp = DeleteSession(s, q)
    \/ q.url = "var_list" /\ q.m = "GET"
       /\ rsp = GetVarList(s, Variables)
    \/ q.url = "mailbox_list" /\ q.m = "GET"
       /\ rsp = GetVarList(s, Mailboxes)
    \/ q.url = "var_meta" /\ q.m = "POST"
       /\ rsp = PostVarMeta(s, q, Variables)
    \/ q.url = "mailbox_meta" /\ q.m = "POST"
       /\ rsp = PostVarMeta(s, q, Mailboxes)
    \/ q.url = "interface_statistic" /\ q.m = "GET"
       /\ rsp = InterfaceStatistic(s)
    \/ q.url = "server_info" /\ q.m = "GET"
       /\ rsp = GetServerInfo(s)
    \/ q.url = "current_time" /\ q.m = "GET"
       /\ rsp = GetCurrentTime(s)
    \/ q.url = "storage_info" /\ q.m = "GET"
       /\ rsp = GetStorageInfo(s)
    \/ q.url = "var_value" /\ q.m = "POST"
       /\ rsp = PostVarValue(s, q, Variables)
    \/ q.url = "var_value" /\ q.m = "PUT"
       /\ rsp = PutVarValue(s, q, Variables)
    \/ q.url = "mailbox_value" /\ q.m = "POST"
       /\ rsp = PostVarValue(s, q, Mailboxes)
    \/ q.url = "mailbox_value" /\ q.m = "PUT"
       /\ rsp = PutVarValue(s, q, Mailboxes)
    \/ q.url = "client_firmware" /\ q.m = "POST"
       /\ rsp = PostFirmwareInfo(s, q)
    \/ q.url = "client_config/info" /\ q.m = "POST"
       /\ rsp = PostClientConfigInfo(s, q)
    \/ q.url = "audio_rec/header" /\ q.m = "PUT"
       /\ rsp = PutAudioRecHeader(s, q)
    \/ q.url = "audio_rec/data" /\ q.m = "PUT"
       /\ rsp = PutAudioRecData(s, q)
    \/ q.url = "audio_rec/footer" /\ q.m = "PUT"
       /\ rsp = PutAudioRecFooter(s, q)
    \/ q.url = "client_states" /\ rsp = HandleFileRequest(s, q)
    \/ q.url = "forms" /\ q.m = "GET" /\ rsp = GetForm(s)
    \/ q.url = "forms" /\ q.m = "PUT" /\ rsp = PutForm(s)

\* The requests the clients send, as far as their handlers can tell.
IsRequest(q) ==
    \/ q.url = "client_address" /\ q.m = "GET"
    \/ q.url = "client_event" /\ q.m = "PUT"
    \/ q.url = "session_id" /\ q.m = "POST"
    \/ q.url = "session_id" /\ q.m = "DELETE"
    \/ q.url = "var_list" /\ q.m = "GET"
    \/ q.url = "mailbox_list" /\ q.m = "GET"
    \/ q.url = "var_meta" /\ q.m = "POST"
    \/ q.url = "mailbox_meta" /\ q.m = "POST"
    \/ q.url = "interface_statistic" /\ q.m = "GET"
    \/ q.url = "server_info" /\ q.m = "GET"
    \/ q.url = "current_time" /\ q.m = "GET"
    \/ q.url = "storage_info" /\ q.m = "GET"
    \/ q.url = "var_value" /\ q.m = "POST"
    \/ q.url = "var_value" /\ q.m = "PUT"
    \/ q.url = "mailbox_value" /\ q.m = "POST"
    \/ q.url = "mailbox_value" /\ q.m = "PUT"
    \/ q.url = "client_firmware" /\ q.m = "POST"
    \/ q.url = "client_config/info" /\ q.m = "POST"
    \/ q.url = "audio_rec/header" /\ q.m = "PUT"
    \/ q.url = "audio_rec/data" /\ q.m = "PUT"
    \/ q.url = "audio_rec/footer" /\ q.m = "PUT"
    \/ q.url = "client_states"
    \/ q.url = "forms" /\ q.m \in {"GET", "PUT"}

\* A request is served by the handler of its row.
LEMMA RequestIsServed ==
    ASSUME NEW s, NEW q, IsRequest(q)
    PROVE  Serves(s, q, HandleHttpRequest(s, q))
<1>1. CASE q.url = "client_address" /\ q.m = "GET"
  <2>1. Row[Key(q.url, q.m)] # 0
    BY <1>1, RequestsAreFound
  <2>2. HandleHttpRequest(s, q) = Handler(s, q)
    BY <1>1, <2>1 DEF HandleHttpRequest
  <2>3. Handler(s, q) = GetClientAddress(s)
    BY <1>1 DEF Handler
  <2>4. QED
    BY <1>1, <2>2, <2>3 DEF Serves
<1>2. CASE q.url = "client_event" /\ q.m = "PUT"
  <2>1. Row[Key(q.url, q.m)] # 0
    BY <1>2, RequestsAreFound
  <2>2. HandleHttpRequest(s, q) = Handler(s, q)
    BY <1>2, <2>1 DEF HandleHttpRequest
  <2>3. Handler(s, q) = PutClientEvent(s, q)
    BY <1>2 DEF Handler
  <2>4. QED
    BY <1>2, <2>2, <2>3 DEF Serves
<1>3. CASE q.url = "session_id" /\ q.m = "POST"
  <2>1. Row[Key(q.url, q.m)] # 0
    BY <1>3, RequestsAreFound
  <2>2. HandleHttpRequest(s, q) = Handler(s, q)
    BY <1>3, <2>1 DEF HandleHttpRequest
  <2>3. Handler(s, q) = PostSession(s, q)
    BY <1>3 DEF Handler
  <2>4. QED
    BY <1>3, <2>2, <2>3 DEF Serves
<1>4. CASE q.url = "session_id" /\ q.m = "DELETE"
  <2>1. Row[Key(q.url, q.m)] # 0
    BY <1>4, RequestsAreFound
  <2>2. HandleHttpRequest(s, q) = Handler(s, q)
    BY <1>4, <2>1 DEF HandleHttpRequest
  <2>3. Handler(s, q) = DeleteSession(s, q)
    BY <1>4 DEF Handler
  <2>4. QED
    BY <1>4, <2>2, <2>3 DEF Serves
<1>5. CASE q.url = "var_list" /\ q.m = "GET"
  <2>1. Row[Key(q.url, q.m)] # 0
    BY <1>5, RequestsAreFound
  <2>2. HandleHttpRequest(s, q) = Handler(s, q)
    BY <1>5, <2>1 DEF HandleHttpRequest
  <2>3. Handler(s, q) = GetVarList(s, Variables)
    BY <1>5 DEF Handler
  <2>4. QED
    BY <1>5, <2>2, <2>3 DEF Serves
<1>6. CASE q.url = "mailbox_list" /\ q.m = "GET"
  <2>1. Row[Key(q.url, q.m)] # 0
    BY <1>6, RequestsAreFound
  <2>2. HandleHttpRequest(s, q) = Handler(s, q)
    BY <1>6, <2>1 DEF HandleHttpRequest
  <2>3. Handler(s, q) = GetVarList(s, Mailboxes)
    BY <1>6 DEF Handler
  <2>4. QED
    BY <1>6, <2>2, <2>3 DEF Serves
<1>7. CASE q.url = "var_meta" /\ q.m = "POST"
  <2>1. Row[Key(q.url, q.m)] # 0
    BY <1>7, RequestsAreFound
  <2>2. HandleHttpRequest(s, q) = Handler(s, q)
    BY <1>7, <2>1 DEF HandleHttpRequest
  <2>3. Handler(s, q) = PostVarMeta(s, q, Variables)
    BY <1>7 DEF Handler
  <2>4. QED
    BY <1>7, <2>2, <2>3 DEF Serves
<1>8. CASE q.url = "mailbox_meta" /\ q.m = "POST"
  <2>1. Row[Key(q.url, q.m)] # 0
    BY <1>8, RequestsAreFound
  <2>2. HandleHttpRequest(s, q) = Handler(s, q)
    BY <1>8, <2>1 DEF HandleHttpRequest
  <2>3. Handler(s, q) = PostVarMeta(s, q, Mailboxes)
    BY <1>8 DEF Handler
  <2>4. QED
    BY <1>8, <2>2, <2>3 DEF Serves
<1>9. CASE q.url = "interface_statistic" /\ q.m = "GET"
  <2>1. Row[Key(q.url, q.m)] # 0
    BY <1>9, RequestsAreFound
  <2>2. HandleHttpRequest(s, q) = Handler(s, q)
    BY <1>9, <2>1 DEF HandleHttpRequest
  <2>3. Handler(s, q) = InterfaceStatistic(s)
    BY <1>9 DEF Handler
  <2>4. QED
    BY <1>9, <2>2, <2>3 DEF Serves
<1>10. CASE q.url = "server_info" /\ q.m = "GET"
  <2>1. Row[Key(q.url, q.m)] # 0
    BY <1>10, RequestsAreFound
  <2>2. HandleHttpRequest(s, q) = Handler(s, q)
    BY <1>10, <2>1 DEF HandleHttpRequest
  <2>3. Handler(s, q) = GetServerInfo(s)
    BY <1>10 DEF Handler
  <2>4. QED
    BY <1>10, <2>2, <2>3 DEF Serves
<1>11. CASE q.url = "current_time" /\ q.m = "GET"
  <2>1. Row[Key(q.url, q.m)] # 0
    BY <1>11, RequestsAreFound
  <2>2. HandleHttpRequest(s, q) = Handler(s, q)
    BY <1>11, <2>1 DEF HandleHttpRequest
  <2>3. Handler(s, q) = GetCurrentTime(s)
    BY <1>11 DEF Handler
  <2>4. QED
    BY <1>11, <2>2, <2>3 DEF Serves
<1>12. CASE q.url = "storage_info" /\ q.m = "GET"
  <2>1. Row[Key(q.url, q.m)] # 0
    BY <1>12, RequestsAreFound
  <2>2. HandleHttpRequest(s, q) = Handler(s, q)
    BY <1>12, <2>1 DEF HandleHttpRequest
  <2>3. Handler(s, q) = GetStorageInfo(s)
    BY <1>12 DEF Handler
  <2>4. QED
    BY <1>12, <2>2, <2>3 DEF Serves
<1>13. CASE q.url = "var_value" /\ q.m = "POST"
  <2>1. Row[Key(q.url, q.m)] # 0
    BY <1>13, RequestsAreFound
  <2>2. HandleHttpRequest(s, q) = Handler(s, q)
    BY <1>13, <2>1 DEF HandleHttpRequest
  <2>3. Handler(s, q) = PostVarValue(s, q, Variables)
    BY <1>13 DEF Handler
  <2>4. QED
    BY <1>13, <2>2, <2>3 DEF Serves
<1>14. CASE q.url = "var_value" /\ q.m = "PUT"
  <2>1. Row[Key(q.url, q.m)] # 0
    BY <1>14, RequestsAreFound
  <2>2. HandleHttpRequest(s, q) = Handler(s, q)
    BY <1>14, <2>1 DEF HandleHttpRequest
  <2>3. Handler(s, q) = PutVarValue(s, q, Variables)
    BY <1>14 DEF Handler
  <2>4. QED
    BY <1>14, <2>2, <2>3 DEF Serves
<1>15. CASE q.url = "mailbox_value" /\ q.m = "POST"
  <2>1. Row[Key(q.url, q.m)] # 0
    BY <1>15, RequestsAreFound
  <2>2. HandleHttpRequest(s, q) = Handler(s, q)
    BY <1>15, <2>1 DEF HandleHttpRequest
  <2>3. Handler(s, q) = PostVarValue(s, q, Mailboxes)
    BY <1>15 DEF Handler
  <2>4. QED
    BY <1>15, <2>2, <2>3 DEF Serves
<1>16. CASE q.url = "mailbox_value" /\ q.m = "PUT"
  <2>1. Row[Key(q.url, q.m)] # 0
    BY <1>16, RequestsAreFound
  <2>2. HandleHttpRequest(s, q) = Handler(s, q)
    BY <1>16, <2>1 DEF HandleHttpRequest
  <2>3. Handler(s, q) = PutVarValue(s, q, Mailboxes)
    BY <1>16 DEF Handler
  <2>4. QED
    BY <1>16, <2>2, <2>3 DEF Serves
<1>17. CASE q.url = "client_firmware" /\ q.m = "POST"
  <2>1. Row[Key(q.url, q.m)] # 0
    BY <1>17, RequestsAreFound
  <2>2. HandleHttpRequest(s, q) = Handler(s, q)
    BY <1>17, <2>1 DEF HandleHttpRequest
  <2>3. Handler(s, q) = PostFirmwareInfo(s, q)
    BY <1>17 DEF Handler
  <2>4. QED
    BY <1>17, <2>2, <2>3 DEF Serves
<1>18. CASE q.url = "client_config/info" /\ q.m = "POST"
  <2>1. Row[Key(q.url, q.m)] # 0
    BY <1>18, RequestsAreFound
  <2>2. HandleHttpRequest(s, q) = Handler(s, q)
    BY <1>18, <2>1 DEF HandleHttpRequest
  <2>3. Handler(s, q) = PostClientConfigInfo(s, q)
    BY <1>18 DEF Handler
  <2>4. QED
    BY <1>18, <2>2, <2>3 DEF Serves
<1>19. CASE q.url = "audio_rec/header" /\ q.m = "PUT"
  <2>1. Row[Key(q.url, q.m)] # 0
    BY <1>19, RequestsAreFound
  <2>2. HandleHttpRequest(s, q) = Handler(s, q)
    BY <1>19, <2>1 DEF HandleHttpRequest
  <2>3. Handler(s, q) = PutAudioRecHeader(s, q)
    BY <1>19 DEF Handler
  <2>4. QED
    BY <1>19, <2>2, <2>3 DEF Serves
<1>20. CASE q.url = "audio_rec/data" /\ q.m = "PUT"
  <2>1. Row[Key(q.url, q.m)] # 0
    BY <1>20, RequestsAreFound
  <2>2. HandleHttpRequest(s, q) = Handler(s, q)
    BY <1>20, <2>1 DEF HandleHttpRequest
  <2>3. Handler(s, q) = PutAudioRecData(s, q)
    BY <1>20 DEF Handler
  <2>4. QED
    BY <1>20, <2>2, <2>3 DEF Serves
<1>21. CASE q.url = "audio_rec/footer" /\ q.m = "PUT"
  <2>1. Row[Key(q.url, q.m)] # 0
    BY <1>21, RequestsAreFound
  <2>2. HandleHttpRequest(s, q) = Handler(s, q)
    BY <1>21, <2>1 DEF HandleHttpRequest
  <2>3. Handler(s, q) = PutAudioRecFooter(s, q)
    BY <1>21 DEF Handler
  <2>4. QED
    BY <1>21, <2>2, <2>3 DEF Serves
<1>22. CASE \/ q.url = "client_states"
            \/ q.url = "forms" /\ q.m \in {"GET", "PUT"}
  BY <1>22 DEF Serves, HandleHttpRequest
<1>23. QED
  BY <1>1, <1>2, <1>3, <1>4, <1>5, <1>6, <1>7, <1>8, <1>9, <1>10, <1>11,
       <1>12, <1>13, <1>14, <1>15, <1>16, <1>17, <1>18, <1>19, <1>20, <1>21,
       <1>22 DEF IsRequest

\* A list of one entry is set by one call.
LEMMA OneEntryIsSet ==
    ASSUME NEW s, NEW body, DOMAIN body = {1}
    PROVE  FoldLeft(SetEntry, s, body) = SetEntry(s, body[1])
<1> DEFINE iter == CHOOSE f : f = [S \in SUBSET (DOMAIN body) |->
                     IF S = {} THEN s
                     ELSE SetEntry(f[S \ {Max(S)}], body[Max(S)])]
           g == [S \in SUBSET {1} |->
                   IF S = {} THEN s ELSE SetEntry(s, body[1])]
<1>1. FoldLeft(SetEntry, s, body) = iter[DOMAIN body]
  BY DEF FoldLeft, MapThenFoldSet
<1>2. Max({1}) = 1
  BY DEF Max
<1>3. g = [S \in SUBSET (DOMAIN body) |->
             IF S = {} THEN s ELSE SetEntry(g[S \ {Max(S)}], body[Max(S)])]
  <2>1. SUBSET {1} = {{}, {1}}
    OBVIOUS
  <2>2. \A S \in SUBSET {1} :
          S # {} => S = {1} /\ Max(S) = 1 /\ S \ {Max(S)} = {}
    BY <1>2
  <2>3. g[{}] = s
    OBVIOUS
  <2>4. \A S \in SUBSET {1} : S # {} => g[S \ {Max(S)}] = s
    BY <2>2, <2>3
  <2>5. QED
    BY <2>2, <2>4
<1>4. iter = [S \in SUBSET (DOMAIN body) |->
                IF S = {} THEN s
                ELSE SetEntry(iter[S \ {Max(S)}], body[Max(S)])]
  <2> HIDE DEF g
  <2>1. QED
    BY <1>3
<1> HIDE DEF iter
<1>5. QED
  <2>1. {1} \in SUBSET {1} /\ {} \in SUBSET {1} /\ {1} \ {1} = {} /\ {1} # {}
    OBVIOUS
  <2>2. iter[{}] = s
    BY <1>4, <2>1
  <2>3. iter[{1}] = SetEntry(iter[{}], body[1])
    BY <1>4, <1>2, <2>1
  <2>4. QED
    BY <1>1, <2>2, <2>3

-----------------------------------------------------------------------------
(* What handlers do to the store. *)

\* A store: its parts, sessions with ids that were handed out, and recordings
\* of calls.
IsStore(s) ==
    /\ DOMAIN s = {"val", "sessions", "nextId", "rec", "file", "done"}
    /\ DOMAIN s.val = {"speed", "route", "text", "busy", "progress"}
    /\ s.nextId \in Nat \ {0} /\ s.sessions \subseteq 1..(s.nextId - 1)
    /\ s.rec \in Seq(Nat) /\ s.done \subseteq Seq(Nat)

\* The session id of an answer was handed out.
IdsWereGiven(data, s) ==
    \A i \in DOMAIN data :
      data[i].n = "SessionId" => data[i].x \in 1..(s.nextId - 1)

\* An answer belongs to the store: only a success brings data, only a HEAD is
\* forbidden, nothing is left unimplemented, and a session was handed out.
Belongs(s, q, rsp) ==
    /\ IsStore(rsp.store) /\ s.nextId <= rsp.store.nextId
    /\ rsp.code \in {200, 201, 400, 403, 404, 507}
    /\ rsp.code = 403 => q.m = "HEAD"
    /\ rsp.data # <<>> => rsp.code = 200
    /\ IdsWereGiven(rsp.data, rsp.store)

\* It leaves the recordings alone.
KeepsRecordings(s, rsp) == rsp.store.rec = s.rec /\ rsp.store.done = s.done

\* It leaves the mailboxes alone.
KeepsMailboxes(s, rsp) ==
    /\ rsp.store.val["route"] = s.val["route"]
    /\ rsp.store.val["text"] = s.val["text"]

\* It belongs to the store and leaves both alone.
Harmless(s, q, rsp) ==
    Belongs(s, q, rsp) /\ KeepsRecordings(s, rsp) /\ KeepsMailboxes(s, rsp)

\* An answer that changes nothing.
LEMMA AnswerOnly ==
    ASSUME NEW s, IsStore(s), NEW q, NEW data,
           NEW code \in {200, 400, 404, 507},
           data # <<>> => code = 200,
           \A i \in DOMAIN data : data[i].n # "SessionId"
    PROVE  Harmless(s, q, Rsp(s, code, data))
<1>1. s.nextId \in Nat
  BY DEF IsStore
<1> DEFINE rsp == Rsp(s, code, data)
<1>2. rsp.store = s /\ rsp.code = code /\ rsp.data = data
  BY DEF Rsp
<1> HIDE DEF rsp
<1>3. Harmless(s, q, rsp)
  BY <1>1, <1>2 DEF Harmless, Belongs, KeepsRecordings, KeepsMailboxes,
                    IdsWereGiven
<1>4. QED
  BY <1>3 DEF rsp

\* A refusal changes nothing.
LEMMA RefusalOnly ==
    ASSUME NEW s, IsStore(s), NEW q, NEW code \in {400, 404, 507}
    PROVE  Harmless(s, q, Refuse(s, code))
<1> DEFINE data == <<>>
<1>1. data = <<>> /\ \A i \in DOMAIN data : data[i].n # "SessionId"
  OBVIOUS
<1> HIDE DEF data
<1>2. Harmless(s, q, Rsp(s, code, data))
  BY <1>1, AnswerOnly
<1>3. QED
  BY <1>1, <1>2 DEF Refuse

\* A success without data, whose store may differ.
LEMMA ChangeOnly ==
    ASSUME NEW s, IsStore(s), NEW q, NEW after, IsStore(after),
           s.nextId <= after.nextId, NEW code \in {200, 201, 400, 507}
    PROVE  LET rsp == Rsp(after, code, <<>>)
           IN  /\ Belongs(s, q, rsp)
               /\ after.rec = s.rec /\ after.done = s.done =>
                    KeepsRecordings(s, rsp)
               /\ /\ after.val["route"] = s.val["route"]
                  /\ after.val["text"] = s.val["text"]
                  => KeepsMailboxes(s, rsp)
<1> DEFINE rsp == Rsp(after, code, <<>>)
<1>1. rsp.store = after /\ rsp.code = code /\ rsp.data = <<>>
  BY DEF Rsp
<1>2. IdsWereGiven(<<>>, after)
  BY DEF IdsWereGiven
<1> HIDE DEF rsp
<1>3. Belongs(s, q, rsp)
  BY <1>1, <1>2 DEF Belongs
<1>4. QED
  BY <1>1, <1>3 DEF KeepsRecordings, KeepsMailboxes, rsp

\* The values of variables: data are called so.
LEMMA PostVarValueIs ==
    ASSUME NEW s, IsStore(s), NEW q, NEW names
    PROVE  Harmless(s, q, PostVarValue(s, q, names))
<1>1. CASE q.body = <<>> \/ \E i \in DOMAIN q.body : q.body[i].n \notin names
  <2>1. PostVarValue(s, q, names) = Refuse(s, 400)
    BY <1>1 DEF PostVarValue
  <2>2. QED
    BY <2>1, RefusalOnly
<1>2. CASE ~(\/ q.body = <<>>
             \/ \E i \in DOMAIN q.body : q.body[i].n \notin names)
  <2> DEFINE data == [i \in DOMAIN q.body |-> OnFormatValue(s, q.body[i].n)]
  <2>1. PostVarValue(s, q, names) = Rsp(s, 200, data)
    BY <1>2, SMTT(30) DEF PostVarValue
  <2>2. \A i \in DOMAIN data : data[i].n = "Data"
    BY DEF OnFormatValue, Member
  <2> HIDE DEF data
  <2>3. QED
    BY <2>1, <2>2, AnswerOnly
<1>3. QED
  BY <1>1, <1>2

\* The meta data of variables.
LEMMA PostVarMetaIs ==
    ASSUME NEW s, IsStore(s), NEW q, NEW names
    PROVE  Harmless(s, q, PostVarMeta(s, q, names))
<1>1. CASE \E i \in DOMAIN q.body : ~FindVariable(names, q.body[i].n)
  <2>1. PostVarMeta(s, q, names) = Refuse(s, 400)
    BY <1>1 DEF PostVarMeta
  <2>2. QED
    BY <2>1, RefusalOnly
<1>2. CASE ~\E i \in DOMAIN q.body : ~FindVariable(names, q.body[i].n)
  <2> DEFINE data == [i \in DOMAIN q.body |-> Member("MetaData", "obj", 0)]
  <2>1. PostVarMeta(s, q, names) = Rsp(s, 200, data)
    BY <1>2 DEF PostVarMeta
  <2>2. \A i \in DOMAIN data : data[i].n = "MetaData"
    BY DEF Member
  <2> HIDE DEF data
  <2>3. QED
    BY <2>1, <2>2, AnswerOnly
<1>3. QED
  BY <1>1, <1>2

\* The list of names.
LEMMA GetVarListIs ==
    ASSUME NEW s, IsStore(s), NEW q, NEW names
    PROVE  Harmless(s, q, GetVarList(s, names))
<1> DEFINE data == <<Member("VarList", "arr", Cardinality(names))>>
<1>1. GetVarList(s, names) = Rsp(s, 200, data)
  BY DEF GetVarList
<1>2. \A i \in DOMAIN data : data[i].n = "VarList"
  BY DEF Member
<1> HIDE DEF data
<1>3. QED
  BY <1>1, <1>2, AnswerOnly

\* What is known of the server itself.
LEMMA InfoIs ==
    ASSUME NEW s, IsStore(s), NEW q, NEW names,
           \A i \in DOMAIN names : names[i] # "SessionId"
    PROVE  Harmless(s, q, Info(s, names))
<1> DEFINE data == [i \in DOMAIN names |-> Member(names[i], "str", 1)]
<1>1. Info(s, names) = Rsp(s, 200, data)
  BY DEF Info
<1>2. \A i \in DOMAIN data : data[i].n # "SessionId"
  BY DEF Member
<1> HIDE DEF data
<1>3. QED
  BY <1>1, <1>2, AnswerOnly

\* Each of the answers about the server.
LEMMA InfosAre ==
    ASSUME NEW s, IsStore(s), NEW q
    PROVE  /\ Harmless(s, q, GetServerInfo(s))
           /\ Harmless(s, q, GetStorageInfo(s))
           /\ Harmless(s, q, GetCurrentTime(s))
           /\ Harmless(s, q, GetClientAddress(s))
           /\ Harmless(s, q, InterfaceStatistic(s))
<1>1. Harmless(s, q, GetServerInfo(s))
  <2> DEFINE names == <<"Protocol", "IfVersion", "FwVersion", "Name", "Type",
                        "DescUrl">>
  <2>1. \A i \in DOMAIN names : names[i] # "SessionId"
    OBVIOUS
  <2>2. GetServerInfo(s) = Info(s, names)
    BY DEF GetServerInfo
  <2> HIDE DEF names
  <2>3. QED
    BY <2>1, <2>2, InfoIs
<1>2. Harmless(s, q, GetStorageInfo(s))
  <2> DEFINE names == <<"Total", "Free">>
  <2>1. \A i \in DOMAIN names : names[i] # "SessionId"
    OBVIOUS
  <2>2. GetStorageInfo(s) = Info(s, names)
    BY DEF GetStorageInfo
  <2> HIDE DEF names
  <2>3. QED
    BY <2>1, <2>2, InfoIs
<1>3. Harmless(s, q, GetCurrentTime(s))
  <2> DEFINE names == <<"CurrentTime">>
  <2>1. \A i \in DOMAIN names : names[i] # "SessionId"
    OBVIOUS
  <2>2. GetCurrentTime(s) = Info(s, names)
    BY DEF GetCurrentTime
  <2> HIDE DEF names
  <2>3. QED
    BY <2>1, <2>2, InfoIs
<1>4. Harmless(s, q, GetClientAddress(s))
  <2> DEFINE names == <<"ClientAddress">>
  <2>1. \A i \in DOMAIN names : names[i] # "SessionId"
    OBVIOUS
  <2>2. GetClientAddress(s) = Info(s, names)
    BY DEF GetClientAddress
  <2> HIDE DEF names
  <2>3. QED
    BY <2>1, <2>2, InfoIs
<1>5. Harmless(s, q, InterfaceStatistic(s))
  <2> DEFINE names == <<"Statistics">>
  <2>1. \A i \in DOMAIN names : names[i] # "SessionId"
    OBVIOUS
  <2>2. InterfaceStatistic(s) = Info(s, names)
    BY DEF InterfaceStatistic
  <2> HIDE DEF names
  <2>3. QED
    BY <2>1, <2>2, InfoIs
<1>6. QED
  BY <1>1, <1>2, <1>3, <1>4, <1>5

\* The form, and one that is sent back.
LEMMA FormsAre ==
    ASSUME NEW s, IsStore(s), NEW q
    PROVE  Harmless(s, q, GetForm(s)) /\ Harmless(s, q, PutForm(s))
<1>1. Harmless(s, q, GetForm(s))
  <2>1. \A i \in DOMAIN OnFormGet : OnFormGet[i].n # "SessionId"
    <3>1. DOMAIN OnFormGet = 1..7
      BY DEF OnFormGet
    <3>2. \A i \in 1..7 : OnFormGet[i].n # "SessionId"
      BY DEF OnFormGet, Member
    <3>3. QED
      BY <3>1, <3>2
  <2>2. GetForm(s) = Rsp(s, 200, OnFormGet)
    BY DEF GetForm
  <2>3. QED
    BY <2>1, <2>2, AnswerOnly
<1>2. Harmless(s, q, PutForm(s))
  <2> DEFINE data == <<>>
  <2>1. data = <<>> /\ \A i \in DOMAIN data : data[i].n # "SessionId"
    OBVIOUS
  <2>2. PutForm(s) = Rsp(s, 200, data)
    BY DEF PutForm, OnFormPut
  <2> HIDE DEF data
  <2>3. QED
    BY <2>1, <2>2, AnswerOnly
<1>3. QED
  BY <1>1, <1>2

\* What a client has to know of its firmware.
LEMMA FirmwareInfoIs ==
    ASSUME NEW s, IsStore(s), NEW q
    PROVE  Harmless(s, q, PostFirmwareInfo(s, q))
<1>1. CASE ~Has(q.body, "Class") \/ ~Has(q.body, "Type")
  <2>1. PostFirmwareInfo(s, q) = Refuse(s, 400)
    BY <1>1 DEF PostFirmwareInfo
  <2>2. QED
    BY <2>1, RefusalOnly
<1>2. CASE ~(~Has(q.body, "Class") \/ ~Has(q.body, "Type"))
  <2> DEFINE type == Field(q.body, "Type").x
             data == <<Member("Images", "arr", 0)>>
                       \o OnGetClientFirmwareInfo(type)
  <2>1. PostFirmwareInfo(s, q) = Rsp(s, 200, data)
    BY <1>2 DEF PostFirmwareInfo
  <2> HIDE DEF type
  <2>2. \A i \in DOMAIN data : data[i].n # "SessionId"
    <3>1. CASE type = 1
      BY <3>1 DEF OnGetClientFirmwareInfo, Member
    <3>2. CASE type # 1
      BY <3>2 DEF OnGetClientFirmwareInfo, Member
    <3>3. QED
      BY <3>1, <3>2
  <2> HIDE DEF data
  <2>3. QED
    BY <2>1, <2>2, AnswerOnly
<1>3. QED
  BY <1>1, <1>2

\* And of its configuration.
LEMMA ConfigInfoIs ==
    ASSUME NEW s, IsStore(s), NEW q
    PROVE  Harmless(s, q, PostClientConfigInfo(s, q))
<1>1. CASE \E f \in {"Class", "Type", "Serial"} : ~Has(q.body, f)
  <2>1. PostClientConfigInfo(s, q) = Refuse(s, 400)
    BY <1>1 DEF PostClientConfigInfo
  <2>2. QED
    BY <2>1, RefusalOnly
<1>2. CASE ~\E f \in {"Class", "Type", "Serial"} : ~Has(q.body, f)
  <2> DEFINE type == Field(q.body, "Type").x
             data == OnGetClientConfigInfo(type)
  <2>1. PostClientConfigInfo(s, q) = Rsp(s, 200, data)
    BY <1>2 DEF PostClientConfigInfo
  <2> HIDE DEF type
  <2>2. \A i \in DOMAIN data : data[i].n # "SessionId"
    <3>1. CASE type = 1
      BY <3>1 DEF OnGetClientConfigInfo, Member
    <3>2. CASE type # 1
      BY <3>2 DEF OnGetClientConfigInfo, Member
    <3>3. QED
      BY <3>1, <3>2
  <2> HIDE DEF data
  <2>3. QED
    BY <2>1, <2>2, AnswerOnly
<1>3. QED
  BY <1>1, <1>2

\* The file of a client.
LEMMA FileRequestIs ==
    ASSUME NEW s, IsStore(s), NEW q, q.m \in {"GET", "PUT", "HEAD"}
    PROVE  Harmless(s, q, HandleFileRequest(s, q))
<1>1. CASE q.m = "GET"
  <2>1. CASE s.file = {}
    BY <1>1, <2>1, RefusalOnly DEF HandleFileRequest
  <2>2. CASE s.file # {}
    <3> DEFINE file == Member("", "file", 1)
               data == <<file>>
    <3>1. HandleFileRequest(s, q) = Rsp(s, 200, data)
      BY <1>1, <2>2 DEF HandleFileRequest
    <3>2. file.n # "SessionId"
      BY DEF Member
    <3> HIDE DEF file
    <3>3. \A i \in DOMAIN data : data[i].n # "SessionId"
      BY <3>2
    <3> HIDE DEF data
    <3>4. QED
      BY <3>1, <3>3, AnswerOnly
  <2>3. QED
    BY <2>1, <2>2
<1>2. CASE q.m = "PUT"
  <2> DEFINE after == [s EXCEPT !.file = {q.call}]
  <2>1. HandleFileRequest(s, q) = Rsp(after, 201, <<>>)
    BY <1>2 DEF HandleFileRequest
  <2>2. /\ IsStore(after) /\ after.nextId = s.nextId /\ after.rec = s.rec
        /\ after.done = s.done /\ after.val = s.val
    BY DEF IsStore
  <2>3. s.nextId \in Nat
    BY DEF IsStore
  <2> HIDE DEF after
  <2>4. QED
    BY <2>1, <2>2, <2>3, ChangeOnly DEF Harmless
<1>3. CASE q.m = "HEAD"
  <2>1. HandleFileRequest(s, q) = Refuse(s, 403)
    BY <1>3 DEF HandleFileRequest
  <2> DEFINE rsp == Refuse(s, 403)
  <2>2. rsp.store = s /\ rsp.code = 403 /\ rsp.data = <<>>
    BY DEF Refuse, Rsp
  <2>3. IdsWereGiven(<<>>, s)
    BY DEF IdsWereGiven
  <2>4. s.nextId \in Nat
    BY DEF IsStore
  <2> HIDE DEF rsp
  <2>5. Harmless(s, q, rsp)
    BY <1>3, <2>2, <2>3, <2>4
       DEF Harmless, Belongs, KeepsRecordings, KeepsMailboxes
  <2>6. QED
    BY <2>1, <2>5 DEF rsp
<1>4. QED
  BY <1>1, <1>2, <1>3

\* A session that is made has the next id.
LEMMA PostSessionIs ==
    ASSUME NEW s, IsStore(s), NEW q
    PROVE  Harmless(s, q, PostSession(s, q))
<1>1. CASE ~Has(q.body, "Class") \/ ~Has(q.body, "Type")
  <2>1. PostSession(s, q) = Refuse(s, 400)
    BY <1>1 DEF PostSession
  <2>2. QED
    BY <2>1, RefusalOnly
<1>2. CASE ~(~Has(q.body, "Class") \/ ~Has(q.body, "Type"))
  <2> DEFINE after == [s EXCEPT !.sessions = @ \cup {s.nextId},
                                !.nextId = @ + 1]
             data == <<Member("SessionId", "num", s.nextId)>>
             rsp == PostSession(s, q)
  <2>1. rsp.store = after /\ rsp.code = 200 /\ rsp.data = data
    BY <1>2 DEF PostSession, Rsp
  <2>2. s.nextId \in Nat \ {0} /\ s.sessions \subseteq 1..(s.nextId - 1)
    BY DEF IsStore
  <2>3. /\ after.nextId = s.nextId + 1
        /\ after.sessions = s.sessions \cup {s.nextId}
        /\ after.rec = s.rec /\ after.done = s.done /\ after.val = s.val
        /\ DOMAIN after = DOMAIN s
    BY DEF IsStore
  <2>4. \A i \in DOMAIN data : data[i].x = s.nextId
    BY DEF Member
  <2> HIDE DEF data, after, rsp
  <2>5. IsStore(after)
    BY <2>2, <2>3 DEF IsStore
  <2>6. IdsWereGiven(data, after)
    BY <2>2, <2>3, <2>4 DEF IdsWereGiven
  <2>7. Harmless(s, q, rsp)
    BY <2>1, <2>2, <2>3, <2>5, <2>6
       DEF Harmless, Belongs, KeepsRecordings, KeepsMailboxes
  <2>8. QED
    BY <2>7 DEF rsp
<1>3. QED
  BY <1>1, <1>2

\* A session is deleted.
LEMMA DeleteSessionIs ==
    ASSUME NEW s, IsStore(s), NEW q
    PROVE  Harmless(s, q, DeleteSession(s, q))
<1>1. CASE q.as \notin s.sessions
  <2>1. DeleteSession(s, q) = Refuse(s, 400)
    BY <1>1 DEF DeleteSession
  <2>2. QED
    BY <2>1, RefusalOnly
<1>2. CASE q.as \in s.sessions
  <2> DEFINE after == [s EXCEPT !.sessions = @ \ {q.as}]
  <2>1. DeleteSession(s, q) = Rsp(after, 200, <<>>)
    BY <1>2 DEF DeleteSession
  <2>2. /\ after.nextId = s.nextId /\ after.rec = s.rec
        /\ after.done = s.done /\ after.val = s.val
    BY DEF IsStore
  <2>3. IsStore(after)
    BY DEF IsStore
  <2>4. s.nextId <= after.nextId
    BY <2>2 DEF IsStore
  <2> HIDE DEF after
  <2>5. ASSUME NEW code \in {200, 201, 400, 507}
        PROVE  Harmless(s, q, Rsp(after, code, <<>>))
    <3>1. /\ Belongs(s, q, Rsp(after, code, <<>>))
          /\ after.rec = s.rec /\ after.done = s.done =>
               KeepsRecordings(s, Rsp(after, code, <<>>))
          /\ after.val["route"] = s.val["route"]
               /\ after.val["text"] = s.val["text"] =>
               KeepsMailboxes(s, Rsp(after, code, <<>>))
      BY <2>3, <2>4, ChangeOnly
    <3>2. QED
      BY <2>2, <3>1 DEF Harmless
  <2>6. QED
    BY <2>1, <2>5
<1>3. QED
  BY <1>1, <1>2

\* An event of a client may start a transfer.
LEMMA PutClientEventIs ==
    ASSUME NEW s, IsStore(s), NEW q
    PROVE  Harmless(s, q, PutClientEvent(s, q))
<1>1. CASE ~Has(q.body, "Sender") \/ ~Has(q.body, "Type")
  <2>1. PutClientEvent(s, q) = Refuse(s, 400)
    BY <1>1 DEF PutClientEvent
  <2>2. QED
    BY <2>1, RefusalOnly
<1>2. CASE ~(~Has(q.body, "Sender") \/ ~Has(q.body, "Type"))
  <2> DEFINE type == Field(q.body, "Type").t
             after == OnClientEvent(s, type)
  <2>1. PutClientEvent(s, q) = Rsp(after, 200, <<>>)
    BY <1>2 DEF PutClientEvent
  <2>2. s.nextId \in Nat
    BY DEF IsStore
  <2> HIDE DEF type
  <2>3. /\ IsStore(after) /\ after.nextId = s.nextId /\ after.rec = s.rec
        /\ after.done = s.done /\ after.val["route"] = s.val["route"]
        /\ after.val["text"] = s.val["text"]
    BY DEF IsStore, OnClientEvent
  <2> HIDE DEF after
  <2>4. QED
    BY <2>1, <2>2, <2>3, ChangeOnly DEF Harmless
<1>3. QED
  BY <1>1, <1>2

\* A list of one known entry sets it.
LEMMA PutOneValue ==
    ASSUME NEW s, NEW q, NEW names, NEW e, q.body = <<e>>, e.n \in names
    PROVE  PutVarValue(s, q, names) = Rsp(SetEntry(s, e), 200, <<>>)
<1> DEFINE Unknown(i) ==
             Complete(q.body[i]) /\ ~FindVariable(names, q.body[i].n)
           good == {i \in DOMAIN q.body : \A j \in 1..i : ~Unknown(j)}
           after == FoldLeft(SetEntry, s, SubSeq(q.body, 1, Cardinality(good)))
<1>1. PutVarValue(s, q, names) =
        IF q.body = <<>> \/ Cardinality(good) < Len(q.body)
        THEN Refuse(after, 400) ELSE Rsp(after, 200, <<>>)
  BY DEF PutVarValue
<1>2. /\ DOMAIN q.body = {1} /\ q.body[1] = e /\ Len(q.body) = 1
      /\ q.body # <<>>
  <2>1. DOMAIN <<e>> = 1..1 /\ <<e>>[1] = e /\ Len(<<e>>) = 1 /\ <<e>> # <<>>
    OBVIOUS
  <2>2. 1..1 = {1}
    OBVIOUS
  <2>3. QED
    BY <2>1, <2>2
<1>3. good = {1}
  <2>1. ~Unknown(1)
    BY <1>2 DEF FindVariable
  <2>2. \A j \in 1..1 : j = 1
    OBVIOUS
  <2> HIDE DEF Unknown
  <2>3. QED
    BY <2>1, <2>2, <1>2
<1>4. Cardinality(good) = 1
  BY <1>3, FS_Singleton
<1> HIDE DEF good
<1>5. after = SetEntry(s, e)
  <2> DEFINE body == SubSeq(q.body, 1, Cardinality(good))
  <2>1. body = SubSeq(<<e>>, 1, 1)
    BY <1>4
  <2>2. DOMAIN body = {1} /\ body[1] = e
    <3> DEFINE one == <<e>>
    <3>1. one[1] = e /\ \A i \in 1..1 : one[i] \in {e}
      OBVIOUS
    <3> HIDE DEF one
    <3>2. /\ SubSeq(one, 1, 1) \in Seq({e})
          /\ Len(SubSeq(one, 1, 1)) = IF 1 <= 1 THEN 1 - 1 + 1 ELSE 0
          /\ \A i \in 1..(1 - 1 + 1) : SubSeq(one, 1, 1)[i] = one[1 + i - 1]
      BY <3>1, SubSeqProperties
    <3>3. body = SubSeq(one, 1, 1)
      BY <2>1 DEF one
    <3> HIDE DEF body
    <3>4. Len(body) = 1 /\ body[1] = e
      BY <3>1, <3>2, <3>3
    <3>5. DOMAIN body = 1..1
      BY <3>2, <3>3, <3>4, LenProperties
    <3>6. QED
      BY <3>4, <3>5
  <2>3. after = FoldLeft(SetEntry, s, body)
    OBVIOUS
  <2> HIDE DEF body, after
  <2>4. QED
    BY <2>2, <2>3, OneEntryIsSet
<1> HIDE DEF after
<1>6. QED
  BY <1>1, <1>2, <1>4, <1>5

\* Setting the variable leaves the mailboxes alone.
LEMMA PutVariableIs ==
    ASSUME NEW s, IsStore(s), NEW q, q.body \in Speeds
    PROVE  Harmless(s, q, PutVarValue(s, q, Variables))
<1>1. PICK type \in {"num", "bool", "str"} :
        q.body = <<Member("speed", type, 1)>>
  BY DEF Speeds
<1> DEFINE e == Member("speed", type, 1)
           after == SetEntry(s, e)
<1>2. e.n = "speed" /\ e.t = type /\ e.x = 1
  BY DEF Member
<1>3. q.body = <<e>>
  BY <1>1
<1> HIDE DEF e
<1>4. PutVarValue(s, q, Variables) = Rsp(after, 200, <<>>)
  BY <1>2, <1>3, PutOneValue DEF Variables
<1>5. /\ IsStore(after) /\ after.nextId = s.nextId /\ after.rec = s.rec
      /\ after.done = s.done /\ after.val["route"] = s.val["route"]
      /\ after.val["text"] = s.val["text"]
  <2>1. CASE type = "num"
    <3>1. after = [s EXCEPT !.val["speed"] = [t |-> "num", x |-> 1]]
      BY <1>2, <2>1 DEF SetEntry, Complete, OnSetNumber
    <3> HIDE DEF after
    <3>2. QED
      BY <3>1 DEF IsStore
  <2>2. CASE type = "str"
    <3>1. after = s \/ after = [s EXCEPT !.val["speed"].x = 1]
      BY <1>2, <2>2 DEF SetEntry, Complete, OnSetString
    <3> HIDE DEF after
    <3>2. QED
      BY <3>1 DEF IsStore
  <2>3. CASE type = "bool"
    <3>1. after = s
      BY <1>2, <2>3 DEF SetEntry, Complete
    <3> HIDE DEF after
    <3>2. QED
      BY <3>1
  <2>4. QED
    BY <2>1, <2>2, <2>3
<1>6. s.nextId \in Nat
  BY DEF IsStore
<1> HIDE DEF after
<1>7. QED
  BY <1>4, <1>5, <1>6, ChangeOnly DEF Harmless

\* What a mailbox shows of a list that was set.
Shows(s, entries) ==
    \A i \in DOMAIN entries :
      entries[i].n \in {"route", "text"} =>
        s.val[entries[i].n] = [t |-> entries[i].t, x |-> entries[i].x]

\* Setting a mailbox is done, and shows.
LEMMA PutMailboxIs ==
    ASSUME NEW s, IsStore(s), NEW q, q.body \in Entries
    PROVE  LET rsp == PutVarValue(s, q, Mailboxes)
           IN  /\ Belongs(s, q, rsp) /\ KeepsRecordings(s, rsp)
               /\ Shows(rsp.store, q.body)
<1>1. PICK n \in {1, 2} : q.body = <<Member("route", "num", n)>>
  BY DEF Entries
<1> DEFINE e == Member("route", "num", n)
           after == SetEntry(s, e)
           rsp == PutVarValue(s, q, Mailboxes)
<1>2. e.n = "route" /\ e.t = "num" /\ e.x = n
  BY DEF Member
<1>3. q.body = <<e>>
  BY <1>1
<1> HIDE DEF e
<1>4. rsp = Rsp(after, 200, <<>>)
  BY <1>2, <1>3, PutOneValue DEF Mailboxes
<1>5. after = [s EXCEPT !.val["route"] = [t |-> "num", x |-> n]]
  BY <1>2 DEF SetEntry, Complete, OnSetNumber
<1> HIDE DEF after
<1>6. /\ IsStore(after) /\ after.nextId = s.nextId /\ after.rec = s.rec
      /\ after.done = s.done /\ after.val["route"] = [t |-> "num", x |-> n]
  BY <1>5 DEF IsStore
<1>7. s.nextId \in Nat
  BY DEF IsStore
<1>8. rsp.store = after
  BY <1>4 DEF Rsp
<1>9. Shows(after, <<e>>)
  BY <1>2, <1>6 DEF Shows
<1> HIDE DEF rsp
<1>10. /\ Belongs(s, q, rsp) /\ KeepsRecordings(s, rsp)
       /\ Shows(rsp.store, q.body)
  BY <1>3, <1>4, <1>6, <1>7, <1>8, <1>9, ChangeOnly
<1>11. QED
  BY <1>10 DEF rsp

\* What may become of the recordings: a call that is refused adds nothing,
\* one that is accepted adds itself at the end, or closes the recording.
Records(s, q, rsp) ==
    \/ KeepsRecordings(s, rsp)
    \/ rsp.store.rec = <<>> /\ rsp.store.done \subseteq s.done \cup {s.rec}
    \/ /\ rsp.code = 200 /\ rsp.store.done = s.done
       /\ rsp.store.rec \in {<<q.call>>, Append(s.rec, q.call)}

\* The header starts a recording.
LEMMA PutAudioRecHeaderIs ==
    ASSUME NEW s, IsStore(s), NEW q, q.call \in Nat
    PROVE  LET rsp == PutAudioRecHeader(s, q)
           IN  /\ Belongs(s, q, rsp) /\ KeepsMailboxes(s, rsp)
               /\ Records(s, q, rsp)
<1> DEFINE rsp == PutAudioRecHeader(s, q)
<1>1. CASE \E f \in {"ID", "SampleRate", "Channels", "Bits"} : ~Has(q.body, f)
  <2>1. PutAudioRecHeader(s, q) = Refuse(s, 400)
    BY <1>1 DEF PutAudioRecHeader
  <2>2. QED
    BY <2>1, RefusalOnly DEF Harmless, Records
<1>2. CASE ~\E f \in {"ID", "SampleRate", "Channels", "Bits"} : ~Has(q.body, f)
  <2> DEFINE fits == Field(q.body, "Bits").x \in {8, 16}
             after == OnAudioRecHeader(s, q.call, fits)
             code == IF fits THEN 200 ELSE 507
  <2>1. rsp = Rsp(after, code, <<>>)
    BY <1>2 DEF PutAudioRecHeader
  <2> HIDE DEF fits
  <2>2. after.rec = IF fits THEN <<q.call>> ELSE <<>>
    BY DEF OnAudioRecHeader, IsStore
  <2>3. /\ IsStore(after) /\ after.nextId = s.nextId /\ after.done = s.done
        /\ after.val = s.val
    <3>1. <<q.call>> \in Seq(Nat) /\ <<>> \in Seq(Nat)
      OBVIOUS
    <3>2. (IF fits THEN <<q.call>> ELSE <<>>) \in Seq(Nat)
      BY <3>1
    <3>3. QED
      BY <3>2 DEF IsStore, OnAudioRecHeader
  <2>4. s.nextId \in Nat
    BY DEF IsStore
  <2>5. rsp.store = after /\ rsp.code = code
    BY <2>1 DEF Rsp
  <2> HIDE DEF after, rsp
  <2>6. Belongs(s, q, rsp) /\ KeepsMailboxes(s, rsp)
    <3>1. code \in {200, 507}
      OBVIOUS
    <3> HIDE DEF code
    <3>2. Belongs(s, q, rsp)
      BY <2>1, <2>3, <2>4, <3>1, ChangeOnly
    <3>3. QED
      BY <2>3, <2>5, <3>2 DEF KeepsMailboxes
  <2>7. Records(s, q, rsp)
    BY <2>2, <2>3, <2>5 DEF Records
  <2>8. QED
    BY <2>6, <2>7 DEF rsp
<1>3. QED
  BY <1>1, <1>2

\* A chunk goes to the end of the recording.
LEMMA PutAudioRecDataIs ==
    ASSUME NEW s, IsStore(s), NEW q, q.call \in Nat
    PROVE  LET rsp == PutAudioRecData(s, q)
           IN  /\ Belongs(s, q, rsp) /\ KeepsMailboxes(s, rsp)
               /\ Records(s, q, rsp)
<1> DEFINE rsp == PutAudioRecData(s, q)
<1>1. CASE ~Has(q.body, "ID")
  <2>1. rsp = Refuse(s, 400)
    BY <1>1 DEF PutAudioRecData
  <2>2. QED
    BY <2>1, RefusalOnly DEF Harmless, Records
<1>2. CASE Has(q.body, "ID") /\ ~Has(q.body, "Data")
  <2>1. rsp = Rsp(s, 200, <<>>)
    BY <1>2 DEF PutAudioRecData
  <2>2. s.nextId \in Nat
    BY DEF IsStore
  <2>3. QED
    BY <2>1, <2>2, ChangeOnly, SMTT(30) DEF Records
<1>3. CASE Has(q.body, "ID") /\ Has(q.body, "Data") /\ s.rec = <<>>
  <2>1. rsp = Refuse(s, 507)
    BY <1>3 DEF PutAudioRecData
  <2>2. QED
    BY <2>1, RefusalOnly DEF Harmless, Records
<1>4. CASE Has(q.body, "ID") /\ Has(q.body, "Data") /\ s.rec # <<>>
  <2> DEFINE after == OnAudioRecData(s, q.call)
  <2>1. rsp = Rsp(after, 200, <<>>)
    BY <1>4 DEF PutAudioRecData
  <2>2. /\ IsStore(after) /\ after.nextId = s.nextId /\ after.done = s.done
        /\ after.val = s.val /\ after.rec = Append(s.rec, q.call)
    <3>1. Append(s.rec, q.call) \in Seq(Nat)
      BY DEF IsStore
    <3>2. QED
      BY <3>1 DEF IsStore, OnAudioRecData
  <2>3. s.nextId \in Nat
    BY DEF IsStore
  <2>4. rsp.store = after /\ rsp.code = 200
    BY <2>1 DEF Rsp
  <2> HIDE DEF after, rsp
  <2>5. Belongs(s, q, rsp) /\ KeepsMailboxes(s, rsp)
    <3>1. Belongs(s, q, rsp)
      BY <2>1, <2>2, <2>3, ChangeOnly
    <3>2. QED
      BY <2>2, <2>4, <3>1 DEF KeepsMailboxes
  <2>6. Records(s, q, rsp)
    BY <2>2, <2>4 DEF Records
  <2>7. QED
    BY <2>5, <2>6 DEF rsp
<1>5. QED
  BY <1>1, <1>2, <1>3, <1>4

\* The footer closes it.
LEMMA PutAudioRecFooterIs ==
    ASSUME NEW s, IsStore(s), NEW q
    PROVE  LET rsp == PutAudioRecFooter(s, q)
           IN  /\ Belongs(s, q, rsp) /\ KeepsMailboxes(s, rsp)
               /\ Records(s, q, rsp)
<1> DEFINE rsp == PutAudioRecFooter(s, q)
<1>1. CASE ~Has(q.body, "ID")
  <2>1. rsp = Refuse(s, 400)
    BY <1>1 DEF PutAudioRecFooter
  <2>2. QED
    BY <2>1, RefusalOnly DEF Harmless, Records
<1>2. CASE Has(q.body, "ID") /\ s.rec = <<>>
  <2>1. rsp = Refuse(s, 507)
    BY <1>2 DEF PutAudioRecFooter
  <2>2. QED
    BY <2>1, RefusalOnly DEF Harmless, Records
<1>3. CASE Has(q.body, "ID") /\ s.rec # <<>>
  <2> DEFINE after == OnAudioRecFooter(s)
  <2>1. rsp = Rsp(after, 200, <<>>)
    BY <1>3 DEF PutAudioRecFooter
  <2>2. /\ IsStore(after) /\ after.nextId = s.nextId /\ after.rec = <<>>
        /\ after.done = s.done \cup {s.rec} /\ after.val = s.val
    <3>1. <<>> \in Seq(Nat)
      OBVIOUS
    <3>2. QED
      BY <3>1 DEF IsStore, OnAudioRecFooter
  <2>3. s.nextId \in Nat
    BY DEF IsStore
  <2>4. rsp.store = after
    BY <2>1 DEF Rsp
  <2> HIDE DEF after, rsp
  <2>5. Belongs(s, q, rsp) /\ KeepsMailboxes(s, rsp)
    <3>1. Belongs(s, q, rsp)
      BY <2>1, <2>2, <2>3, ChangeOnly
    <3>2. QED
      BY <2>2, <2>4, <3>1 DEF KeepsMailboxes
  <2>6. Records(s, q, rsp)
    BY <2>2, <2>4 DEF Records
  <2>7. QED
    BY <2>5, <2>6 DEF rsp
<1>4. QED
  BY <1>1, <1>2, <1>3

-----------------------------------------------------------------------------
(* What the functions of the clients send, and what they make of the answer. *)

\* The request of each function.
Sends(p, op, m, url, body) ==
    \/ op = "ObtainSessionId" /\ m = "POST" /\ url = "session_id"
    \/ op = "DeleteSession" /\ m = "DELETE" /\ url = "session_id"
    \/ op = "GetCurrentServerTime" /\ m = "GET" /\ url = "current_time"
    \/ op = "GetStorageInfo" /\ m = "GET" /\ url = "storage_info"
    \/ op = "GetLastModified" /\ m = "HEAD" /\ url = "client_states"
       /\ p = "atl"
    \/ op = "SendEvent" /\ m = "PUT" /\ url = "client_event"
    \/ op = "SendButtonEvent" /\ m = "PUT" /\ url = "client_event"
    \/ op = "SendAlertConfirmEvent" /\ m = "PUT" /\ url = "client_event"
    \/ op = "SendAudioRecRejectEvent" /\ m = "PUT" /\ url = "client_event"
    \/ op = "GetVarValue" /\ m = "POST" /\ url = "var_value"
    \/ op = "GetMailboxValue" /\ m = "POST" /\ url = "mailbox_value"
    \/ op = "SetVarValue" /\ m = "PUT" /\ url = "var_value"
       /\ body \in Speeds
    \/ op = "SetMailboxValue" /\ m = "PUT" /\ url = "mailbox_value"
       /\ body \in Entries
    \/ op = "GetVarMeta" /\ m = "POST" /\ url = "var_meta"
    \/ op = "GetMailboxMeta" /\ m = "POST" /\ url = "mailbox_meta"
    \/ op = "GetVarList" /\ m = "GET" /\ url = "var_list"
    \/ op = "GetMailboxList" /\ m = "GET" /\ url = "mailbox_list"
    \/ op = "GetForm" /\ m = "GET" /\ url = "forms"
    \/ op = "SendForm" /\ m = "PUT" /\ url = "forms"
    \/ op = "GetClientState" /\ m = "GET" /\ url = "client_states"
    \/ op = "SetClientState" /\ m = "PUT" /\ url = "client_states"
    \/ op = "GetClientConfigInfo" /\ m = "POST" /\ url = "client_config/info"
    \/ op = "GetClientFirmwareInfo" /\ m = "POST" /\ url = "client_firmware"
    \/ op = "DownloadFile" /\ m = "GET" /\ url = "client_states"
    \/ op = "GetServerInfo" /\ m = "GET" /\ url = "server_info"
    \/ op = "SendAudioRecHeader" /\ m = "PUT" /\ url = "audio_rec/header"
    \/ op = "SendAudioRecData" /\ m = "PUT" /\ url = "audio_rec/data"
    \/ op = "SendAudioRecFooter" /\ m = "PUT" /\ url = "audio_rec/footer"
    \/ op = "GetInterfaceStatistics" /\ m = "GET"
       /\ url = "interface_statistic"
    \/ op = "GetClientAddress" /\ m = "GET" /\ url = "client_address"

\* A thread starts a call, or ends one.
Starts(t) ==
    \E op, m, url, body : /\ Sends(platform, op, m, url, body)
                          /\ Navigate(t, op, m, url, body)

\* The functions of the browser that have no result.
Unanswered == {"DeleteSession", "SendEvent", "SendForm", "SetClientState",
               "SetMailboxValue", "SetVarValue"}

\* The functions that record.
Recording == {"SendAudioRecHeader", "SendAudioRecData", "SendAudioRecFooter"}

\* Why a function may report success.
Justified(t, op, ok) ==
    /\ ok => \/ Success(t)
             \/ platform = "js" /\ op \in Unanswered
             \/ op = "GetLastModified" /\ Has(th[t].r.data, "Last-Modified")
             \/ platform = "boost" /\ op \in Recording /\ aux.code = 403
    /\ ok /\ op = "ObtainSessionId" => Has(Answer(t).data, "SessionId")

\* A thread returns from a function with a result it may report.
Ends(t) ==
    \E op : \E ok \in BOOLEAN : Justified(t, op, ok) /\ Return(t, op, ok)

\* The clients there are.
IsPlatform == platform \in {"atl", "boost", "js"}

\* A function that succeeds when its request does.
LEMMA BySuccess ==
    ASSUME IsPlatform, NEW t, NEW op, op # "ObtainSessionId",
           Return(t, op, Success(t))
    PROVE  Ends(t)
<1>1. \E ok \in BOOLEAN : ok = Success(t) /\ Return(t, op, ok)
  <2>1. \E ok \in BOOLEAN : ok = Success(t)
    BY DEF Success, AtlOk, SoupOk, AbkXhrAnswerSuccess, IsPlatform
  <2>2. QED
    BY <2>1, ZenonT(30)
<1>2. PICK ok \in BOOLEAN : ok = Success(t) /\ Return(t, op, ok)
  BY <1>1
<1>3. Justified(t, op, ok)
  BY <1>2 DEF Justified
<1>4. QED
  BY <1>2, <1>3, Zenon DEF Ends

\* One that needs members of the answer as well.
LEMMA ByDecodes ==
    ASSUME NEW t, NEW op, NEW names,
           op # "ObtainSessionId" \/ "SessionId" \in names,
           Return(t, op, Decodes(t, names))
    PROVE  Ends(t)
<1>1. \E ok \in BOOLEAN : Justified(t, op, ok) /\ Return(t, op, ok)
  BY DEF Justified, Decodes
<1>2. QED
  BY <1>1 DEF Ends

\* One that has no result, or always the same.
LEMMA ByItself ==
    ASSUME NEW t, NEW op,
           \/ Return(t, op, FALSE)
           \/ platform = "js" /\ op \in Unanswered /\ Return(t, op, TRUE)
    PROVE  Ends(t)
BY DEF Ends, Justified, Unanswered

\* One that records, or looks at the connection's last answer.
LEMMA ByConnection ==
    ASSUME NEW t, NEW op, op # "ObtainSessionId",
           \/ Return(t, op, Success(t) /\ aux.code = 200)
           \/ /\ platform = "boost" /\ op \in Recording
              /\ Return(t, op, Recorded(t))
    PROVE  Ends(t)
<1>1. CASE Return(t, op, Success(t) /\ aux.code = 200)
  <2>1. \E ok \in BOOLEAN : Justified(t, op, ok) /\ Return(t, op, ok)
    BY <1>1 DEF Justified
  <2>2. QED
    BY <2>1 DEF Ends
<1>2. CASE platform = "boost" /\ op \in Recording /\ Return(t, op, Recorded(t))
  <2>1. \E ok \in BOOLEAN : Justified(t, op, ok) /\ Return(t, op, ok)
    BY <1>2, ZenonT(30) DEF Justified, Recorded
  <2>2. QED
    BY <2>1 DEF Ends
<1>3. QED
  BY <1>1, <1>2

\* On Windows, a step of a function starts or ends its call.
LEMMA AtlCalls ==
    ASSUME IsPlatform, NEW t, AtlCall(t)
    PROVE  Starts(t) \/ Ends(t)
<1>1. CASE AtlObtainSessionId(t)
  BY <1>1, ByDecodes DEF AtlObtainSessionId, Call, Starts, Sends
<1>2. CASE AtlDeleteSession(t)
  BY <1>2, BySuccess DEF AtlDeleteSession, Call, Starts, Sends
<1>3. CASE AtlGetCurrentServerTime(t)
  BY <1>3, ByDecodes DEF AtlGetCurrentServerTime, Call, Starts, Sends
<1>4. CASE AtlGetStorageInfo(t)
  BY <1>4, ByDecodes DEF AtlGetStorageInfo, Call, Starts, Sends
<1>5. CASE AtlGetLastModified(t)
  <2>1. CASE Return(t, "GetLastModified",
                    /\ th[t].r.code # 0
                    /\ Has(th[t].r.data, "Last-Modified"))
    <3>1. \E ok \in BOOLEAN : /\ Justified(t, "GetLastModified", ok)
                              /\ Return(t, "GetLastModified", ok)
      BY <1>5, <2>1 DEF AtlGetLastModified, Call, Justified
    <3>2. QED
      BY <3>1 DEF Ends
  <2>2. QED
    BY <1>5, <2>1 DEF AtlGetLastModified, Call, Starts, Sends
<1>6. CASE AtlSendEvent(t)
  BY <1>6, BySuccess DEF AtlSendEvent, Call, Starts, Sends
<1>7. CASE AtlSendButtonEvent(t)
  BY <1>7, BySuccess DEF AtlSendButtonEvent, Call, Starts, Sends
<1>8. CASE AtlSendAlertConfirmEvent(t)
  BY <1>8, BySuccess DEF AtlSendAlertConfirmEvent, Call, Starts, Sends
<1>9. CASE AtlSendAudioRecRejectEvent(t)
  BY <1>9, BySuccess DEF AtlSendAudioRecRejectEvent, Call, Starts, Sends
<1>10. CASE AtlGetVarValue(t)
  BY <1>10, ByDecodes DEF AtlGetVarValue, Call, Starts, Sends
<1>11. CASE AtlGetMailboxValue(t)
  BY <1>11, ByDecodes DEF AtlGetMailboxValue, Call, Starts, Sends
<1>12. CASE AtlSetVarValue(t)
  BY <1>12, BySuccess DEF AtlSetVarValue, Call, Starts, Sends
<1>13. CASE AtlSetMailboxValue(t)
  BY <1>13, BySuccess DEF AtlSetMailboxValue, Call, Starts, Sends
<1>14. CASE AtlGetVarMeta(t)
  BY <1>14, BySuccess DEF AtlGetVarMeta, Call, Starts, Sends
<1>15. CASE AtlGetMailboxMeta(t)
  BY <1>15, BySuccess DEF AtlGetMailboxMeta, Call, Starts, Sends
<1>16. CASE AtlGetVarList(t)
  BY <1>16, ByDecodes DEF AtlGetVarList, Call, Starts, Sends
<1>17. CASE AtlGetMailboxList(t)
  BY <1>17, ByDecodes DEF AtlGetMailboxList, Call, Starts, Sends
<1>18. CASE AtlGetForm(t)
  BY <1>18, ByDecodes DEF AtlGetForm, Call, Starts, Sends
<1>19. CASE AtlSendForm(t)
  BY <1>19, BySuccess DEF AtlSendForm, Call, Starts, Sends
<1>20. CASE AtlGetClientState(t)
  BY <1>20, ByConnection DEF AtlGetClientState, Call, Starts, Sends
<1>21. CASE AtlSetClientState(t)
  BY <1>21, ByItself DEF AtlSetClientState, Call, Starts, Sends
<1>22. CASE AtlGetClientConfigInfo(t)
  <2>1. CASE Return(t, "GetClientConfigInfo", ConfigDecodes(t))
    <3>1. \E ok \in BOOLEAN : /\ Justified(t, "GetClientConfigInfo", ok)
                              /\ Return(t, "GetClientConfigInfo", ok)
      BY <1>22, <2>1 DEF AtlGetClientConfigInfo, Call, Justified,
           ConfigDecodes, Decodes
    <3>2. QED
      BY <3>1 DEF Ends
  <2>2. QED
    BY <1>22, <2>1 DEF AtlGetClientConfigInfo, Call, Starts, Sends
<1>23. CASE AtlGetClientFirmwareInfo(t)
  <2>1. CASE Return(t, "GetClientFirmwareInfo", FirmwareDecodes(t))
    <3>1. \E ok \in BOOLEAN : /\ Justified(t, "GetClientFirmwareInfo", ok)
                              /\ Return(t, "GetClientFirmwareInfo", ok)
      BY <1>23, <2>1 DEF AtlGetClientFirmwareInfo, Call, Justified,
           FirmwareDecodes
    <3>2. QED
      BY <3>1 DEF Ends
  <2>2. QED
    BY <1>23, <2>1 DEF AtlGetClientFirmwareInfo, Call, Starts, Sends
<1>24. CASE AtlDownloadFile(t)
  BY <1>24, BySuccess DEF AtlDownloadFile, Call, Starts, Sends
<1>25. CASE AtlGetServerInfo(t)
  BY <1>25, BySuccess DEF AtlGetServerInfo, Call, Starts, Sends
<1>26. CASE AtlSendAudioRecHeader(t)
  BY <1>26, BySuccess DEF AtlSendAudioRecHeader, Call, Starts, Sends
<1>27. CASE AtlSendAudioRecData(t)
  BY <1>27, BySuccess DEF AtlSendAudioRecData, Call, Starts, Sends
<1>28. CASE AtlSendAudioRecFooter(t)
  BY <1>28, BySuccess DEF AtlSendAudioRecFooter, Call, Starts, Sends
<1>29. CASE AtlGetInterfaceStatistics(t)
  BY <1>29, BySuccess DEF AtlGetInterfaceStatistics, Call, Starts, Sends
<1>30. QED
  BY <1>1, <1>2, <1>3, <1>4, <1>5, <1>6, <1>7, <1>8, <1>9, <1>10, <1>11,
     <1>12, <1>13, <1>14, <1>15, <1>16, <1>17, <1>18, <1>19, <1>20, <1>21,
     <1>22, <1>23, <1>24, <1>25, <1>26, <1>27, <1>28, <1>29 DEF AtlCall

\* On libsoup, a step of a function starts or ends its call.
LEMMA BoostCalls ==
    ASSUME IsPlatform, NEW t, BoostCall(t)
    PROVE  Starts(t) \/ Ends(t)
<1>1. CASE BoostObtainSessionId(t)
  BY <1>1, ByDecodes DEF BoostObtainSessionId, Call, Starts, Sends
<1>2. CASE BoostDeleteSession(t)
  BY <1>2, BySuccess DEF BoostDeleteSession, Call, Starts, Sends
<1>3. CASE BoostGetServerInfo(t)
  BY <1>3, BySuccess DEF BoostGetServerInfo, Call, Starts, Sends
<1>4. CASE BoostGetInterfaceStatistics(t)
  BY <1>4, BySuccess DEF BoostGetInterfaceStatistics, Call, Starts, Sends
<1>5. CASE BoostSendEvent(t)
  BY <1>5, BySuccess DEF BoostSendEvent, Call, Starts, Sends
<1>6. CASE BoostSendAlertConfirmEvent(t)
  BY <1>6, BySuccess DEF BoostSendAlertConfirmEvent, Call, Starts, Sends
<1>7. CASE BoostSendAudioRecRejectEvent(t)
  BY <1>7, BySuccess DEF BoostSendAudioRecRejectEvent, Call, Starts, Sends
<1>8. CASE BoostSendButtonEvent(t)
  BY <1>8, BySuccess DEF BoostSendButtonEvent, Call, Starts, Sends
<1>9. CASE BoostDownloadFile(t)
  BY <1>9, BySuccess DEF BoostDownloadFile, Call, Starts, Sends
<1>10. CASE BoostSetVarValue(t)
  BY <1>10, BySuccess DEF BoostSetVarValue, Call, Starts, Sends
<1>11. CASE BoostSetMailboxValue(t)
  BY <1>11, BySuccess DEF BoostSetMailboxValue, Call, Starts, Sends
<1>12. CASE BoostGetCurrentServerTime(t)
  BY <1>12, ByDecodes DEF BoostGetCurrentServerTime, Call, Starts, Sends
<1>13. CASE BoostGetVarList(t)
  BY <1>13, ByDecodes DEF BoostGetVarList, Call, Starts, Sends
<1>14. CASE BoostGetMailboxList(t)
  BY <1>14, ByDecodes DEF BoostGetMailboxList, Call, Starts, Sends
<1>15. CASE BoostGetVarMeta(t)
  BY <1>15, BySuccess DEF BoostGetVarMeta, Call, Starts, Sends
<1>16. CASE BoostGetMailboxMeta(t)
  BY <1>16, BySuccess DEF BoostGetMailboxMeta, Call, Starts, Sends
<1>17. CASE BoostSendForm(t)
  BY <1>17, BySuccess DEF BoostSendForm, Call, Starts, Sends
<1>18. CASE BoostGetForm(t)
  BY <1>18, ByDecodes DEF BoostGetForm, Call, Starts, Sends
<1>19. CASE BoostSendAudioRecHeader(t)
  BY <1>19, ByConnection DEF BoostSendAudioRecHeader, Call, Starts, Sends,
       Recording
<1>20. CASE BoostSendAudioRecData(t)
  BY <1>20, ByConnection DEF BoostSendAudioRecData, Call, Starts, Sends,
       Recording
<1>21. CASE BoostSendAudioRecFooter(t)
  BY <1>21, ByConnection DEF BoostSendAudioRecFooter, Call, Starts, Sends,
       Recording
<1>22. CASE BoostGetClientState(t)
  BY <1>22, ByConnection DEF BoostGetClientState, Call, Starts, Sends
<1>23. CASE BoostSetClientState(t)
  BY <1>23, ByItself DEF BoostSetClientState, Call, Starts, Sends
<1>24. CASE BoostGetClientConfigInfo(t)
  <2>1. CASE Return(t, "GetClientConfigInfo", ConfigDecodes(t))
    <3>1. \E ok \in BOOLEAN : /\ Justified(t, "GetClientConfigInfo", ok)
                              /\ Return(t, "GetClientConfigInfo", ok)
      BY <1>24, <2>1 DEF BoostGetClientConfigInfo, Call, Justified,
           ConfigDecodes, Decodes
    <3>2. QED
      BY <3>1 DEF Ends
  <2>2. QED
    BY <1>24, <2>1 DEF BoostGetClientConfigInfo, Call, Starts, Sends
<1>25. CASE BoostGetClientFirmwareInfo(t)
  <2>1. CASE Return(t, "GetClientFirmwareInfo", FirmwareDecodes(t))
    <3>1. \E ok \in BOOLEAN : /\ Justified(t, "GetClientFirmwareInfo", ok)
                              /\ Return(t, "GetClientFirmwareInfo", ok)
      BY <1>25, <2>1 DEF BoostGetClientFirmwareInfo, Call, Justified,
           FirmwareDecodes
    <3>2. QED
      BY <3>1 DEF Ends
  <2>2. QED
    BY <1>25, <2>1 DEF BoostGetClientFirmwareInfo, Call, Starts, Sends
<1>26. QED
  BY <1>1, <1>2, <1>3, <1>4, <1>5, <1>6, <1>7, <1>8, <1>9, <1>10, <1>11,
     <1>12, <1>13, <1>14, <1>15, <1>16, <1>17, <1>18, <1>19, <1>20, <1>21,
     <1>22, <1>23, <1>24, <1>25 DEF BoostCall

\* On the browser, a step of a function starts or ends its call.
LEMMA JsCalls ==
    ASSUME IsPlatform, NEW t, JsCall(t)
    PROVE  Starts(t) \/ Ends(t)
<1>1. CASE JsGetSession(t)
  BY <1>1, ByDecodes DEF JsGetSession, Call, Starts, Sends
<1>2. CASE JsSendEvent(t)
  BY <1>2, ByItself DEF JsSendEvent, Call, Starts, Sends, Unanswered
<1>3. CASE JsDeleteSession(t)
  BY <1>3, ByItself DEF JsDeleteSession, Call, Starts, Sends, Unanswered
<1>4. CASE JsGetClientAddress(t)
  BY <1>4, ByDecodes DEF JsGetClientAddress, Call, Starts, Sends
<1>5. CASE JsGetVarValue(t)
  BY <1>5, ByDecodes DEF JsGetVarValue, Call, Starts, Sends
<1>6. CASE JsSetVarValue(t)
  BY <1>6, ByItself DEF JsSetVarValue, Call, Starts, Sends, Unanswered
<1>7. CASE JsGetMailboxValue(t)
  BY <1>7, ByDecodes DEF JsGetMailboxValue, Call, Starts, Sends
<1>8. CASE JsSetMailboxValue(t)
  BY <1>8, ByItself DEF JsSetMailboxValue, Call, Starts, Sends, Unanswered
<1>9. CASE JsGetVarMeta(t)
  BY <1>9, BySuccess DEF JsGetVarMeta, Call, Starts, Sends
<1>10. CASE JsGetServerTime(t)
  BY <1>10, BySuccess DEF JsGetServerTime, Call, Starts, Sends
<1>11. CASE JsPutClientState(t)
  BY <1>11, ByItself DEF JsPutClientState, Call, Starts, Sends, Unanswered
<1>12. CASE JsGetClientState(t)
  BY <1>12, BySuccess DEF JsGetClientState, Call, Starts, Sends
<1>13. CASE JsGetFormAsHtml(t)
  BY <1>13, ByDecodes DEF JsGetFormAsHtml, Call, Starts, Sends
<1>14. CASE JsSendForm(t)
  BY <1>14, ByItself DEF JsSendForm, Call, Starts, Sends, Unanswered
<1>15. QED
  BY <1>1, <1>2, <1>3, <1>4, <1>5, <1>6, <1>7, <1>8, <1>9, <1>10, <1>11,
     <1>12, <1>13, <1>14 DEF JsCall

\* So does a step of any client.
LEMMA CallsAre ==
    ASSUME IsPlatform, NEW t, AtlCall(t) \/ BoostCall(t) \/ JsCall(t)
    PROVE  Starts(t) \/ Ends(t)
BY AtlCalls, BoostCalls, JsCalls

\* What the server does with a request that a client has sent: only a call
\* that records touches the recordings, and only one that sets a mailbox the
\* mailboxes; what is set shows.
LEMMA AnswersAre ==
    ASSUME NEW s, IsStore(s), NEW q, q.call \in Nat, NEW p, NEW op,
           Sends(p, op, q.m, q.url, q.body)
    PROVE  LET rsp == HandleHttpRequest(s, q)
           IN  /\ Belongs(s, q, rsp) /\ Records(s, q, rsp)
               /\ op \notin Recording => KeepsRecordings(s, rsp)
               /\ op # "SetMailboxValue" => KeepsMailboxes(s, rsp)
               /\ op = "SetMailboxValue" => Shows(rsp.store, q.body)
<1> DEFINE rsp == HandleHttpRequest(s, q)
           Goal == /\ Belongs(s, q, rsp) /\ Records(s, q, rsp)
                   /\ op \notin Recording => KeepsRecordings(s, rsp)
                   /\ op # "SetMailboxValue" => KeepsMailboxes(s, rsp)
                   /\ op = "SetMailboxValue" => Shows(rsp.store, q.body)
<1> SUFFICES Goal
  OBVIOUS
<1>1. IsRequest(q)
  BY DEF Sends, IsRequest
<1>2. Serves(s, q, rsp)
  BY <1>1, RequestIsServed
<1> HIDE DEF rsp
<1>3. ASSUME Harmless(s, q, rsp), op # "SetMailboxValue" PROVE Goal
  BY <1>3 DEF Harmless, Records
<1>4. CASE q.url = "client_states"
  <2>1. rsp = HandleFileRequest(s, q)
    BY <1>2, <1>4 DEF Serves
  <2>2. q.m \in {"GET", "PUT", "HEAD"} /\ op # "SetMailboxValue"
    BY <1>4 DEF Sends
  <2>3. QED
    BY <2>1, <2>2, <1>3, FileRequestIs
<1>5. CASE q.url = "forms"
  <2>1. rsp = GetForm(s) \/ rsp = PutForm(s)
    BY <1>2, <1>5 DEF Serves
  <2>2. op # "SetMailboxValue"
    BY <1>5 DEF Sends
  <2>3. QED
    BY <2>1, <2>2, <1>3, FormsAre
<1>6. CASE q.url = "session_id"
  <2>1. rsp = PostSession(s, q) \/ rsp = DeleteSession(s, q)
    BY <1>2, <1>6 DEF Serves
  <2>2. op # "SetMailboxValue"
    BY <1>6 DEF Sends
  <2>3. QED
    BY <2>1, <2>2, <1>3, PostSessionIs, DeleteSessionIs
<1>7. CASE q.url = "client_event"
  <2>1. rsp = PutClientEvent(s, q)
    BY <1>2, <1>7 DEF Serves
  <2>2. op # "SetMailboxValue"
    BY <1>7 DEF Sends
  <2>3. QED
    BY <2>1, <2>2, <1>3, PutClientEventIs
<1>8. CASE q.url \in {"server_info", "storage_info", "current_time",
                      "client_address", "interface_statistic"}
  <2>1. rsp \in {GetServerInfo(s), GetStorageInfo(s), GetCurrentTime(s),
                 GetClientAddress(s), InterfaceStatistic(s)}
    BY <1>2, <1>8 DEF Serves
  <2>2. op # "SetMailboxValue"
    BY <1>8 DEF Sends
  <2>3. QED
    BY <2>1, <2>2, <1>3, InfosAre
<1>9. CASE q.url \in {"var_list", "mailbox_list"}
  <2>1. rsp = GetVarList(s, Variables) \/ rsp = GetVarList(s, Mailboxes)
    BY <1>2, <1>9 DEF Serves
  <2>2. op # "SetMailboxValue"
    BY <1>9 DEF Sends
  <2>3. QED
    BY <2>1, <2>2, <1>3, GetVarListIs
<1>10. CASE q.url \in {"var_meta", "mailbox_meta"}
  <2>1. \/ rsp = PostVarMeta(s, q, Variables)
        \/ rsp = PostVarMeta(s, q, Mailboxes)
    BY <1>2, <1>10 DEF Serves
  <2>2. op # "SetMailboxValue"
    BY <1>10 DEF Sends
  <2>3. QED
    BY <2>1, <2>2, <1>3, PostVarMetaIs
<1>11. CASE q.url \in {"client_firmware", "client_config/info"}
  <2>1. rsp = PostFirmwareInfo(s, q) \/ rsp = PostClientConfigInfo(s, q)
    BY <1>2, <1>11 DEF Serves
  <2>2. op # "SetMailboxValue"
    BY <1>11 DEF Sends
  <2>3. QED
    BY <2>1, <2>2, <1>3, FirmwareInfoIs, ConfigInfoIs
<1>12. CASE q.url \in {"var_value", "mailbox_value"} /\ q.m = "POST"
  <2>1. \/ rsp = PostVarValue(s, q, Variables)
        \/ rsp = PostVarValue(s, q, Mailboxes)
    BY <1>2, <1>12 DEF Serves
  <2>2. op # "SetMailboxValue"
    BY <1>12 DEF Sends
  <2>3. QED
    BY <2>1, <2>2, <1>3, PostVarValueIs
<1>13. CASE q.url = "var_value" /\ q.m = "PUT"
  <2>1. rsp = PutVarValue(s, q, Variables)
    BY <1>2, <1>13 DEF Serves
  <2>2. op = "SetVarValue" /\ q.body \in Speeds
    BY <1>13 DEF Sends
  <2>3. QED
    BY <2>1, <2>2, <1>3, PutVariableIs
<1>14. CASE q.url = "mailbox_value" /\ q.m = "PUT"
  <2>1. rsp = PutVarValue(s, q, Mailboxes)
    BY <1>2, <1>14 DEF Serves
  <2>2. op = "SetMailboxValue" /\ q.body \in Entries
    BY <1>14 DEF Sends
  <2>3. QED
    BY <2>1, <2>2, PutMailboxIs DEF Records
<1>15. CASE q.url \in {"audio_rec/header", "audio_rec/data",
                       "audio_rec/footer"}
  <2>1. rsp \in {PutAudioRecHeader(s, q), PutAudioRecData(s, q),
                 PutAudioRecFooter(s, q)}
    BY <1>2, <1>15 DEF Serves
  <2>2. op \in Recording /\ op # "SetMailboxValue"
    BY <1>15 DEF Sends, Recording
  <2>3. QED
    BY <2>1, <2>2, PutAudioRecHeaderIs, PutAudioRecDataIs, PutAudioRecFooterIs
<1> HIDE DEF Goal
<1>16. QED
  BY <1>4, <1>5, <1>6, <1>7, <1>8, <1>9, <1>10, <1>11, <1>12, <1>13, <1>14,
     <1>15 DEF Sends

-----------------------------------------------------------------------------
(* The invariant. *)

\* The store, the threads and the numbers that count them.
Shapes ==
    /\ IsPlatform /\ IsStore(store) /\ DOMAIN th = Threads
    /\ \A t \in Threads :
         /\ DOMAIN th[t] = {"pc", "op", "q", "try", "r", "ok", "own", "alone"}
         /\ th[t].pc \in {"idle", "wait", "answered", "decode"}
         /\ th[t].try \in 0..2 /\ th[t].q.call \in 0..calls
    /\ nav \in Threads \cup {None} /\ calls \in Nat /\ late \in BOOLEAN
    /\ accepted \subseteq 1..calls /\ sid \in {0} \cup 1..(store.nextId - 1)

\* An answer the server can have given.
IsAnswer(p, s, r) ==
    /\ r.code \in {0, 200, 201, 400, 403, 404, 507}
    /\ r.code = 403 => p = "atl"
    /\ r.data # <<>> => r.code = 200
    /\ IdsWereGiven(r.data, s)

\* A thread holds an answer to its own call, which was accepted if it is a
\* success; while it is busy it has sent what its function sends.
ThreadFits(t) ==
    /\ IsAnswer(platform, store, th[t].r) /\ th[t].r.call \in {0, th[t].q.call}
    /\ th[t].r.code # 0 => th[t].r.call = th[t].q.call
    /\ th[t].r.code \in 200..299 => th[t].q.call \in accepted
    /\ th[t].ok /\ platform # "js" => th[t].q.call \in accepted
    /\ th[t].pc # "idle" =>
         /\ th[t].q.call # 0 /\ th[t].try # 0 /\ th[t].op \in Uses[t]
         /\ Sends(platform, th[t].op, th[t].q.m, th[t].q.url, th[t].q.body)

\* Each of them does, and no two make the same call.
ThreadsFit ==
    /\ \A t \in Threads : ThreadFits(t)
    /\ \A t, u \in Threads :
         t # u => th[t].q.call # th[u].q.call \/ th[t].q.call = 0

\* On Windows one thread at a time is between its request and its answer; one
\* that nobody came after finds its own answer in the connection.
Connected(t) ==
    /\ th[t].ok /\ (platform = "atl" => th[t].alone) => th[t].own
    /\ platform = "atl" =>
         /\ th[t].pc \in {"wait", "answered"} => nav = t
         /\ th[t].pc = "decode" /\ th[t].alone =>
              /\ aux = th[t].r
              /\ \A u \in Threads \ {t} : th[u].pc \notin {"wait", "answered"}

\* The connection holds an answer, and each thread finds it so.
ConnectionFits ==
    IsAnswer(platform, store, aux) /\ \A t \in Threads : Connected(t)

\* What is on the wire was sent by a function of its thread; unless a call was
\* given up its thread still waits for it.
WireFits ==
    \A m \in wire :
      /\ m.t \in Threads /\ m.q.call \in 1..calls /\ m.try \in 1..2
      /\ \E op \in Uses[m.t] : Sends(platform, op, m.q.m, m.q.url, m.q.body)

\* Until a call is given up, what is on the wire is waited for.
Prompt ==
    ~late => \A m \in wire :
      th[m.t].pc = "wait" /\ m = Message(m.t, th[m.t].q, th[m.t].try)

\* The writer's call is not recorded yet.
Unrecorded ==
    \/ th[Writer].pc = "wait"
    \/ th[Writer].pc = "answered" /\ th[Writer].r.code # 200

\* A recording is in order, and ends before a call that is not recorded yet.
RecordFits(rec) ==
    /\ \A i, j \in DOMAIN rec : i < j => rec[i] < rec[j]
    /\ \A i \in DOMAIN rec : /\ rec[i] <= th[Writer].q.call
                             /\ Unrecorded => rec[i] < th[Writer].q.call

\* All recordings are.
RecordsFit ==
    OnlyWriter /\ ~late =>
      \A rec \in {store.rec} \cup store.done : RecordFits(rec)

\* What was reported as set shows, and so does what is about to be.
ToldFits ==
    OnlyWriter /\ ~late /\ platform # "js" =>
      /\ Shows(store, told)
      /\ /\ th[Writer].pc \in {"answered", "decode"}
         /\ th[Writer].op \in {"SetVarValue", "SetMailboxValue"}
         /\ th[Writer].r.code \in 200..299
         => Shows(store, th[Writer].q.body)
      /\ th[Writer].pc # "idle" /\ th[Writer].q.m = "PUT" => told = <<>>

\* The invariant.
CallsInv == /\ Shapes /\ ThreadsFit /\ ConnectionFits /\ WireFits /\ Prompt
            /\ RecordsFit /\ ToldFits

-----------------------------------------------------------------------------
(* Each step keeps the invariant. *)

\* Every function has a weight; nobody is no thread.
LEMMA UsesAre ==
    /\ \A t \in Threads : \A op \in Uses[t] : Weight[op] \in Nat \ {0}
    /\ Writer \in Threads /\ None \notin Threads
    /\ OnlyWriter =>
         \A t \in Threads : \A op \in Uses[t] :
           t # Writer => op \notin Recording /\ op # "SetMailboxValue"
<1>1. \A t \in Threads : \A op \in Uses[t] : Weight[op] \in Nat \ {0}
  <2>1. \A t \in Threads : \A op \in Uses[t] :
          op \in UNION {Uses[u] : u \in Threads}
    OBVIOUS
  <2>2. QED
    BY <2>1, CallsAssumption
<1>2. QED
  BY <1>1, CallsAssumption DEF OnlyWriter, Recording

\* A call starts: the thread has a number that is new, and what others hold
\* stays theirs.
LEMMA NavigateKeepsInv ==
    ASSUME CallsInv, NEW t \in Threads, NEW op, NEW m, NEW url, NEW body,
           Sends(platform, op, m, url, body), Navigate(t, op, m, url, body)
    PROVE  CallsInv'
<1> USE DEF CallsInv
<1> DEFINE q == [m |-> m, url |-> url, body |-> body, as |-> sid,
                 call |-> calls + Weight[op]]
           msg == Message(t, q, 1)
<1>1. /\ th[t].pc = "idle" /\ nav = None /\ op \in Uses[t]
      /\ calls' = q.call /\ wire' = wire \cup {msg}
      /\ nav' = IF platform = "boost" THEN None ELSE t
      /\ told' = IF t = Writer /\ m = "PUT" THEN <<>> ELSE told
      /\ accepted' = accepted \ {th[t].q.call}
      /\ UNCHANGED <<platform, store, aux, sid, late>>
  BY DEF Navigate
<1>2. /\ q.m = m /\ q.url = url /\ q.body = body /\ q.call = calls + Weight[op]
  OBVIOUS
<1>3. /\ th' = [u \in Threads |->
                  IF u = t THEN [Idle EXCEPT !.pc = "wait", !.op = op,
                                             !.q = q, !.try = 1]
                  ELSE [th[u] EXCEPT !.alone = @ /\ th[u].pc = "idle"]]
  BY DEF Navigate
<1> HIDE DEF q
<1>4. /\ th'[t].pc = "wait" /\ th'[t].op = op /\ th'[t].q = q
      /\ th'[t].try = 1 /\ th'[t].r = NoReply /\ th'[t].ok = FALSE
      /\ DOMAIN th'[t] = {"pc", "op", "q", "try", "r", "ok", "own", "alone"}
  BY <1>3 DEF Idle
<1>5. \A u \in Threads \ {t} :
        /\ th'[u].pc = th[u].pc /\ th'[u].op = th[u].op /\ th'[u].q = th[u].q
        /\ th'[u].try = th[u].try /\ th'[u].r = th[u].r
        /\ th'[u].ok = th[u].ok /\ th'[u].own = th[u].own
        /\ th'[u].alone => th[u].alone /\ th[u].pc = "idle"
        /\ DOMAIN th'[u] = DOMAIN th[u]
  BY <1>3 DEF Shapes
<1>6. /\ Weight[op] \in Nat \ {0} /\ calls \in Nat /\ q.call \in Nat
      /\ q.call > calls
  BY <1>1, <1>2, UsesAre DEF Shapes
<1>7. msg.t = t /\ msg.q = q /\ msg.try = 1
  BY DEF Message
<1>8. /\ NoReply.code = 0 /\ NoReply.data = <<>> /\ NoReply.call = 0
      /\ IdsWereGiven(<<>>, store)
  BY DEF NoReply, Reply, IdsWereGiven
<1> HIDE DEF msg
<1>9. Shapes'
  <2>1. DOMAIN th' = Threads
    BY <1>3
  <2>2. ASSUME NEW u \in Threads
        PROVE  /\ DOMAIN th'[u] = {"pc", "op", "q", "try", "r", "ok", "own",
                                   "alone"}
               /\ th'[u].pc \in {"idle", "wait", "answered", "decode"}
               /\ th'[u].try \in 0..2 /\ th'[u].q.call \in 0..calls'
    <3>1. CASE u = t
      BY <3>1, <1>1, <1>4, <1>6
    <3>2. CASE u # t
      BY <3>2, <1>1, <1>5, <1>6 DEF Shapes
    <3>3. QED
      BY <3>1, <3>2
  <2>3. nav' \in Threads \cup {None} /\ calls' \in Nat
    BY <1>1, <1>6
  <2>4. accepted' \subseteq 1..calls'
    <3>1. accepted \subseteq 1..calls
      BY DEF Shapes
    <3>2. 1..calls \subseteq 1..q.call
      BY <1>6
    <3>3. QED
      BY <3>1, <3>2, <1>1
  <2>5. IsPlatform' /\ IsStore(store') /\ late' \in BOOLEAN
        /\ sid' \in {0} \cup 1..(store'.nextId - 1)
    BY <1>1 DEF Shapes, IsPlatform
  <2>6. QED
    BY <2>1, <2>2, <2>3, <2>4, <2>5 DEF Shapes
<1>10. ThreadsFit'
  <2>1. ASSUME NEW u \in Threads PROVE ThreadFits(u)'
    <3>1. CASE u = t
      BY <3>1, <1>1, <1>2, <1>4, <1>6, <1>8 DEF ThreadFits, IsAnswer
    <3>2. CASE u # t
      <4>1. ThreadFits(u)
        BY DEF ThreadsFit
      <4>2. th[u].q.call \in accepted => th[u].q.call \in accepted'
        <5>1. th[u].q.call # th[t].q.call \/ th[u].q.call = 0
          BY <3>2 DEF ThreadsFit
        <5>2. 0 \notin accepted
          BY <1>6 DEF Shapes
        <5>3. QED
          BY <5>1, <5>2, <1>1
      <4>3. /\ th'[u].pc = th[u].pc /\ th'[u].op = th[u].op
            /\ th'[u].q = th[u].q /\ th'[u].try = th[u].try
            /\ th'[u].r = th[u].r /\ th'[u].ok = th[u].ok
        BY <3>2, <1>5
      <4>4. IsAnswer(platform, store, th[u].r)'
        BY <4>1, <4>3, <1>1 DEF ThreadFits, IsAnswer
      <4>5. QED
        BY <4>1, <4>2, <4>3, <4>4, <1>1 DEF ThreadFits
    <3>3. QED
      BY <3>1, <3>2
  <2>2. ASSUME NEW u \in Threads, NEW v \in Threads, u # v
        PROVE  th'[u].q.call # th'[v].q.call \/ th'[u].q.call = 0
    <3>1. \A w \in Threads : th[w].q.call \in 0..calls
      BY DEF Shapes
    <3>2. CASE u = t
      BY <3>1, <3>2, <2>2, <1>4, <1>5, <1>6
    <3>3. CASE v = t
      BY <3>1, <3>3, <2>2, <1>4, <1>5, <1>6
    <3>4. CASE u # t /\ v # t
      BY <3>4, <2>2, <1>5 DEF ThreadsFit
    <3>5. QED
      BY <3>2, <3>3, <3>4
  <2>3. QED
    BY <2>1, <2>2 DEF ThreadsFit
<1>11. ConnectionFits'
  <2>1. IsAnswer(platform, store, aux)'
    BY <1>1 DEF ConnectionFits, IsAnswer
  <2>2. ASSUME NEW u \in Threads PROVE Connected(u)'
    <3>1. CASE u = t
      BY <3>1, <1>1, <1>4 DEF Connected, Shapes, IsPlatform
    <3>2. CASE u # t
      <4>1. Connected(u)
        BY DEF ConnectionFits
      <4>2. platform = "atl" => th[u].pc \notin {"wait", "answered"}
        BY <4>1, <1>1, UsesAre DEF Connected
      <4>3. QED
        BY <3>2, <4>1, <4>2, <1>1, <1>5 DEF Connected
    <3>3. QED
      BY <3>1, <3>2
  <2>3. QED
    BY <2>1, <2>2 DEF ConnectionFits
<1>12. WireFits'
  <2>1. ASSUME NEW x \in wire'
        PROVE  /\ x.t \in Threads /\ x.q.call \in 1..calls' /\ x.try \in 1..2
               /\ \E o \in Uses[x.t] :
                    Sends(platform, o, x.q.m, x.q.url, x.q.body)
    <3>1. CASE x = msg
      BY <3>1, <1>1, <1>2, <1>6, <1>7
    <3>2. CASE x \in wire
      BY <3>2, <1>1, <1>6 DEF WireFits
    <3>3. QED
      BY <3>1, <3>2, <1>1
  <2>2. QED
    BY <2>1, <1>1 DEF WireFits
<1>13. Prompt'
  <2>1. ASSUME ~late, NEW x \in wire'
        PROVE  /\ th'[x.t].pc = "wait"
               /\ x = Message(x.t, th'[x.t].q, th'[x.t].try)
    <3>1. CASE x = msg
      BY <3>1, <1>4, <1>7 DEF msg
    <3>2. CASE x \in wire
      <4>1. /\ th[x.t].pc = "wait" /\ x.t \in Threads
            /\ x = Message(x.t, th[x.t].q, th[x.t].try)
        BY <2>1, <3>2 DEF Prompt, WireFits
      <4>2. x.t # t
        BY <4>1, <1>1
      <4>3. QED
        BY <4>1, <4>2, <1>5
    <3>3. QED
      BY <3>1, <3>2, <1>1
  <2>2. QED
    BY <2>1, <1>1 DEF Prompt
<1>14. RecordsFit'
  <2>1. ASSUME OnlyWriter, ~late, NEW rec \in {store.rec} \cup store.done
        PROVE  RecordFits(rec)'
    <3>1. RecordFits(rec)
      BY <2>1 DEF RecordsFit
    <3>2. CASE t = Writer
      <4>1. \A i \in DOMAIN rec : rec[i] \in Nat
        <5>1. rec \in Seq(Nat)
          BY <2>1 DEF Shapes, IsStore
        <5>2. QED
          BY <5>1
      <4>2. th[Writer].q.call \in 0..calls
        BY UsesAre DEF Shapes
      <4>3. QED
        BY <3>1, <3>2, <4>1, <4>2, <1>4, <1>6 DEF RecordFits
    <3>3. CASE t # Writer
      BY <3>1, <3>3, <1>5, UsesAre DEF RecordFits, Unrecorded
    <3>4. QED
      BY <3>2, <3>3
  <2>2. QED
    BY <2>1, <1>1 DEF RecordsFit
<1>15. ToldFits'
  <2>1. Shows(store, <<>>)
    BY DEF Shows
  <2>2. CASE t = Writer
    BY <2>1, <2>2, <1>1, <1>2, <1>4 DEF ToldFits
  <2>3. CASE t # Writer
    BY <2>3, <1>1, <1>5, UsesAre DEF ToldFits
  <2>4. QED
    BY <2>2, <2>3
<1>16. QED
  BY <1>9, <1>10, <1>11, <1>12, <1>13, <1>14, <1>15

\* A success of the connection is a status of 200 to 299.
LEMMA SuccessIs ==
    ASSUME IsPlatform, NEW t, Success(t)
    PROVE  th[t].r.code \in 200..299
<1>1. CASE platform = "atl"
  BY <1>1 DEF Success, AtlOk
<1>2. CASE platform = "boost"
  BY <1>2 DEF Success, SoupOk
<1>3. CASE platform = "js"
  BY <1>3 DEF Success, AbkXhrAnswerSuccess
<1>4. QED
  BY <1>1, <1>2, <1>3 DEF IsPlatform

\* A thread that nothing happens to still fits, if no answer is taken back.
LEMMA OthersFit ==
    ASSUME NEW u, ThreadFits(u), UNCHANGED <<platform, store>>,
           th'[u].pc = th[u].pc, th'[u].op = th[u].op, th'[u].q = th[u].q,
           th'[u].try = th[u].try, th'[u].r = th[u].r, th'[u].ok = th[u].ok,
           th[u].q.call \in accepted => th[u].q.call \in accepted'
    PROVE  ThreadFits(u)'
<1>1. IsAnswer(platform, store, th[u].r)'
  BY DEF ThreadFits, IsAnswer
<1>2. QED
  BY <1>1 DEF ThreadFits

\* A function that reports success had one, unless it is one of the browser
\* that does not look: no file request of the clients has a date, and no
\* status of 403 comes to the client that takes it for a success.
LEMMA SuccessIsMeant ==
    ASSUME CallsInv, NEW t \in Threads, NEW op, Justified(t, op, TRUE)
    PROVE  \/ th[t].r.code \in 200..299
           \/ platform = "js" /\ op \in Unanswered
<1>1. CASE Success(t)
  BY <1>1, SuccessIs DEF CallsInv, Shapes
<1>2. CASE Has(th[t].r.data, "Last-Modified")
  <2>1. th[t].r.data # <<>>
    BY <1>2 DEF Has
  <2>2. QED
    BY <2>1 DEF CallsInv, ThreadsFit, ThreadFits, IsAnswer
<1>3. CASE platform = "boost" /\ aux.code = 403
  BY <1>3 DEF CallsInv, ConnectionFits, IsAnswer
<1>4. QED
  BY <1>1, <1>2, <1>3 DEF Justified

\* A call ends: its result is reported, and what it says is true.
LEMMA ReturnKeepsInv ==
    ASSUME CallsInv, NEW t \in Threads, NEW op, NEW ok \in BOOLEAN,
           Justified(t, op, ok), Return(t, op, ok)
    PROVE  CallsInv'
<1> USE DEF CallsInv
<1>1. /\ th[t].pc = "decode" /\ th[t].op = op
      /\ nav' = IF nav = t THEN None ELSE nav
      /\ aux' = IF \E u \in Threads \ {t} : th[u].pc = "decode"
                THEN aux ELSE NoReply
      /\ sid' = CASE op = "ObtainSessionId" /\ ok ->
                       Field(Answer(t).data, "SessionId").x
                  [] op = "DeleteSession" -> 0
                  [] OTHER -> sid
      /\ told' = IF /\ ok /\ t = Writer
                    /\ op \in {"SetVarValue", "SetMailboxValue"}
                 THEN th[t].q.body ELSE told
      /\ UNCHANGED <<platform, store, wire, calls, accepted, late>>
  BY DEF Return
<1> DEFINE own == \/ Answer(t).call = th[t].q.call \/ ~ok
                  \/ ~FollowsBody(th[t].q.m, op)
<1>2. th' = [th EXCEPT ![t] = [Idle EXCEPT !.ok = ok,
                !.q.call = th[t].q.call, !.alone = th[t].alone, !.own = own]]
  BY DEF Return
<1> HIDE DEF own
<1>3. /\ th'[t].pc = "idle" /\ th'[t].q.call = th[t].q.call
      /\ th'[t].try = 0 /\ th'[t].r = NoReply /\ th'[t].ok = ok
      /\ th'[t].own = own /\ th'[t].alone = th[t].alone
      /\ DOMAIN th'[t] = {"pc", "op", "q", "try", "r", "ok", "own", "alone"}
  BY <1>2 DEF Idle, NoRequest, Shapes
<1>4. \A u \in Threads \ {t} : th'[u] = th[u]
  BY <1>2 DEF Shapes
<1>5. ThreadFits(t) /\ IsPlatform
  BY DEF ThreadsFit, Shapes
<1>6. ok => \/ th[t].r.code \in 200..299
            \/ platform = "js" /\ op \in Unanswered
  BY SuccessIsMeant
<1>7. /\ NoReply.code = 0 /\ NoReply.data = <<>> /\ NoReply.call = 0
      /\ IdsWereGiven(<<>>, store)
  BY DEF NoReply, Reply, IdsWereGiven
<1>8. IsAnswer(platform, store, Answer(t))
  BY <1>5 DEF Answer, ConnectionFits, ThreadFits
<1>9. Shapes'
  <2>1. DOMAIN th' = Threads
    BY <1>2 DEF Shapes
  <2>2. ASSUME NEW u \in Threads
        PROVE  /\ DOMAIN th'[u] = {"pc", "op", "q", "try", "r", "ok", "own",
                                   "alone"}
               /\ th'[u].pc \in {"idle", "wait", "answered", "decode"}
               /\ th'[u].try \in 0..2 /\ th'[u].q.call \in 0..calls'
    <3>1. CASE u = t
      BY <3>1, <1>1, <1>3 DEF Shapes
    <3>2. CASE u # t
      BY <3>2, <1>1, <1>4 DEF Shapes
    <3>3. QED
      BY <3>1, <3>2
  <2>3. sid' \in {0} \cup 1..(store'.nextId - 1)
    <3>1. CASE op = "ObtainSessionId" /\ ok
      <4>1. Has(Answer(t).data, "SessionId")
        BY <3>1 DEF Justified
      <4> DEFINE data == Answer(t).data
                 i == CHOOSE k \in DOMAIN data : data[k].n = "SessionId"
      <4>2. i \in DOMAIN data /\ data[i].n = "SessionId"
        BY <4>1 DEF Has
      <4>3. data[i].x \in 1..(store.nextId - 1)
        BY <4>2, <1>8, ZenonT(30) DEF IsAnswer, IdsWereGiven
      <4>4. sid' = data[i].x
        BY <3>1, <1>1 DEF Field
      <4>5. QED
        BY <4>3, <4>4, <1>1
    <3>2. CASE ~(op = "ObtainSessionId" /\ ok)
      BY <3>2, <1>1 DEF Shapes
    <3>3. QED
      BY <3>1, <3>2
  <2>4. /\ nav' \in Threads \cup {None} /\ calls' \in Nat
        /\ accepted' \subseteq 1..calls' /\ IsPlatform' /\ IsStore(store')
        /\ late' \in BOOLEAN
    BY <1>1 DEF Shapes, IsPlatform
  <2>5. QED
    BY <2>1, <2>2, <2>3, <2>4 DEF Shapes
<1>10. ThreadsFit'
  <2>1. ASSUME NEW u \in Threads PROVE ThreadFits(u)'
    <3>1. CASE u = t
      <4>1. ok /\ platform # "js" => th[t].q.call \in accepted
        BY <1>5, <1>6 DEF ThreadFits
      <4>2. IsAnswer(platform, store, NoReply)'
        BY <1>1, <1>7 DEF IsAnswer
      <4>3. QED
        BY <3>1, <4>1, <4>2, <1>1, <1>3, <1>7 DEF ThreadFits
    <3>2. CASE u # t
      BY <3>2, <1>1, <1>4, OthersFit DEF ThreadsFit
    <3>3. QED
      BY <3>1, <3>2
  <2>2. \A u \in Threads : th'[u].q.call = th[u].q.call
    BY <1>3, <1>4
  <2>3. QED
    BY <2>1, <2>2 DEF ThreadsFit
<1>11. ConnectionFits'
  <2>1. IsAnswer(platform, store, aux)'
    BY <1>1, <1>7 DEF ConnectionFits, IsAnswer
  <2>2. ASSUME NEW u \in Threads PROVE Connected(u)'
    <3>1. CASE u = t
      <4>1. ASSUME ok, platform = "atl" => th[t].alone PROVE own
        <5>1. CASE th[t].r.code \in 200..299
          <6>1. th[t].r.call = th[t].q.call
            BY <5>1, <1>5 DEF ThreadFits
          <6>2. Answer(t) = th[t].r
            BY <4>1, <1>1 DEF Answer, ConnectionFits, Connected
          <6>3. QED
            BY <6>1, <6>2 DEF own
        <5>2. CASE platform = "js" /\ op \in Unanswered
          <6>1. Sends(platform, op, th[t].q.m, th[t].q.url, th[t].q.body)
            BY <1>1, <1>5 DEF ThreadFits
          <6>2. th[t].q.m \in {"PUT", "DELETE"}
            BY <5>2, <6>1 DEF Sends, Unanswered
          <6>3. QED
            BY <6>2 DEF own, FollowsBody
        <5>3. QED
          BY <4>1, <5>1, <5>2, <1>6
      <4>2. QED
        BY <3>1, <4>1, <1>1, <1>3 DEF Connected
    <3>2. CASE u # t
      <4>1. Connected(u) /\ th'[u] = th[u]
        BY <3>2, <1>4 DEF ConnectionFits
      <4>2. th[u].pc = "decode" => aux' = aux
        BY <3>2, <1>1
      <4>3. nav = u => nav' = u
        BY <3>2, <1>1
      <4>4. \A v \in Threads : th'[v].pc \in {"wait", "answered"} =>
                               th[v].pc \in {"wait", "answered"}
        BY <1>3, <1>4
      <4>5. QED
        BY <4>1, <4>2, <4>3, <4>4, <1>1 DEF Connected
    <3>3. QED
      BY <3>1, <3>2
  <2>3. QED
    BY <2>1, <2>2 DEF ConnectionFits
<1>12. WireFits'
  BY <1>1 DEF WireFits
<1>13. Prompt'
  <2>1. ASSUME ~late, NEW x \in wire
        PROVE  /\ th'[x.t].pc = "wait"
               /\ x = Message(x.t, th'[x.t].q, th'[x.t].try)
    <3>1. /\ th[x.t].pc = "wait" /\ x.t \in Threads
          /\ x = Message(x.t, th[x.t].q, th[x.t].try)
      BY <2>1 DEF Prompt, WireFits
    <3>2. x.t # t
      BY <3>1, <1>1
    <3>3. QED
      BY <3>1, <3>2, <1>4
  <2>2. QED
    BY <2>1, <1>1 DEF Prompt
<1>14. RecordsFit'
  <2>1. ASSUME OnlyWriter, ~late, NEW rec \in {store.rec} \cup store.done
        PROVE  RecordFits(rec)'
    <3>1. RecordFits(rec)
      BY <2>1 DEF RecordsFit
    <3>2. th'[Writer].q.call = th[Writer].q.call /\ (Unrecorded' => Unrecorded)
      BY <1>3, <1>4, UsesAre DEF Unrecorded
    <3>3. QED
      BY <3>1, <3>2 DEF RecordFits
  <2>2. QED
    BY <2>1, <1>1 DEF RecordsFit
<1>15. ToldFits'
  <2>1. CASE t = Writer
    <3>1. CASE ok /\ op \in {"SetVarValue", "SetMailboxValue"}
      BY <2>1, <3>1, <1>1, <1>3, <1>6 DEF ToldFits
    <3>2. CASE ~(ok /\ op \in {"SetVarValue", "SetMailboxValue"})
      BY <2>1, <3>2, <1>1, <1>3 DEF ToldFits
    <3>3. QED
      BY <3>1, <3>2
  <2>2. CASE t # Writer
    BY <2>2, <1>1, <1>4, UsesAre DEF ToldFits
  <2>3. QED
    BY <2>1, <2>2
<1>16. QED
  BY <1>9, <1>10, <1>11, <1>12, <1>13, <1>14, <1>15

\* The wait for an answer ends without one; from here on the client knows that
\* a request of its may be late.
LEMMA GiveUpKeepsInv ==
    ASSUME CallsInv, NEW t \in Threads, GiveUp(t)
    PROVE  CallsInv'
<1> USE DEF CallsInv
<1>1. /\ th[t].pc = "wait"
      /\ th' = [th EXCEPT ![t].pc = "answered", ![t].r = NoReply]
      /\ late' = TRUE /\ wire' \subseteq wire
      /\ UNCHANGED <<platform, store, nav, aux, sid, calls, accepted, told>>
  BY DEF GiveUp
<1>2. /\ th'[t].pc = "answered" /\ th'[t].r = NoReply
      /\ th'[t].op = th[t].op /\ th'[t].q = th[t].q /\ th'[t].try = th[t].try
      /\ th'[t].ok = th[t].ok /\ th'[t].own = th[t].own
      /\ th'[t].alone = th[t].alone /\ DOMAIN th'[t] = DOMAIN th[t]
  BY <1>1 DEF Shapes
<1>3. \A u \in Threads \ {t} : th'[u] = th[u]
  BY <1>1 DEF Shapes
<1>4. /\ NoReply.code = 0 /\ NoReply.data = <<>> /\ NoReply.call = 0
      /\ IdsWereGiven(<<>>, store)
  BY DEF NoReply, Reply, IdsWereGiven
<1>5. Shapes'
  <2>1. DOMAIN th' = Threads
    BY <1>1 DEF Shapes
  <2>2. ASSUME NEW u \in Threads
        PROVE  /\ DOMAIN th'[u] = {"pc", "op", "q", "try", "r", "ok", "own",
                                   "alone"}
               /\ th'[u].pc \in {"idle", "wait", "answered", "decode"}
               /\ th'[u].try \in 0..2 /\ th'[u].q.call \in 0..calls'
    <3>1. CASE u = t
      BY <3>1, <1>1, <1>2 DEF Shapes
    <3>2. CASE u # t
      BY <3>2, <1>1, <1>3 DEF Shapes
    <3>3. QED
      BY <3>1, <3>2
  <2>3. QED
    BY <2>1, <2>2, <1>1 DEF Shapes, IsPlatform
<1>6. ThreadsFit'
  <2>1. ASSUME NEW u \in Threads PROVE ThreadFits(u)'
    <3>1. CASE u = t
      <4>1. ThreadFits(t)
        BY DEF ThreadsFit
      <4>2. IsAnswer(platform, store, NoReply)'
        BY <1>1, <1>4 DEF IsAnswer
      <4>3. /\ IsAnswer(platform, store, th[t].r)' /\ th'[t].r.call = 0
            /\ th'[t].r.code = 0 /\ th'[t].r.code \notin 200..299
        BY <4>2, <1>2, <1>4
      <4>4. /\ th[t].ok /\ platform # "js" => th[t].q.call \in accepted
            /\ th[t].q.call # 0 /\ th[t].try # 0 /\ th[t].op \in Uses[t]
            /\ Sends(platform, th[t].op, th[t].q.m, th[t].q.url, th[t].q.body)
        BY <4>1, <1>1 DEF ThreadFits
      <4>5. QED
        BY <3>1, <4>3, <4>4, <1>1, <1>2 DEF ThreadFits
    <3>2. CASE u # t
      BY <3>2, <1>1, <1>3, OthersFit DEF ThreadsFit
    <3>3. QED
      BY <3>1, <3>2
  <2>2. \A u \in Threads : th'[u].q.call = th[u].q.call
    BY <1>2, <1>3
  <2>3. QED
    BY <2>1, <2>2 DEF ThreadsFit
<1>7. ConnectionFits'
  <2>1. IsAnswer(platform, store, aux)'
    BY <1>1 DEF ConnectionFits, IsAnswer
  <2>2. ASSUME NEW u \in Threads PROVE Connected(u)'
    <3>1. Connected(u) /\ Connected(t)
      BY DEF ConnectionFits
    <3>2. CASE u = t
      BY <3>1, <3>2, <1>1, <1>2 DEF Connected
    <3>3. CASE u # t
      <4>1. \A v \in Threads : th'[v].pc \in {"wait", "answered"} =>
                               th[v].pc \in {"wait", "answered"}
        BY <1>1, <1>2, <1>3
      <4>2. QED
        BY <3>1, <3>3, <4>1, <1>1, <1>3 DEF Connected
    <3>4. QED
      BY <3>2, <3>3
  <2>3. QED
    BY <2>1, <2>2 DEF ConnectionFits
<1>8. WireFits'
  BY <1>1 DEF WireFits
<1>9. Prompt' /\ RecordsFit' /\ ToldFits'
  BY <1>1 DEF Prompt, RecordsFit, ToldFits
<1>10. QED
  BY <1>5, <1>6, <1>7, <1>8, <1>9

\* An answer that is taken becomes the connection's last one; on Windows the
\* thread leaves the critical section.
LEMMA ReceivedKeepsInv ==
    ASSUME CallsInv, NEW t \in Threads, th[t].pc = "answered", Received(t),
           UNCHANGED <<platform, store, sid, calls, accepted, told, late>>
    PROVE  CallsInv'
<1> USE DEF CallsInv
<1>1. /\ th' = [th EXCEPT ![t].pc = "decode"]
      /\ aux' = th[t].r /\ wire' = wire
      /\ nav' = IF platform = "atl" THEN None ELSE nav
  BY DEF Received
<1>2. /\ th'[t].pc = "decode" /\ th'[t].r = th[t].r
      /\ th'[t].op = th[t].op /\ th'[t].q = th[t].q /\ th'[t].try = th[t].try
      /\ th'[t].ok = th[t].ok /\ th'[t].own = th[t].own
      /\ th'[t].alone = th[t].alone /\ DOMAIN th'[t] = DOMAIN th[t]
  BY <1>1 DEF Shapes
<1>3. \A u \in Threads \ {t} : th'[u] = th[u]
  BY <1>1 DEF Shapes
<1>4. Shapes'
  <2>1. DOMAIN th' = Threads
    BY <1>1 DEF Shapes
  <2>2. ASSUME NEW u \in Threads
        PROVE  /\ DOMAIN th'[u] = {"pc", "op", "q", "try", "r", "ok", "own",
                                   "alone"}
               /\ th'[u].pc \in {"idle", "wait", "answered", "decode"}
               /\ th'[u].try \in 0..2 /\ th'[u].q.call \in 0..calls'
    <3>1. CASE u = t
      BY <3>1, <1>2 DEF Shapes
    <3>2. CASE u # t
      BY <3>2, <1>3 DEF Shapes
    <3>3. QED
      BY <3>1, <3>2
  <2>3. nav' \in Threads \cup {None}
    BY <1>1 DEF Shapes
  <2>4. QED
    BY <2>1, <2>2, <2>3 DEF Shapes, IsPlatform
<1>5. ThreadsFit'
  <2>1. ASSUME NEW u \in Threads PROVE ThreadFits(u)'
    <3>1. ThreadFits(u)
      BY DEF ThreadsFit
    <3>2. CASE u = t
      <4>1. IsAnswer(platform, store, th[t].r)'
        BY <3>1, <3>2, <1>2 DEF ThreadFits, IsAnswer
      <4>2. QED
        BY <3>1, <3>2, <4>1, <1>2 DEF ThreadFits
    <3>3. CASE u # t
      BY <3>1, <3>3, <1>3, OthersFit
    <3>4. QED
      BY <3>2, <3>3
  <2>2. \A u \in Threads : th'[u].q.call = th[u].q.call
    BY <1>2, <1>3
  <2>3. QED
    BY <2>1, <2>2 DEF ThreadsFit
<1>6. ConnectionFits'
  <2>1. IsAnswer(platform, store, aux)'
    BY <1>1 DEF ThreadsFit, ThreadFits, IsAnswer
  <2>2. platform = "atl" =>
          \A u \in Threads \ {t} : th[u].pc \notin {"wait", "answered"}
    BY DEF ConnectionFits, Connected
  <2>3. ASSUME NEW u \in Threads PROVE Connected(u)'
    <3>1. Connected(u)
      BY DEF ConnectionFits
    <3>2. CASE u = t
      BY <3>1, <3>2, <2>2, <1>1, <1>2, <1>3 DEF Connected
    <3>3. CASE u # t
      <4>1. platform = "atl" => ~(th[u].pc = "decode" /\ th[u].alone)
        BY <3>1, <3>3 DEF Connected
      <4>2. QED
        BY <3>1, <3>3, <4>1, <2>2, <1>3 DEF Connected
    <3>4. QED
      BY <3>2, <3>3
  <2>4. QED
    BY <2>1, <2>3 DEF ConnectionFits
<1>7. WireFits'
  BY <1>1 DEF WireFits
<1>8. Prompt'
  <2>1. ASSUME ~late, NEW x \in wire
        PROVE  /\ th'[x.t].pc = "wait"
               /\ x = Message(x.t, th'[x.t].q, th'[x.t].try)
    <3>1. /\ th[x.t].pc = "wait" /\ x.t \in Threads
          /\ x = Message(x.t, th[x.t].q, th[x.t].try)
      BY <2>1 DEF Prompt, WireFits
    <3>2. x.t # t
      BY <3>1
    <3>3. QED
      BY <3>1, <3>2, <1>3
  <2>2. QED
    BY <2>1, <1>1 DEF Prompt
<1>9. RecordsFit'
  <2>1. ASSUME OnlyWriter, ~late, NEW rec \in {store.rec} \cup store.done
        PROVE  RecordFits(rec)'
    <3>1. RecordFits(rec)
      BY <2>1 DEF RecordsFit
    <3>2. th'[Writer].q.call = th[Writer].q.call /\ (Unrecorded' => Unrecorded)
      BY <1>2, <1>3, UsesAre DEF Unrecorded
    <3>3. QED
      BY <3>1, <3>2 DEF RecordFits
  <2>2. QED
    BY <2>1 DEF RecordsFit
<1>10. ToldFits'
  <2>1. CASE t = Writer
    BY <2>1, <1>2 DEF ToldFits
  <2>2. CASE t # Writer
    BY <2>2, <1>3, UsesAre DEF ToldFits
  <2>3. QED
    BY <2>1, <2>2
<1>11. QED
  BY <1>4, <1>5, <1>6, <1>7, <1>8, <1>9, <1>10

\* A second try repeats a call that was not recorded.
LEMMA ResendKeepsInv ==
    ASSUME CallsInv, NEW t \in Threads, th[t].pc = "answered", th[t].try # 2,
           ~AtlOk(th[t].r), Resend(t),
           UNCHANGED <<platform, store, sid, calls, accepted, told, late>>
    PROVE  CallsInv'
<1> USE DEF CallsInv
<1> DEFINE msg == Message(t, th[t].q, th[t].try + 1)
<1>1. /\ th' = [th EXCEPT ![t].pc = "wait", ![t].try = @ + 1]
      /\ wire' = wire \cup {msg} /\ UNCHANGED <<aux, nav>>
  BY DEF Resend
<1>2. msg.t = t /\ msg.q = th[t].q /\ msg.try = th[t].try + 1
  BY DEF Message
<1>3. /\ th'[t].pc = "wait" /\ th'[t].try = th[t].try + 1
      /\ th'[t].r = th[t].r /\ th'[t].op = th[t].op /\ th'[t].q = th[t].q
      /\ th'[t].ok = th[t].ok /\ th'[t].own = th[t].own
      /\ th'[t].alone = th[t].alone /\ DOMAIN th'[t] = DOMAIN th[t]
  BY <1>1 DEF Shapes
<1>4. \A u \in Threads \ {t} : th'[u] = th[u]
  BY <1>1 DEF Shapes
<1>5. ThreadFits(t) /\ th[t].try = 1 /\ th[t].q.call \in 1..calls
  BY DEF Shapes, ThreadsFit, ThreadFits
<1>6. th[t].r.code # 200
  BY DEF AtlOk
<1> HIDE DEF msg
<1>7. Shapes'
  <2>1. DOMAIN th' = Threads
    BY <1>1 DEF Shapes
  <2>2. ASSUME NEW u \in Threads
        PROVE  /\ DOMAIN th'[u] = {"pc", "op", "q", "try", "r", "ok", "own",
                                   "alone"}
               /\ th'[u].pc \in {"idle", "wait", "answered", "decode"}
               /\ th'[u].try \in 0..2 /\ th'[u].q.call \in 0..calls'
    <3>1. CASE u = t
      BY <3>1, <1>3, <1>5 DEF Shapes
    <3>2. CASE u # t
      BY <3>2, <1>4 DEF Shapes
    <3>3. QED
      BY <3>1, <3>2
  <2>3. QED
    BY <2>1, <2>2, <1>1 DEF Shapes, IsPlatform
<1>8. ThreadsFit'
  <2>1. ASSUME NEW u \in Threads PROVE ThreadFits(u)'
    <3>1. ThreadFits(u)
      BY DEF ThreadsFit
    <3>2. CASE u = t
      <4>1. IsAnswer(platform, store, th[t].r)'
        BY <3>1, <3>2, <1>3 DEF ThreadFits, IsAnswer
      <4>2. /\ th'[u].r.call \in {0, th'[u].q.call}
            /\ th'[u].r.code # 0 => th'[u].r.call = th'[u].q.call
            /\ th'[u].r.code \in 200..299 => th'[u].q.call \in accepted'
            /\ th'[u].ok /\ platform' # "js" => th'[u].q.call \in accepted'
        BY <3>1, <3>2, <1>3 DEF ThreadFits
      <4>3. /\ th'[u].q.call # 0 /\ th'[u].try # 0 /\ th'[u].op \in Uses[u]
            /\ Sends(platform', th'[u].op, th'[u].q.m, th'[u].q.url,
                     th'[u].q.body)
        <5>1. /\ th[t].q.call # 0 /\ th[t].op \in Uses[t]
              /\ Sends(platform, th[t].op, th[t].q.m, th[t].q.url,
                       th[t].q.body)
          BY <1>5 DEF ThreadFits
        <5>2. QED
          BY <5>1, <3>2, <1>3, <1>5
      <4>4. QED
        BY <3>2, <1>3, <4>1, <4>2, <4>3 DEF ThreadFits
    <3>3. CASE u # t
      BY <3>1, <3>3, <1>4, OthersFit
    <3>4. QED
      BY <3>2, <3>3
  <2>2. \A u \in Threads : th'[u].q.call = th[u].q.call
    BY <1>3, <1>4
  <2>3. QED
    BY <2>1, <2>2 DEF ThreadsFit
<1>9. ConnectionFits'
  <2>1. IsAnswer(platform, store, aux)'
    BY <1>1 DEF ConnectionFits, IsAnswer
  <2>2. ASSUME NEW u \in Threads PROVE Connected(u)'
    <3>1. Connected(u) /\ Connected(t)
      BY DEF ConnectionFits
    <3>2. CASE u = t
      BY <3>1, <3>2, <1>1, <1>3 DEF Connected
    <3>3. CASE u # t
      <4>1. \A v \in Threads : th'[v].pc \in {"wait", "answered"} =>
                               th[v].pc \in {"wait", "answered"}
        BY <1>3, <1>4
      <4>2. QED
        BY <3>1, <3>3, <4>1, <1>1, <1>4 DEF Connected
    <3>4. QED
      BY <3>2, <3>3
  <2>3. QED
    BY <2>1, <2>2 DEF ConnectionFits
<1>10. WireFits'
  <2>1. ASSUME NEW x \in wire'
        PROVE  /\ x.t \in Threads /\ x.q.call \in 1..calls /\ x.try \in 1..2
               /\ \E o \in Uses[x.t] :
                    Sends(platform, o, x.q.m, x.q.url, x.q.body)
    <3>1. CASE x = msg
      BY <3>1, <1>2, <1>5 DEF ThreadFits
    <3>2. CASE x \in wire
      BY <3>2 DEF WireFits
    <3>3. QED
      BY <3>1, <3>2, <1>1
  <2>2. QED
    BY <2>1 DEF WireFits
<1>11. Prompt'
  <2>1. ASSUME ~late, NEW x \in wire'
        PROVE  /\ th'[x.t].pc = "wait"
               /\ x = Message(x.t, th'[x.t].q, th'[x.t].try)
    <3>1. CASE x = msg
      BY <3>1, <1>2, <1>3 DEF msg
    <3>2. CASE x \in wire
      <4>1. /\ th[x.t].pc = "wait" /\ x.t \in Threads
            /\ x = Message(x.t, th[x.t].q, th[x.t].try)
        BY <2>1, <3>2 DEF Prompt, WireFits
      <4>2. x.t # t
        BY <4>1
      <4>3. QED
        BY <4>1, <4>2, <1>4
    <3>3. QED
      BY <3>1, <3>2, <1>1
  <2>2. QED
    BY <2>1 DEF Prompt
<1>12. RecordsFit'
  <2>1. ASSUME OnlyWriter, ~late, NEW rec \in {store.rec} \cup store.done
        PROVE  RecordFits(rec)'
    <3>1. RecordFits(rec)
      BY <2>1 DEF RecordsFit
    <3>2. th'[Writer].q.call = th[Writer].q.call /\ (Unrecorded' => Unrecorded)
      BY <1>3, <1>4, <1>6, UsesAre DEF Unrecorded
    <3>3. QED
      BY <3>1, <3>2 DEF RecordFits
  <2>2. QED
    BY <2>1 DEF RecordsFit
<1>13. ToldFits'
  <2>1. CASE t = Writer
    BY <2>1, <1>3 DEF ToldFits
  <2>2. CASE t # Writer
    BY <2>2, <1>4, UsesAre DEF ToldFits
  <2>3. QED
    BY <2>1, <2>2
<1>14. QED
  BY <1>7, <1>8, <1>9, <1>10, <1>11, <1>12, <1>13

\* Both clients of the computer take an answer, or try again.
LEMMA AnsweredKeepsInv ==
    ASSUME CallsInv, NEW t \in Threads, NavigateX(t) \/ SoupSend(t)
    PROVE  CallsInv'
<1>1. CASE SoupSend(t)
  BY <1>1, ReceivedKeepsInv DEF SoupSend
<1>2. CASE NavigateX(t) /\ (th[t].try = 2 \/ AtlOk(th[t].r))
  BY <1>2, ReceivedKeepsInv DEF NavigateX
<1>3. CASE NavigateX(t) /\ ~(th[t].try = 2 \/ AtlOk(th[t].r))
  BY <1>3, ResendKeepsInv DEF NavigateX
<1>4. QED
  BY <1>1, <1>2, <1>3

\* An answer stays one while sessions are made.
LEMMA AnswerStays ==
    ASSUME NEW p, NEW s, NEW r, IsAnswer(p, s, r), IsStore(s), NEW after,
           IsStore(after), s.nextId <= after.nextId
    PROVE  IsAnswer(p, after, r)
<1>1. IdsWereGiven(r.data, after)
  <2>1. s.nextId \in Nat /\ after.nextId \in Nat
    BY DEF IsStore
  <2>2. QED
    BY <2>1 DEF IsAnswer, IdsWereGiven
<1>2. QED
  BY <1>1 DEF IsAnswer

\* A recording whose chunks are older than the call stays in order with it.
LEMMA AppendStaysInOrder ==
    ASSUME NEW rec \in Seq(Nat), NEW call \in Nat,
           \A i, j \in DOMAIN rec : i < j => rec[i] < rec[j],
           \A i \in DOMAIN rec : rec[i] < call,
           NEW longer, longer = <<call>> \/ longer = Append(rec, call)
    PROVE  /\ \A i, j \in DOMAIN longer : i < j => longer[i] < longer[j]
           /\ \A i \in DOMAIN longer : longer[i] <= call
<1>1. CASE longer = <<call>>
  <2>1. DOMAIN longer = {1} /\ longer[1] = call
    BY <1>1
  <2>2. QED
    BY <2>1
<1>2. CASE longer = Append(rec, call)
  <2>1. /\ Len(rec) \in Nat /\ DOMAIN rec = 1..Len(rec)
        /\ DOMAIN longer = 1..(Len(rec) + 1)
        /\ \A i \in 1..Len(rec) : longer[i] = rec[i]
        /\ longer[Len(rec) + 1] = call
    BY <1>2
  <2>2. \A i \in DOMAIN longer : i \in DOMAIN rec \/ i = Len(rec) + 1
    BY <2>1
  <2>3. \A i \in DOMAIN rec : rec[i] \in Nat
    OBVIOUS
  <2>4. ASSUME NEW i \in DOMAIN longer PROVE longer[i] <= call
    BY <2>1, <2>2, <2>3
  <2>5. ASSUME NEW i \in DOMAIN longer, NEW j \in DOMAIN longer, i < j
        PROVE  longer[i] < longer[j]
    <3>1. i \in DOMAIN rec
      BY <2>1, <2>5
    <3>2. CASE j \in DOMAIN rec
      BY <3>1, <3>2, <2>1, <2>5
    <3>3. CASE j = Len(rec) + 1
      BY <3>1, <3>3, <2>1
    <3>4. QED
      BY <3>2, <3>3, <2>2
  <2>6. QED
    BY <2>4, <2>5
<1>3. QED
  BY <1>1, <1>2

\* The server handles a request.
LEMMA ServeKeepsInv ==
    ASSUME CallsInv, NEW m, NEW how, Serve(m, how)
    PROVE  CallsInv'
<1> USE DEF CallsInv
<1> DEFINE rsp == HandleHttpRequest(store, m.q)
           whole == Reply(rsp.code, rsp.data, TRUE, m.q.call)
           answer == IF how = "whole" THEN whole
                     ELSE [whole EXCEPT !.data = <<>>, !.whole = FALSE]
           t == m.t
<1>1. /\ m \in wire /\ wire' = wire \ {m} /\ store' = rsp.store
      /\ accepted' = IF rsp.code \in 200..299 /\ th[t].q.call = m.q.call
                     THEN accepted \cup {m.q.call} ELSE accepted
      /\ IF Waiting(m)
         THEN th' = [th EXCEPT ![t].pc = "answered", ![t].r = answer]
         ELSE th' = th
      /\ UNCHANGED <<platform, nav, aux, sid, calls, told, late>>
  BY DEF Serve
<1>2. /\ answer.code = rsp.code /\ answer.call = m.q.call
      /\ answer.data = rsp.data \/ answer.data = <<>>
  BY DEF Reply
<1>3. /\ t \in Threads /\ m.q.call \in 1..calls /\ calls \in Nat
      /\ m.q.call \in Nat
  BY <1>1 DEF WireFits, Shapes
<1>4. PICK op \in Uses[t] : Sends(platform, op, m.q.m, m.q.url, m.q.body)
  BY <1>1 DEF WireFits
<1> HIDE DEF rsp, answer, t
<1>5. IsStore(store)
  BY DEF Shapes
<1>6. /\ Belongs(store, m.q, rsp) /\ Records(store, m.q, rsp)
      /\ op \notin Recording => KeepsRecordings(store, rsp)
      /\ op # "SetMailboxValue" => KeepsMailboxes(store, rsp)
      /\ op = "SetMailboxValue" => Shows(rsp.store, m.q.body)
  BY <1>3, <1>4, <1>5, AnswersAre DEF rsp
<1>7. IsStore(store') /\ store.nextId <= store'.nextId
  BY <1>1, <1>6 DEF Belongs
<1>8. IsAnswer(platform', store', answer)
  <2>1. rsp.code = 403 => platform = "atl"
    BY <1>4, <1>6 DEF Belongs, Sends
  <2>2. IdsWereGiven(answer.data, store')
    <3>1. IdsWereGiven(<<>>, store')
      BY DEF IdsWereGiven
    <3>2. QED
      BY <3>1, <1>1, <1>2, <1>6 DEF Belongs
  <2>3. /\ answer.code \in {0, 200, 201, 400, 403, 404, 507}
        /\ answer.code = 403 => platform = "atl"
        /\ answer.data # <<>> => answer.code = 200
    BY <2>1, <1>2, <1>6 DEF Belongs
  <2>4. QED
    BY <2>2, <2>3, <1>1 DEF IsAnswer
<1>9. /\ th'[t].pc = IF Waiting(m) THEN "answered" ELSE th[t].pc
      /\ th'[t].r = IF Waiting(m) THEN answer ELSE th[t].r
      /\ th'[t].op = th[t].op /\ th'[t].q = th[t].q /\ th'[t].try = th[t].try
      /\ th'[t].ok = th[t].ok /\ th'[t].own = th[t].own
      /\ th'[t].alone = th[t].alone /\ DOMAIN th'[t] = DOMAIN th[t]
  BY <1>1, <1>3 DEF Shapes
<1>10. \A u \in Threads \ {t} : th'[u] = th[u]
  BY <1>1 DEF Shapes
<1>11. Waiting(m) => /\ th[t].pc = "wait" /\ th[t].q.call = m.q.call
  BY DEF Waiting, t
<1>12. /\ accepted \subseteq accepted'
       /\ Waiting(m) /\ rsp.code \in 200..299 => th[t].q.call \in accepted'
  BY <1>1, <1>11
<1>13. \A u \in Threads : th'[u].q = th[u].q
  BY <1>9, <1>10
<1>14. ~late => Waiting(m) /\ m.q = th[t].q
  <2>1. ASSUME ~late
        PROVE  th[t].pc = "wait" /\ m = Message(t, th[t].q, th[t].try)
    BY <2>1, <1>1 DEF Prompt, t
  <2>2. m = Message(t, th[t].q, th[t].try) =>
          m.q = th[t].q /\ m.try = th[t].try
    BY DEF Message
  <2>3. QED
    BY <2>1, <2>2 DEF Waiting, t
<1>15. Shapes'
  <2>1. DOMAIN th' = Threads
    BY <1>1 DEF Shapes
  <2>2. ASSUME NEW u \in Threads
        PROVE  /\ DOMAIN th'[u] = {"pc", "op", "q", "try", "r", "ok", "own",
                                   "alone"}
               /\ th'[u].pc \in {"idle", "wait", "answered", "decode"}
               /\ th'[u].try \in 0..2 /\ th'[u].q.call \in 0..calls'
    <3>1. CASE u = t
      BY <3>1, <1>1, <1>9 DEF Shapes
    <3>2. CASE u # t
      BY <3>2, <1>1, <1>10 DEF Shapes
    <3>3. QED
      BY <3>1, <3>2
  <2>3. accepted' \subseteq 1..calls'
    BY <1>1, <1>3 DEF Shapes
  <2>4. sid' \in {0} \cup 1..(store'.nextId - 1)
    <3>1. store.nextId \in Nat /\ store'.nextId \in Nat
      BY <1>5, <1>7 DEF IsStore
    <3>2. sid \in {0} \cup 1..(store.nextId - 1)
      BY DEF Shapes
    <3>3. QED
      BY <3>1, <3>2, <1>1, <1>7
  <2>5. QED
    BY <2>1, <2>2, <2>3, <2>4, <1>1, <1>7 DEF Shapes, IsPlatform
<1>16. ThreadsFit'
  <2>1. ASSUME NEW u \in Threads PROVE ThreadFits(u)'
    <3>1. ThreadFits(u)
      BY DEF ThreadsFit
    <3>2. IsAnswer(platform, store, th[u].r)'
      <4>1. IsAnswer(platform', store', th[u].r)
        BY <3>1, <1>1, <1>5, <1>7, AnswerStays DEF ThreadFits
      <4>2. th'[u].r = th[u].r \/ th'[u].r = answer
        BY <1>9, <1>10
      <4>3. QED
        BY <4>1, <4>2, <1>8
    <3>3. CASE u = t /\ Waiting(m)
      <4>1. /\ th'[t].r.call = th[t].q.call /\ th'[t].r.code = rsp.code
            /\ rsp.code \in 200..299 => th[t].q.call \in accepted'
        BY <3>3, <1>2, <1>9, <1>11, <1>12
      <4>2. /\ th[t].ok /\ platform # "js" => th[t].q.call \in accepted'
            /\ th[t].q.call # 0 /\ th[t].try # 0 /\ th[t].op \in Uses[t]
            /\ Sends(platform, th[t].op, th[t].q.m, th[t].q.url, th[t].q.body)
        BY <3>1, <3>3, <1>11, <1>12 DEF ThreadFits
      <4>3. QED
        BY <3>2, <3>3, <4>1, <4>2, <1>1, <1>9 DEF ThreadFits
    <3>4. CASE ~(u = t /\ Waiting(m))
      <4>1. /\ th'[u].pc = th[u].pc /\ th'[u].op = th[u].op
            /\ th'[u].q = th[u].q /\ th'[u].try = th[u].try
            /\ th'[u].r = th[u].r /\ th'[u].ok = th[u].ok
        BY <3>4, <1>9, <1>10
      <4>2. QED
        BY <3>1, <3>2, <4>1, <1>1, <1>12 DEF ThreadFits
    <3>5. QED
      BY <3>3, <3>4
  <2>2. QED
    BY <2>1, <1>13 DEF ThreadsFit
<1>17. ConnectionFits'
  <2>1. IsAnswer(platform, store, aux)'
    BY <1>1, <1>5, <1>7, AnswerStays DEF ConnectionFits
  <2>2. \A v \in Threads : th'[v].pc \in {"wait", "answered"} =>
                           th[v].pc \in {"wait", "answered"}
    BY <1>9, <1>10, <1>11
  <2>3. ASSUME NEW u \in Threads PROVE Connected(u)'
    <3>1. Connected(u)
      BY DEF ConnectionFits
    <3>2. CASE u = t /\ Waiting(m)
      BY <3>1, <3>2, <1>1, <1>9, <1>11 DEF Connected
    <3>3. CASE ~(u = t /\ Waiting(m))
      <4>1. /\ th'[u].pc = th[u].pc /\ th'[u].r = th[u].r
            /\ th'[u].ok = th[u].ok /\ th'[u].own = th[u].own
            /\ th'[u].alone = th[u].alone
        BY <3>3, <1>9, <1>10
      <4>2. QED
        BY <3>1, <4>1, <2>2, <1>1 DEF Connected
    <3>4. QED
      BY <3>2, <3>3
  <2>4. QED
    BY <2>1, <2>3 DEF ConnectionFits
<1>18. WireFits'
  BY <1>1 DEF WireFits
<1>19. Prompt'
  <2>1. ASSUME ~late, NEW x \in wire'
        PROVE  /\ th'[x.t].pc = "wait"
               /\ x = Message(x.t, th'[x.t].q, th'[x.t].try)
    <3>1. /\ x \in wire /\ x # m
      BY <2>1, <1>1
    <3>2. /\ th[x.t].pc = "wait" /\ x.t \in Threads
          /\ x = Message(x.t, th[x.t].q, th[x.t].try)
      BY <2>1, <3>1 DEF Prompt, WireFits
    <3>3. m = Message(t, th[t].q, th[t].try)
      BY <2>1, <1>1 DEF Prompt, t
    <3>4. x.t # t
      BY <3>1, <3>2, <3>3
    <3>5. QED
      BY <3>2, <3>4, <1>10
  <2>2. QED
    BY <2>1, <1>1 DEF Prompt
<1>20. RecordsFit'
  <2>1. ASSUME OnlyWriter, ~late, NEW rec \in {store'.rec} \cup store'.done
        PROVE  /\ \A i, j \in DOMAIN rec : i < j => rec[i] < rec[j]
               /\ \A i \in DOMAIN rec :
                    /\ rec[i] <= th'[Writer].q.call
                    /\ Unrecorded' => rec[i] < th'[Writer].q.call
    <3>1. th'[Writer].q = th[Writer].q
      BY <1>13, UsesAre
    <3>2. Unrecorded' => Unrecorded
      BY <1>9, <1>10, <1>11, <2>1, <1>14, UsesAre DEF Unrecorded
    <3>3. CASE rec \in {store.rec} \cup store.done
      <4>1. RecordFits(rec)
        BY <2>1, <3>3 DEF RecordsFit
      <4>2. QED
        BY <3>1, <3>2, <4>1 DEF RecordFits
    <3>4. CASE rec \notin {store.rec} \cup store.done
      <4>1. ~KeepsRecordings(store, rsp)
        BY <2>1, <3>4, <1>1 DEF KeepsRecordings
      <4>2. op \in Recording /\ t = Writer
        BY <2>1, <4>1, <1>3, <1>4, <1>6, UsesAre
      <4>3. Waiting(m) /\ m.q = th[Writer].q /\ th[Writer].pc = "wait"
        BY <2>1, <4>2, <1>11, <1>14
      <4>4. CASE rec = <<>>
        BY <4>4
      <4>5. CASE rec # <<>>
        <5>1. /\ rsp.code = 200
              /\ rec \in {<<m.q.call>>, Append(store.rec, m.q.call)}
          BY <2>1, <3>4, <4>1, <4>5, <1>1, <1>6 DEF Records
        <5>2. /\ store.rec \in Seq(Nat) /\ RecordFits(store.rec)
              /\ Unrecorded
          BY <2>1, <4>3, <1>5 DEF IsStore, RecordsFit, Unrecorded
        <5>3. \A i \in DOMAIN store.rec : store.rec[i] < m.q.call
          BY <4>3, <5>2 DEF RecordFits
        <5>4. \A i, j \in DOMAIN store.rec :
                i < j => store.rec[i] < store.rec[j]
          BY <5>2 DEF RecordFits
        <5>5. /\ \A i, j \in DOMAIN rec : i < j => rec[i] < rec[j]
              /\ \A i \in DOMAIN rec : rec[i] <= m.q.call
          <6>1. rec = <<m.q.call>> \/ rec = Append(store.rec, m.q.call)
            BY <5>1
          <6> HIDE DEF CallsInv
          <6>2. QED
            BY <6>1, <5>2, <5>3, <5>4, <1>3, AppendStaysInOrder
        <5>6. ~Unrecorded'
          BY <4>2, <4>3, <5>1, <1>2, <1>9 DEF Unrecorded
        <5>7. QED
          BY <3>1, <4>3, <5>5, <5>6
      <4>6. QED
        BY <4>4, <4>5
    <3>5. QED
      BY <3>3, <3>4
  <2>2. QED
    BY <2>1, <1>1 DEF RecordsFit, RecordFits
<1>21. ToldFits'
  <2>1. ASSUME OnlyWriter, ~late, platform # "js"
        PROVE  /\ Shows(store', told)
               /\ /\ th'[Writer].pc \in {"answered", "decode"}
                  /\ th'[Writer].op \in {"SetVarValue", "SetMailboxValue"}
                  /\ th'[Writer].r.code \in 200..299
                  => Shows(store', th'[Writer].q.body)
               /\ th'[Writer].pc # "idle" /\ th'[Writer].q.m = "PUT" =>
                    told = <<>>
    <3>1. Waiting(m) /\ m.q = th[t].q /\ th[t].pc = "wait"
      BY <2>1, <1>11, <1>14
    <3>2. /\ th'[Writer].q = th[Writer].q /\ th'[Writer].op = th[Writer].op
          /\ th'[Writer].pc = "idle" <=> th[Writer].pc = "idle"
      BY <3>1, <1>9, <1>10, UsesAre
    <3>3. CASE op = "SetMailboxValue"
      <4>1. t = Writer
        BY <2>1, <3>3, <1>3, <1>4, UsesAre
      <4>2. th[Writer].q.m = "PUT"
        BY <3>1, <3>3, <4>1, <1>4 DEF Sends
      <4>3. told = <<>> /\ Shows(store', <<>>)
        BY <2>1, <3>1, <4>1, <4>2 DEF ToldFits, Shows
      <4>4. Shows(store', th[Writer].q.body)
        BY <3>1, <3>3, <4>1, <1>1, <1>6
      <4>5. QED
        BY <3>2, <4>3, <4>4, SMTT(30)
    <3>4. CASE op # "SetMailboxValue"
      <4>1. \A entries : Shows(store, entries) => Shows(store', entries)
        <5>1. KeepsMailboxes(store, rsp)
          BY <3>4, <1>6
        <5>2. /\ store'.val["route"] = store.val["route"]
              /\ store'.val["text"] = store.val["text"]
          BY <5>1, <1>1 DEF KeepsMailboxes
        <5>3. QED
          BY <5>2 DEF Shows
      <4>2. CASE t = Writer
        <5>1. Shows(store', told)
          BY <2>1, <4>1 DEF ToldFits
        <5>2. ASSUME th[Writer].op \in {"SetVarValue", "SetMailboxValue"}
              PROVE  Shows(store', th[Writer].q.body)
          <6>1. Sends(platform, th[t].op, th[t].q.m, th[t].q.url, th[t].q.body)
            BY <3>1, <1>3 DEF ThreadsFit, ThreadFits
          <6>2. th[Writer].q.body \in Speeds
            BY <3>1, <3>4, <4>2, <5>2, <6>1, <1>4 DEF Sends
          <6>3. \A type : \A i \in DOMAIN <<Member("speed", type, 1)>> :
                  <<Member("speed", type, 1)>>[i].n = "speed"
            BY DEF Member
          <6>4. QED
            BY <6>2, <6>3 DEF Shows, Speeds
        <5>3. QED
          BY <2>1, <3>2, <5>1, <5>2 DEF ToldFits
      <4>3. CASE t # Writer
        <5>1. th'[Writer] = th[Writer]
          BY <4>3, <1>10, UsesAre
        <5>2. QED
          BY <2>1, <4>1, <5>1 DEF ToldFits
      <4>4. QED
        BY <4>2, <4>3
    <3>5. QED
      BY <3>3, <3>4
  <2>2. QED
    BY <2>1, <1>1 DEF ToldFits
<1>22. QED
  BY <1>15, <1>16, <1>17, <1>18, <1>19, <1>20, <1>21

\* Time passes at the server.
LEMMA TickKeepsInv ==
    ASSUME CallsInv, Tick
    PROVE  CallsInv'
<1> USE DEF CallsInv
<1>1. /\ store' = Pace(store)
      /\ UNCHANGED <<platform, th, nav, aux, sid, wire, calls, accepted, told,
                     late>>
  BY DEF Tick
<1>2. IsStore(store)
  BY DEF Shapes
<1>3. /\ IsStore(store') /\ store'.nextId = store.nextId
      /\ store'.rec = store.rec /\ store'.done = store.done
      /\ store'.val["route"] = store.val["route"]
      /\ store'.val["text"] = store.val["text"]
  BY <1>1, <1>2 DEF Pace, IsStore
<1>4. store.nextId \in Nat /\ store.nextId <= store'.nextId
  BY <1>2, <1>3 DEF IsStore
<1>5. Shapes'
  BY <1>1, <1>3 DEF Shapes, IsPlatform
<1>6. ThreadsFit'
  <2>1. ASSUME NEW u \in Threads PROVE ThreadFits(u)'
    <3>1. IsAnswer(platform, store, th[u].r)'
      BY <1>1, <1>2, <1>3, <1>4, AnswerStays DEF ThreadsFit, ThreadFits
    <3>2. QED
      BY <3>1, <1>1 DEF ThreadsFit, ThreadFits
  <2>2. QED
    BY <2>1, <1>1 DEF ThreadsFit
<1>7. ConnectionFits'
  <2>1. IsAnswer(platform, store, aux)'
    BY <1>1, <1>2, <1>3, <1>4, AnswerStays DEF ConnectionFits
  <2>2. QED
    BY <2>1, <1>1 DEF ConnectionFits, Connected
<1>8. WireFits' /\ Prompt'
  BY <1>1 DEF WireFits, Prompt
<1>9. RecordsFit'
  BY <1>1, <1>3 DEF RecordsFit, RecordFits, Unrecorded
<1>10. ToldFits'
  <2>1. \A d : Shows(store, d) => Shows(store', d)
    BY <1>3 DEF Shows
  <2>2. QED
    BY <1>1, <2>1 DEF ToldFits
<1>11. QED
  BY <1>5, <1>6, <1>7, <1>8, <1>9, <1>10

\* At the start nobody has called, and nothing is recorded.
LEMMA InitHasInv == Init => CallsInv
<1> SUFFICES ASSUME Init PROVE CallsInv
  OBVIOUS
<1>1. /\ platform \in {"atl", "boost", "js"} /\ store = InitStore
      /\ th = [t \in Threads |-> Idle]
      /\ nav = None /\ aux = NoReply /\ sid = 0 /\ wire = {} /\ calls = 0
      /\ accepted = {} /\ told = <<>> /\ late = FALSE
  BY DEF Init
<1>2. /\ Idle.pc = "idle" /\ Idle.try = 0 /\ Idle.q.call = 0
      /\ Idle.r = NoReply /\ Idle.ok = FALSE
      /\ DOMAIN Idle = {"pc", "op", "q", "try", "r", "ok", "own", "alone"}
  BY DEF Idle, NoRequest
<1>3. \A t \in Threads : th[t] = Idle
  BY <1>1
<1>4. /\ NoReply.code = 0 /\ NoReply.data = <<>> /\ NoReply.call = 0
  BY DEF NoReply, Reply
<1>5. IsAnswer(platform, store, NoReply)
  BY <1>4 DEF IsAnswer, IdsWereGiven
<1>6. IsStore(store) /\ store.rec = <<>> /\ store.done = {}
  <2>1. <<>> \in Seq(Nat)
    OBVIOUS
  <2>2. QED
    BY <2>1, <1>1 DEF InitStore, IsStore
<1>7. Shapes
  <2>1. DOMAIN th = Threads /\ accepted \subseteq 1..calls
    BY <1>1
  <2>2. \A t \in Threads :
          /\ DOMAIN th[t] = {"pc", "op", "q", "try", "r", "ok", "own", "alone"}
          /\ th[t].pc = "idle" /\ th[t].try = 0 /\ th[t].q.call = 0
    BY <1>2, <1>3
  <2>3. 0 \in 0..2 /\ calls \in Nat /\ 0 \in 0..calls
    BY <1>1
  <2>4. /\ IsPlatform /\ nav \in Threads \cup {None} /\ late \in BOOLEAN
        /\ sid \in {0} \cup 1..(store.nextId - 1)
    BY <1>1 DEF IsPlatform
  <2>5. QED
    BY <2>1, <2>2, <2>3, <2>4, <1>6 DEF Shapes
<1>8. ThreadsFit
  <2>1. ASSUME NEW t \in Threads PROVE ThreadFits(t)
    <3>1. /\ th[t].pc = "idle" /\ th[t].ok = FALSE /\ th[t].r = NoReply
          /\ th[t].q.call = 0
      BY <1>2, <1>3
    <3>2. 0 \notin 200..299
      OBVIOUS
    <3>3. QED
      BY <3>1, <3>2, <1>4, <1>5 DEF ThreadFits
  <2>2. \A t \in Threads : th[t].q.call = 0
    BY <1>2, <1>3
  <2>3. QED
    BY <2>1, <2>2 DEF ThreadsFit
<1>9. ConnectionFits
  BY <1>1, <1>2, <1>3, <1>5 DEF ConnectionFits, Connected
<1>10. WireFits /\ Prompt
  BY <1>1 DEF WireFits, Prompt
<1>11. RecordsFit
  BY <1>6 DEF RecordsFit, RecordFits
<1>12. ToldFits
  BY <1>1, <1>2, <1>3, UsesAre DEF ToldFits, Shows
<1>13. QED
  BY <1>7, <1>8, <1>9, <1>10, <1>11, <1>12 DEF CallsInv

\* Every step keeps the invariant.
LEMMA StepKeepsInv == CallsInv /\ [Next]_vars => CallsInv'
<1> SUFFICES ASSUME CallsInv, [Next]_vars PROVE CallsInv'
  OBVIOUS
<1>1. ASSUME NEW t \in Threads, AtlCall(t) \/ BoostCall(t) \/ JsCall(t)
      PROVE  CallsInv'
  <2>1. IsPlatform
    BY DEF CallsInv, Shapes
  <2>2. Starts(t) \/ Ends(t)
    BY <1>1, <2>1, CallsAre
  <2>3. CASE Starts(t)
    BY <2>3, NavigateKeepsInv DEF Starts
  <2>4. CASE Ends(t)
    BY <2>4, ReturnKeepsInv DEF Ends
  <2>5. QED
    BY <2>2, <2>3, <2>4
<1>2. ASSUME NEW t \in Threads, GiveUp(t) \/ NavigateX(t) \/ SoupSend(t)
      PROVE  CallsInv'
  BY <1>2, GiveUpKeepsInv, AnsweredKeepsInv
<1>3. ASSUME NEW m \in wire, NEW how \in {"whole", "cut"}, Serve(m, how)
      PROVE  CallsInv'
  BY <1>3, ServeKeepsInv
<1>4. CASE Tick
  BY <1>4, TickKeepsInv
<1>5. CASE UNCHANGED vars
  <2>1. UNCHANGED <<platform, store, th, nav, aux, sid, wire, calls, accepted,
                    told, late>>
    BY <1>5 DEF vars
  <2>2. Shapes' /\ WireFits' /\ Prompt'
    BY <2>1 DEF CallsInv, Shapes, WireFits, Prompt, IsPlatform
  <2>3. ThreadsFit' /\ ConnectionFits'
    BY <2>1 DEF CallsInv, ThreadsFit, ThreadFits, ConnectionFits, Connected
  <2>4. RecordsFit' /\ ToldFits'
    BY <2>1 DEF CallsInv, RecordsFit, RecordFits, Unrecorded, ToldFits
  <2>5. QED
    BY <2>2, <2>3, <2>4 DEF CallsInv
<1>6. QED
  BY <1>1, <1>2, <1>3, <1>4, <1>5 DEF Next

\* It holds throughout.
LEMMA CallsInvHolds == Spec => []CallsInv
  BY InitHasInv, StepKeepsInv, PTL DEF Spec

-----------------------------------------------------------------------------
(* The results. *)

\* Of any table of handlers, sorted by the constructor, the search finds the
\* row of each key that is in the table, and none for another key
\* (LoggerIf.cpp, CLoggerInterface and HandleHttpRequest).
THEOREM SearchFindsItsRow ==
    ASSUME NEW n \in Nat, NEW table \in Tables(n), NEW key \in Int
    PROVE  LET sorted == SortTable(table)
               row == Lookup(sorted, key)
           IN  IF \E a \in 1..n : table[a] = key
               THEN row \in 1..n /\ sorted[row] = key
               ELSE row = 0
<1> DEFINE sorted == SortTable(table)
           row == Lookup(sorted, key)
<1>1. /\ sorted \in Tables(n) /\ Rearranged(sorted, table, n, 1)
      /\ \A a, b \in 1..n : a <= b => sorted[a] <= sorted[b]
  BY SortTableIs
<1> HIDE DEF sorted
<1>2. /\ row \in 0..n
      /\ row # 0 => sorted[row] = key
      /\ (\E a \in 1..n : sorted[a] = key) => row # 0
  BY <1>1, LookupIs
<1>3. (\E a \in 1..n : sorted[a] = key) <=> (\E a \in 1..n : table[a] = key)
  <2>1. PICK p \in [1..n -> 1..n] :
              /\ \A b \in 1..n : \E a \in 1..n : p[a] = b
              /\ \A a \in 1..n : sorted[a] = table[p[a]]
    BY <1>1 DEF Rearranged
  <2>2. ASSUME NEW a \in 1..n, sorted[a] = key
        PROVE  \E b \in 1..n : table[b] = key
    <3>1. p[a] \in 1..n /\ table[p[a]] = key
      BY <2>1, <2>2
    <3>2. QED
      BY <3>1
  <2>3. ASSUME NEW b \in 1..n, table[b] = key
        PROVE  \E a \in 1..n : sorted[a] = key
    <3>1. PICK a \in 1..n : p[a] = b
      BY <2>1
    <3>2. QED
      BY <3>1, <2>1, <2>3
  <2>4. QED
    BY <2>2, <2>3
<1> HIDE DEF row
<1>4. IF \E a \in 1..n : table[a] = key
      THEN row \in 1..n /\ sorted[row] = key ELSE row = 0
  <2>1. CASE row = 0
    BY <2>1, <1>2, <1>3
  <2>2. CASE row # 0
    <3>1. row \in 1..n /\ sorted[row] = key
      BY <2>2, <1>2
    <3>2. QED
      BY <3>1, <1>3
  <2>3. QED
    BY <2>1, <2>2
<1>5. QED
  BY <1>4 DEF row, sorted

\* What the functions of the clients report, for every number of threads that
\* share the client and whatever the network loses, cuts off or delivers late:
\* every request had a handler; what the portable and the Windows client report
\* as done was accepted (Abk.js does not look); and the answer decoded by the
\* portable client or by Abk.js was the call's own, by the Windows client only
\* if no other thread called a function of the same client object meanwhile
\* (atl/AbkClient.cpp NavigateX, NavigateGet; LoggerIf.cpp HandleHttpRequest).
THEOREM ReportsAreTrue == Spec => []ResultsAreTrue
<1>1. CallsInv => ResultsAreTrue
  <2> SUFFICES ASSUME CallsInv PROVE ResultsAreTrue
    OBVIOUS
  <2>1. TypeOK
    <3>1. \A t \in Threads :
            /\ th[t].pc \in {"idle", "wait", "answered", "decode"}
            /\ th[t].try \in 0..2 /\ th[t].q.call \in 0..calls
            /\ th[t].r.call \in {0, th[t].q.call}
      BY DEF CallsInv, Shapes, ThreadsFit, ThreadFits
    <3>2. \A m \in wire : m.q.call \in 1..calls /\ m.try \in 1..2
      BY DEF CallsInv, WireFits
    <3>3. QED
      BY <3>1, <3>2 DEF CallsInv, Shapes, IsPlatform, IsStore, TypeOK
  <2>2. TrueMeansAccepted
    BY DEF CallsInv, ThreadsFit, ThreadFits, TrueMeansAccepted
  <2>3. DecodesOwnAnswer
    BY DEF CallsInv, ConnectionFits, Connected, DecodesOwnAnswer
  <2>4. EveryCallIsHandled
    <3>1. ASSUME NEW t \in Threads PROVE th[t].r.code # 501
      <4>1. IsAnswer(platform, store, th[t].r)
        BY DEF CallsInv, ThreadsFit, ThreadFits
      <4>2. QED
        BY <4>1 DEF IsAnswer
    <3>2. QED
      BY <3>1 DEF EveryCallIsHandled
  <2>5. QED
    BY <2>1, <2>2, <2>3, <2>4 DEF ResultsAreTrue
<1>2. QED
  BY <1>1, CallsInvHolds, PTL

\* A recording holds each chunk once and in the order of the calls, however
\* often the Windows client tries again, until a call is given up
\* (atl/AbkClient.cpp NavigateX; MyFakeLogger.cpp OnAudioRecData).
THEOREM RecordingsAreInOrder == Spec => []RecordsInOrder
<1>1. CallsInv => RecordsInOrder
  BY WriterAssumption DEF CallsInv, RecordsFit, RecordFits, RecordsInOrder
<1>2. QED
  BY <1>1, CallsInvHolds, PTL

\* A mailbox holds what its only writer was last told that it had set, until a
\* call is given up (LoggerIf.cpp PutVarValue; AbkClient.cpp SetMailboxValue).
THEOREM SetValuesStick == Spec => []SetValueSticks
<1>1. CallsInv => SetValueSticks
  BY WriterAssumption DEF CallsInv, ToldFits, Shows, SetValueSticks
<1>2. QED
  BY <1>1, CallsInvHolds, PTL
=============================================================================
