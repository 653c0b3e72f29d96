--------------------------- MODULE HttpServerProofs ---------------------------
(***************************************************************************)
(* Theorems about HttpServer: the search of FindUrlOption finds the longest*)
(* path, a request is handled when it is whole, and what a client receives *)
(* is the responses to its requests, in order and without a gap.           *)
(***************************************************************************)
EXTENDS HttpServer, TLAPS, SequenceTheorems, FiniteSetTheorems,
        WellFoundedInduction

-----------------------------------------------------------------------------
(* The inductive invariant. *)

Pcs == {"none", "created", "waiting", "handling", "sending", "resending",
        "leaving", "closed", "ended"}
Segments == Nat \X Nat
Options == m_mapUrlOptions \cup {NoOption}
GranuleSet == [of : Nat, i : Nat, option : Options]

Typed ==
    /\ main \in {"idle", "running", "stopping", "counting", "stopped",
                 "gave up"}
    /\ shutdown \in BOOLEAN
    /\ accept \in {"none", "listening", "ended", "killed"}
    /\ thread \in [Conns -> Pcs]
    /\ taken \in [Conns -> BOOLEAN]
    /\ keepAlive \in [Conns -> BOOLEAN]
    /\ blocked \in [Conns -> BOOLEAN]
    /\ client \in [Conns -> {"off", "open", "closed"}]
    /\ events \in [Conns -> SUBSET {"read", "write", "close"}]
    /\ strRequest \in [Conns -> Seq(Segments)]
    /\ arrived \in [Conns -> Seq(Segments)]
    /\ response \in [Conns -> [of : Nat, option : Options, size : Nat]]
    /\ advance \in [Conns -> Nat]
    /\ request \in [Conns -> Nat]
    /\ segment \in [Conns -> Nat]
    /\ got \in [Conns -> Seq(GranuleSet)]
    /\ out \in [Conns -> Seq(GranuleSet)]

\* The granules of a connection, those the client has and those on their way.
Stream(c) == got[c] \o out[c]

\* A response is followed by the next one, a granule by the next one.
Follows(p, g) ==
    IF p.i < Size(p.option) THEN g = [p EXCEPT !.i = @ + 1]
                            ELSE g.of = p.of + 1 /\ g.i = 1

InOrder(s) ==
    \A k \in 1..Len(s) : IF k = 1 THEN s[1].of = 1 /\ s[1].i = 1
                                  ELSE Follows(s[k - 1], s[k])

\* The last granule of s is the end of response n (0: there is none).
EndsWith(s, n) ==
    IF n = 0 THEN Len(s) = 0
    ELSE /\ Len(s) > 0
         /\ s[Len(s)].of = n /\ s[Len(s)].i = Size(s[Len(s)].option)

\* The loop of the thread has not been left and no send has failed.
Serving(c) ==
    /\ keepAlive[c]
    /\ thread[c] \in {"none", "created", "waiting", "handling", "sending",
                      "resending"}

\* What the client has sent of its last request is what has been collected
\* and what has arrived.
Collects(c) ==
    /\ Len(strRequest[c]) + Len(arrived[c]) = segment[c]
    /\ \A i \in 1..Len(strRequest[c]) : strRequest[c][i] = <<request[c], i>>
    /\ \A i \in 1..Len(arrived[c]) :
          arrived[c][i] = <<request[c], Len(strRequest[c]) + i>>

\* The last request has not been handled: nothing of an answer is under way.
\* A Send that has sent all of the response before may still have to return.
Asked(c) ==
    /\ out[c] = <<>> /\ EndsWith(Stream(c), request[c] - 1)
    /\ segment[c] \in 1..Current(c).parts
    /\ IF Sends(c)
       THEN /\ advance[c] = response[c].size
            /\ Len(arrived[c]) = segment[c]
            /\ \A i \in 1..Len(arrived[c]) : arrived[c][i] = <<request[c], i>>
       ELSE advance[c] = 0 /\ Collects(c)
    /\ thread[c] = "handling" => /\ arrived[c] = <<>>
                                 /\ segment[c] = Current(c).parts

\* The last request, if any, has been handled: its answer is under way up to
\* nSendAdvance, or as a whole.
Answered(c) ==
    /\ arrived[c] = <<>> /\ thread[c] # "handling"
    /\ request[c] = 0 => segment[c] = 0 /\ ~Sends(c) /\ advance[c] = 0
    /\ request[c] > 0 => segment[c] = Current(c).parts
    /\ ~Sends(c) => strRequest[c] = <<>>
    /\ ~Sends(c) /\ advance[c] = 0 => EndsWith(Stream(c), request[c])
    /\ Sends(c) /\ advance[c] = 0 =>
          out[c] = <<>> /\ EndsWith(Stream(c), request[c] - 1)
    /\ advance[c] > 0 =>
          /\ Len(Stream(c)) > 0
          /\ Stream(c)[Len(Stream(c))] = [of |-> request[c], i |-> advance[c],
                                          option |-> response[c].option]
    /\ ~Sends(c) /\ advance[c] > 0 => advance[c] < response[c].size

Exchange(c) ==
    Serving(c) => \/ request[c] = response[c].of + 1 /\ Asked(c)
                  \/ request[c] = response[c].of /\ Answered(c)

Served(c) ==
    /\ request[c] \in 0..Len(Request[c])
    /\ response[c].of \in 0..request[c]
    /\ advance[c] \in 0..response[c].size
    /\ response[c].of > 0 =>
          /\ response[c].option = RequestOption[c][response[c].of]
          /\ response[c].size = Size(response[c].option)
    /\ Len(out[c]) <= SendBuffer
    /\ \A k \in 1..Len(Stream(c)) : Stream(c)[k].of <= response[c].of
    /\ ~keepAlive[c] => /\ advance[c] = 0
                        /\ thread[c] \in {"waiting", "leaving", "closed",
                                          "ended"}
    /\ thread[c] \in {"none", "created"} => advance[c] = 0

ConnInv(c) == Exchange(c) /\ Served(c) /\ InOrder(Stream(c))

\* nClientsConnected counts the threads at work.
Counts == count = Cardinality({c \in Conns : Counted(c)})

HttpIInv == Typed /\ Counts /\ \A c \in Conns : ConnInv(c)

-----------------------------------------------------------------------------
(* The order of m_mapUrlOptions, and what FindUrlOption finds in it. *)

\* A left part of a string, character by character.
LEMMA PrefixIs ==
    ASSUME NEW p \in Seq(Int), NEW u \in Seq(Int)
    PROVE  IsPrefix(p, u) <=> /\ Len(p) <= Len(u)
                              /\ \A i \in 1..Len(p) : p[i] = u[i]
<1> DEFINE a == SubSeq(p, 1, Len(p))
           b == SubSeq(u, 1, Len(p))
<1>1. Len(p) \in Nat /\ Len(u) \in Nat
  OBVIOUS
<1>2. ASSUME Len(p) <= Len(u)
      PROVE  a = b <=> \A i \in 1..Len(p) : p[i] = u[i]
  <2>1. /\ a \in Seq(Int) /\ Len(a) = Len(p)
        /\ \A i \in 1..Len(p) : a[i] = p[i]
    BY <1>1
  <2>2. /\ b \in Seq(Int) /\ Len(b) = Len(p)
        /\ \A i \in 1..Len(p) : b[i] = u[i]
    BY <1>1, <1>2
  <2> HIDE DEF a, b
  <2>3. (\A i \in 1..Len(a) : a[i] = b[i]) => a = b
    BY <2>1, <2>2, SeqEqual
  <2>4. QED
    BY <2>1, <2>2, <2>3
<1>3. QED
  BY <1>2 DEF IsPrefix

\* A set of naturals that is not empty has a least one.
LEMMA NatMin ==
    ASSUME NEW T, T \subseteq Nat, T # {}
    PROVE  \E x \in T : \A y \in T : x <= y
<1>1. \E x \in T : \A y \in T : ~(<<y, x>> \in OpToRel(<, Nat))
  BY NatLessThanWellFounded, WFMin
<1>2. \A x, y \in T : ~(<<y, x>> \in OpToRel(<, Nat)) => x <= y
  BY DEF OpToRel
<1>3. QED
  BY <1>1, <1>2

\* The two ways to come before another string.
Differs(u, v, i) ==
    /\ i \in 1..Len(u) /\ i \in 1..Len(v)
    /\ u[i] < v[i] /\ \A j \in 1..(i - 1) : u[j] = v[j]

\* LexLeq in the two ways above.
LEMMA LexIs ==
    ASSUME NEW u \in Seq(Int), NEW v \in Seq(Int)
    PROVE  LexLeq(u, v) <=>
               \/ Len(u) <= Len(v) /\ \A i \in 1..Len(u) : u[i] = v[i]
               \/ \E i \in Nat : Differs(u, v, i)
<1>1. DOMAIN u = 1..Len(u) /\ DOMAIN v = 1..Len(v)
  OBVIOUS
<1>2. (\E i \in DOMAIN u \cap DOMAIN v :
          u[i] < v[i] /\ \A j \in 1..(i - 1) : u[j] = v[j])
      <=> \E i \in Nat : Differs(u, v, i)
  <2>1. \A i : i \in DOMAIN u \cap DOMAIN v
               <=> i \in Nat /\ i \in 1..Len(u) /\ i \in 1..Len(v)
    BY <1>1
  <2>2. QED
    BY <2>1 DEF Differs
<1>3. QED
  BY <1>2, PrefixIs DEF LexLeq

\* std::string's order is total ...
LEMMA LexTotal ==
    ASSUME NEW u \in Seq(Int), NEW v \in Seq(Int)
    PROVE  LexLeq(u, v) \/ LexLeq(v, u)
<1> DEFINE D == {i \in 1..Len(u) : i <= Len(v) /\ u[i] # v[i]}
<1>1. CASE D = {}
  <2>1. \A i \in 1..Len(u) : i <= Len(v) => u[i] = v[i]
    BY <1>1
  <2>2. QED
    BY <2>1, LexIs
<1>2. CASE D # {}
  <2>0. D \subseteq Nat
    OBVIOUS
  <2>1. PICK i \in D : \A j \in D : i <= j
    <3> HIDE DEF D
    <3>1. QED
      BY <1>2, <2>0, NatMin
  <2>2. /\ i \in 1..Len(u) /\ i \in 1..Len(v) /\ i \in Nat
        /\ u[i] \in Int /\ v[i] \in Int /\ u[i] # v[i]
    BY <2>1
  <2>3. ASSUME NEW j \in 1..(i - 1) PROVE u[j] = v[j]
    <3>1. j \in 1..Len(u) /\ j <= Len(v) /\ ~(i <= j)
      BY <2>2
    <3>2. j \notin D
      BY <2>1, <3>1
    <3>3. QED
      BY <3>1, <3>2
  <2>4. Differs(u, v, i) \/ Differs(v, u, i)
    BY <2>2, <2>3 DEF Differs
  <2>5. QED
    BY <2>2, <2>4, LexIs
<1>3. QED
  BY <1>1, <1>2

\* ... transitive ...
LEMMA LexTrans ==
    ASSUME NEW u \in Seq(Int), NEW v \in Seq(Int), NEW w \in Seq(Int),
           LexLeq(u, v), LexLeq(v, w)
    PROVE  LexLeq(u, w)
<1>0. /\ Len(u) \in Nat /\ Len(v) \in Nat /\ Len(w) \in Nat
      /\ \A j \in 1..Len(u) : u[j] \in Int
      /\ \A j \in 1..Len(v) : v[j] \in Int
      /\ \A j \in 1..Len(w) : w[j] \in Int
  OBVIOUS
<1>1. CASE Len(u) <= Len(v) /\ \A i \in 1..Len(u) : u[i] = v[i]
  <2>1. CASE Len(v) <= Len(w) /\ \A i \in 1..Len(v) : v[i] = w[i]
    BY <1>0, <1>1, <2>1, LexIs
  <2>2. ASSUME NEW i \in Nat, Differs(v, w, i) PROVE LexLeq(u, w)
    <3>1. CASE i <= Len(u)
      <4>1. Differs(u, w, i)
        BY <1>0, <1>1, <2>2, <3>1, SMTT(30) DEF Differs
      <4>2. QED
        BY <4>1, LexIs
    <3>2. CASE Len(u) < i
      <4>1. Len(u) <= Len(w) /\ \A j \in 1..Len(u) : u[j] = w[j]
        BY <1>0, <1>1, <2>2, <3>2 DEF Differs
      <4>2. QED
        BY <4>1, LexIs
    <3>3. QED
      BY <1>0, <3>1, <3>2
  <2>3. QED
    BY <2>1, <2>2, LexIs
<1>2. ASSUME NEW i \in Nat, Differs(u, v, i) PROVE LexLeq(u, w)
  <2>0. /\ i \in 1..Len(u) /\ i \in 1..Len(v) /\ u[i] < v[i]
        /\ \A j \in 1..(i - 1) : u[j] = v[j]
        /\ u[i] \in Int /\ v[i] \in Int
    BY <1>0, <1>2 DEF Differs
  <2>1. CASE Len(v) <= Len(w) /\ \A j \in 1..Len(v) : v[j] = w[j]
    <3>1. Differs(u, w, i)
      BY <1>0, <1>2, <2>1, SMTT(30) DEF Differs
    <3>2. QED
      BY <3>1, LexIs
  <2>2. ASSUME NEW k \in Nat, Differs(v, w, k) PROVE LexLeq(u, w)
    <3>1. /\ k \in 1..Len(v) /\ k \in 1..Len(w) /\ v[k] < w[k]
          /\ \A j \in 1..(k - 1) : v[j] = w[j]
          /\ v[k] \in Int /\ w[k] \in Int
      BY <1>0, <2>2 DEF Differs
    <3>2. CASE i < k
      <4>1. i \in 1..Len(w) /\ i \in 1..(k - 1)
        BY <1>0, <1>2, <2>0, <2>2, <3>1, <3>2
      <4>2. \A j \in 1..(i - 1) : j \in 1..(k - 1)
        BY <1>2, <2>2, <3>2
      <4>3. Differs(u, w, i)
        BY <2>0, <3>1, <4>1, <4>2 DEF Differs
      <4>4. QED
        BY <4>3, LexIs
    <3>3. CASE k < i
      <4>1. k \in 1..Len(u) /\ k \in 1..(i - 1)
        BY <1>0, <1>2, <2>0, <2>2, <3>1, <3>3
      <4>2. \A j \in 1..(k - 1) : j \in 1..(i - 1)
        BY <1>2, <2>2, <3>3
      <4>3. Differs(u, w, k)
        BY <2>0, <3>1, <4>1, <4>2 DEF Differs
      <4>4. QED
        BY <4>3, LexIs
    <3>4. CASE i = k
      <4>1. Differs(u, w, i)
        BY <2>0, <3>1, <3>4, SMTT(30) DEF Differs
      <4>2. QED
        BY <4>1, LexIs
    <3>5. QED
      BY <3>2, <3>3, <3>4
  <2>3. QED
    BY <2>1, <2>2, LexIs
<1>3. QED
  BY <1>1, <1>2, LexIs

\* ... and antisymmetric.
LEMMA LexAnti ==
    ASSUME NEW u \in Seq(Int), NEW v \in Seq(Int), LexLeq(u, v), LexLeq(v, u)
    PROVE  u = v
<1>0. /\ Len(u) \in Nat /\ Len(v) \in Nat
      /\ \A j \in 1..Len(u) : u[j] \in Int
      /\ \A j \in 1..Len(v) : v[j] \in Int
  OBVIOUS
<1>1. CASE Len(u) <= Len(v) /\ \A i \in 1..Len(u) : u[i] = v[i]
  <2>1. CASE Len(v) <= Len(u)
    <3>1. Len(u) = Len(v)
      BY <1>0, <1>1, <2>1
    <3>2. QED
      BY <1>1, <3>1, SeqEqual
  <2>2. ASSUME NEW i \in Nat, Differs(v, u, i) PROVE FALSE
    BY <1>0, <1>1, <2>2 DEF Differs
  <2>3. QED
    BY <2>1, <2>2, LexIs
<1>2. ASSUME NEW i \in Nat, Differs(u, v, i) PROVE FALSE
  <2>1. CASE Len(v) <= Len(u) /\ \A j \in 1..Len(v) : v[j] = u[j]
    BY <1>0, <1>2, <2>1 DEF Differs
  <2>2. ASSUME NEW k \in Nat, Differs(v, u, k) PROVE FALSE
    <3>1. CASE i < k
      BY <1>0, <1>2, <2>2, <3>1 DEF Differs
    <3>2. CASE k < i
      BY <1>0, <1>2, <2>2, <3>2 DEF Differs
    <3>3. CASE i = k
      BY <1>0, <1>2, <2>2, <3>3 DEF Differs
    <3>4. QED
      BY <3>1, <3>2, <3>3
  <2>3. QED
    BY <2>1, <2>2, LexIs
<1>3. QED
  BY <1>1, <1>2, LexIs

\* Finitely many strings have a first and a last one.
LEMMA FirstExists ==
    ASSUME NEW S, S \subseteq Seq(Int), IsFiniteSet(S), S # {}
    PROVE  \E x \in S : \A y \in S : LexLeq(x, y)
<1> DEFINE Below(x) == {y \in S : LexLeq(y, x) /\ y # x}
           N == {Cardinality(Below(x)) : x \in S}
<1>1. \A x \in S : IsFiniteSet(Below(x)) /\ Cardinality(Below(x)) \in Nat
  <2>1. ASSUME NEW x \in S
        PROVE  IsFiniteSet(Below(x)) /\ Cardinality(Below(x)) \in Nat
    <3>1. Below(x) \in SUBSET S
      OBVIOUS
    <3> HIDE DEF Below
    <3>2. QED
      BY <3>1, FS_Subset, FS_CardinalityType
  <2>2. QED
    BY <2>1
<1>2. PICK n \in N : \A m \in N : n <= m
  <2>1. N \subseteq Nat /\ N # {}
    BY <1>1
  <2> HIDE DEF N
  <2>2. QED
    BY <2>1, NatMin
<1>3. PICK x \in S : n = Cardinality(Below(x))
  BY <1>2
<1>4. ASSUME NEW y \in S, ~LexLeq(x, y) PROVE FALSE
  <2>1. LexLeq(y, x) /\ y # x
    BY <1>4, LexTotal
  <2>2. \A z \in Below(y) : z \in Below(x)
    <3>1. ASSUME NEW z \in S, LexLeq(z, y), z # y
          PROVE  LexLeq(z, x) /\ z # x
      BY <1>4, <2>1, <3>1, LexTrans
    <3>2. QED
      BY <3>1
  <2>3. y \in Below(x) /\ y \notin Below(y)
    BY <2>1
  <2>4. Cardinality(Below(x)) <= Cardinality(Below(y))
    <3>1. Cardinality(Below(y)) \in N
      OBVIOUS
    <3> HIDE DEF N
    <3>2. QED
      BY <1>2, <1>3, <3>1
  <2> HIDE DEF Below
  <2>5. Below(y) \in SUBSET Below(x)
    BY <2>2
  <2>6. Cardinality(Below(y)) <= Cardinality(Below(x))
        /\ (Cardinality(Below(x)) = Cardinality(Below(y))
               => Below(x) = Below(y))
    BY <1>1, <2>5, FS_Subset
  <2>7. QED
    BY <1>1, <2>3, <2>4, <2>6
<1>5. QED
  BY <1>4

\* The same from the other end.
LEMMA LastExists ==
    ASSUME NEW S, S \subseteq Seq(Int), IsFiniteSet(S), S # {}
    PROVE  \E x \in S : \A y \in S : LexLeq(y, x)
<1> DEFINE Above(x) == {y \in S : LexLeq(x, y) /\ y # x}
           N == {Cardinality(Above(x)) : x \in S}
<1>1. \A x \in S : IsFiniteSet(Above(x)) /\ Cardinality(Above(x)) \in Nat
  <2>1. ASSUME NEW x \in S
        PROVE  IsFiniteSet(Above(x)) /\ Cardinality(Above(x)) \in Nat
    <3>1. Above(x) \in SUBSET S
      OBVIOUS
    <3> HIDE DEF Above
    <3>2. QED
      BY <3>1, FS_Subset, FS_CardinalityType
  <2>2. QED
    BY <2>1
<1>2. PICK n \in N : \A m \in N : n <= m
  <2>1. N \subseteq Nat /\ N # {}
    BY <1>1
  <2> HIDE DEF N
  <2>2. QED
    BY <2>1, NatMin
<1>3. PICK x \in S : n = Cardinality(Above(x))
  BY <1>2
<1>4. ASSUME NEW y \in S, ~LexLeq(y, x) PROVE FALSE
  <2>1. LexLeq(x, y) /\ y # x
    BY <1>4, LexTotal
  <2>2. \A z \in Above(y) : z \in Above(x)
    <3>1. ASSUME NEW z \in S, LexLeq(y, z), z # y
          PROVE  LexLeq(x, z) /\ z # x
      BY <1>4, <2>1, <3>1, LexTrans
    <3>2. QED
      BY <3>1
  <2>3. y \in Above(x) /\ y \notin Above(y)
    BY <2>1
  <2>4. Cardinality(Above(x)) <= Cardinality(Above(y))
    <3>1. Cardinality(Above(y)) \in N
      OBVIOUS
    <3> HIDE DEF N
    <3>2. QED
      BY <1>2, <1>3, <3>1
  <2> HIDE DEF Above
  <2>5. Above(y) \in SUBSET Above(x)
    BY <2>2
  <2>6. Cardinality(Above(y)) <= Cardinality(Above(x))
        /\ (Cardinality(Above(x)) = Cardinality(Above(y))
               => Above(x) = Above(y))
    BY <1>1, <2>5, FS_Subset
  <2>7. QED
    BY <1>1, <2>3, <2>4, <2>6
<1>5. QED
  BY <1>4

\* std::map::lower_bound and rbegin stand for the first and the last option.
LEMMA FirstAndLast ==
    ASSUME NEW S, S \subseteq Seq(Int), IsFiniteSet(S), S # {}
    PROVE  /\ FirstOf(S) \in S /\ \A v \in S : LexLeq(FirstOf(S), v)
           /\ LastOf(S) \in S /\ \A v \in S : LexLeq(v, LastOf(S))
<1>1. FirstOf(S) \in S /\ \A v \in S : LexLeq(FirstOf(S), v)
  BY FirstExists DEF FirstOf
<1>2. LastOf(S) \in S /\ \A v \in S : LexLeq(v, LastOf(S))
  BY LastExists DEF LastOf
<1>3. QED
  BY <1>1, <1>2

\* The keys of m_mapUrlOptions are strings, finitely many.
LEMMA MapIs ==
    m_mapUrlOptions \subseteq Seq(Int) /\ IsFiniteSet(m_mapUrlOptions)
<1>1. \A u \in OptionUrls : AddUrlOption(u) \in Seq(Int)
  BY HttpAssumption DEF HttpAssumption, AddUrlOption
<1>2. IsFiniteSet({AddUrlOption(u) : u \in OptionUrls})
  <2>1. IsFiniteSet(OptionUrls)
    BY HttpAssumption DEF HttpAssumption
  <2> DEFINE T == {AddUrlOption(u) : u \in OptionUrls}
             f == [u \in OptionUrls |-> AddUrlOption(u)]
  <2>2. f \in Surjection(OptionUrls, T)
    BY DEF Surjection
  <2> HIDE DEF f, T
  <2>3. IsFiniteSet(T)
    BY <2>1, <2>2, FS_Surjection
  <2>4. QED
    BY <2>3 DEF T
<1>3. QED
  BY <1>1, <1>2 DEF m_mapUrlOptions

\* UnescapeString returns a string.
LEMMA UnescapedIs ==
    ASSUME NEW u \in Seq(Int) PROVE UnescapeString(u) \in Seq(Int)
<1>1. \A i \in 1..Len(u) : u[i] \in Int
  OBVIOUS
<1>2. UnescapeString(u) \in [1..Len(u) -> Int]
  BY <1>1, HttpAssumption DEF HttpAssumption, UnescapeString
<1>3. Len(u) \in Nat
  OBVIOUS
<1>4. QED
  BY <1>2, <1>3

\* The walk back from lower_bound meets every left part of the URL, and the
\* last of them is the longest.
LEMMA FindsLongest ==
    ASSUME NEW u \in Seq(Int)
    PROVE  LET o == FindUrlOption(u)
               fits == {p \in m_mapUrlOptions : IsPrefix(p, u)}
           IN  IF fits = {} THEN o = NoOption
               ELSE o \in fits /\ \A p \in fits : Len(p) <= Len(o)
<1> DEFINE found == FindUrlOption(u)
           fits == {p \in m_mapUrlOptions : IsPrefix(p, u)}
           after == {o \in m_mapUrlOptions : LexLeq(u, o)}
           start == StartOfSearch(u)
<1>1. fits \subseteq Seq(Int) /\ IsFiniteSet(fits)
      /\ after \subseteq Seq(Int) /\ IsFiniteSet(after)
  <2>1. fits \in SUBSET m_mapUrlOptions /\ after \in SUBSET m_mapUrlOptions
    OBVIOUS
  <2> HIDE DEF fits, after
  <2>2. QED
    BY <2>1, MapIs, FS_Subset
<1>2. ASSUME NEW p \in fits PROVE LexLeq(p, start)
  <2>1. p \in Seq(Int) /\ p \in m_mapUrlOptions /\ LexLeq(p, u)
    BY <1>1 DEF LexLeq
  <2>2. CASE after = {}
    <3>1. start = LastOf(m_mapUrlOptions)
      BY <2>2 DEF StartOfSearch
    <3>2. QED
      BY <2>1, <3>1, MapIs, FirstAndLast
  <2>3. CASE after # {}
    <3>1. start = FirstOf(after)
      BY <2>3 DEF StartOfSearch
    <3>2. start \in after
      <4> HIDE DEF after, start
      <4>1. QED
        BY <1>1, <2>3, <3>1, FirstAndLast
    <3>3. start \in Seq(Int) /\ LexLeq(u, start)
      BY <1>1, <3>2
    <3> HIDE DEF start
    <3>4. QED
      BY <2>1, <3>3, LexTrans
  <2>4. QED
    BY <2>2, <2>3
<1>3. {o \in m_mapUrlOptions : LexLeq(o, start) /\ IsPrefix(o, u)} = fits
  BY <1>2
<1>4. FindUrlOption(u) = IF fits = {} THEN NoOption ELSE LastOf(fits)
  BY <1>3 DEF FindUrlOption
<1>5. CASE fits # {}
  <2>1. LastOf(fits) \in fits /\ \A p \in fits : LexLeq(p, LastOf(fits))
    <3> HIDE DEF fits
    <3>1. QED
      BY <1>1, <1>5, FirstAndLast
  <2>2. ASSUME NEW o \in fits, NEW p \in fits, LexLeq(p, o)
        PROVE  Len(p) <= Len(o)
    <3>1. o \in Seq(Int) /\ p \in Seq(Int) /\ IsPrefix(o, u) /\ IsPrefix(p, u)
      BY <1>1
    <3>2. /\ Len(o) <= Len(u) /\ \A i \in 1..Len(o) : o[i] = u[i]
          /\ Len(p) <= Len(u) /\ \A i \in 1..Len(p) : p[i] = u[i]
      BY <3>1, PrefixIs
    <3>3. ASSUME NEW i \in Nat, Differs(p, o, i) PROVE FALSE
      <4>1. p[i] = o[i] /\ p[i] \in Int /\ p[i] < o[i]
        BY <3>1, <3>2, <3>3 DEF Differs
      <4>2. QED
        BY <4>1
    <3>4. QED
      BY <2>2, <3>1, <3>3, LexIs
  <2> HIDE DEF fits
  <2>3. FindUrlOption(u) = LastOf(fits)
    BY <1>4, <1>5
  <2>4. \A p \in fits : Len(p) <= Len(LastOf(fits))
    BY <2>1, <2>2
  <2>5. QED
    BY <1>5, <2>1, <2>3, <2>4 DEF fits
<1>6. CASE fits = {}
  BY <1>4, <1>6
<1>7. QED
  BY <1>5, <1>6

-----------------------------------------------------------------------------
(* Sequences. *)

\* The send of a granule, and its way from the socket to the client.
LEMMA AppendToConcat ==
    ASSUME NEW S, NEW g \in Seq(S), NEW o \in Seq(S), NEW e \in S
    PROVE  g \o Append(o, e) = Append(g \o o, e)
<1>1. <<e>> \in Seq(S)
  OBVIOUS
<1>2. g \o o \in Seq(S)
  BY ConcatProperties
<1>3. Append(o, e) = o \o <<e>> /\ Append(g \o o, e) = (g \o o) \o <<e>>
  BY <1>2, AppendIsConcat
<1>4. QED
  BY <1>1, <1>3, ConcatAssociative

\* The granule a client takes leaves the stream of granules as it was.
LEMMA HeadMoves ==
    ASSUME NEW S, NEW g \in Seq(S), NEW o \in Seq(S), o # <<>>
    PROVE  Append(g, Head(o)) \o Tail(o) = g \o o
<1> DEFINE a == Append(g, Head(o))
           t == Tail(o)
<1>1. /\ a \in Seq(S) /\ Len(a) = Len(g) + 1
      /\ \A i \in 1..Len(g) : a[i] = g[i]
      /\ a[Len(g) + 1] = o[1]
  <2>1. Head(o) \in S /\ Head(o) = o[1]
    BY HeadTailProperties
  <2>2. QED
    BY <2>1, AppendProperties
<1>2. /\ t \in Seq(S) /\ Len(t) = Len(o) - 1
      /\ \A i \in 1..Len(t) : t[i] = o[i + 1]
  BY HeadTailProperties
<1>3. Len(g) \in Nat /\ Len(o) \in Nat /\ Len(o) > 0
  BY EmptySeq
<1> HIDE DEF a, t
<1>4. /\ a \o t \in Seq(S) /\ Len(a \o t) = Len(g) + Len(o)
      /\ \A i \in 1..Len(g) + Len(o) :
            (a \o t)[i] = IF i <= Len(g) + 1 THEN a[i] ELSE t[i - (Len(g) + 1)]
  <2>1. Len(a) + Len(t) = Len(g) + Len(o)
    BY <1>1, <1>2, <1>3
  <2>2. /\ a \o t \in Seq(S) /\ Len(a \o t) = Len(a) + Len(t)
        /\ \A i \in 1..Len(a) + Len(t) :
              (a \o t)[i] = IF i <= Len(a) THEN a[i] ELSE t[i - Len(a)]
    BY <1>1, <1>2, ConcatProperties, ZenonT(30)
  <2>3. QED
    BY <1>1, <2>1, <2>2
<1>5. /\ g \o o \in Seq(S) /\ Len(g \o o) = Len(g) + Len(o)
      /\ \A i \in 1..Len(g) + Len(o) :
            (g \o o)[i] = IF i <= Len(g) THEN g[i] ELSE o[i - Len(g)]
  BY ConcatProperties
<1>6. \A i \in 1..Len(g) + Len(o) : (a \o t)[i] = (g \o o)[i]
  <2>1. ASSUME NEW i \in 1..Len(g) + Len(o), i > Len(g) + 1
        PROVE  t[i - (Len(g) + 1)] = o[i - Len(g)]
    <3>1. i - (Len(g) + 1) \in 1..Len(t)
      BY <1>2, <1>3, <2>1
    <3>2. (i - (Len(g) + 1)) + 1 = i - Len(g)
      BY <1>3
    <3>3. QED
      BY <1>2, <3>1, <3>2
  <2>2. ASSUME NEW i \in 1..Len(g) + Len(o), i = Len(g) + 1
        PROVE  i - Len(g) = 1
    BY <1>3, <2>2
  <2>3. QED
    BY <1>1, <1>3, <1>4, <1>5, <2>1, <2>2
<1>7. QED
  BY <1>4, <1>5, <1>6, SeqEqual, SMTT(30)

\* What WSARecv returns is appended to what has been collected.
LEMMA SegmentsMove ==
    ASSUME NEW S, NEW s \in Seq(S), NEW a \in Seq(S), NEW n \in 0..Len(a),
           NEW b, b = s \o SubSeq(a, 1, n),
           NEW q, q = SubSeq(a, n + 1, Len(a))
    PROVE  /\ b \in Seq(S) /\ q \in Seq(S)
           /\ Len(b) = Len(s) + n /\ Len(q) = Len(a) - n
           /\ \A i \in 1..Len(s) : b[i] = s[i]
           /\ \A i \in Len(s) + 1..Len(b) : b[i] = a[i - Len(s)]
           /\ \A i \in 1..Len(q) : q[i] = a[n + i]
<1> DEFINE p == SubSeq(a, 1, n)
           r == SubSeq(a, n + 1, Len(a))
<1>0. Len(a) \in Nat /\ n \in Nat /\ n <= Len(a) /\ Len(s) \in Nat
      /\ \A i \in 1..Len(a) : a[i] \in S
  OBVIOUS
<1>1. p \in Seq(S) /\ Len(p) = n /\ \A i \in 1..n : p[i] = a[i]
  <2>1. \A i \in 1..n : a[i] \in S
    BY <1>0
  <2>2. /\ p \in Seq(S) /\ Len(p) = IF 1 <= n THEN n - 1 + 1 ELSE 0
        /\ \A i \in 1..n - 1 + 1 : p[i] = a[1 + i - 1]
    BY <1>0, <2>1, SubSeqProperties
  <2>3. QED
    BY <1>0, <2>2
<1>2. /\ r \in Seq(S) /\ Len(r) = Len(a) - n
      /\ \A i \in 1..Len(a) - n : r[i] = a[n + i]
  <2>1. \A i \in n + 1..Len(a) : a[i] \in S
    BY <1>0
  <2>2. /\ r \in Seq(S)
        /\ Len(r) = IF n + 1 <= Len(a) THEN Len(a) - (n + 1) + 1 ELSE 0
        /\ \A i \in 1..Len(a) - (n + 1) + 1 : r[i] = a[n + 1 + i - 1]
    BY <1>0, <2>1, SubSeqProperties
  <2>3. QED
    BY <1>0, <2>2
<1> HIDE DEF p, r
<1>3. /\ s \o p \in Seq(S) /\ Len(s \o p) = Len(s) + Len(p)
      /\ \A i \in 1..Len(s) + Len(p) :
            (s \o p)[i] = IF i <= Len(s) THEN s[i] ELSE p[i - Len(s)]
  BY <1>1, ConcatProperties
<1>4. \A i \in Len(s) + 1..Len(s) + n : i - Len(s) \in 1..n
  BY <1>0
<1>5. QED
  BY <1>0, <1>1, <1>2, <1>3, <1>4 DEF p, r

\* Min of two numbers, as Wake uses it.
LEMMA MinIs ==
    ASSUME NEW m \in Nat, NEW n \in Nat
    PROVE  Min({m, n}) = IF m <= n THEN m ELSE n
<1>1. CASE m <= n
  <2>1. \A x \in {m, n} : (\A y \in {m, n} : x <= y) => x = m
    BY <1>1
  <2>2. \A y \in {m, n} : m <= y
    BY <1>1
  <2>3. QED
    BY <1>1, <2>1, <2>2 DEF Min
<1>2. CASE n < m
  <2>1. \A x \in {m, n} : (\A y \in {m, n} : x <= y) => x = n
    BY <1>2
  <2>2. \A y \in {m, n} : n <= y
    BY <1>2
  <2>3. QED
    BY <1>2, <2>1, <2>2 DEF Min
<1>3. QED
  BY <1>1, <1>2

\* The next granule of a response keeps the order.
LEMMA StaysInOrder ==
    ASSUME NEW s \in Seq(GranuleSet), NEW e \in GranuleSet, InOrder(s),
           IF Len(s) = 0 THEN e.of = 1 /\ e.i = 1 ELSE Follows(s[Len(s)], e)
    PROVE  InOrder(Append(s, e))
<1> DEFINE t == Append(s, e)
<1>1. /\ Len(t) = Len(s) + 1 /\ \A k \in 1..Len(s) : t[k] = s[k]
      /\ t[Len(s) + 1] = e
  BY AppendProperties
<1>2. Len(s) \in Nat
  OBVIOUS
<1> HIDE DEF t
<1>3. ASSUME NEW k \in 1..Len(t)
      PROVE  IF k = 1 THEN t[1].of = 1 /\ t[1].i = 1
                      ELSE Follows(t[k - 1], t[k])
  <2>1. CASE k <= Len(s)
    <3>1. t[k] = s[k] /\ (k # 1 => t[k - 1] = s[k - 1]) /\ k \in 1..Len(s)
      BY <1>1, <1>2, <2>1
    <3>2. QED
      BY <3>1 DEF InOrder
  <2>2. CASE k = Len(s) + 1
    <3>1. CASE Len(s) = 0
      BY <1>1, <2>2, <3>1
    <3>2. CASE Len(s) # 0
      <4>1. k # 1 /\ t[k] = e /\ t[k - 1] = s[Len(s)]
        BY <1>1, <1>2, <2>2, <3>2
      <4>2. QED
        BY <3>2, <4>1
    <3>3. QED
      BY <3>1, <3>2
  <2>3. QED
    BY <1>1, <1>2, <2>1, <2>2
<1>4. QED
  BY <1>3 DEF InOrder, t

-----------------------------------------------------------------------------
(* Requests, responses and the state of one connection. *)

\* What HttpAssumption says of one request.
LEMMA RequestIs ==
    ASSUME NEW c \in Conns, NEW n \in 1..Len(Request[c])
    PROVE  /\ Request[c][n].url \in Seq(Int)
           /\ Request[c][n].parts \in Nat
           /\ Request[c][n].head \in 1..Request[c][n].parts
           /\ Request[c][n].parts > 0
<1>1. Request[c] \in Seq([url : Seq(Int), head : Nat, parts : Nat])
  BY HttpAssumption DEF HttpAssumption
<1>2. Request[c][n] \in [url : Seq(Int), head : Nat, parts : Nat]
  BY <1>1, ElementOfSeq
<1>3. n \in DOMAIN Request[c]
  BY <1>1
<1>4. Request[c][n].head \in 1..Request[c][n].parts
  BY <1>3, HttpAssumption DEF HttpAssumption
<1>5. QED
  BY <1>2, <1>4

\* RequestOption tabulates what FindUrlOption returns.
LEMMA OptionIs ==
    ASSUME NEW c \in Conns, NEW n \in 1..Len(Request[c])
    PROVE  /\ RequestOption[c][n] =
                  FindUrlOption(UnescapeString(Request[c][n].url))
           /\ RequestOption[c][n] \in Options
<1>1. n \in DOMAIN Request[c]
  <2>1. Request[c] \in Seq([url : Seq(Int), head : Nat, parts : Nat])
    BY HttpAssumption DEF HttpAssumption
  <2>2. QED
    BY <2>1
<1>2. RequestOption[c][n] = FindUrlOption(UnescapeString(Request[c][n].url))
  BY <1>1 DEF RequestOption
<1>3. UnescapeString(Request[c][n].url) \in Seq(Int)
  BY RequestIs, UnescapedIs
<1>4. FindUrlOption(UnescapeString(Request[c][n].url)) \in Options
  BY <1>3, FindsLongest DEF Options
<1>5. QED
  BY <1>2, <1>4

\* Every response has a granule.
LEMMA SizeIs == \A o \in Options : Size(o) \in Nat /\ Size(o) > 0
  BY SizeAssumption DEF Options

\* The types of what belongs to one connection.
LEMMA Local ==
    ASSUME Typed, NEW c \in Conns
    PROVE  /\ thread[c] \in Pcs /\ keepAlive[c] \in BOOLEAN
           /\ advance[c] \in Nat /\ request[c] \in Nat /\ segment[c] \in Nat
           /\ response[c] \in [of : Nat, option : Options, size : Nat]
           /\ got[c] \in Seq(GranuleSet) /\ Len(got[c]) \in Nat
           /\ out[c] \in Seq(GranuleSet) /\ Len(out[c]) \in Nat
           /\ out[c] = <<>> <=> Len(out[c]) = 0
           /\ Stream(c) \in Seq(GranuleSet) /\ Len(Stream(c)) \in Nat
           /\ Len(Stream(c)) = Len(got[c]) + Len(out[c])
           /\ \A k \in 1..Len(Stream(c)) : Stream(c)[k] \in GranuleSet
           /\ strRequest[c] \in Seq(Segments) /\ Len(strRequest[c]) \in Nat
           /\ strRequest[c] = <<>> <=> Len(strRequest[c]) = 0
           /\ arrived[c] \in Seq(Segments) /\ Len(arrived[c]) \in Nat
           /\ arrived[c] = <<>> <=> Len(arrived[c]) = 0
<1>1. /\ thread[c] \in Pcs /\ keepAlive[c] \in BOOLEAN
      /\ advance[c] \in Nat /\ request[c] \in Nat /\ segment[c] \in Nat
      /\ response[c] \in [of : Nat, option : Options, size : Nat]
      /\ got[c] \in Seq(GranuleSet) /\ out[c] \in Seq(GranuleSet)
      /\ strRequest[c] \in Seq(Segments) /\ arrived[c] \in Seq(Segments)
  BY DEF Typed
<1>2. \A S : \A s \in Seq(S) : Len(s) \in Nat /\ (s = <<>> <=> Len(s) = 0)
  BY EmptySeq, LenProperties
<1>3. /\ Stream(c) \in Seq(GranuleSet)
      /\ Len(Stream(c)) = Len(got[c]) + Len(out[c])
  BY <1>1, ConcatProperties DEF Stream
<1>4. \A k \in 1..Len(Stream(c)) : Stream(c)[k] \in GranuleSet
  BY <1>3, ElementOfSeq
<1>5. QED
  BY <1>1, <1>2, <1>3, <1>4

\* Nothing of connection c changes.
Same(c) ==
    /\ thread'[c] = thread[c] /\ keepAlive'[c] = keepAlive[c]
    /\ advance'[c] = advance[c] /\ response'[c] = response[c]
    /\ strRequest'[c] = strRequest[c] /\ arrived'[c] = arrived[c]
    /\ request'[c] = request[c] /\ segment'[c] = segment[c]
    /\ got'[c] = got[c] /\ out'[c] = out[c]

\* A connection nothing of which changes keeps its invariant.
LEMMA SameInv ==
    ASSUME NEW c \in Conns, ConnInv(c), Same(c)
    PROVE  ConnInv(c)'
<1>1. /\ Stream(c)' = Stream(c) /\ Current(c)' = Current(c)
      /\ Sends(c)' = Sends(c) /\ Serving(c)' = Serving(c)
      /\ Collects(c)' = Collects(c)
  BY DEF Same, Stream, Current, Sends, Serving, Collects
<1>2. Exchange(c)'
  <2>1. Asked(c) => Asked(c)'
    BY <1>1 DEF Same, Asked, EndsWith
  <2>2. Answered(c) => Answered(c)'
    BY <1>1 DEF Same, Answered, EndsWith
  <2>3. QED
    BY <1>1, <2>1, <2>2 DEF ConnInv, Same, Exchange
<1>3. Served(c)'
  BY <1>1 DEF ConnInv, Same, Served
<1>4. InOrder(Stream(c))'
  BY <1>1 DEF ConnInv, InOrder
<1>5. QED
  BY <1>2, <1>3, <1>4 DEF ConnInv

\* A step of connection c leaves the others alone.
Kept(c) ==
    Typed' /\ ConnInv(c)' /\ \A x \in Conns \ {c} : Same(x)

-----------------------------------------------------------------------------
(* The steps of a connection's thread. *)

\* The thread goes on without touching the request or the response.
LEMMA ThreadMoves ==
    ASSUME HttpIInv, NEW c \in Conns, NEW pc \in Pcs,
           \/ thread[c] = "none" /\ pc = "created"
           \/ thread[c] = "created" /\ pc = "waiting"
           \/ pc \in {"leaving", "closed", "ended"}
              /\ thread[c] \in {"waiting", "leaving", "closed"},
           thread' = [thread EXCEPT ![c] = pc],
           UNCHANGED <<main, shutdown, accept, taken, localVars, clientVars,
                       socketVars>>
    PROVE  Kept(c)
<1>1. Typed'
  BY DEF HttpIInv, Typed, localVars, clientVars, socketVars
<1>2. \A x \in Conns \ {c} : Same(x)
  BY DEF HttpIInv, Typed, Same, localVars, clientVars, socketVars
<1>3. thread'[c] = pc
  BY DEF HttpIInv, Typed
<1>4. /\ UNCHANGED <<keepAlive, advance, response, strRequest, arrived,
                     request, segment, got, out>>
      /\ Stream(c)' = Stream(c)
  BY DEF localVars, clientVars, socketVars, Stream
<1>5. ConnInv(c)
  BY DEF HttpIInv
<1>6. Exchange(c)'
  BY <1>3, <1>4, <1>5 DEF ConnInv, Exchange, Served, Serving, Asked, Answered,
                          Collects, Sends, Current
<1>7. Served(c)'
  BY <1>3, <1>4, <1>5 DEF ConnInv, Served
<1>8. InOrder(Stream(c))'
  BY <1>4, <1>5 DEF ConnInv, InOrder
<1>9. QED
  BY <1>1, <1>2, <1>6, <1>7, <1>8 DEF Kept, ConnInv

\* READ: what is received extends what has been collected, and only a whole
\* request is handled.
LEMMA WakeKeeps ==
    ASSUME HttpIInv, NEW c \in Conns, Wake(c)
    PROVE  Kept(c)
<1> DEFINE ev == events[c]
           n == IF "read" \in ev THEN Min({RxBuffer, Len(arrived[c])}) ELSE 0
           buf == strRequest[c] \o SubSeq(arrived[c], 1, n)
           rest == SubSeq(arrived[c], n + 1, Len(arrived[c]))
           pc == IF n > 0 /\ TestRequestCompleteness(c, buf) > 0
                 THEN "handling" ELSE AfterRead(c, ev)
<1>0. Typed /\ ConnInv(c)
  BY DEF HttpIInv
<1>1. n \in 0..Len(arrived[c])
  <2>1. RxBuffer \in Nat /\ Len(arrived[c]) \in Nat
    BY <1>0, Local, HttpAssumption DEF HttpAssumption
  <2>2. Min({RxBuffer, Len(arrived[c])}) \in 0..Len(arrived[c])
    BY <2>1, MinIs
  <2>3. QED
    BY <2>1, <2>2
<1>2. /\ buf \in Seq(Segments) /\ rest \in Seq(Segments)
      /\ Len(buf) = Len(strRequest[c]) + n /\ Len(rest) = Len(arrived[c]) - n
      /\ \A i \in 1..Len(strRequest[c]) : buf[i] = strRequest[c][i]
      /\ \A i \in Len(strRequest[c]) + 1..Len(buf) :
            buf[i] = arrived[c][i - Len(strRequest[c])]
      /\ \A i \in 1..Len(rest) : rest[i] = arrived[c][n + i]
  <2> HIDE DEF n
  <2>1. PICK s \in Seq(Segments), a \in Seq(Segments) :
            s = strRequest[c] /\ a = arrived[c]
    BY <1>0, Local
  <2>2. /\ n \in 0..Len(a)
        /\ buf = s \o SubSeq(a, 1, n) /\ rest = SubSeq(a, n + 1, Len(a))
    BY <1>1, <2>1
  <2> HIDE DEF buf, rest
  <2> HIDE DEF ev
  <2>3. /\ buf \in Seq(Segments) /\ rest \in Seq(Segments)
        /\ Len(buf) = Len(s) + n /\ Len(rest) = Len(a) - n
        /\ \A i \in 1..Len(s) : buf[i] = s[i]
        /\ \A i \in Len(s) + 1..Len(buf) : buf[i] = a[i - Len(s)]
        /\ \A i \in 1..Len(rest) : rest[i] = a[n + i]
    BY <2>2, SegmentsMove, SMTT(90)
  <2>4. QED
    BY <2>1, <2>3
<1>3. /\ thread[c] = "waiting" /\ InLoop(c)
      /\ taken' = [taken EXCEPT ![c] = "close" \in ev]
      /\ events' = [events EXCEPT ![c] =
                       IF n < Len(arrived[c]) THEN {"read"} ELSE {}]
      /\ arrived' = [arrived EXCEPT ![c] = rest]
      /\ strRequest' = [strRequest EXCEPT ![c] = buf]
      /\ thread' = [thread EXCEPT ![c] = pc]
      /\ UNCHANGED <<main, shutdown, accept, count, response, advance,
                     keepAlive, client, request, segment, got, out, blocked>>
  BY DEF Wake, serverVars, clientVars
<1>4. pc \in {"handling", "resending", "leaving", "waiting"}
      /\ (pc = "resending" => advance[c] > 0)
  BY DEF AfterRead
<1>5. pc = "handling" => n > 0 /\ TestRequestCompleteness(c, buf) > 0
  BY DEF AfterRead
<1> HIDE DEF n, buf, rest, pc
<1>6. Typed'
  <2>1. taken' \in [Conns -> BOOLEAN] /\ thread' \in [Conns -> Pcs]
    <3>1. pc \in Pcs /\ ("close" \in ev) \in BOOLEAN
      BY <1>4 DEF Pcs
    <3> HIDE DEF ev
    <3>2. QED
      BY <1>0, <1>3, <3>1 DEF Typed
  <2>2. events' \in [Conns -> SUBSET {"read", "write", "close"}]
    BY <1>0, <1>3 DEF Typed
  <2>3. /\ arrived' \in [Conns -> Seq(Segments)]
        /\ strRequest' \in [Conns -> Seq(Segments)]
    BY <1>0, <1>2, <1>3 DEF Typed
  <2>4. QED
    BY <1>0, <1>3, <2>1, <2>2, <2>3 DEF Typed
<1>7. \A x \in Conns \ {c} : Same(x)
  BY <1>0, <1>3 DEF Typed, Same
<1>8. /\ thread'[c] = pc /\ arrived'[c] = rest /\ strRequest'[c] = buf
      /\ UNCHANGED <<response, advance, keepAlive, request, segment, got, out>>
      /\ Stream(c)' = Stream(c)
  BY <1>0, <1>3 DEF Typed, Stream
<1>9. Serving(c)
  BY <1>0, <1>3 DEF ConnInv, Served, Serving, InLoop
<1>10. ASSUME request[c] = response[c].of + 1 /\ Asked(c)
       PROVE  Exchange(c)'
  <2>1. /\ advance[c] = 0 /\ Collects(c) /\ out[c] = <<>>
        /\ EndsWith(Stream(c), request[c] - 1)
        /\ segment[c] \in 1..Current(c).parts
    BY <1>3, <1>10 DEF Asked, Sends
  <2>2. request[c] \in 1..Len(Request[c])
    BY <1>0, <1>10, Local DEF ConnInv, Served
  <2>3. /\ Len(buf) + Len(rest) = segment[c]
        /\ \A i \in 1..Len(buf) : buf[i] = <<request[c], i>>
        /\ \A i \in 1..Len(rest) : rest[i] = <<request[c], Len(buf) + i>>
    <3> DEFINE ls == Len(strRequest[c])
               la == Len(arrived[c])
               lb == Len(buf)
               lr == Len(rest)
    <3>0. /\ la \in Nat /\ ls \in Nat /\ n \in Nat /\ lb \in Nat /\ lr \in Nat
          /\ n <= la /\ lb = ls + n /\ lr = la - n
      <4>1. Len(arrived[c]) \in Nat /\ Len(strRequest[c]) \in Nat
        BY <1>0, Local
      <4>2. QED
        BY <1>1, <1>2, <4>1
    <3>1. /\ ls + la = segment[c]
          /\ \A i \in 1..ls : strRequest[c][i] = <<request[c], i>>
          /\ \A i \in 1..la : arrived[c][i] = <<request[c], ls + i>>
      BY <2>1 DEF Collects
    <3>2. /\ \A i \in 1..ls : buf[i] = strRequest[c][i]
          /\ \A i \in ls + 1..lb : buf[i] = arrived[c][i - ls]
          /\ \A i \in 1..lr : rest[i] = arrived[c][n + i]
      BY <1>2
    <3> HIDE DEF ls, la, lb, lr
    <3>3. ASSUME NEW i \in 1..lb PROVE buf[i] = <<request[c], i>>
      <4>1. CASE i <= ls
        BY <3>0, <3>1, <3>2, <4>1
      <4>2. CASE i > ls
        <5>1. i - ls \in 1..la /\ ls + (i - ls) = i /\ i \in ls + 1..lb
          BY <3>0, <4>2
        <5>2. QED
          BY <3>1, <3>2, <5>1
      <4>3. QED
        BY <3>0, <4>1, <4>2
    <3>4. ASSUME NEW i \in 1..lr PROVE rest[i] = <<request[c], lb + i>>
      <4>1. n + i \in 1..la /\ ls + (n + i) = lb + i
        BY <3>0
      <4>2. QED
        BY <3>1, <3>2, <4>1
    <3>5. lb + lr = segment[c]
      <4>1. lb + lr = ls + la
        BY <3>0
      <4>2. QED
        BY <3>1, <4>1
    <3>6. QED
      BY <3>3, <3>4, <3>5 DEF lb, lr
  <2>4. pc = "handling" => Len(buf) >= Current(c).parts
    <3>1. ASSUME pc = "handling" PROVE Len(buf) >= Current(c).parts
      <4>1. Len(buf) >= 1
        BY <1>0, <1>1, <1>2, <1>5, <3>1, Local
      <4>2. buf[1][1] = request[c]
        BY <2>3, <4>1
      <4>3. /\ Request[c][request[c]].head \in Nat
            /\ Request[c][request[c]].parts \in Nat
        BY <2>2, RequestIs
      <4>4. TestRequestCompleteness(c, buf) > 0
        BY <1>5, <3>1
      <4>5. Len(buf) \in Nat
        BY <1>0, <1>1, <1>2, Local
      <4>6. QED
        BY <4>2, <4>3, <4>4, <4>5 DEF TestRequestCompleteness, Current
    <3>2. QED
      BY <3>1
  <2>5. pc = "handling" => rest = <<>> /\ segment[c] = Current(c).parts
    <3>1. Len(rest) \in Nat /\ (Len(rest) = 0 => rest = <<>>)
          /\ Len(buf) \in Nat
      BY <1>0, <1>1, <1>2, Local, EmptySeq
    <3>2. Current(c).parts \in Nat
      BY <2>2, RequestIs DEF Current
    <3>3. QED
      BY <2>1, <2>3, <2>4, <3>1, <3>2
  <2>6. pc # "resending"
    BY <1>4, <2>1
  <2>7. Asked(c)'
    BY <1>4, <1>8, <2>1, <2>3, <2>5, <2>6
       DEF Asked, Collects, Sends, Current, EndsWith
  <2>8. QED
    BY <1>8, <1>10, <2>7 DEF Exchange
<1>11. ASSUME request[c] = response[c].of /\ Answered(c)
       PROVE  Exchange(c)'
  <2>1. arrived[c] = <<>> /\ strRequest[c] = <<>>
    BY <1>3, <1>11 DEF Answered, Sends
  <2>2. n = 0 /\ rest = <<>> /\ buf = <<>>
    BY <1>0, <1>1, <1>2, <2>1, Local, EmptySeq
  <2>3. pc # "handling"
    BY <1>5, <2>2
  <2>4. Answered(c)'
    BY <1>3, <1>4, <1>8, <1>11, <2>2, <2>3
       DEF Answered, Sends, Current, EndsWith
  <2>5. QED
    BY <1>8, <1>11, <2>4 DEF Exchange
<1>12. Exchange(c)'
  BY <1>0, <1>9, <1>10, <1>11 DEF ConnInv, Exchange
<1>13. Served(c)' /\ InOrder(Stream(c))'
  BY <1>0, <1>3, <1>4, <1>8, <1>9
     DEF ConnInv, Served, InOrder, Serving
<1>14. QED
  BY <1>6, <1>7, <1>12, <1>13 DEF Kept, ConnInv

\* The request that is handled is the last one, and it is whole.
LEMMA HandleKeeps ==
    ASSUME HttpIInv, NEW c \in Conns, Handle(c)
    PROVE  Kept(c)
<1> DEFINE r == ParseAndHandleRequest(c, strRequest[c])
<1>0. Typed /\ ConnInv(c)
  BY DEF HttpIInv
<1>1. thread[c] = "handling"
  BY DEF Handle
<1>2. Serving(c)
  BY <1>0, <1>1 DEF ConnInv, Served, Serving
<1>3. request[c] = response[c].of + 1 /\ Asked(c)
  BY <1>0, <1>1, <1>2 DEF ConnInv, Exchange, Answered
<1>4. request[c] \in 1..Len(Request[c])
  BY <1>0, <1>3, Local DEF ConnInv, Served
<1>5. strRequest[c][1] = <<request[c], 1>>
  <2>1. /\ arrived[c] = <<>> /\ segment[c] \in 1..Current(c).parts
        /\ Collects(c)
    BY <1>1, <1>3 DEF Asked, Sends
  <2>2. Len(arrived[c]) = 0 /\ Len(strRequest[c]) \in Nat
    BY <1>0, <2>1, Local
  <2>3. Len(strRequest[c]) >= 1
    <3> DEFINE ls == Len(strRequest[c])
               la == Len(arrived[c])
    <3>1. ls \in Nat /\ la = 0 /\ ls + la = segment[c]
      BY <2>1, <2>2 DEF Collects
    <3> HIDE DEF ls, la
    <3>2. ls >= 1
      BY <2>1, <3>1
    <3>3. QED
      BY <3>2 DEF ls
  <2>4. QED
    BY <2>1, <2>2, <2>3 DEF Collects
<1>6. r = [of |-> request[c], option |-> RequestOption[c][request[c]],
           size |-> Size(RequestOption[c][request[c]])]
  BY <1>5 DEF ParseAndHandleRequest
<1>7. /\ r \in [of : Nat, option : Options, size : Nat]
      /\ r.of = request[c] /\ r.option = RequestOption[c][request[c]]
      /\ r.size = Size(r.option)
  BY <1>0, <1>4, <1>6, Local, OptionIs, SizeIs
<1>8. /\ response' = [response EXCEPT ![c] = r]
      /\ advance' = [advance EXCEPT ![c] = 0]
      /\ thread' = [thread EXCEPT ![c] = "sending"]
      /\ UNCHANGED <<main, shutdown, accept, count, taken, strRequest,
                     keepAlive, client, request, segment, got, arrived, out,
                     blocked, events>>
  BY DEF Handle, serverVars, clientVars, socketVars
<1> HIDE DEF r
<1>9. Typed'
  <2>1. response' \in [Conns -> [of : Nat, option : Options, size : Nat]]
    BY <1>0, <1>7, <1>8 DEF Typed
  <2>2. advance' \in [Conns -> Nat] /\ thread' \in [Conns -> Pcs]
    BY <1>0, <1>8 DEF Typed, Pcs
  <2>3. QED
    BY <1>0, <1>8, <2>1, <2>2 DEF Typed
<1>10. \A x \in Conns \ {c} : Same(x)
  BY <1>0, <1>8 DEF Typed, Same
<1>11. /\ thread'[c] = "sending" /\ advance'[c] = 0 /\ response'[c] = r
       /\ UNCHANGED <<keepAlive, strRequest, arrived, request, segment, got,
                      out>>
       /\ Stream(c)' = Stream(c)
  BY <1>0, <1>8 DEF Typed, Stream
<1>12. Exchange(c)'
  <2>1. Answered(c)'
    BY <1>1, <1>3, <1>4, <1>11 DEF Asked, Answered, Sends, Current, EndsWith
  <2>2. QED
    BY <1>7, <1>11, <2>1 DEF Exchange
<1>13. Served(c)'
  <2>1. \A k \in 1..Len(Stream(c)) : Stream(c)[k].of <= request[c]
    <3>1. /\ response[c].of \in Nat /\ Len(Stream(c)) \in Nat
          /\ \A k \in 1..Len(Stream(c)) : Stream(c)[k].of \in Nat
      BY <1>0, Local DEF GranuleSet
    <3>2. \A k \in 1..Len(Stream(c)) : Stream(c)[k].of <= response[c].of
      BY <1>0 DEF ConnInv, Served
    <3>3. QED
      BY <1>3, <3>1, <3>2
  <2>2. keepAlive[c]
    BY <1>2 DEF Serving
  <2>3. r.size \in Nat /\ request[c] \in 0..request[c]
    BY <1>4, <1>7
  <2>4. QED
    BY <1>0, <1>7, <1>11, <2>1, <2>2, <2>3 DEF ConnInv, Served
<1>14. InOrder(Stream(c))'
  BY <1>0, <1>11 DEF ConnInv, InOrder
<1>15. QED
  BY <1>9, <1>10, <1>12, <1>13, <1>14 DEF Kept, ConnInv

\* A granule follows the one before, in its response or at its beginning.
LEMMA SendGranuleKeeps ==
    ASSUME HttpIInv, NEW c \in Conns, SendGranule(c)
    PROVE  Kept(c)
<1> DEFINE e == [of |-> response[c].of, i |-> advance[c] + 1,
                 option |-> response[c].option]
           s == Stream(c)
<1>0. Typed /\ ConnInv(c)
  BY DEF HttpIInv
<1>1. /\ Sends(c) /\ advance[c] < response[c].size
      /\ Len(out[c]) < SendBuffer
  BY DEF SendGranule
<1>2. e \in GranuleSet /\ Granules(response[c])[advance[c] + 1] = e
  <2>1. response[c] \in [of : Nat, option : Options, size : Nat]
        /\ advance[c] \in Nat
    BY <1>0, Local
  <2>2. advance[c] + 1 \in 1..response[c].size
    BY <1>1, <2>1
  <2>3. QED
    BY <2>1, <2>2 DEF Granules, GranuleSet
<1>3. /\ out' = [out EXCEPT ![c] = Append(@, e)]
      /\ advance' = [advance EXCEPT ![c] = @ + 1]
      /\ UNCHANGED <<main, shutdown, accept, count, thread, taken, strRequest,
                     response, keepAlive, client, request, segment, got,
                     arrived, blocked, events>>
  BY <1>2 DEF SendGranule, serverVars, clientVars
<1>4. /\ out'[c] = Append(out[c], e) /\ advance'[c] = advance[c] + 1
      /\ Append(out[c], e) \in Seq(GranuleSet)
      /\ Len(Append(out[c], e)) = Len(out[c]) + 1
  <2>1. out[c] \in Seq(GranuleSet)
    BY <1>0, Local
  <2>2. \A z \in Seq(GranuleSet) : /\ Append(z, e) \in Seq(GranuleSet)
                                   /\ Len(Append(z, e)) = Len(z) + 1
    BY <1>2, AppendProperties
  <2>3. QED
    BY <1>0, <1>3, <2>1, <2>2 DEF Typed
<1>5. Stream(c)' = Append(s, e)
  <2>1. \A g, o \in Seq(GranuleSet) : g \o Append(o, e) = Append(g \o o, e)
    BY <1>2, AppendToConcat
  <2>2. got[c] \in Seq(GranuleSet) /\ out[c] \in Seq(GranuleSet)
    BY <1>0, Local
  <2> HIDE DEF e
  <2>3. got'[c] = got[c]
    BY <1>3
  <2>4. QED
    BY <1>4, <2>1, <2>2, <2>3 DEF Stream
<1>6. /\ s \in Seq(GranuleSet) /\ Len(s) \in Nat
      /\ Append(s, e) \in Seq(GranuleSet) /\ Len(Append(s, e)) = Len(s) + 1
      /\ \A k \in 1..Len(s) : Append(s, e)[k] = s[k]
      /\ Append(s, e)[Len(s) + 1] = e
  <2>1. s \in Seq(GranuleSet) /\ Len(s) \in Nat
    BY <1>0, Local
  <2> HIDE DEF s
  <2>2. QED
    BY <1>2, <2>1, AppendProperties
<1>7. e.of = response[c].of /\ e.i = advance[c] + 1
      /\ e.option = response[c].option
  OBVIOUS
<1>8. /\ advance[c] \in Nat /\ response[c].of \in Nat /\ request[c] \in Nat
      /\ response[c].size \in Nat
  BY <1>0, Local
<1>9. Serving(c)
  BY <1>0, <1>1 DEF ConnInv, Served, Serving, Sends
<1>10. /\ request[c] = response[c].of /\ Answered(c)
       /\ request[c] > 0
  BY <1>0, <1>1, <1>8, <1>9 DEF ConnInv, Exchange, Asked, Answered
<1>11. response[c].size = Size(response[c].option)
  BY <1>0, <1>8, <1>10 DEF ConnInv, Served
<1>12. IF Len(s) = 0 THEN e.of = 1 /\ e.i = 1 ELSE Follows(s[Len(s)], e)
  <2>1. CASE advance[c] = 0
    <3>1. EndsWith(s, request[c] - 1)
      BY <1>1, <1>10, <2>1 DEF Answered
    <3>2. CASE request[c] = 1
      BY <1>7, <1>10, <2>1, <3>1, <3>2 DEF EndsWith
    <3>3. CASE request[c] # 1
      <4>1. /\ Len(s) > 0 /\ s[Len(s)].of = request[c] - 1
            /\ s[Len(s)].i = Size(s[Len(s)].option)
        BY <1>8, <1>10, <3>1, <3>3 DEF EndsWith
      <4>2. ~(s[Len(s)].i < Size(s[Len(s)].option))
        <5>1. s[Len(s)] \in GranuleSet
          BY <1>6, <4>1, ElementOfSeq
        <5>2. Size(s[Len(s)].option) \in Nat
          BY <5>1, SizeIs DEF GranuleSet
        <5>3. QED
          BY <4>1, <5>2
      <4>3. e.of = s[Len(s)].of + 1 /\ e.i = 1
        BY <1>7, <1>8, <1>10, <2>1, <4>1
      <4> HIDE DEF s, e
      <4>4. QED
        BY <4>1, <4>2, <4>3 DEF Follows
    <3>4. QED
      BY <3>2, <3>3
  <2>2. CASE advance[c] > 0
    <3>1. Len(s) > 0 /\ s[Len(s)] = [of |-> request[c], i |-> advance[c],
                                    option |-> response[c].option]
      BY <1>10, <2>2 DEF Answered
    <3>2. s[Len(s)].i < Size(s[Len(s)].option)
      BY <1>1, <1>11, <3>1
    <3>3. e = [s[Len(s)] EXCEPT !.i = @ + 1]
      BY <1>10, <3>1
    <3> HIDE DEF s, e
    <3>4. QED
      BY <3>1, <3>2, <3>3 DEF Follows
  <2>3. QED
    BY <1>8, <2>1, <2>2
<1>13. InOrder(Stream(c))'
  <2>1. InOrder(s)
    BY <1>0 DEF ConnInv
  <2> HIDE DEF s, e
  <2>2. InOrder(Append(s, e))
    BY <1>2, <1>6, <1>12, <2>1, StaysInOrder
  <2>3. QED
    BY <1>5, <2>2 DEF InOrder
<1>14. UNCHANGED <<keepAlive, thread, response, strRequest, arrived, request,
                   segment, got>>
  BY <1>3
<1>15. Exchange(c)'
  <2>1. Stream(c)'[Len(Stream(c)')] = e /\ Len(Stream(c)') > 0
    <3> HIDE DEF s, e
    <3>1. QED
      BY <1>5, <1>6
  <2>2. advance'[c] > 0
    BY <1>4, <1>8
  <2>3. Answered(c)'
    BY <1>1, <1>4, <1>10, <1>14, <2>1, <2>2 DEF Answered, Sends, Current
  <2>4. QED
    BY <1>10, <1>14, <2>3 DEF Exchange
<1>16. Served(c)'
  <2>1. \A k \in 1..Len(Stream(c)') : Stream(c)'[k].of <= response[c].of
    <3>1. \A k \in 1..Len(s) : s[k].of <= response[c].of
      BY <1>0 DEF ConnInv, Served
    <3> HIDE DEF s, e
    <3>2. QED
      BY <1>5, <1>6, <1>7, <1>8, <3>1
  <2>2. Len(out[c])' <= SendBuffer
    <3>1. SendBuffer \in Nat /\ Len(out[c]) \in Nat
      BY <1>0, Local, HttpAssumption DEF HttpAssumption
    <3>2. QED
      BY <1>1, <1>4, <3>1
  <2>3. advance'[c] \in 0..response[c].size
    BY <1>1, <1>4, <1>8
  <2>4. keepAlive[c] /\ thread[c] \notin {"none", "created"}
    BY <1>1, <1>9 DEF Serving, Sends
  <2>5. QED
    BY <1>0, <1>14, <2>1, <2>2, <2>3, <2>4 DEF ConnInv, Served
<1>17. Typed'
  <2>1. out' \in [Conns -> Seq(GranuleSet)] /\ advance' \in [Conns -> Nat]
    <3> HIDE DEF e
    <3>1. advance[c] + 1 \in Nat
      BY <1>8
    <3>2. QED
      BY <1>0, <1>3, <1>4, <3>1 DEF Typed
  <2>2. QED
    BY <1>0, <1>3, <2>1 DEF Typed
<1>18. \A x \in Conns \ {c} : Same(x)
  BY <1>0, <1>3 DEF Typed, Same
<1>19. QED
  BY <1>13, <1>15, <1>16, <1>17, <1>18 DEF Kept, ConnInv

\* Send returns: the response is sent, would block, or has failed.
LEMMA SendReturnsKeeps ==
    ASSUME HttpIInv, NEW c \in Conns, NEW adv \in Nat, NEW ok \in BOOLEAN,
           Sends(c), SendReturns(c, adv, ok),
           \/ ok /\ adv = 0 /\ advance[c] = response[c].size
           \/ /\ ok /\ adv = advance[c] /\ advance[c] < response[c].size
              /\ Len(out[c]) = SendBuffer
           \/ ~ok /\ adv = 0,
           UNCHANGED <<serverVars, taken, response, clientVars, arrived, out,
                       events>>,
           blocked' \in [Conns -> BOOLEAN]
    PROVE  Kept(c)
<1>0. Typed /\ ConnInv(c)
  BY DEF HttpIInv
<1>1. PICK pc \in {"leaving", "waiting"} :
          /\ thread' = [thread EXCEPT ![c] = pc]
          /\ advance' = [advance EXCEPT ![c] = adv]
          /\ strRequest' = [strRequest EXCEPT ![c] = <<>>]
          /\ keepAlive' = [keepAlive EXCEPT ![c] = @ /\ ok]
  BY DEF SendReturns
<1>2. UNCHANGED <<main, shutdown, accept, count, taken, response, client,
                  request, segment, got, arrived, out, events>>
  BY DEF serverVars, clientVars
<1>3. Typed'
  <2>1. thread' \in [Conns -> Pcs] /\ advance' \in [Conns -> Nat]
    BY <1>0, <1>1 DEF Typed, Pcs
  <2>2. strRequest' \in [Conns -> Seq(Segments)]
    <3>1. <<>> \in Seq(Segments)
      BY EmptySeq
    <3>2. QED
      BY <1>0, <1>1, <3>1 DEF Typed
  <2>3. keepAlive' \in [Conns -> BOOLEAN]
    BY <1>0, <1>1, Zenon DEF Typed
  <2>4. QED
    BY <1>0, <1>2, <2>1, <2>2, <2>3 DEF Typed
<1>4. \A x \in Conns \ {c} : Same(x)
  BY <1>0, <1>1, <1>2 DEF Typed, Same
<1>5. /\ thread'[c] = pc /\ advance'[c] = adv /\ strRequest'[c] = <<>>
      /\ Stream(c)' = Stream(c)
  BY <1>0, <1>1, <1>2 DEF Typed, Stream
<1>6. keepAlive'[c] <=> keepAlive[c] /\ ok
  BY <1>0, <1>1 DEF Typed
<1>7. keepAlive[c] /\ Serving(c)
  BY <1>0 DEF ConnInv, Served, Serving, Sends
<1>8. /\ advance[c] \in Nat /\ response[c].of \in Nat /\ request[c] \in Nat
      /\ response[c].size \in Nat /\ response[c].option \in Options
      /\ Len(out[c]) \in Nat /\ (out[c] = <<>> <=> Len(out[c]) = 0)
      /\ Len(arrived[c]) \in Nat
  BY <1>0, Local
<1>9. ~Sends(c)' /\ thread'[c] # "handling" /\ Current(c)' = Current(c)
  BY <1>2, <1>5 DEF Sends, Current
<1>10. ASSUME ok, request[c] = response[c].of + 1, Asked(c)
       PROVE  Exchange(c)'
  <2>1. /\ advance[c] = response[c].size /\ adv = 0
        /\ Len(arrived[c]) = segment[c]
        /\ \A i \in 1..Len(arrived[c]) : arrived[c][i] = <<request[c], i>>
    BY <1>8, <1>10 DEF Asked
  <2>2. Collects(c)'
    <3>1. Len(strRequest'[c]) = 0
      BY <1>5, EmptySeq
    <3>2. /\ Len(strRequest'[c]) + Len(arrived[c]) = segment[c]
          /\ \A i \in 1..Len(arrived[c]) : Len(strRequest'[c]) + i = i
      BY <1>8, <2>1, <3>1
    <3>3. \A i \in 1..Len(strRequest'[c]) : FALSE
      BY <3>1
    <3>4. QED
      BY <1>2, <2>1, <3>2, <3>3 DEF Collects
  <2>3. Asked(c)'
    BY <1>2, <1>5, <1>9, <1>10, <2>1, <2>2 DEF Asked, EndsWith
  <2>4. QED
    BY <1>2, <1>10, <2>3 DEF Exchange
<1>11. ASSUME ok, request[c] = response[c].of, Answered(c)
       PROVE  Exchange(c)'
  <2>1. request[c] > 0 /\ response[c].size = Size(response[c].option)
        /\ response[c].size > 0
    <3>1. request[c] > 0
      BY <1>8, <1>11 DEF Answered
    <3>2. response[c].size = Size(response[c].option)
      BY <1>0, <1>8, <1>11, <3>1 DEF ConnInv, Served
    <3>3. QED
      BY <1>8, <3>1, <3>2, SizeIs
  <2>2. CASE adv = 0 /\ advance[c] = response[c].size
    <3>1. EndsWith(Stream(c), request[c])
      BY <1>8, <1>11, <2>1, <2>2 DEF Answered, EndsWith
    <3>2. Answered(c)'
      BY <1>2, <1>5, <1>8, <1>9, <1>11, <2>1, <2>2, <3>1
         DEF Answered, EndsWith
    <3>3. QED
      BY <1>2, <1>11, <3>2 DEF Exchange
  <2>3. CASE /\ adv = advance[c] /\ advance[c] < response[c].size
             /\ Len(out[c]) = SendBuffer
    <3>1. out[c] # <<>>
      BY <1>8, <2>3, HttpAssumption DEF HttpAssumption
    <3>2. advance[c] > 0
      BY <1>8, <1>11, <3>1 DEF Answered
    <3>3. Answered(c)'
      BY <1>2, <1>5, <1>8, <1>9, <1>11, <2>1, <2>3, <3>2 DEF Answered
    <3>4. QED
      BY <1>2, <1>11, <3>3 DEF Exchange
  <2>4. QED
    BY <1>11, <2>2, <2>3
<1>12. Exchange(c)'
  <2>1. CASE ok
    BY <1>0, <1>7, <1>10, <1>11, <2>1 DEF ConnInv, Exchange
  <2>2. CASE ~ok
    BY <1>6, <2>2 DEF Exchange, Serving
  <2>3. QED
    BY <2>1, <2>2
<1>13. Served(c)'
  <2>1. adv \in 0..response[c].size
    BY <1>8
  <2>2. ~keepAlive'[c] => adv = 0
    BY <1>6, <1>7
  <2>3. QED
    BY <1>0, <1>2, <1>5, <2>1, <2>2 DEF ConnInv, Served
<1>14. InOrder(Stream(c))'
  BY <1>0, <1>5 DEF ConnInv, InOrder
<1>15. QED
  BY <1>3, <1>4, <1>12, <1>13, <1>14 DEF Kept, ConnInv

\* The three ways in which Send returns.
LEMMA SendStops ==
    ASSUME HttpIInv, NEW c \in Conns,
           SendDone(c) \/ SendWouldBlock(c) \/ SendFails(c)
    PROVE  Kept(c)
<1>0. Typed /\ advance[c] \in Nat
  BY Local DEF HttpIInv
<1>1. CASE SendDone(c)
  <2>1. /\ Sends(c) /\ SendReturns(c, 0, TRUE)
        /\ advance[c] = response[c].size
        /\ UNCHANGED <<serverVars, taken, response, clientVars, arrived, out,
                       events>>
        /\ blocked' \in [Conns -> BOOLEAN]
    BY <1>0, <1>1 DEF SendDone, socketVars, Typed
  <2>2. QED
    BY <2>1, SendReturnsKeeps
<1>2. CASE SendWouldBlock(c)
  <2>1. /\ Sends(c) /\ SendReturns(c, advance[c], TRUE)
        /\ advance[c] < response[c].size /\ Len(out[c]) = SendBuffer
        /\ UNCHANGED <<serverVars, taken, response, clientVars, arrived, out,
                       events>>
        /\ blocked' \in [Conns -> BOOLEAN]
    BY <1>0, <1>2 DEF SendWouldBlock, Typed
  <2>2. QED
    BY <1>0, <2>1, SendReturnsKeeps
<1>3. CASE SendFails(c)
  <2>1. /\ Sends(c) /\ SendReturns(c, 0, FALSE)
        /\ UNCHANGED <<serverVars, taken, response, clientVars, arrived, out,
                       events>>
        /\ blocked' \in [Conns -> BOOLEAN]
    BY <1>0, <1>3 DEF SendFails, socketVars, Typed
  <2>2. QED
    BY <2>1, SendReturnsKeeps
<1>4. QED
  BY <1>1, <1>2, <1>3

-----------------------------------------------------------------------------
(* The steps of the clients. *)

\* A segment is sent: the first one of the next request, or the next one.
LEMMA SentTyped ==
    ASSUME Typed, NEW c \in Conns, NEW n \in Nat, NEW g \in Nat, Sent(c, n, g)
    PROVE  /\ Typed' /\ \A x \in Conns \ {c} : Same(x)
           /\ request'[c] = n /\ segment'[c] = g
           /\ Len(arrived'[c]) = Len(arrived[c]) + 1
           /\ \A i \in 1..Len(arrived[c]) : arrived'[c][i] = arrived[c][i]
           /\ arrived'[c][Len(arrived[c]) + 1] = <<n, g>>
           /\ UNCHANGED <<thread, response, advance, keepAlive, strRequest,
                          got, out>>
           /\ Stream(c)' = Stream(c)
<1>1. /\ request' = [request EXCEPT ![c] = n]
      /\ segment' = [segment EXCEPT ![c] = g]
      /\ arrived' = [arrived EXCEPT ![c] = Append(@, <<n, g>>)]
      /\ events' = [events EXCEPT ![c] = @ \cup {"read"}]
      /\ UNCHANGED <<main, shutdown, accept, count, thread, taken, response,
                     advance, keepAlive, strRequest, client, got, out,
                     blocked>>
  BY DEF Sent, serverVars, localVars
<1>2. arrived[c] \in Seq(Segments) /\ <<n, g>> \in Segments
  BY Local DEF Segments
<1>3. /\ Append(arrived[c], <<n, g>>) \in Seq(Segments)
      /\ Len(Append(arrived[c], <<n, g>>)) = Len(arrived[c]) + 1
      /\ \A i \in 1..Len(arrived[c]) :
            Append(arrived[c], <<n, g>>)[i] = arrived[c][i]
      /\ Append(arrived[c], <<n, g>>)[Len(arrived[c]) + 1] = <<n, g>>
  <2>1. \A z \in Seq(Segments), e \in Segments :
            /\ Append(z, e) \in Seq(Segments)
            /\ Len(Append(z, e)) = Len(z) + 1
            /\ \A i \in 1..Len(z) : Append(z, e)[i] = z[i]
            /\ Append(z, e)[Len(z) + 1] = e
    BY AppendProperties
  <2>2. QED
    BY <1>2, <2>1
<1>4. arrived'[c] = Append(arrived[c], <<n, g>>)
  BY <1>1 DEF Typed
<1>5. Typed'
  <2>1. arrived' \in [Conns -> Seq(Segments)]
    BY <1>1, <1>3 DEF Typed
  <2>2. /\ request' \in [Conns -> Nat] /\ segment' \in [Conns -> Nat]
        /\ events' \in [Conns -> SUBSET {"read", "write", "close"}]
    BY <1>1 DEF Typed
  <2>3. QED
    BY <1>1, <2>1, <2>2 DEF Typed
<1>6. \A x \in Conns \ {c} : Same(x)
  BY <1>1 DEF Typed, Same
<1>7. request'[c] = n /\ segment'[c] = g /\ Stream(c)' = Stream(c)
  BY <1>1 DEF Typed, Stream
<1>8. QED
  BY <1>1, <1>3, <1>4, <1>5, <1>6, <1>7

\* Nothing is on its way behind the last granule of the last response.
LEMMA NothingBehind ==
    ASSUME HttpIInv, NEW c \in Conns, request[c] > 0, HasResponse(c),
           request[c] = response[c].of
    PROVE  /\ out[c] = <<>> /\ Len(Stream(c)) > 0
           /\ Stream(c)[Len(Stream(c))].of = request[c]
           /\ Stream(c)[Len(Stream(c))].i =
                 Size(Stream(c)[Len(Stream(c))].option)
<1> DEFINE s == Stream(c)
           n == Len(got[c])
<1>0. Typed /\ ConnInv(c)
  BY DEF HttpIInv
<1>1. /\ got[c] \in Seq(GranuleSet) /\ out[c] \in Seq(GranuleSet)
      /\ Len(got[c]) \in Nat /\ Len(out[c]) \in Nat
      /\ (out[c] = <<>> <=> Len(out[c]) = 0)
      /\ s \in Seq(GranuleSet) /\ Len(s) = n + Len(out[c])
      /\ request[c] \in Nat
  BY <1>0, Local
<1>2. /\ n > 0 /\ got[c][n].of = request[c]
      /\ got[c][n].i = Size(got[c][n].option)
  <2>1. got[c] # <<>> /\ got[c][n].of = request[c]
        /\ got[c][n].i = Size(got[c][n].option)
    BY <1>1 DEF HasResponse
  <2>2. n > 0
    BY <1>1, <2>1, EmptySeq
  <2>3. QED
    BY <2>1, <2>2
<1>3. s[n] = got[c][n]
  <2>1. \A g, o \in Seq(GranuleSet) : \A i \in 1..Len(g) : (g \o o)[i] = g[i]
    <3>1. ASSUME NEW g \in Seq(GranuleSet), NEW o \in Seq(GranuleSet),
                 NEW i \in 1..Len(g)
          PROVE  (g \o o)[i] = g[i]
      <4>1. Len(g) \in Nat /\ Len(o) \in Nat
        OBVIOUS
      <4>2. i \in 1..Len(g) + Len(o) /\ i <= Len(g)
        BY <4>1
      <4>3. QED
        BY <4>2, ConcatProperties
    <3>2. QED
      BY <3>1
  <2>2. n \in 1..Len(got[c])
    BY <1>1, <1>2
  <2>3. QED
    BY <1>1, <2>1, <2>2 DEF Stream
<1> HIDE DEF n
<1>4. CASE Len(out[c]) > 0
  <2>1. n + 1 \in 1..Len(s) /\ n + 1 # 1 /\ n + 1 - 1 = n /\ n \in Nat
    <3>1. PICK k \in Nat : k = Len(out[c])
      BY <1>1
    <3>2. n \in Nat /\ n > 0 /\ k > 0 /\ Len(s) = n + k
      BY <1>1, <1>2, <1>4, <3>1 DEF n
    <3>3. QED
      BY <3>2
  <2>2. Follows(s[n], s[n + 1])
    <3>1. \A k \in 1..Len(s) : k # 1 => Follows(s[k - 1], s[k])
      BY <1>0 DEF ConnInv, InOrder
    <3> HIDE DEF s
    <3>2. QED
      BY <2>1, <3>1
  <2>3. s[n].i = Size(s[n].option) /\ s[n].of = request[c]
        /\ Size(s[n].option) \in Nat
    <3>1. got[c][n] \in GranuleSet
      <4>1. n \in 1..Len(got[c])
        BY <1>1, <1>2 DEF n
      <4>2. QED
        BY <1>1, <4>1, ElementOfSeq
    <3>2. Size(got[c][n].option) \in Nat
      BY <3>1, SizeIs DEF GranuleSet
    <3>3. QED
      BY <1>2, <1>3, <3>2
  <2>4. s[n + 1].of = request[c] + 1
    <3> HIDE DEF s
    <3>1. QED
      BY <2>2, <2>3 DEF Follows
  <2>5. s[n + 1].of <= response[c].of
    BY <1>0, <2>1 DEF ConnInv, Served
  <2>6. QED
    BY <1>1, <2>4, <2>5
<1>5. CASE Len(out[c]) = 0
  BY <1>1, <1>2, <1>3, <1>5 DEF n
<1>6. QED
  BY <1>1, <1>4, <1>5

\* The next request: the client has all of the last response.
LEMMA BeginRequestKeeps ==
    ASSUME HttpIInv, NEW c \in Conns, BeginRequest(c)
    PROVE  Kept(c)
<1>0. Typed /\ ConnInv(c)
  BY DEF HttpIInv
<1>1. /\ HasResponse(c) /\ request[c] < Len(Request[c])
      /\ Sent(c, request[c] + 1, 1)
  BY DEF BeginRequest
<1>2. /\ request[c] \in Nat /\ response[c].of \in Nat /\ advance[c] \in Nat
      /\ response[c].size \in Nat /\ Len(strRequest[c]) \in Nat
      /\ (strRequest[c] = <<>> <=> Len(strRequest[c]) = 0)
      /\ (arrived[c] = <<>> <=> Len(arrived[c]) = 0)
      /\ Len(out[c]) \in Nat /\ Len(got[c]) \in Nat
      /\ (out[c] = <<>> <=> Len(out[c]) = 0)
      /\ Len(Stream(c)) = Len(got[c]) + Len(out[c])
  BY <1>0, Local
<1>3. /\ Typed' /\ \A x \in Conns \ {c} : Same(x)
      /\ request'[c] = request[c] + 1 /\ segment'[c] = 1
      /\ Len(arrived'[c]) = Len(arrived[c]) + 1
      /\ arrived'[c][Len(arrived[c]) + 1] = <<request[c] + 1, 1>>
      /\ UNCHANGED <<thread, response, advance, keepAlive, strRequest, got,
                     out>>
      /\ Stream(c)' = Stream(c)
  BY <1>0, <1>1, <1>2, SentTyped, SMTT(30)
<1>4. /\ request[c] + 1 \in 1..Len(Request[c])
      /\ Request[c][request[c] + 1].parts \in Nat
      /\ Request[c][request[c] + 1].parts > 0
  <2>1. Len(Request[c]) \in Nat
    <3>1. Request[c] \in Seq([url : Seq(Int), head : Nat, parts : Nat])
      BY HttpAssumption DEF HttpAssumption
    <3>2. QED
      BY <3>1
  <2>2. request[c] + 1 \in 1..Len(Request[c])
    BY <1>1, <1>2, <2>1
  <2>3. QED
    BY <2>2, RequestIs
<1>5. ASSUME Serving(c) PROVE Exchange(c)'
  <2>1. ~(request[c] = response[c].of + 1 /\ Asked(c))
    <3>1. ASSUME request[c] = response[c].of + 1, Asked(c) PROVE FALSE
      <4>1. /\ got[c] # <<>> /\ got[c][Len(got[c])].of = request[c]
        BY <1>1, <1>2, <3>1 DEF HasResponse
      <4>2. Len(got[c]) > 0 /\ Len(Stream(c)) = Len(got[c])
        BY <1>0, <1>2, <3>1, <4>1, Local, EmptySeq DEF Asked
      <4>3. Stream(c) = got[c]
        <5>1. got[c] \in Seq(GranuleSet)
          BY <1>0, Local
        <5>2. QED
          BY <3>1, <5>1, ConcatEmptySeq DEF Asked, Stream
      <4>4. Stream(c)[Len(Stream(c))].of = request[c] - 1
        BY <1>2, <3>1, <4>2 DEF Asked, EndsWith
      <4>5. got[c][Len(got[c])].of = request[c] - 1
        BY <4>3, <4>4
      <4>6. request[c] # request[c] - 1
        BY <1>2
      <4>7. QED
        BY <4>1, <4>5, <4>6
    <3>2. QED
      BY <3>1
  <2>2. request[c] = response[c].of /\ Answered(c)
    BY <1>0, <1>5, <2>1 DEF ConnInv, Exchange
  <2>3. out[c] = <<>> /\ EndsWith(Stream(c), request[c])
    <3>1. CASE request[c] = 0
      <4>1. EndsWith(Stream(c), 0)
        BY <2>2, <3>1 DEF Answered
      <4>2. Len(Stream(c)) = 0
        BY <4>1 DEF EndsWith
      <4>3. Len(out[c]) = 0
        <5>1. \A g, o \in Nat : g + o = 0 => o = 0
          OBVIOUS
        <5>2. QED
          BY <1>2, <4>2, <5>1
      <4>4. QED
        BY <1>2, <3>1, <4>1, <4>3
    <3>2. CASE request[c] > 0
      BY <1>1, <2>2, <3>2, NothingBehind DEF EndsWith
    <3>3. QED
      BY <1>2, <3>1, <3>2
  <2>4. Sends(c) => advance[c] = response[c].size
    <3>1. ASSUME Sends(c) PROVE advance[c] = response[c].size
      <4>1. request[c] > 0
        BY <1>2, <2>2, <3>1 DEF Answered
      <4>2. /\ Len(Stream(c)) > 0
            /\ Stream(c)[Len(Stream(c))].of = request[c]
            /\ Stream(c)[Len(Stream(c))].i =
                  Size(Stream(c)[Len(Stream(c))].option)
        BY <1>1, <2>2, <4>1, NothingBehind
      <4>3. advance[c] # 0
        <5>1. ASSUME advance[c] = 0 PROVE FALSE
          <6>1. EndsWith(Stream(c), request[c] - 1)
            BY <2>2, <3>1, <5>1 DEF Answered
          <6>2. \/ Len(Stream(c)) = 0
                \/ Stream(c)[Len(Stream(c))].of = request[c] - 1
            BY <6>1 DEF EndsWith
          <6>3. request[c] # request[c] - 1
            BY <1>2
          <6>4. QED
            BY <4>2, <6>2, <6>3
        <5>2. QED
          BY <5>1
      <4>4. Stream(c)[Len(Stream(c))] = [of |-> request[c], i |-> advance[c],
                                         option |-> response[c].option]
        <5>1. advance[c] > 0
          BY <1>2, <4>3
        <5>2. QED
          BY <2>2, <5>1 DEF Answered
      <4>5. response[c].size = Size(response[c].option)
        BY <1>0, <1>2, <2>2, <4>1 DEF ConnInv, Served
      <4>6. QED
        BY <4>2, <4>4, <4>5
    <3>2. QED
      BY <3>1
  <2>5. ~Sends(c) => advance[c] = 0 /\ strRequest[c] = <<>>
    <3>1. ASSUME ~Sends(c), advance[c] # 0 PROVE FALSE
      <4>0. advance[c] > 0
        BY <1>2, <3>1
      <4>1. request[c] > 0 /\ advance[c] < response[c].size
        <5>1. request[c] # 0 /\ advance[c] < response[c].size
          BY <2>2, <3>1, <4>0 DEF Answered
        <5>2. QED
          BY <1>2, <5>1
      <4>2. Stream(c)[Len(Stream(c))] = [of |-> request[c], i |-> advance[c],
                                         option |-> response[c].option]
        BY <2>2, <4>0 DEF Answered
      <4>3. Stream(c)[Len(Stream(c))].i =
               Size(Stream(c)[Len(Stream(c))].option)
        BY <1>1, <2>2, <4>1, NothingBehind
      <4>4. response[c].size = Size(response[c].option)
        BY <1>0, <1>2, <2>2, <4>1 DEF ConnInv, Served
      <4>5. QED
        BY <1>2, <4>1, <4>2, <4>3, <4>4
    <3>2. QED
      BY <2>2, <3>1 DEF Answered
  <2>6. Len(arrived'[c]) = 1 /\ arrived'[c][1] = <<request[c] + 1, 1>>
    <3>1. Len(arrived[c]) = 0
      BY <1>2, <2>2 DEF Answered
    <3>2. QED
      BY <1>3, <3>1
  <2>7. Asked(c)'
    <3>2. ASSUME ~Sends(c) PROVE Collects(c)'
      <4>1. Len(strRequest'[c]) = 0
        BY <1>2, <1>3, <2>5, <3>2
      <4>2. /\ Len(strRequest'[c]) + Len(arrived'[c]) = 1
            /\ Len(strRequest'[c]) + 1 = 1
        BY <2>6, <4>1
      <4>3. \A i \in 1..Len(strRequest'[c]) : FALSE
        BY <4>1
      <4>4. \A i \in 1..Len(arrived'[c]) : i = 1
        BY <2>6
      <4>5. QED
        BY <1>3, <2>6, <4>2, <4>3, <4>4 DEF Collects
    <3>3. 1 \in 1..Current(c)'.parts
      BY <1>3, <1>4 DEF Current
    <3>4. Sends(c)' = Sends(c) /\ thread'[c] # "handling"
      BY <1>3, <2>2 DEF Sends, Answered
    <3>5. \A i \in 1..Len(arrived'[c]) : arrived'[c][i] = <<request'[c], i>>
      BY <1>3, <2>6
    <3>6. EndsWith(Stream(c)', request'[c] - 1)
      <4>1. EndsWith(Stream(c), request[c])
        BY <2>3
      <4>2. request'[c] - 1 = request[c]
        BY <1>2, <1>3
      <4>3. QED
        BY <1>3, <4>1, <4>2 DEF EndsWith
    <3>7. QED
      BY <1>3, <2>3, <2>4, <2>5, <2>6, <3>2, <3>3, <3>4, <3>5, <3>6
         DEF Asked, EndsWith
  <2>8. QED
    BY <1>3, <2>2, <2>7 DEF Exchange
<1>6. Exchange(c)'
  BY <1>3, <1>5 DEF Exchange, Serving
<1>7. Served(c)'
  <2>1. request[c] + 1 \in 0..Len(Request[c])
    BY <1>4
  <2>2. response[c].of \in 0..(request[c] + 1)
    <3>1. response[c].of \in 0..request[c]
      BY <1>0 DEF ConnInv, Served
    <3>2. QED
      BY <1>2, <3>1
  <2>3. QED
    BY <1>0, <1>3, <2>1, <2>2 DEF ConnInv, Served
<1>8. InOrder(Stream(c))'
  BY <1>0, <1>3 DEF ConnInv, InOrder
<1>9. QED
  BY <1>3, <1>6, <1>7, <1>8 DEF Kept, ConnInv

\* The next segment of a request the server has not handled.
LEMMA SendRestKeeps ==
    ASSUME HttpIInv, NEW c \in Conns, SendRest(c)
    PROVE  Kept(c)
<1>0. Typed /\ ConnInv(c)
  BY DEF HttpIInv
<1>1. /\ request[c] > 0 /\ segment[c] < Current(c).parts
      /\ Sent(c, request[c], segment[c] + 1)
  BY DEF SendRest
<1>2. /\ request[c] \in Nat /\ segment[c] \in Nat
      /\ Len(strRequest[c]) \in Nat /\ Len(arrived[c]) \in Nat
      /\ (arrived[c] = <<>> <=> Len(arrived[c]) = 0)
  BY <1>0, Local
<1>3. /\ Typed' /\ \A x \in Conns \ {c} : Same(x)
      /\ request'[c] = request[c] /\ segment'[c] = segment[c] + 1
      /\ Len(arrived'[c]) = Len(arrived[c]) + 1
      /\ \A i \in 1..Len(arrived[c]) : arrived'[c][i] = arrived[c][i]
      /\ arrived'[c][Len(arrived[c]) + 1] = <<request[c], segment[c] + 1>>
      /\ UNCHANGED <<thread, response, advance, keepAlive, strRequest, got,
                     out>>
      /\ Stream(c)' = Stream(c)
  BY <1>0, <1>1, <1>2, SentTyped
<1>4. /\ request[c] \in 1..Len(Request[c]) /\ Current(c).parts \in Nat
  <2>1. request[c] \in 1..Len(Request[c])
    BY <1>0, <1>1 DEF ConnInv, Served
  <2>2. QED
    BY <2>1, RequestIs DEF Current
<1>5. ASSUME Serving(c) PROVE Exchange(c)'
  <2>1. request[c] = response[c].of + 1 /\ Asked(c)
    <3>1. ~Answered(c)
      <4>1. ASSUME Answered(c) PROVE FALSE
        <5>1. segment[c] = Current(c).parts
          BY <1>1, <4>1 DEF Answered
        <5>2. QED
          BY <1>1, <1>2, <5>1
      <4>2. QED
        BY <4>1
    <3>2. QED
      BY <1>0, <1>5, <3>1 DEF ConnInv, Exchange
  <2>2. thread[c] # "handling"
    <3>1. thread[c] = "handling" => segment[c] = Current(c).parts
      BY <2>1 DEF Asked
    <3>2. QED
      BY <1>1, <1>2, <3>1
  <2>3. Sends(c)' = Sends(c) /\ Current(c)' = Current(c)
    BY <1>3 DEF Sends, Current
  <2>4. segment'[c] \in 1..Current(c).parts
    BY <1>1, <1>2, <1>3, <1>4
  <2>5. ASSUME Sends(c)
        PROVE  /\ advance[c] = response[c].size
               /\ Len(arrived'[c]) = segment'[c]
               /\ \A i \in 1..Len(arrived'[c]) :
                     arrived'[c][i] = <<request[c], i>>
    <3>1. /\ advance[c] = response[c].size /\ Len(arrived[c]) = segment[c]
          /\ \A i \in 1..Len(arrived[c]) : arrived[c][i] = <<request[c], i>>
      BY <2>1, <2>5 DEF Asked
    <3>2. Len(arrived'[c]) = segment[c] + 1
      BY <1>3, <3>1
    <3>3. ASSUME NEW i \in 1..Len(arrived'[c])
          PROVE  arrived'[c][i] = <<request[c], i>>
      <4>1. i \in 1..segment[c] \/ i = segment[c] + 1
        BY <1>2, <3>2
      <4>2. QED
        BY <1>3, <3>1, <4>1
    <3>4. QED
      BY <1>3, <3>1, <3>2, <3>3
  <2>6. ASSUME ~Sends(c) PROVE advance[c] = 0 /\ Collects(c)'
    <3> DEFINE ls == Len(strRequest[c])
               la == Len(arrived[c])
               sg == segment[c]
    <3>1. advance[c] = 0 /\ ls + la = sg /\ ls \in Nat /\ la \in Nat
      BY <1>2, <2>1, <2>6 DEF Asked, Collects
    <3>2. /\ \A i \in 1..ls : strRequest[c][i] = <<request[c], i>>
          /\ \A i \in 1..la : arrived[c][i] = <<request[c], ls + i>>
      BY <2>1, <2>6 DEF Asked, Collects
    <3>3. /\ Len(arrived'[c]) = la + 1 /\ Len(strRequest'[c]) = ls
          /\ segment'[c] = sg + 1 /\ strRequest' = strRequest
          /\ request'[c] = request[c]
          /\ \A i \in 1..la : arrived'[c][i] = arrived[c][i]
          /\ arrived'[c][la + 1] = <<request[c], sg + 1>>
      BY <1>3
    <3> HIDE DEF ls, la, sg
    <3>4. ASSUME NEW i \in 1..(la + 1)
          PROVE  arrived'[c][i] = <<request[c], ls + i>>
      <4>1. i \in 1..la \/ (i = la + 1 /\ ls + i = sg + 1)
        BY <3>1
      <4>2. QED
        BY <3>2, <3>3, <4>1
    <3>5. ls + (la + 1) = sg + 1
      BY <3>1
    <3>6. QED
      BY <3>1, <3>2, <3>3, <3>4, <3>5, SMTT(30) DEF Collects
  <2>7. Asked(c)'
    BY <1>3, <2>1, <2>2, <2>3, <2>4, <2>5, <2>6 DEF Asked, EndsWith
  <2>8. QED
    BY <1>3, <2>1, <2>7 DEF Exchange
<1>6. Exchange(c)'
  BY <1>3, <1>5 DEF Exchange, Serving
<1>7. Served(c)'
  BY <1>0, <1>3 DEF ConnInv, Served
<1>8. InOrder(Stream(c))'
  BY <1>0, <1>3 DEF ConnInv, InOrder
<1>9. QED
  BY <1>3, <1>6, <1>7, <1>8 DEF Kept, ConnInv

\* A granule reaches the client.
LEMMA ReceiveKeeps ==
    ASSUME HttpIInv, NEW c \in Conns, Receive(c)
    PROVE  Kept(c)
<1>0. Typed /\ ConnInv(c)
  BY DEF HttpIInv
<1>1. /\ out[c] # <<>>
      /\ got' = [got EXCEPT ![c] = Append(@, Head(out[c]))]
      /\ out' = [out EXCEPT ![c] = Tail(@)]
      /\ blocked' = [blocked EXCEPT ![c] = FALSE]
      /\ events' = [events EXCEPT ![c] =
                       IF blocked[c] THEN @ \cup {"write"} ELSE @]
      /\ UNCHANGED <<main, shutdown, accept, count, thread, taken, strRequest,
                     response, advance, keepAlive, client, request, segment,
                     arrived>>
  BY DEF Receive, serverVars, localVars
<1>2. PICK g \in Seq(GranuleSet), o \in Seq(GranuleSet) :
          g = got[c] /\ o = out[c]
  BY <1>0, Local
<1>3. /\ Append(g, Head(o)) \in Seq(GranuleSet)
      /\ Tail(o) \in Seq(GranuleSet) /\ Len(Tail(o)) = Len(o) - 1
      /\ Append(g, Head(o)) \o Tail(o) = g \o o /\ Len(o) \in Nat
  <2>1. o # <<>>
    BY <1>1, <1>2
  <2>2. Head(o) \in GranuleSet /\ Tail(o) \in Seq(GranuleSet)
        /\ Len(Tail(o)) = Len(o) - 1 /\ Len(o) \in Nat
    BY <2>1, HeadTailProperties
  <2>3. Append(g, Head(o)) \in Seq(GranuleSet)
    BY <2>2, AppendProperties
  <2>4. QED
    BY <2>1, <2>2, <2>3, HeadMoves
<1>4. got'[c] = Append(g, Head(o)) /\ out'[c] = Tail(o)
  BY <1>0, <1>1, <1>2 DEF Typed
<1>5. Stream(c)' = Stream(c)
  BY <1>2, <1>3, <1>4 DEF Stream
<1>6. Typed'
  <2>1. /\ got' \in [Conns -> Seq(GranuleSet)]
        /\ out' \in [Conns -> Seq(GranuleSet)]
    BY <1>0, <1>1, <1>2, <1>3 DEF Typed
  <2>2. /\ blocked' \in [Conns -> BOOLEAN]
        /\ events' \in [Conns -> SUBSET {"read", "write", "close"}]
    BY <1>0, <1>1 DEF Typed
  <2>3. QED
    BY <1>0, <1>1, <2>1, <2>2 DEF Typed
<1>7. \A x \in Conns \ {c} : Same(x)
  BY <1>0, <1>1 DEF Typed, Same
<1>8. UNCHANGED <<thread, strRequest, response, advance, keepAlive, request,
                  segment, arrived>>
      /\ Sends(c)' = Sends(c) /\ Current(c)' = Current(c)
  BY <1>1 DEF Sends, Current
<1>9. Exchange(c)'
  <2>1. ~Asked(c)
    BY <1>1 DEF Asked
  <2>2. Answered(c) => Answered(c)'
    BY <1>1, <1>5, <1>8 DEF Answered, EndsWith
  <2>3. QED
    BY <1>0, <1>8, <2>1, <2>2 DEF ConnInv, Exchange, Serving
<1>10. Served(c)'
  <2>1. Len(out'[c]) <= SendBuffer
    <3>1. Len(o) <= SendBuffer /\ SendBuffer \in Nat
      BY <1>0, <1>2, HttpAssumption DEF ConnInv, Served, HttpAssumption
    <3>2. QED
      BY <1>3, <1>4, <3>1
  <2>2. QED
    BY <1>0, <1>5, <1>8, <2>1 DEF ConnInv, Served
<1>11. InOrder(Stream(c))'
  BY <1>0, <1>5 DEF ConnInv, InOrder
<1>12. QED
  BY <1>6, <1>7, <1>9, <1>10, <1>11 DEF Kept, ConnInv

\* The steps that leave every connection's request and response alone.
LEMMA ElsewhereKeeps ==
    ASSUME HttpIInv,
           UNCHANGED <<thread, taken, localVars, request, segment, got,
                       arrived, out, blocked>>,
           \/ Run \/ Stop \/ StopWaits \/ StopKills \/ StopCounted
           \/ StopGivesUp \/ AcceptEnds
           \/ \E c \in Conns : Connect(c) \/ ClientCloses(c)
    PROVE  Typed' /\ \A x \in Conns : Same(x)
<1>0. Typed
  BY DEF HttpIInv
<1>1. /\ main' \in {"idle", "running", "stopping", "counting", "stopped",
                    "gave up"}
      /\ shutdown' \in BOOLEAN
      /\ accept' \in {"none", "listening", "ended", "killed"}
      /\ client' \in [Conns -> {"off", "open", "closed"}]
      /\ events' \in [Conns -> SUBSET {"read", "write", "close"}]
  <2>1. CASE Run \/ Stop \/ StopWaits \/ StopKills \/ StopCounted
             \/ StopGivesUp
    BY <1>0, <2>1 DEF Typed, Run, Stop, StopWaits, StopKills, StopCounted,
                      StopGivesUp, clientVars, socketVars
  <2>2. CASE AcceptEnds
    <3>1. client' \in [Conns -> {"off", "open", "closed"}]
      BY <1>0, <2>2 DEF Typed, AcceptEnds
    <3>2. QED
      BY <1>0, <2>2, <3>1 DEF Typed, AcceptEnds, socketVars
  <2>3. ASSUME NEW c \in Conns, Connect(c) \/ ClientCloses(c)
        PROVE  /\ client' \in [Conns -> {"off", "open", "closed"}]
               /\ events' \in [Conns -> SUBSET {"read", "write", "close"}]
               /\ UNCHANGED <<main, shutdown, accept>>
    <3>1. CASE Connect(c)
      <4>1. /\ client' = [client EXCEPT ![c] = "open"]
            /\ events' = [events EXCEPT ![c] = {"write"}]
            /\ UNCHANGED <<main, shutdown, accept>>
        BY <3>1 DEF Connect, serverVars
      <4>2. QED
        BY <1>0, <4>1 DEF Typed
    <3>2. CASE ClientCloses(c)
      <4>1. /\ client' = [client EXCEPT ![c] = "closed"]
            /\ events' = [events EXCEPT ![c] = @ \cup {"close"}]
            /\ UNCHANGED <<main, shutdown, accept>>
        BY <3>2 DEF ClientCloses, serverVars
      <4>2. QED
        BY <1>0, <4>1 DEF Typed
    <3>3. QED
      BY <2>3, <3>1, <3>2
  <2>4. QED
    BY <1>0, <2>1, <2>2, <2>3 DEF Typed
<1>2. QED
  BY <1>0, <1>1 DEF Typed, Same, localVars

-----------------------------------------------------------------------------
(* nClientsConnected. *)

\* The count stays when no thread begins or ends.
LEMMA CountStays ==
    ASSUME Counts, count' = count, \A x \in Conns : Counted(x)' <=> Counted(x)
    PROVE  Counts'
<1>1. {x \in Conns : Counted(x)}' = {x \in Conns : Counted(x)}
  OBVIOUS
<1>2. QED
  BY <1>1 DEF Counts

\* A thread moves among the counted places, or among the others.
LEMMA ThreadCounts ==
    ASSUME HttpIInv, NEW c \in Conns, NEW pc \in Pcs,
           thread' = [thread EXCEPT ![c] = pc], count' = count,
           Counted(c) <=> pc \notin {"none", "created", "ended"}
    PROVE  Counts'
<1>1. thread \in [Conns -> Pcs] /\ Counts
  BY DEF HttpIInv, Typed
<1>2. \A x \in Conns : Counted(x)' <=> Counted(x)
  BY <1>1 DEF Counted
<1>3. QED
  BY <1>1, <1>2, CountStays

\* A thread counts itself first and last.
LEMMA BeginsAndEnds ==
    ASSUME HttpIInv, NEW c \in Conns, ConnectionThreadS(c) \/ ThreadEnds(c)
    PROVE  Counts'
<1> DEFINE S == {x \in Conns : Counted(x)}
           T == {x \in Conns : Counted(x)'}
<1>1. /\ thread \in [Conns -> Pcs] /\ count = Cardinality(S)
      /\ IsFiniteSet(S) /\ Cardinality(S) \in Nat
  <2>1. thread \in [Conns -> Pcs] /\ count = Cardinality(S)
    BY DEF HttpIInv, Typed, Counts
  <2>2. S \in SUBSET Conns
    OBVIOUS
  <2> HIDE DEF S
  <2>3. IsFiniteSet(S) /\ Cardinality(S) \in Nat
    BY <2>2, FS_Subset, FS_CardinalityType, HttpAssumption DEF HttpAssumption
  <2>4. QED
    BY <2>1, <2>3
<1>2. CASE ConnectionThreadS(c)
  <2>1. T = S \cup {c} /\ c \notin S /\ count' = count + 1
    BY <1>1, <1>2 DEF ConnectionThreadS, Counted
  <2> HIDE DEF S, T
  <2>2. Cardinality(T) = Cardinality(S) + 1
    BY <1>1, <2>1, FS_AddElement
  <2>3. count' = Cardinality(T)
    BY <1>1, <2>1, <2>2
  <2>4. QED
    BY <2>3 DEF Counts, T
<1>3. CASE ThreadEnds(c)
  <2>1. T = S \ {c} /\ c \in S /\ count' = count - 1
    BY <1>1, <1>3 DEF ThreadEnds, Counted
  <2> HIDE DEF S, T
  <2>2. Cardinality(T) = Cardinality(S) - 1
    BY <1>1, <2>1, FS_RemoveElement
  <2>3. count' = Cardinality(T)
    BY <1>1, <2>1, <2>2
  <2>4. QED
    BY <2>3 DEF Counts, T
<1>4. QED
  BY <1>2, <1>3

-----------------------------------------------------------------------------
(* The invariant is inductive. *)

\* A step of one connection keeps the invariant.
LEMMA KeptAll ==
    ASSUME HttpIInv, NEW c \in Conns, Kept(c), Counts'
    PROVE  HttpIInv'
<1>1. \A x \in Conns \ {c} : ConnInv(x)'
  BY SameInv DEF HttpIInv, Kept
<1>2. QED
  BY <1>1 DEF HttpIInv, Kept

\* The invariant holds initially.
LEMMA StartHolds == HttpInit => HttpIInv
<1> SUFFICES ASSUME HttpInit PROVE HttpIInv
  OBVIOUS
<1>1. NoResponse \in [of : Nat, option : Options, size : Nat]
  BY DEF NoResponse, Options
<1>2. <<>> \in Seq(Segments) /\ <<>> \in Seq(GranuleSet) /\ Len(<<>>) = 0
  BY EmptySeq
<1>3. Typed
  <2>1. /\ thread \in [Conns -> Pcs]
        /\ client \in [Conns -> {"off", "open", "closed"}]
    BY DEF HttpInit, Pcs
  <2>2. /\ taken \in [Conns -> BOOLEAN] /\ keepAlive \in [Conns -> BOOLEAN]
        /\ blocked \in [Conns -> BOOLEAN]
        /\ events \in [Conns -> SUBSET {"read", "write", "close"}]
    BY DEF HttpInit
  <2>3. /\ strRequest \in [Conns -> Seq(Segments)]
        /\ arrived \in [Conns -> Seq(Segments)]
        /\ got \in [Conns -> Seq(GranuleSet)]
        /\ out \in [Conns -> Seq(GranuleSet)]
        /\ response \in [Conns -> [of : Nat, option : Options, size : Nat]]
    BY <1>1, <1>2 DEF HttpInit
  <2>4. /\ advance \in [Conns -> Nat] /\ request \in [Conns -> Nat]
        /\ segment \in [Conns -> Nat]
    BY DEF HttpInit
  <2>5. QED
    BY <2>1, <2>2, <2>3, <2>4 DEF HttpInit, Typed
<1>4. Counts
  <2>1. {c \in Conns : Counted(c)} = {}
    BY DEF HttpInit, Counted
  <2>2. QED
    BY <2>1, FS_EmptySet DEF HttpInit, Counts
<1>5. ASSUME NEW c \in Conns PROVE ConnInv(c)
  <2>1. /\ thread[c] = "none" /\ keepAlive[c] /\ request[c] = 0
        /\ segment[c] = 0 /\ advance[c] = 0 /\ response[c] = NoResponse
        /\ strRequest[c] = <<>> /\ arrived[c] = <<>>
        /\ got[c] = <<>> /\ out[c] = <<>>
    BY DEF HttpInit
  <2>2. Stream(c) = <<>>
    BY <1>2, <2>1, ConcatEmptySeq DEF Stream
  <2>3. NoResponse.of = 0 /\ NoResponse.size = 0
    BY DEF NoResponse
  <2>4. Exchange(c)
    BY <1>2, <2>1, <2>2, <2>3 DEF Exchange, Answered, Sends, EndsWith
  <2>5. Len(Request[c]) \in Nat
    BY HttpAssumption DEF HttpAssumption
  <2>6. Served(c)
    BY <1>2, <2>1, <2>2, <2>3, <2>5, HttpAssumption
       DEF Served, HttpAssumption
  <2>7. InOrder(Stream(c))
    BY <1>2, <2>2 DEF InOrder
  <2>8. QED
    BY <2>4, <2>6, <2>7 DEF ConnInv
<1>6. QED
  BY <1>3, <1>4, <1>5 DEF HttpIInv

\* The steps that move a thread only.
LEMMA MovesStep ==
    ASSUME HttpIInv, NEW c \in Conns,
           \/ AddConnection(c) \/ ConnectionThreadS(c) \/ Break(c)
           \/ CloseSocket(c) \/ ThreadEnds(c)
    PROVE  HttpIInv'
<1>1. CASE AddConnection(c)
  <2>1. /\ thread[c] = "none" /\ thread' = [thread EXCEPT ![c] = "created"]
        /\ UNCHANGED <<main, shutdown, accept, count, taken, localVars,
                       clientVars, socketVars>>
    BY <1>1 DEF AddConnection, serverVars
  <2>2. "created" \in Pcs /\ ~Counted(c)
    BY <2>1 DEF Pcs, Counted
  <2>3. Kept(c) /\ Counts'
    BY <2>1, <2>2, ThreadMoves, ThreadCounts
  <2>4. QED
    BY <2>3, KeptAll
<1>2. CASE ConnectionThreadS(c)
  <2>1. /\ thread[c] = "created" /\ thread' = [thread EXCEPT ![c] = "waiting"]
        /\ UNCHANGED <<main, shutdown, accept, taken, localVars, clientVars,
                       socketVars>>
    BY <1>2 DEF ConnectionThreadS
  <2>2. "waiting" \in Pcs
    BY DEF Pcs
  <2>3. Kept(c) /\ Counts'
    BY <1>2, <2>1, <2>2, ThreadMoves, BeginsAndEnds
  <2>4. QED
    BY <2>3, KeptAll
<1>3. CASE Break(c)
  <2>1. /\ thread[c] = "waiting" /\ thread' = [thread EXCEPT ![c] = "leaving"]
        /\ UNCHANGED <<main, shutdown, accept, count, taken, localVars,
                       clientVars, socketVars>>
    BY <1>3 DEF Break, serverVars
  <2>2. "leaving" \in Pcs /\ Counted(c)
    BY <2>1 DEF Pcs, Counted
  <2>3. Kept(c) /\ Counts'
    BY <2>1, <2>2, ThreadMoves, ThreadCounts
  <2>4. QED
    BY <2>3, KeptAll
<1>4. CASE CloseSocket(c)
  <2>1. /\ thread[c] = "leaving" /\ thread' = [thread EXCEPT ![c] = "closed"]
        /\ UNCHANGED <<main, shutdown, accept, count, taken, localVars,
                       clientVars, socketVars>>
    BY <1>4 DEF CloseSocket, serverVars
  <2>2. "closed" \in Pcs /\ Counted(c)
    BY <2>1 DEF Pcs, Counted
  <2>3. Kept(c) /\ Counts'
    BY <2>1, <2>2, ThreadMoves, ThreadCounts
  <2>4. QED
    BY <2>3, KeptAll
<1>5. CASE ThreadEnds(c)
  <2>1. /\ thread[c] = "closed" /\ thread' = [thread EXCEPT ![c] = "ended"]
        /\ UNCHANGED <<main, shutdown, accept, taken, localVars, clientVars,
                       socketVars>>
    BY <1>5 DEF ThreadEnds
  <2>2. "ended" \in Pcs
    BY DEF Pcs
  <2>3. Kept(c) /\ Counts'
    BY <1>5, <2>1, <2>2, ThreadMoves, BeginsAndEnds
  <2>4. QED
    BY <2>3, KeptAll
<1>6. QED
  BY <1>1, <1>2, <1>3, <1>4, <1>5

\* The steps that collect, handle and send.
LEMMA WorksStep ==
    ASSUME HttpIInv, NEW c \in Conns,
           \/ Wake(c) \/ Handle(c) \/ SendGranule(c) \/ SendDone(c)
           \/ SendWouldBlock(c) \/ SendFails(c)
    PROVE  HttpIInv'
<1>1. Kept(c)
  BY WakeKeeps, HandleKeeps, SendGranuleKeeps, SendStops
<1>2. Counts'
  <2>1. CASE Wake(c)
    <3>1. PICK pc \in {"handling", "resending", "leaving", "waiting"} :
              thread' = [thread EXCEPT ![c] = pc]
      BY <2>1, Zenon DEF Wake, AfterRead
    <3>2. count' = count /\ pc \in Pcs /\ Counted(c)
      BY <2>1 DEF Wake, serverVars, Pcs, Counted
    <3>3. QED
      BY <3>1, <3>2, ThreadCounts
  <2>2. CASE Handle(c)
    <3>1. /\ thread' = [thread EXCEPT ![c] = "sending"] /\ count' = count
          /\ "sending" \in Pcs /\ Counted(c)
      BY <2>2 DEF Handle, serverVars, Pcs, Counted
    <3>2. QED
      BY <3>1, ThreadCounts
  <2>3. CASE SendGranule(c)
    <3>1. /\ count' = count /\ thread' = thread /\ Counts
      BY <2>3 DEF SendGranule, serverVars, HttpIInv
    <3>2. \A x \in Conns : Counted(x)' <=> Counted(x)
      BY <3>1 DEF Counted
    <3>3. QED
      BY <3>1, <3>2, CountStays
  <2>4. CASE SendDone(c) \/ SendWouldBlock(c) \/ SendFails(c)
    <3>1. PICK pc \in {"leaving", "waiting"} :
              thread' = [thread EXCEPT ![c] = pc]
      BY <2>4 DEF SendDone, SendWouldBlock, SendFails, SendReturns
    <3>2. count' = count /\ pc \in Pcs /\ Counted(c)
      BY <2>4 DEF SendDone, SendWouldBlock, SendFails, serverVars, Sends, Pcs,
                  Counted
    <3>3. QED
      BY <3>1, <3>2, ThreadCounts
  <2>5. QED
    BY <2>1, <2>2, <2>3, <2>4
<1>3. QED
  BY <1>1, <1>2, KeptAll

\* The clients' steps that send and receive.
LEMMA ClientStep ==
    ASSUME HttpIInv, NEW c \in Conns,
           BeginRequest(c) \/ SendRest(c) \/ Receive(c)
    PROVE  HttpIInv'
<1>1. Kept(c)
  BY BeginRequestKeeps, SendRestKeeps, ReceiveKeeps
<1>2. count' = count /\ thread' = thread /\ Counts
  BY DEF BeginRequest, SendRest, Receive, Sent, serverVars, HttpIInv
<1>3. \A x \in Conns : Counted(x)' <=> Counted(x)
  BY <1>2 DEF Counted
<1>4. QED
  BY <1>1, <1>2, <1>3, CountStays, KeptAll

\* The steps of main, of the accept thread, and of clients that open or close.
LEMMA ElsewhereStep ==
    ASSUME HttpIInv,
           \/ Run \/ Stop \/ StopWaits \/ StopKills \/ StopCounted
           \/ StopGivesUp \/ AcceptEnds
           \/ \E c \in Conns : Connect(c) \/ ClientCloses(c)
    PROVE  HttpIInv'
<1>1. UNCHANGED <<count, thread, taken, localVars, request, segment, got,
                  arrived, out, blocked>>
  <2>1. CASE Run \/ Stop \/ StopWaits \/ StopKills \/ StopCounted
             \/ StopGivesUp
    BY <2>1 DEF Run, Stop, StopWaits, StopKills, StopCounted, StopGivesUp,
                clientVars, socketVars
  <2>2. CASE AcceptEnds
    BY <2>2 DEF AcceptEnds, socketVars
  <2>3. CASE \E c \in Conns : Connect(c) \/ ClientCloses(c)
    BY <2>3 DEF Connect, ClientCloses, serverVars
  <2>4. QED
    BY <2>1, <2>2, <2>3
<1>2. Typed' /\ \A x \in Conns : Same(x)
  BY <1>1, ElsewhereKeeps
<1>3. \A x \in Conns : ConnInv(x)'
  BY <1>2, SameInv DEF HttpIInv
<1>4. Counts'
  <2>1. \A x \in Conns : Counted(x)' <=> Counted(x)
    BY <1>1 DEF Counted
  <2>2. QED
    BY <1>1, <2>1, CountStays DEF HttpIInv
<1>5. QED
  BY <1>2, <1>3, <1>4 DEF HttpIInv

\* Every step keeps the invariant.
LEMMA StepHolds == HttpIInv /\ [HttpNext]_httpVars => HttpIInv'
<1> SUFFICES ASSUME HttpIInv, [HttpNext]_httpVars PROVE HttpIInv'
  OBVIOUS
<1>1. CASE \/ Run \/ Stop \/ StopWaits \/ StopKills \/ StopCounted
           \/ StopGivesUp \/ AcceptEnds
  BY <1>1, ElsewhereStep
<1>2. ASSUME NEW c \in Conns,
             \/ AddConnection(c) \/ ThreadStep(c) \/ TimesOut(c)
             \/ Connect(c) \/ BeginRequest(c) \/ SendRest(c) \/ Receive(c)
             \/ ClientCloses(c) \/ SeesEnd(c)
      PROVE  HttpIInv'
  <2>1. CASE AddConnection(c) \/ LeavesLoop(c) \/ TimesOut(c)
             \/ ConnectionThreadS(c) \/ CloseSocket(c) \/ ThreadEnds(c)
    BY <2>1, MovesStep DEF LeavesLoop, TimesOut
  <2>2. CASE Wake(c) \/ Handle(c) \/ SendGranule(c) \/ SendDone(c)
             \/ SendWouldBlock(c) \/ SendFails(c)
    BY <2>2, WorksStep
  <2>3. CASE BeginRequest(c) \/ SendRest(c) \/ Receive(c)
    BY <2>3, ClientStep
  <2>4. CASE Connect(c) \/ ClientCloses(c) \/ SeesEnd(c)
    BY <2>4, ElsewhereStep DEF SeesEnd
  <2>5. QED
    BY <1>2, <2>1, <2>2, <2>3, <2>4 DEF ThreadStep
<1>3. CASE UNCHANGED httpVars
  <2>1. UNCHANGED <<main, shutdown, accept, count, thread, taken, strRequest,
                    response, advance, keepAlive, client, request, segment,
                    got, arrived, out, blocked, events>>
    BY <1>3 DEF httpVars, serverVars, localVars, clientVars, socketVars
  <2>2. Typed' /\ \A x \in Conns : Same(x)
    BY <2>1 DEF HttpIInv, Typed, Same
  <2>3. \A x \in Conns : ConnInv(x)'
    BY <2>2, SameInv DEF HttpIInv
  <2>4. Counts'
    <3>1. \A x \in Conns : Counted(x)' <=> Counted(x)
      BY <2>1 DEF Counted
    <3>2. QED
      BY <2>1, <3>1, CountStays DEF HttpIInv
  <2>5. QED
    BY <2>2, <2>3, <2>4 DEF HttpIInv
<1>4. QED
  BY <1>1, <1>2, <1>3 DEF HttpNext

-----------------------------------------------------------------------------
(* The theorems. *)

\* The invariant holds in every state of every behaviour.
LEMMA InvariantHolds == HttpSpec => []HttpIInv
<1>1. QED
  BY StartHolds, StepHolds, PTL DEF HttpSpec

\* A thread that handles a request has collected all of its segments.
LEMMA HandlesWhole ==
    ASSUME HttpIInv, NEW c \in Conns, thread[c] = "handling"
    PROVE  strRequest[c] = [i \in 1..Current(c).parts |-> <<request[c], i>>]
<1>0. Typed /\ ConnInv(c)
  BY DEF HttpIInv
<1>1. Serving(c)
  BY <1>0 DEF ConnInv, Served, Serving
<1>2. Asked(c)
  BY <1>0, <1>1 DEF ConnInv, Exchange, Answered
<1>3. /\ arrived[c] = <<>> /\ segment[c] = Current(c).parts /\ Collects(c)
  BY <1>2 DEF Asked, Sends
<1>4. Len(strRequest[c]) = Current(c).parts
  <2>1. Len(strRequest[c]) \in Nat /\ Len(arrived[c]) = 0
    BY <1>0, <1>3, Local
  <2>2. Len(strRequest[c]) + Len(arrived[c]) = segment[c]
    BY <1>3 DEF Collects
  <2>3. \A n \in Nat : n + 0 = n
    OBVIOUS
  <2>4. QED
    BY <1>3, <2>1, <2>2, <2>3
<1>5. strRequest[c] \in [1..Len(strRequest[c]) -> Segments]
  <2>1. strRequest[c] \in Seq(Segments)
    BY <1>0, Local
  <2>2. QED
    BY <2>1, LenProperties
<1>6. strRequest[c] = [i \in 1..Len(strRequest[c]) |-> strRequest[c][i]]
  BY <1>5
<1>7. \A i \in 1..Len(strRequest[c]) : strRequest[c][i] = <<request[c], i>>
  BY <1>3 DEF Collects
<1>8. QED
  BY <1>4, <1>6, <1>7

\* The option of the last response is the longest path of its URL.
LEMMA ServesLongest == HttpIInv => LongestPathServes
<1> SUFFICES ASSUME HttpIInv, NEW c \in Conns, response[c].of > 0
             PROVE  LET u == UnescapeString(Request[c][response[c].of].url)
                        o == response[c].option
                        fits == {p \in {AddUrlOption(v) : v \in OptionUrls} :
                                    IsPrefix(p, u)}
                    IN  IF fits = {} THEN o = NoOption
                        ELSE o \in fits /\ \A p \in fits : Len(p) <= Len(o)
  BY DEF LongestPathServes
<1>1. Typed /\ Served(c)
  BY DEF HttpIInv, ConnInv
<1>2. response[c].of \in 1..Len(Request[c])
  <2>1. /\ response[c].of \in 0..request[c]
        /\ request[c] \in 0..Len(Request[c])
        /\ response[c].of \in Nat
    BY <1>1, Local DEF Served
  <2>2. Request[c] \in Seq([url : Seq(Int), head : Nat, parts : Nat])
    BY HttpAssumption DEF HttpAssumption
  <2>3. Len(Request[c]) \in Nat
    BY <2>2
  <2>4. QED
    BY <2>1, <2>3
<1> DEFINE u == UnescapeString(Request[c][response[c].of].url)
<1>3. response[c].option = FindUrlOption(u) /\ u \in Seq(Int)
  BY <1>1, <1>2, OptionIs, RequestIs, UnescapedIs DEF Served
<1>4. {AddUrlOption(v) : v \in OptionUrls} = m_mapUrlOptions
  BY DEF m_mapUrlOptions
<1> HIDE DEF u
<1>5. LET o == FindUrlOption(u)
          fits == {p \in m_mapUrlOptions : IsPrefix(p, u)}
      IN  IF fits = {} THEN o = NoOption
          ELSE o \in fits /\ \A p \in fits : Len(p) <= Len(o)
  BY <1>3, FindsLongest
<1>6. QED
  BY <1>3, <1>4, <1>5 DEF u

\* The invariant implies ServerInv ...
LEMMA ServerFits == HttpIInv => ServerInv
<1> SUFFICES ASSUME HttpIInv PROVE ServerInv
  OBVIOUS
<1>1. HttpTypeOK
  <2>1. ASSUME NEW c \in Conns
        PROVE  /\ thread[c] \in {"none", "created", "waiting", "handling",
                                 "sending", "resending", "leaving", "closed",
                                 "ended"}
               /\ taken[c] \in BOOLEAN
               /\ events[c] \subseteq {"read", "write", "close"}
               /\ response[c].of \in 0..Len(Request[c])
               /\ advance[c] \in 0..response[c].size
               /\ client[c] \in {"off", "open", "closed"}
               /\ request[c] \in 0..Len(Request[c])
               /\ Len(out[c]) <= SendBuffer
    <3>1. /\ Served(c) /\ thread[c] \in Pcs /\ taken[c] \in BOOLEAN
          /\ events[c] \in SUBSET {"read", "write", "close"}
          /\ client[c] \in {"off", "open", "closed"}
      BY DEF HttpIInv, ConnInv, Typed
    <3>2. response[c].of \in 0..Len(Request[c])
      <4>1. Request[c] \in Seq([url : Seq(Int), head : Nat, parts : Nat])
        BY HttpAssumption DEF HttpAssumption
      <4>2. Len(Request[c]) \in Nat
        BY <4>1
      <4>3. /\ response[c].of \in 0..request[c]
            /\ request[c] \in 0..Len(Request[c])
        BY <3>1 DEF Served
      <4>4. QED
        BY <4>2, <4>3
    <3>3. QED
      BY <3>1, <3>2 DEF Served, Pcs
  <2>2. QED
    BY <2>1 DEF HttpTypeOK, HttpIInv, Typed, Counts
<1>2. HandlesWholeRequests
  BY HandlesWhole DEF HandlesWholeRequests
<1>3. QED
  BY <1>1, <1>2, ServesLongest DEF ServerInv

\* ... and ResponsesInOrder: got is a left part of the stream.
LEMMA ResponsesFit == HttpIInv => ResponsesInOrder
<1> SUFFICES ASSUME HttpIInv, NEW c \in Conns, NEW k \in DOMAIN got[c]
             PROVE  LET g == got[c][k]
                    IN  IF k = 1 THEN g.of = 1 /\ g.i = 1
                        ELSE LET p == got[c][k - 1]
                             IN  IF p.i < Size(p.option)
                                 THEN g = [p EXCEPT !.i = @ + 1]
                                 ELSE g.of = p.of + 1 /\ g.i = 1
  BY DEF ResponsesInOrder
<1>1. PICK g \in Seq(GranuleSet), o \in Seq(GranuleSet) :
          g = got[c] /\ o = out[c]
  BY Local DEF HttpIInv
<1>2. /\ Len(g) \in Nat /\ Len(o) \in Nat /\ k \in 1..Len(g)
  BY <1>1
<1>3. /\ InOrder(g \o o) /\ Len(g \o o) = Len(g) + Len(o)
      /\ \A i \in 1..Len(g) : (g \o o)[i] = g[i]
  <2>1. InOrder(Stream(c))
    BY DEF HttpIInv, ConnInv
  <2>2. \A i \in 1..Len(g) : i \in 1..Len(g) + Len(o) /\ i <= Len(g)
    BY <1>2
  <2>3. /\ Len(g \o o) = Len(g) + Len(o)
        /\ \A i \in 1..Len(g) + Len(o) :
              (g \o o)[i] = IF i <= Len(g) THEN g[i] ELSE o[i - Len(g)]
    BY ConcatProperties
  <2>4. QED
    BY <1>1, <2>1, <2>2, <2>3 DEF Stream
<1>4. k \in 1..Len(g \o o)
  BY <1>2, <1>3
<1>5. CASE k = 1
  <2>1. (g \o o)[1].of = 1 /\ (g \o o)[1].i = 1
    BY <1>3, <1>4, <1>5 DEF InOrder
  <2>2. (g \o o)[1] = g[1]
    BY <1>2, <1>3, <1>5
  <2>3. QED
    BY <1>1, <1>5, <2>1, <2>2
<1>6. CASE k # 1
  <2>1. Follows((g \o o)[k - 1], (g \o o)[k])
    BY <1>3, <1>4, <1>6 DEF InOrder
  <2>2. k - 1 \in 1..Len(g)
    BY <1>2, <1>6
  <2>3. Follows(g[k - 1], g[k])
    BY <1>2, <1>3, <2>1, <2>2
  <2>4. QED
    BY <1>1, <1>6, <2>3 DEF Follows
<1>7. QED
  BY <1>5, <1>6

\* The clients' requests are handled when they are whole, by the options of
\* the longest path, and nClientsConnected counts the threads at work
\* (ConnectionThread, TestRequestCompleteness, FindUrlOption).
THEOREM ServerIsSafe == HttpSpec => []ServerInv
<1>1. QED
  BY InvariantHolds, ServerFits, PTL

\* However the sockets cut requests and responses, a client receives the
\* responses to its requests in order and each without a gap (Send,
\* nSendAdvance, the WRITE branch of ConnectionThread).
THEOREM ResponsesAreOrdered == HttpSpec => []ResponsesInOrder
<1>1. QED
  BY InvariantHolds, ResponsesFit, PTL
=============================================================================
