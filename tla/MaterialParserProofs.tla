------------------------ MODULE MaterialParserProofs ------------------------
(* What the parser makes of a line, for every line, alphabet and choice of  *)
(* delimiters.                                                              *)
EXTENDS MaterialLines, SequenceTheorems, FiniteSetTheorems, NaturalsInduction, TLAPS

-----------------------------------------------------------------------------
(* Induction over the positions of a line                                   *)

\* A set of numbers has a least one.
LEMMA LeastNat ==
    ASSUME NEW T, T \subseteq Nat, T # {}
    PROVE  \E x \in T : \A y \in T : x <= y
<1>. DEFINE R == {ss \in Nat \X Nat : ss[1] < ss[2]}
<1>1. IsWellFoundedOn(R, Nat)
  BY NatLessThanWellFounded DEF OpToRel
<1>2. PICK x \in T : \A y \in T : <<y, x>> \notin R
  <2>. HIDE DEF R
  <2>. QED
    BY <1>1, WFMin
<1>3. ASSUME NEW y \in T PROVE x <= y
  <2>1. <<y, x>> \notin R /\ x \in Nat /\ y \in Nat
    BY <1>2
  <2>2. ~(y < x)
    BY <2>1
  <2>. QED
    BY <2>1, <2>2
<1>. QED
  BY <1>3

LEMMA GreatestNat ==
    ASSUME NEW n \in Nat, NEW T, T \subseteq 0..n, T # {}
    PROVE  \E x \in T : \A y \in T : y <= x
<1>. DEFINE U == {n - x : x \in T}
<1>1. U \subseteq Nat /\ U # {}
  <2>1. \A x \in T : n - x \in Nat
    OBVIOUS
  <2>. QED BY <2>1
<1>2. PICK u \in U : \A y \in U : u <= y
  <2>. HIDE DEF U
  <2>. QED BY <1>1, LeastNat
<1>3. PICK x \in T : u = n - x
  BY <1>2
<1>4. ASSUME NEW y \in T PROVE y <= x
  <2>1. u <= n - y
    BY <1>2
  <2>. QED BY <1>3, <2>1
<1>. QED BY <1>4

LEMMA MinMax ==
    ASSUME NEW n \in Nat, NEW T, T \subseteq 0..n, T # {}
    PROVE  /\ Min(T) \in T /\ \A y \in T : Min(T) <= y
           /\ Max(T) \in T /\ \A y \in T : y <= Max(T)
<1>1. PICK x \in T : \A y \in T : x <= y
  <2>1. T \subseteq Nat
    OBVIOUS
  <2>. QED BY <2>1, LeastNat
<1>2. PICK z \in T : \A y \in T : z >= y
  <2>1. PICK z \in T : \A y \in T : y <= z
    BY GreatestNat
  <2>. QED BY <2>1
<1>3. Min(T) \in T /\ \A y \in T : Min(T) <= y
  BY <1>1 DEF Min
<1>4. Max(T) \in T /\ \A y \in T : Max(T) >= y
  BY <1>2 DEF Max
<1>5. \A y \in T : y <= Max(T)
  BY <1>4
<1>. QED BY <1>3, <1>4, <1>5

\* What holds of 0 and of each number when it holds of the one before holds of all up to n.
LEMMA UpTo ==
    ASSUME NEW n \in Nat, NEW B, 0 \in B, \A i \in 1..n : i - 1 \in B => i \in B
    PROVE  \A i \in 0..n : i \in B
<1>. DEFINE T == (0..n) \ B
<1>1. SUFFICES ASSUME T # {} PROVE FALSE
  OBVIOUS
<1>2. PICK x \in T : \A y \in T : x <= y
  <2>1. T \subseteq Nat
    OBVIOUS
  <2>. HIDE DEF T
  <2>. QED
    BY <1>1, <2>1, LeastNat
<1>3. x \in 1..n /\ x - 1 \notin T /\ x - 1 \in 0..n
  BY <1>2
<1>. QED
  BY <1>2, <1>3

-----------------------------------------------------------------------------
(* Sequences of numbers that rise, and sequences put together               *)

\* A function on 1..n is a sequence of length n.
LEMMA FunctionIsSeq ==
    ASSUME NEW n \in Nat, NEW S, NEW f \in [1..n -> S]
    PROVE  f \in Seq(S) /\ Len(f) = n
<1>1. f \in Seq(S)
  BY IsASeq
<1>2. Len(f) \in Nat /\ 1..Len(f) = 1..n
  BY <1>1, LenProperties
<1>3. \A m \in Nat : 1..m = 1..n => m = n
  <2>1. ASSUME NEW m \in Nat, 1..m = 1..n PROVE m = n
    <3>1. m # 0 => m \in 1..n
      BY <2>1
    <3>2. n # 0 => n \in 1..m
      BY <2>1
    <3>. QED BY <3>1, <3>2
  <2>. QED BY <2>1
<1>. QED BY <1>1, <1>2, <1>3

Members(s) == {s[k] : k \in 1..Len(s)}
Rising(s) == \A k, l \in 1..Len(s) : k < l => s[k] < s[l]

\* Two rising sequences of the same numbers are the same.
LEMMA RisingUnique ==
    ASSUME NEW a \in Seq(Nat), NEW b \in Seq(Nat), Rising(a), Rising(b), Members(a) = Members(b)
    PROVE  a = b
<1>0. /\ Len(a) \in Nat /\ Len(b) \in Nat
      /\ a \in [1..Len(a) -> Nat] /\ b \in [1..Len(b) -> Nat]
  BY LenProperties
<1>. DEFINE T == {k \in Nat \ {0} : /\ k <= Len(a) \/ k <= Len(b)
                                    /\ ~(k <= Len(a) /\ k <= Len(b) /\ a[k] = b[k])}
<1>1. T = {}
  <2>1. SUFFICES ASSUME T # {} PROVE FALSE
    OBVIOUS
  <2>2. PICK k \in T : \A y \in T : k <= y
    <3>1. T \subseteq Nat
      OBVIOUS
    <3>. HIDE DEF T
    <3>. QED BY <2>1, <3>1, LeastNat
  <2>3. \A j \in 1..k - 1 : j <= Len(a) /\ j <= Len(b) /\ a[j] = b[j]
    BY <1>0, <2>2
  <2>4. ~(k <= Len(a) /\ (k > Len(b) \/ a[k] < b[k]))
    <3>1. SUFFICES ASSUME k <= Len(a), k > Len(b) \/ a[k] < b[k] PROVE FALSE
      OBVIOUS
    <3>2. PICK j \in 1..Len(b) : b[j] = a[k]
      <4>1. k \in 1..Len(a)
        BY <1>0, <3>1, <2>2
      <4>2. a[k] \in Members(b)
        BY <4>1 DEF Members
      <4>. QED BY <4>2 DEF Members
    <3>3. j < k
      <4>1. CASE k > Len(b)
        BY <1>0, <4>1
      <4>2. CASE k <= Len(b) /\ a[k] < b[k]
        BY <1>0, <3>2, <4>2 DEF Rising
      <4>. QED BY <1>0, <3>1, <4>1, <4>2
    <3>. QED BY <1>0, <2>3, <3>1, <3>2, <3>3 DEF Rising
  <2>5. ~(k <= Len(b) /\ (k > Len(a) \/ b[k] < a[k]))
    <3>1. SUFFICES ASSUME k <= Len(b), k > Len(a) \/ b[k] < a[k] PROVE FALSE
      OBVIOUS
    <3>2. PICK j \in 1..Len(a) : a[j] = b[k]
      <4>1. k \in 1..Len(b)
        BY <1>0, <3>1, <2>2
      <4>2. b[k] \in Members(a)
        BY <4>1 DEF Members
      <4>. QED BY <4>2 DEF Members
    <3>3. j < k
      <4>1. CASE k > Len(a)
        BY <1>0, <4>1
      <4>2. CASE k <= Len(a) /\ b[k] < a[k]
        BY <1>0, <3>2, <4>2 DEF Rising
      <4>. QED BY <1>0, <3>1, <4>1, <4>2
    <3>. QED BY <1>0, <2>3, <3>1, <3>2, <3>3 DEF Rising
  <2>. QED BY <1>0, <2>2, <2>4, <2>5
<1>2. Len(a) = Len(b)
  <2>1. Len(a) # 0 => Len(a) <= Len(b)
    <3>1. SUFFICES ASSUME Len(a) # 0, ~(Len(a) <= Len(b)) PROVE FALSE
      OBVIOUS
    <3>2. Len(a) \in T
      BY <1>0, <3>1
    <3>. QED BY <1>1, <3>2
  <2>2. Len(b) # 0 => Len(b) <= Len(a)
    <3>1. SUFFICES ASSUME Len(b) # 0, ~(Len(b) <= Len(a)) PROVE FALSE
      OBVIOUS
    <3>2. Len(b) \in T
      BY <1>0, <3>1
    <3>. QED BY <1>1, <3>2
  <2>3. \A x, y \in Nat : (x # 0 => x <= y) /\ (y # 0 => y <= x) => x = y
    OBVIOUS
  <2>. HIDE DEF T
  <2>. QED BY <1>0, <2>1, <2>2, <2>3
<1>3. ASSUME NEW k \in 1..Len(a) PROVE a[k] = b[k]
  <2>1. k \notin T
    BY <1>1
  <2>. QED BY <1>0, <1>2, <2>1
<1>. QED BY <1>2, <1>3, SeqEqual

LEMMA MembersConcat ==
    ASSUME NEW S, NEW a \in Seq(S), NEW b \in Seq(S)
    PROVE  Members(a \o b) = Members(a) \cup Members(b)
<1>1. /\ Len(a) \in Nat /\ Len(b) \in Nat /\ Len(a \o b) = Len(a) + Len(b)
      /\ \A k \in 1..Len(a) : (a \o b)[k] = a[k]
      /\ \A k \in Len(a) + 1..Len(a) + Len(b) : (a \o b)[k] = b[k - Len(a)]
  <2>1. /\ Len(a) \in Nat /\ Len(b) \in Nat /\ Len(a \o b) = Len(a) + Len(b)
        /\ \A k \in 1..Len(a) + Len(b) : (a \o b)[k] = IF k <= Len(a) THEN a[k] ELSE b[k - Len(a)]
    BY ConcatProperties, LenProperties
  <2>. QED BY <2>1
<1>2. Members(a \o b) \subseteq Members(a) \cup Members(b)
  <2>1. ASSUME NEW k \in 1..Len(a) + Len(b) PROVE (a \o b)[k] \in Members(a) \cup Members(b)
    <3>1. CASE k <= Len(a)
      BY <1>1, <3>1 DEF Members
    <3>2. CASE k > Len(a)
      <4>1. k - Len(a) \in 1..Len(b) /\ k \in Len(a) + 1..Len(a) + Len(b)
        BY <1>1, <3>2
      <4>. QED BY <1>1, <4>1 DEF Members
    <3>. QED BY <1>1, <3>1, <3>2
  <2>. QED BY <1>1, <2>1 DEF Members
<1>3. Members(a) \cup Members(b) \subseteq Members(a \o b)
  <2>1. ASSUME NEW k \in 1..Len(a) PROVE a[k] \in Members(a \o b)
    BY <1>1 DEF Members
  <2>2. ASSUME NEW k \in 1..Len(b) PROVE b[k] \in Members(a \o b)
    <3>1. /\ k + Len(a) \in Len(a) + 1..Len(a) + Len(b) /\ (k + Len(a)) - Len(a) = k
          /\ k + Len(a) \in 1..Len(a \o b)
      BY <1>1
    <3>. QED BY <1>1, <3>1 DEF Members
  <2>. QED BY <2>1, <2>2 DEF Members
<1>. QED BY <1>2, <1>3

\* Concatenation of rising sequences, the second above the first.
LEMMA RisingConcat ==
    ASSUME NEW a \in Seq(Nat), NEW b \in Seq(Nat), Rising(a), Rising(b),
           \A x \in Members(a) : \A y \in Members(b) : x < y
    PROVE  /\ a \o b \in Seq(Nat) /\ Rising(a \o b)
           /\ Members(a \o b) = Members(a) \cup Members(b)
<1>1. /\ Len(a) \in Nat /\ Len(b) \in Nat /\ a \o b \in Seq(Nat) /\ Len(a \o b) = Len(a) + Len(b)
      /\ \A k \in 1..Len(a) : (a \o b)[k] = a[k]
      /\ \A k \in Len(a) + 1..Len(a) + Len(b) : (a \o b)[k] = b[k - Len(a)]
  <2>1. /\ Len(a) \in Nat /\ Len(b) \in Nat /\ a \o b \in Seq(Nat) /\ Len(a \o b) = Len(a) + Len(b)
        /\ \A k \in 1..Len(a) + Len(b) : (a \o b)[k] = IF k <= Len(a) THEN a[k] ELSE b[k - Len(a)]
    BY ConcatProperties, LenProperties
  <2>. QED BY <2>1
<1>2. ASSUME NEW k \in 1..Len(a) + Len(b), NEW l \in 1..Len(a) + Len(b), k < l
      PROVE  (a \o b)[k] < (a \o b)[l]
  <2>1. CASE l <= Len(a)
    BY <1>1, <1>2, <2>1 DEF Rising
  <2>2. CASE k <= Len(a) /\ l > Len(a)
    <3>1. k \in 1..Len(a) /\ l - Len(a) \in 1..Len(b) /\ l \in Len(a) + 1..Len(a) + Len(b)
      BY <1>1, <2>2
    <3>2. a[k] \in Members(a) /\ b[l - Len(a)] \in Members(b)
      BY <3>1 DEF Members
    <3>. QED BY <1>1, <3>1, <3>2
  <2>3. CASE k > Len(a)
    <3>1. /\ k - Len(a) \in 1..Len(b) /\ l - Len(a) \in 1..Len(b) /\ k - Len(a) < l - Len(a)
          /\ k \in Len(a) + 1..Len(a) + Len(b) /\ l \in Len(a) + 1..Len(a) + Len(b)
      BY <1>1, <1>2, <2>3
    <3>. QED BY <1>1, <3>1 DEF Rising
  <2>. QED BY <1>1, <1>2, <2>1, <2>2, <2>3
<1>3. Members(a \o b) = Members(a) \cup Members(b)
  BY MembersConcat
<1>. QED BY <1>1, <1>2, <1>3 DEF Rising

\* Ascending has the members of the set up to n, once and in order.
LEMMA AscendingRises ==
    ASSUME NEW S, NEW n \in Nat
    PROVE  /\ Ascending(S, n) \in Seq(Nat)
           /\ Rising(Ascending(S, n))
           /\ Members(Ascending(S, n)) = S \cap 0..n
<1>. DEFINE Is(f, m) == f = [i \in 0..m |->
                            IF i = 0 THEN <<>>
                            ELSE f[i - 1] \o (IF i - 1 \in S THEN <<i - 1>> ELSE <<>>)]
            B == {m \in Nat : \E f : Is(f, m)}
            below == CHOOSE f : Is(f, n + 1)
            C == {i \in 0..n + 1 : /\ below[i] \in Seq(Nat) /\ Rising(below[i])
                                   /\ Members(below[i]) = S \cap 0..i - 1}
<1>1. 0 \in B
  <2>1. Is([i \in 0..0 |-> <<>>], 0)
    OBVIOUS
  <2>. QED BY <2>1
<1>2. ASSUME NEW m \in 1..n + 1, m - 1 \in B PROVE m \in B
  <2>1. PICK f : Is(f, m - 1)
    BY <1>2
  <2>. DEFINE g == [i \in 0..m |-> IF i = m
                                   THEN f[m - 1] \o (IF m - 1 \in S THEN <<m - 1>> ELSE <<>>)
                                   ELSE f[i]]
  <2>2. ASSUME NEW i \in 0..m
        PROVE  g[i] = IF i = 0 THEN <<>>
                      ELSE g[i - 1] \o (IF i - 1 \in S THEN <<i - 1>> ELSE <<>>)
    <3>1. CASE i = m
      <4>1. i # 0 /\ i - 1 # m /\ i - 1 \in 0..m
        BY <1>2, <3>1
      <4>2. g[i - 1] = f[i - 1]
        BY <4>1
      <4>. QED BY <3>1, <4>1, <4>2
    <3>2. CASE i # m
      <4>1. i \in 0..m - 1 /\ g[i] = f[i] /\ (i # 0 => g[i - 1] = f[i - 1])
        BY <3>2
      <4>2. f[i] = IF i = 0 THEN <<>>
                   ELSE f[i - 1] \o (IF i - 1 \in S THEN <<i - 1>> ELSE <<>>)
        BY <2>1, <4>1
      <4>. QED BY <4>1, <4>2
    <3>. QED BY <3>1, <3>2
  <2>3. Is(g, m)
    BY <2>2
  <2>. HIDE DEF g
  <2>. QED BY <2>3
<1>0. n + 1 \in Nat /\ n + 1 \in 0..n + 1
  OBVIOUS
<1>3. n + 1 \in B
  <2>1. \A i \in 0..n + 1 : i \in B
    <3>. HIDE DEF B
    <3>. QED BY <1>0, <1>1, <1>2, UpTo
  <2>. HIDE DEF B
  <2>. QED BY <1>0, <2>1
<1>4. Is(below, n + 1)
  BY <1>3
<1>5. Ascending(S, n) = below[n + 1]
  BY DEF Ascending
<1>. HIDE DEF below
<1>6. /\ below[0] = <<>>
      /\ \A i \in 1..n + 1 : below[i] = below[i - 1] \o (IF i - 1 \in S THEN <<i - 1>> ELSE <<>>)
  <2>1. \A i \in 0..n + 1 : below[i] = IF i = 0 THEN <<>>
            ELSE below[i - 1] \o (IF i - 1 \in S THEN <<i - 1>> ELSE <<>>)
    BY <1>4
  <2>2. below[0] = <<>>
    <3>1. 0 \in 0..n + 1
      OBVIOUS
    <3>. QED BY <2>1, <3>1
  <2>3. ASSUME NEW i \in 1..n + 1
        PROVE  below[i] = below[i - 1] \o (IF i - 1 \in S THEN <<i - 1>> ELSE <<>>)
    <3>1. i \in 0..n + 1 /\ i # 0
      OBVIOUS
    <3>. QED BY <2>1, <3>1
  <2>. QED BY <2>2, <2>3
<1>7. 0 \in C
  <2>1. <<>> \in Seq(Nat) /\ Rising(<<>>) /\ Members(<<>>) = {}
    BY EmptySeq DEF Rising, Members
  <2>2. S \cap 0..0 - 1 = {} /\ 0 \in 0..n + 1
    OBVIOUS
  <2>. QED BY <1>6, <2>1, <2>2
<1>8. ASSUME NEW i \in 1..n + 1, i - 1 \in C PROVE i \in C
  <2>0. /\ below[i - 1] \in Seq(Nat) /\ Rising(below[i - 1])
        /\ Members(below[i - 1]) = S \cap 0..(i - 1) - 1
    BY <1>8
  <2>1. CASE i - 1 \in S
    <3>. DEFINE one == <<i - 1>>
    <3>1. one \in Seq(Nat) /\ Len(one) = 1 /\ one[1] = i - 1
      OBVIOUS
    <3>. HIDE DEF one
    <3>2. Rising(one) /\ Members(one) = {i - 1}
      BY <3>1 DEF Rising, Members
    <3>3. /\ below[i] = below[i - 1] \o one
      BY <1>6, <2>1 DEF one
    <3>4. /\ below[i] \in Seq(Nat) /\ Rising(below[i])
          /\ Members(below[i]) = (S \cap 0..(i - 1) - 1) \cup {i - 1}
      BY <2>0, <3>1, <3>2, <3>3, RisingConcat
    <3>5. (S \cap 0..(i - 1) - 1) \cup {i - 1} = S \cap 0..i - 1
      BY <2>1
    <3>. QED BY <3>4, <3>5
  <2>2. CASE i - 1 \notin S
    <3>1. below[i] = below[i - 1]
      BY <1>6, <2>0, <2>2, ConcatEmptySeq
    <3>2. S \cap 0..(i - 1) - 1 = S \cap 0..i - 1
      BY <2>2
    <3>. QED BY <2>0, <3>1, <3>2
  <2>. QED BY <2>1, <2>2
<1>9. n + 1 \in C
  <2>1. \A i \in 0..n + 1 : i \in C
    <3>. HIDE DEF C
    <3>. QED BY <1>0, <1>7, <1>8, UpTo
  <2>. HIDE DEF C
  <2>. QED BY <1>0, <2>1
<1>10. (n + 1) - 1 = n
  OBVIOUS
<1>. QED BY <1>5, <1>9, <1>10

-----------------------------------------------------------------------------
(* Sequences put together from several                                      *)

\* FlattenSeq puts one sequence after the other.
Flattens(ss, flat) ==
    /\ DOMAIN flat = 0..Len(ss)
    /\ flat[0] = <<>>
    /\ \A i \in 1..Len(ss) : flat[i] = flat[i - 1] \o ss[i]
    /\ FlattenSeq(ss) = flat[Len(ss)]

LEMMA FlattenSteps ==
    ASSUME NEW S, NEW ss \in Seq(Seq(S))
    PROVE  \E flat \in [0..Len(ss) -> Seq(S)] : Flattens(ss, flat)
<1>. DEFINE Is(f, m) == f = [i \in 1..m |-> IF i = 1 THEN ss[i] ELSE f[i - 1] \o ss[i]]
            B == {m \in Nat : \E f : Is(f, m)}
            n == Len(ss)
            flatten == CHOOSE f : Is(f, n)
            flat == [i \in 0..n |-> IF i = 0 THEN <<>> ELSE flatten[i]]
            C == {i \in 0..n : flat[i] \in Seq(S)}
<1>0. n \in Nat /\ \A i \in 1..n : ss[i] \in Seq(S)
  BY LenProperties
<1>1. 0 \in B
  <2>1. Is([i \in 1..0 |-> <<>>], 0)
    OBVIOUS
  <2>. QED BY <2>1
<1>2. ASSUME NEW m \in 1..n, m - 1 \in B PROVE m \in B
  <2>1. PICK f : Is(f, m - 1)
    BY <1>2
  <2>. DEFINE g == [i \in 1..m |-> IF i = m
                                   THEN IF m = 1 THEN ss[m] ELSE f[m - 1] \o ss[m] ELSE f[i]]
  <2>2. ASSUME NEW i \in 1..m
        PROVE  g[i] = IF i = 1 THEN ss[i] ELSE g[i - 1] \o ss[i]
    <3>1. CASE i = m
      <4>1. CASE m = 1
        BY <3>1, <4>1
      <4>2. CASE m # 1
        <5>1. i - 1 # m /\ i - 1 \in 1..m
          BY <1>0, <1>2, <3>1, <4>2
        <5>2. g[i - 1] = f[m - 1]
          BY <3>1, <5>1
        <5>. QED BY <3>1, <4>2, <5>2
      <4>. QED BY <4>1, <4>2
    <3>2. CASE i # m
      <4>1. i \in 1..m - 1 /\ g[i] = f[i] /\ (i # 1 => g[i - 1] = f[i - 1])
        BY <1>0, <3>2
      <4>2. f[i] = IF i = 1 THEN ss[i] ELSE f[i - 1] \o ss[i]
        BY <2>1, <4>1
      <4>. QED BY <4>1, <4>2
    <3>. QED BY <3>1, <3>2
  <2>3. Is(g, m)
    BY <2>2
  <2>. HIDE DEF g
  <2>4. \E h : Is(h, m)
    BY <2>3
  <2>5. m \in Nat
    BY <1>0
  <2>. QED BY <2>4, <2>5
<1>3. n \in B
  <2>. HIDE DEF B, n
  <2>1. \A i \in 0..n : i \in B
    BY <1>0, <1>1, <1>2, UpTo
  <2>. QED BY <1>0, <2>1
<1>4. Is(flatten, n)
  BY <1>3
<1>5. CASE n = 0
  <2>1. ss = <<>> /\ FlattenSeq(ss) = <<>>
    <3>1. ss = <<>>
      BY <1>5, EmptySeq
    <3>. QED BY <1>5, <3>1 DEF FlattenSeq
  <2>2. [i \in 0..Len(ss) |-> <<>>] \in [0..Len(ss) -> Seq(S)]
    BY EmptySeq
  <2>3. Flattens(ss, [i \in 0..Len(ss) |-> <<>>])
    BY <1>5, <2>1 DEF Flattens
  <2>. QED BY <2>2, <2>3
<1>6. CASE n # 0
  <2>1. FlattenSeq(ss) = flatten[n]
    BY <1>6 DEF FlattenSeq
  <2>. HIDE DEF flatten
  <2>2. flat[0] = <<>> /\ DOMAIN flat = 0..n /\ flat[n] = flatten[n]
    BY <1>0, <1>6
  <2>3. ASSUME NEW i \in 1..n PROVE flat[i] = flat[i - 1] \o ss[i]
    <3>1. flatten[i] = IF i = 1 THEN ss[i] ELSE flatten[i - 1] \o ss[i]
      BY <1>4
    <3>2. i \in 0..n /\ i # 0 /\ i - 1 \in 0..n /\ (i # 1 => i - 1 # 0) /\ (i = 1 => i - 1 = 0)
      BY <1>0
    <3>3. CASE i = 1
      <4>1. flat[i] = ss[i] /\ flat[i - 1] = <<>>
        BY <3>1, <3>2, <3>3
      <4>. QED BY <1>0, <4>1, ConcatEmptySeq
    <3>4. CASE i # 1
      BY <3>1, <3>2, <3>4
    <3>. QED BY <3>3, <3>4
  <2>4. flat \in [0..n -> Seq(S)]
    <3>. DEFINE h == flat
    <3>0. DOMAIN h = 0..n /\ h[0] = <<>> /\ \A i \in 1..n : h[i] = h[i - 1] \o ss[i]
      BY <2>2, <2>3
    <3>00. h = [i \in 0..n |-> h[i]]
      OBVIOUS
    <3>. HIDE DEF h
    <3>. DEFINE G == {i \in 0..n : h[i] \in Seq(S)}
    <3>1. 0 \in G
      <4>1. h[0] \in Seq(S) /\ 0 \in 0..n
        BY <1>0, <3>0, EmptySeq
      <4>. QED BY <4>1
    <3>2. ASSUME NEW i \in 1..n, i - 1 \in G PROVE i \in G
      <4>1. h[i - 1] \in Seq(S) /\ ss[i] \in Seq(S) /\ i \in 0..n
        BY <1>0, <3>2
      <4>2. h[i] = h[i - 1] \o ss[i]
        BY <3>0
      <4>. HIDE DEF h
      <4>3. h[i] \in Seq(S)
        BY <4>1, <4>2, ConcatProperties
      <4>. QED BY <4>1, <4>3
    <3>3. \A i \in 0..n : i \in G
      <4>. HIDE DEF n, G
      <4>. QED BY <1>0, <3>1, <3>2, UpTo
    <3>4. h \in [0..n -> Seq(S)]
      BY <3>00, <3>3
    <3>. QED BY <3>4 DEF h
  <2>5. Flattens(ss, flat)
    <3>. HIDE DEF flat
    <3>. QED BY <2>1, <2>2, <2>3 DEF Flattens
  <2>. QED BY <2>4, <2>5
<1>. QED BY <1>5, <1>6

LEMMA FlattenMembers ==
    ASSUME NEW S, NEW ss \in Seq(Seq(S))
    PROVE  /\ FlattenSeq(ss) \in Seq(S)
           /\ Members(FlattenSeq(ss)) = UNION {Members(ss[i]) : i \in 1..Len(ss)}
<1>1. PICK flat \in [0..Len(ss) -> Seq(S)] : Flattens(ss, flat)
  BY FlattenSteps
<1>0. Len(ss) \in Nat /\ \A i \in 1..Len(ss) : ss[i] \in Seq(S)
  BY LenProperties
<1>. DEFINE C == {i \in 0..Len(ss) : Members(flat[i]) = UNION {Members(ss[j]) : j \in 1..i}}
<1>2. 0 \in C
  <2>1. Members(flat[0]) = {}
    BY <1>1 DEF Flattens, Members
  <2>2. UNION {Members(ss[j]) : j \in 1..0} = {}
    OBVIOUS
  <2>. QED BY <1>0, <2>1, <2>2
<1>3. ASSUME NEW i \in 1..Len(ss), i - 1 \in C PROVE i \in C
  <2>1. Members(flat[i]) = Members(flat[i - 1]) \cup Members(ss[i])
    <3>1. flat[i - 1] \in Seq(S) /\ ss[i] \in Seq(S) /\ flat[i] = flat[i - 1] \o ss[i]
      <4>1. i - 1 \in 0..Len(ss)
        BY <1>0
      <4>2. flat[i - 1] \in Seq(S)
        BY <1>1, <4>1
      <4>. QED BY <1>0, <1>1, <4>2 DEF Flattens
    <3>. QED BY <3>1, MembersConcat
  <2>2. 1..i = (1..i - 1) \cup {i} /\ i \in 0..Len(ss)
    BY <1>0
  <2>. QED BY <1>3, <2>1, <2>2
<1>4. \A i \in 0..Len(ss) : i \in C
  <2>. HIDE DEF C
  <2>. QED BY <1>0, <1>2, <1>3, UpTo
<1>5. FlattenSeq(ss) = flat[Len(ss)] /\ Len(ss) \in 0..Len(ss)
  BY <1>0, <1>1 DEF Flattens
<1>. QED BY <1>1, <1>4, <1>5

\* Each member of a sequence stands in R to each that comes after it.
InOrder(R, s) == \A k, l \in 1..Len(s) : k < l => <<s[k], s[l]>> \in R

LEMMA InOrderConcat ==
    ASSUME NEW S, NEW a \in Seq(S), NEW b \in Seq(S), NEW R, InOrder(R, a), InOrder(R, b),
           \A x \in Members(a) : \A y \in Members(b) : <<x, y>> \in R
    PROVE  InOrder(R, a \o b)
<1>1. /\ Len(a) \in Nat /\ Len(b) \in Nat /\ Len(a \o b) = Len(a) + Len(b)
      /\ \A k \in 1..Len(a) : (a \o b)[k] = a[k]
      /\ \A k \in Len(a) + 1..Len(a) + Len(b) : (a \o b)[k] = b[k - Len(a)]
  <2>1. /\ Len(a) \in Nat /\ Len(b) \in Nat /\ Len(a \o b) = Len(a) + Len(b)
        /\ \A k \in 1..Len(a) + Len(b) : (a \o b)[k] = IF k <= Len(a) THEN a[k] ELSE b[k - Len(a)]
    BY ConcatProperties, LenProperties
  <2>. QED BY <2>1
<1>2. ASSUME NEW k \in 1..Len(a) + Len(b), NEW l \in 1..Len(a) + Len(b), k < l
      PROVE  <<(a \o b)[k], (a \o b)[l]>> \in R
  <2>1. CASE l <= Len(a)
    <3>1. k \in 1..Len(a) /\ l \in 1..Len(a)
      BY <1>1, <1>2, <2>1
    <3>. QED BY <1>1, <1>2, <3>1 DEF InOrder
  <2>2. CASE k <= Len(a) /\ l > Len(a)
    <3>1. k \in 1..Len(a) /\ l - Len(a) \in 1..Len(b) /\ l \in Len(a) + 1..Len(a) + Len(b)
      BY <1>1, <2>2
    <3>2. a[k] \in Members(a) /\ b[l - Len(a)] \in Members(b)
      BY <3>1 DEF Members
    <3>. QED BY <1>1, <3>1, <3>2
  <2>3. CASE k > Len(a)
    <3>1. /\ k - Len(a) \in 1..Len(b) /\ l - Len(a) \in 1..Len(b) /\ k - Len(a) < l - Len(a)
          /\ k \in Len(a) + 1..Len(a) + Len(b) /\ l \in Len(a) + 1..Len(a) + Len(b)
      BY <1>1, <1>2, <2>3
    <3>2. <<b[k - Len(a)], b[l - Len(a)]>> \in R
      BY <3>1 DEF InOrder
    <3>. QED BY <1>1, <3>1, <3>2
  <2>4. l <= Len(a) \/ (k <= Len(a) /\ l > Len(a)) \/ k > Len(a)
    BY <1>1
  <2>. QED BY <2>1, <2>2, <2>3, <2>4
<1>3. 1..Len(a \o b) = 1..Len(a) + Len(b)
  BY <1>1
<1>. QED BY <1>2, <1>3 DEF InOrder

LEMMA FlattenInOrder ==
    ASSUME NEW S, NEW ss \in Seq(Seq(S)), NEW R,
           \A i \in 1..Len(ss) : InOrder(R, ss[i]),
           \A i, j \in 1..Len(ss) : i < j =>
               \A x \in Members(ss[i]) : \A y \in Members(ss[j]) : <<x, y>> \in R
    PROVE  InOrder(R, FlattenSeq(ss))
<1>1. PICK flat \in [0..Len(ss) -> Seq(S)] : Flattens(ss, flat)
  BY FlattenSteps
<1>0. Len(ss) \in Nat /\ \A i \in 1..Len(ss) : ss[i] \in Seq(S)
  BY LenProperties
<1>. DEFINE C == {i \in 0..Len(ss) :
                    /\ Members(flat[i]) = UNION {Members(ss[j]) : j \in 1..i}
                    /\ InOrder(R, flat[i])}
<1>2. 0 \in C
  <2>1. Members(flat[0]) = {} /\ InOrder(R, flat[0])
    <3>1. flat[0] = <<>> /\ Len(<<>>) = 0 /\ 1..0 = {}
      BY <1>1 DEF Flattens
    <3>. QED BY <3>1 DEF Members, InOrder
  <2>2. UNION {Members(ss[j]) : j \in 1..0} = {}
    OBVIOUS
  <2>. QED BY <1>0, <2>1, <2>2
<1>3. ASSUME NEW i \in 1..Len(ss), i - 1 \in C PROVE i \in C
  <2>1. flat[i - 1] \in Seq(S) /\ ss[i] \in Seq(S) /\ flat[i] = flat[i - 1] \o ss[i]
    <3>1. i - 1 \in 0..Len(ss)
      BY <1>0
    <3>2. flat[i - 1] \in Seq(S)
      BY <1>1, <3>1
    <3>. QED BY <1>0, <1>1, <3>2 DEF Flattens
  <2>2. Members(flat[i]) = Members(flat[i - 1]) \cup Members(ss[i])
    BY <2>1, MembersConcat
  <2>3. 1..i = (1..i - 1) \cup {i} /\ i \in 0..Len(ss)
    BY <1>0
  <2>4. ASSUME NEW x \in Members(flat[i - 1]), NEW y \in Members(ss[i]) PROVE <<x, y>> \in R
    <3>1. PICK j \in 1..i - 1 : x \in Members(ss[j])
      BY <1>3
    <3>2. j \in 1..Len(ss) /\ j < i
      BY <1>0
    <3>. QED BY <3>1, <3>2
  <2>5. InOrder(R, flat[i])
    BY <1>3, <2>1, <2>4, InOrderConcat
  <2>. QED BY <1>3, <2>2, <2>3, <2>5
<1>4. \A i \in 0..Len(ss) : i \in C
  <2>. HIDE DEF C
  <2>. QED BY <1>0, <1>2, <1>3, UpTo
<1>5. FlattenSeq(ss) = flat[Len(ss)] /\ Len(ss) \in 0..Len(ss)
  BY <1>0, <1>1 DEF Flattens
<1>. QED BY <1>4, <1>5

-----------------------------------------------------------------------------
(* _symbols_tree                                                            *)

\* The scan is a recursion over the line: from one symbol to the next.
LEMMA ScannedStep ==
    ASSUME NEW S, NEW line \in Seq(S)
    PROVE  /\ DOMAIN Scanned(line) = 0..Len(line)
           /\ Scanned(line)[0] = EmptyTree
           /\ \A i \in 1..Len(line) : Scanned(line)[i] = Scan(line, Scanned(line)[i - 1], i)
<1>. DEFINE Is(f, n) == f = [i \in 0..n |-> IF i = 0 THEN EmptyTree ELSE Scan(line, f[i - 1], i)]
            B == {n \in Nat : \E f : Is(f, n)}
<1>0. Len(line) \in Nat
  BY LenProperties
<1>1. 0 \in B
  <2>1. Is([i \in 0..0 |-> EmptyTree], 0)
    OBVIOUS
  <2>. QED BY <2>1
<1>2. ASSUME NEW n \in 1..Len(line), n - 1 \in B PROVE n \in B
  <2>1. PICK f : Is(f, n - 1)
    BY <1>2
  <2>. DEFINE g == [i \in 0..n |-> IF i = n THEN Scan(line, f[n - 1], n) ELSE f[i]]
  <2>2. ASSUME NEW i \in 0..n
        PROVE  g[i] = IF i = 0 THEN EmptyTree ELSE Scan(line, g[i - 1], i)
    <3>1. CASE i = n
      BY <3>1
    <3>2. CASE i # n
      <4>1. i \in 0..n - 1 /\ g[i] = f[i] /\ (i # 0 => g[i - 1] = f[i - 1])
        BY <3>2
      <4>2. f[i] = IF i = 0 THEN EmptyTree ELSE Scan(line, f[i - 1], i)
        BY <2>1, <4>1
      <4>. QED BY <4>1, <4>2
    <3>. QED BY <3>1, <3>2
  <2>3. Is(g, n)
    BY <2>2
  <2>. HIDE DEF g
  <2>. QED BY <2>3
<1>3. \E f : Is(f, Len(line))
  <2>1. \A i \in 0..Len(line) : i \in B
    <3>. HIDE DEF B
    <3>. QED BY <1>0, <1>1, <1>2, UpTo
  <2>. QED BY <1>0, <2>1
<1>4. Is(Scanned(line), Len(line))
  BY <1>3 DEF Scanned
<1>. QED BY <1>0, <1>4

-----------------------------------------------------------------------------
(* What the scan knows after i symbols                                      *)

Trees == [stack : Seq(Nat), blocks : SUBSET [start : Nat, end : Nat, level : Nat],
          marks : SUBSET [block : Nat, at : Nat], wrong : BOOLEAN]

Pair(b) == <<b.start, b.end>>

\* Open brackets and closed blocks are all the brackets so far, the blocks nested or apart.
Nested(line, tree, i) ==
    /\ Rising(tree.stack)
    /\ \A s \in Members(tree.stack) : s \in 1..i /\ line[s] \in OpenBrackets
    /\ \A j \in 1..i : line[j] \in OpenBrackets \cup CloseBrackets =>
            \/ j \in Members(tree.stack)
            \/ \E b \in tree.blocks : j \in {b.start, b.end}
    /\ \A b \in tree.blocks : /\ b.start \in 1..i /\ b.end \in 1..i /\ b.start < b.end
                              /\ SameKind(line[b.start], line[b.end])
    /\ \A b, c \in tree.blocks :
            b # c => {b.start, b.end} \cap {c.start, c.end} = {} /\ ~Crossing(Pair(b), Pair(c))
    /\ \A s \in Members(tree.stack) : \A b \in tree.blocks : s < b.start \/ b.end < s

\* Each delimiter so far is marked once, in the innermost block around it.
Marked(line, tree, i) ==
    /\ \A j \in 1..i : line[j] \in Delims => \E m \in tree.marks : m.at = j
    /\ \A m, n \in tree.marks : m.at = n.at => m = n
    /\ \A m \in tree.marks :
        /\ m.at \in 1..i /\ line[m.at] \in Delims /\ m.block < m.at
        /\ \A b \in tree.blocks : b.start < m.at /\ m.at < b.end => b.start <= m.block
        /\ \A s \in Members(tree.stack) : s < m.at => s <= m.block
        /\ \/ m.block \in {0} \cup Members(tree.stack)
           \/ \E b \in tree.blocks : b.start = m.block /\ m.at < b.end

ScanInv(line, tree, i) ==
    tree \in Trees /\ (~tree.wrong => Nested(line, tree, i) /\ Marked(line, tree, i))

LEMMA Push ==
    ASSUME NEW s \in Seq(Nat), NEW i \in Nat, Rising(s), \A x \in Members(s) : x < i
    PROVE  /\ Append(s, i) \in Seq(Nat)
           /\ Rising(Append(s, i))
           /\ Members(Append(s, i)) = Members(s) \cup {i}
<1>1. /\ Append(s, i) \in Seq(Nat) /\ Len(Append(s, i)) = Len(s) + 1 /\ Len(s) \in Nat
      /\ \A k \in 1..Len(s) : Append(s, i)[k] = s[k]
      /\ Append(s, i)[Len(s) + 1] = i
  BY AppendProperties, LenProperties
<1>2. Members(Append(s, i)) = Members(s) \cup {i}
  <2>1. 1..Len(s) + 1 = (1..Len(s)) \cup {Len(s) + 1}
    BY <1>1
  <2>. QED BY <1>1, <2>1 DEF Members
<1>3. ASSUME NEW k \in 1..Len(s) + 1, NEW l \in 1..Len(s) + 1, k < l
      PROVE  Append(s, i)[k] < Append(s, i)[l]
  <2>1. k \in 1..Len(s)
    BY <1>1, <1>3
  <2>2. CASE l = Len(s) + 1
    BY <1>1, <2>1, <2>2 DEF Members
  <2>3. CASE l # Len(s) + 1
    BY <1>1, <1>3, <2>1, <2>3 DEF Rising
  <2>. QED BY <2>2, <2>3
<1>. QED BY <1>1, <1>2, <1>3 DEF Rising

LEMMA Pop ==
    ASSUME NEW s \in Seq(Nat), Rising(s), s # <<>>
    PROVE  /\ Front(s) \in Seq(Nat) /\ Rising(Front(s))
           /\ Last(s) \in Members(s) /\ \A x \in Members(s) : x <= Last(s)
           /\ Members(Front(s)) = Members(s) \ {Last(s)}
<1>1. Len(s) \in Nat \ {0} /\ s \in [1..Len(s) -> Nat]
  BY EmptySeq, LenProperties
<1>2. /\ Front(s) \in Seq(Nat) /\ Len(Front(s)) = Len(s) - 1
      /\ \A k \in 1..Len(s) - 1 : Front(s)[k] = s[k]
  <2>1. \A k \in 1..Len(s) - 1 : s[k] \in Nat
    BY <1>1
  <2>. QED BY <1>1, <2>1, SubSeqProperties DEF Front
<1>3. Rising(Front(s))
  BY <1>1, <1>2 DEF Rising
<1>4. Last(s) \in Members(s) /\ \A x \in Members(s) : x <= Last(s)
  BY <1>1 DEF Last, Members, Rising
<1>5. Members(Front(s)) = Members(s) \ {Last(s)}
  <2>1. ASSUME NEW k \in 1..Len(s) - 1 PROVE s[k] # Last(s)
    BY <1>1 DEF Last, Rising
  <2>2. 1..Len(s) = (1..Len(s) - 1) \cup {Len(s)}
    BY <1>1
  <2>. QED BY <1>2, <2>1, <2>2 DEF Members, Last
<1>. QED BY <1>2, <1>3, <1>4, <1>5

LEMMA MembersEmpty ==
    /\ Members(<<>>) = {}
    /\ \A s \in Seq(Nat) : Members(s) = {} => s = <<>>
<1>1. Members(<<>>) = {}
  BY EmptySeq DEF Members
<1>2. ASSUME NEW s \in Seq(Nat), s # <<>> PROVE s[1] \in Members(s)
  BY <1>2, EmptySeq DEF Members
<1>. QED BY <1>1, <1>2

LEMMA ScanInvInit == ASSUME NEW line PROVE ScanInv(line, EmptyTree, 0)
<1>1. <<>> \in Seq(Nat) /\ Len(<<>>) = 0
  BY EmptySeq
<1>2. EmptyTree \in Trees
  BY <1>1 DEF EmptyTree, Trees
<1>3. EmptyTree.stack = <<>> /\ EmptyTree.blocks = {} /\ EmptyTree.marks = {}
  BY DEF EmptyTree
<1>4. Members(EmptyTree.stack) = {} /\ Rising(EmptyTree.stack)
  BY <1>1, <1>3 DEF Members, Rising
<1>. QED BY <1>2, <1>3, <1>4 DEF ScanInv, Nested, Marked

LEMMA KindsApart ==
    /\ OpenBrackets \cap CloseBrackets = {}
    /\ Delims \cap (OpenBrackets \cup CloseBrackets) = {}
    /\ Letters \cap (OpenBrackets \cup CloseBrackets) = {} /\ Delims \cap Letters = {}
    /\ \A x, y : SameKind(x, y) => x \in OpenBrackets /\ y \in CloseBrackets
BY SymbolAssumption DEF OpenBrackets, CloseBrackets, SameKind

LEMMA ScanOpen ==
    ASSUME NEW line, NEW i \in Nat \ {0}, NEW tree, ScanInv(line, tree, i - 1), ~tree.wrong,
           line[i] \in OpenBrackets
    PROVE  LET next == Scan(line, tree, i)
           IN  /\ ScanInv(line, next, i) /\ ~next.wrong
               /\ Members(next.stack) = Members(tree.stack) \cup {i}
<1>. DEFINE next == [tree EXCEPT !.stack = Append(@, i)]
<1>1. Scan(line, tree, i) = next
  BY KindsApart DEF Scan
<1>2. tree \in Trees /\ Nested(line, tree, i - 1) /\ Marked(line, tree, i - 1)
  BY DEF ScanInv
<1>3. /\ next \in Trees /\ next.stack = Append(tree.stack, i)
      /\ next.blocks = tree.blocks /\ next.marks = tree.marks /\ ~next.wrong
  BY <1>2, AppendProperties DEF Trees
<1>. HIDE DEF next
<1>4. /\ Rising(next.stack) /\ Members(next.stack) = Members(tree.stack) \cup {i}
  <2>1. tree.stack \in Seq(Nat) /\ \A x \in Members(tree.stack) : x < i
    BY <1>2 DEF Trees, Nested
  <2>. QED BY <1>2, <1>3, <2>1, Push DEF Nested
<1>5. Nested(line, next, i)
  BY <1>2, <1>3, <1>4, KindsApart DEF Nested
<1>6. Marked(line, next, i)
  BY <1>2, <1>3, <1>4, KindsApart DEF Marked
<1>. QED BY <1>1, <1>3, <1>4, <1>5, <1>6 DEF ScanInv

LEMMA ScanClose ==
    ASSUME NEW line, NEW i \in Nat \ {0}, NEW tree, ScanInv(line, tree, i - 1), ~tree.wrong,
           line[i] \in CloseBrackets, Closes(line, tree, i)
    PROVE  LET next == Scan(line, tree, i)
           IN  /\ ScanInv(line, next, i) /\ ~next.wrong
               /\ Members(next.stack) = Members(tree.stack) \ {Last(tree.stack)}
<1>. DEFINE s == Last(tree.stack)
            new == [start |-> s, end |-> i, level |-> Len(tree.stack)]
            next == [tree EXCEPT !.stack = Front(@), !.blocks = @ \cup {new}]
<1>1. Scan(line, tree, i) = next
  BY KindsApart DEF Scan
<1>2. tree \in Trees /\ Nested(line, tree, i - 1) /\ Marked(line, tree, i - 1)
  BY DEF ScanInv
<1>3. /\ tree.stack \in Seq(Nat) /\ tree.stack # <<>> /\ Rising(tree.stack)
      /\ SameKind(line[s], line[i])
  BY <1>2 DEF Trees, Nested, Closes
<1>4. /\ Front(tree.stack) \in Seq(Nat) /\ Rising(Front(tree.stack))
      /\ s \in Members(tree.stack) /\ \A x \in Members(tree.stack) : x <= s
      /\ Members(Front(tree.stack)) = Members(tree.stack) \ {s}
  BY <1>3, Pop
<1>5. s \in 1..i - 1 /\ Len(tree.stack) \in Nat
  BY <1>2, <1>3, <1>4, LenProperties DEF Nested
<1>6. new.start = s /\ new.end = i /\ new \in [start : Nat, end : Nat, level : Nat]
  BY <1>5
<1>. HIDE DEF s, new
<1>7. /\ next \in Trees /\ next.stack = Front(tree.stack)
      /\ next.blocks = tree.blocks \cup {new} /\ next.marks = tree.marks /\ ~next.wrong
  BY <1>2, <1>4, <1>6 DEF Trees
<1>. HIDE DEF next
<1>8. \A s1 \in Members(next.stack) : s1 < s
  BY <1>2, <1>4, <1>7 DEF Nested
<1>9. Nested(line, next, i)
  <2>1. /\ \A x \in Members(next.stack) : x \in 1..i /\ line[x] \in OpenBrackets
        /\ \A b \in next.blocks : /\ b.start \in 1..i /\ b.end \in 1..i /\ b.start < b.end
                                  /\ SameKind(line[b.start], line[b.end])
    BY <1>2, <1>3, <1>4, <1>5, <1>6, <1>7 DEF Nested
  <2>2. ASSUME NEW j \in 1..i, line[j] \in OpenBrackets \cup CloseBrackets
        PROVE  \/ j \in Members(next.stack)
               \/ \E b \in next.blocks : j \in {b.start, b.end}
    BY <1>2, <1>4, <1>6, <1>7, <2>2 DEF Nested
  <2>3. ASSUME NEW b \in tree.blocks
        PROVE  /\ {b.start, b.end} \cap {s, i} = {}
               /\ ~Crossing(Pair(b), Pair(new)) /\ ~Crossing(Pair(new), Pair(b))
    <3>1. b.end < i /\ b.start < b.end /\ (s < b.start \/ b.end < s)
          /\ b.end \in Nat /\ b.start \in Nat
      BY <1>2, <1>4 DEF Nested
    <3>. QED BY <1>5, <1>6, <3>1 DEF Crossing, Pair
  <2>4. \A b, c \in next.blocks :
            b # c => {b.start, b.end} \cap {c.start, c.end} = {} /\ ~Crossing(Pair(b), Pair(c))
    BY <1>2, <1>6, <1>7, <2>3 DEF Nested
  <2>5. \A x \in Members(next.stack) : \A b \in next.blocks : x < b.start \/ b.end < x
    BY <1>2, <1>4, <1>6, <1>7, <1>8 DEF Nested
  <2>. QED BY <1>4, <1>7, <2>1, <2>2, <2>4, <2>5 DEF Nested
<1>10. Marked(line, next, i)
  <2>1. /\ \A j \in 1..i : line[j] \in Delims => \E m \in next.marks : m.at = j
        /\ \A m, n \in next.marks : m.at = n.at => m = n
    BY <1>2, <1>7, KindsApart DEF Marked
  <2>2. ASSUME NEW m \in next.marks
        PROVE  /\ m.at \in 1..i /\ line[m.at] \in Delims /\ m.block < m.at
               /\ \A b \in next.blocks : b.start < m.at /\ m.at < b.end => b.start <= m.block
               /\ \A x \in Members(next.stack) : x < m.at => x <= m.block
               /\ \/ m.block \in {0} \cup Members(next.stack)
                  \/ \E b \in next.blocks : b.start = m.block /\ m.at < b.end
    <3>1. /\ m \in tree.marks /\ m.at \in 1..i - 1
          /\ m.block \in {0} \cup Members(tree.stack)
                \/ \E b \in tree.blocks : b.start = m.block /\ m.at < b.end
      BY <1>2, <1>7, <2>2 DEF Marked
    <3>2. /\ m.at \in 1..i /\ line[m.at] \in Delims /\ m.block < m.at
          /\ \A b \in next.blocks : b.start < m.at /\ m.at < b.end => b.start <= m.block
          /\ \A x \in Members(next.stack) : x < m.at => x <= m.block
      BY <1>2, <1>4, <1>6, <1>7, <3>1 DEF Marked
    <3>3. \/ m.block \in {0} \cup Members(next.stack)
          \/ \E b \in next.blocks : b.start = m.block /\ m.at < b.end
      <4>1. CASE m.block = s
        BY <1>6, <1>7, <3>1, <4>1
      <4>2. CASE m.block # s
        BY <1>4, <1>7, <3>1, <4>2
      <4>. QED BY <4>1, <4>2
    <3>. QED BY <3>2, <3>3
  <2>. QED BY <2>1, <2>2 DEF Marked
<1>. QED BY <1>1, <1>4, <1>7, <1>9, <1>10 DEF ScanInv, s

LEMMA ScanDelim ==
    ASSUME NEW line, NEW i \in Nat \ {0}, NEW tree, ScanInv(line, tree, i - 1), ~tree.wrong,
           line[i] \in Delims
    PROVE  LET next == Scan(line, tree, i)
           IN  ScanInv(line, next, i) /\ ~next.wrong /\ next.stack = tree.stack
<1>. DEFINE new == [block |-> Innermost(tree), at |-> i]
            next == [tree EXCEPT !.marks = @ \cup {new}]
<1>1. Scan(line, tree, i) = next
  BY KindsApart DEF Scan
<1>2. tree \in Trees /\ Nested(line, tree, i - 1) /\ Marked(line, tree, i - 1)
  BY DEF ScanInv
<1>3. /\ Innermost(tree) \in {0} \cup Members(tree.stack) /\ Innermost(tree) \in Nat
      /\ Innermost(tree) < i /\ \A x \in Members(tree.stack) : x <= Innermost(tree)
  <2>1. CASE tree.stack = <<>>
    BY <2>1, EmptySeq DEF Innermost, Members
  <2>2. CASE tree.stack # <<>>
    <3>1. /\ Last(tree.stack) \in Members(tree.stack)
          /\ \A x \in Members(tree.stack) : x <= Last(tree.stack)
      BY <1>2, <2>2, Pop DEF Trees, Nested
    <3>. QED BY <1>2, <2>2, <3>1 DEF Innermost, Nested
  <2>. QED BY <2>1, <2>2
<1>4. new.block = Innermost(tree) /\ new.at = i /\ new \in [block : Nat, at : Nat]
  BY <1>3
<1>. HIDE DEF new
<1>5. /\ next \in Trees /\ next.stack = tree.stack
      /\ next.blocks = tree.blocks /\ next.marks = tree.marks \cup {new} /\ ~next.wrong
  BY <1>2, <1>4 DEF Trees
<1>. HIDE DEF next
<1>6. Nested(line, next, i)
  BY <1>2, <1>5, KindsApart DEF Nested
<1>7. Marked(line, next, i)
  <2>1. /\ \A j \in 1..i : line[j] \in Delims => \E m \in next.marks : m.at = j
        /\ \A m, n \in next.marks : m.at = n.at => m = n
    BY <1>2, <1>4, <1>5 DEF Marked
  <2>2. ASSUME NEW m \in next.marks
        PROVE  /\ m.at \in 1..i /\ line[m.at] \in Delims /\ m.block < m.at
               /\ \A b \in next.blocks : b.start < m.at /\ m.at < b.end => b.start <= m.block
               /\ \A x \in Members(next.stack) : x < m.at => x <= m.block
               /\ \/ m.block \in {0} \cup Members(next.stack)
                  \/ \E b \in next.blocks : b.start = m.block /\ m.at < b.end
    <3>1. CASE m = new
      <4>1. \A b \in next.blocks : b.end \in Nat /\ b.end < i
        BY <1>2, <1>5 DEF Nested
      <4>2. i \in 1..i /\ line[m.at] \in Delims /\ m.block < m.at /\ m.at = i
        BY <1>3, <1>4, <3>1
      <4>3. \A b \in next.blocks : ~(m.at < b.end)
        BY <4>1, <4>2
      <4>. QED BY <1>3, <1>4, <1>5, <3>1, <4>2, <4>3
    <3>2. CASE m # new
      BY <1>2, <1>5, <3>2 DEF Marked
    <3>. QED BY <3>1, <3>2
  <2>. QED BY <2>1, <2>2 DEF Marked
<1>. QED BY <1>1, <1>5, <1>6, <1>7 DEF ScanInv

LEMMA ScanOther ==
    ASSUME NEW line, NEW i \in Nat \ {0}, NEW tree, ScanInv(line, tree, i - 1), ~tree.wrong,
           line[i] \notin OpenBrackets \cup CloseBrackets \cup Delims
    PROVE  ScanInv(line, tree, i) /\ Scan(line, tree, i) = tree
<1>1. Scan(line, tree, i) = tree
  BY DEF Scan
<1>2. tree \in Trees /\ Nested(line, tree, i - 1) /\ Marked(line, tree, i - 1)
  BY DEF ScanInv
<1>3. Nested(line, tree, i) /\ Marked(line, tree, i)
  BY <1>2 DEF Nested, Marked
<1>. QED BY <1>1, <1>2, <1>3 DEF ScanInv

\* A bracket without partner ends the scan, and nothing begins it anew.
LEMMA ScanWrong ==
    ASSUME NEW line, NEW i \in Nat \ {0}, NEW tree, ScanInv(line, tree, i - 1),
           tree.wrong \/ (line[i] \in CloseBrackets /\ ~Closes(line, tree, i))
    PROVE  LET next == Scan(line, tree, i) IN ScanInv(line, next, i) /\ next.wrong
<1>1. tree \in Trees /\ line[i] \notin OpenBrackets \cap CloseBrackets
  BY KindsApart DEF ScanInv
<1>2. CASE tree.wrong
  BY <1>2 DEF Scan, ScanInv
<1>3. CASE ~tree.wrong
  <2>1. Scan(line, tree, i) = [tree EXCEPT !.wrong = TRUE]
    BY <1>3, KindsApart DEF Scan
  <2>2. [tree EXCEPT !.wrong = TRUE] \in Trees /\ [tree EXCEPT !.wrong = TRUE].wrong
    BY <1>1 DEF Trees
  <2>. QED BY <2>1, <2>2 DEF ScanInv
<1>. QED BY <1>2, <1>3

LEMMA ScanInvAlways ==
    ASSUME NEW S, NEW line \in Seq(S)
    PROVE  \A i \in 0..Len(line) : ScanInv(line, Scanned(line)[i], i)
<1>. DEFINE B == {i \in 0..Len(line) : ScanInv(line, Scanned(line)[i], i)}
<1>0. Len(line) \in Nat
  BY LenProperties
<1>1. 0 \in B
  BY <1>0, ScannedStep, ScanInvInit
<1>2. ASSUME NEW i \in 1..Len(line), i - 1 \in B PROVE i \in B
  <2>. DEFINE tree == Scanned(line)[i - 1]
  <2>1. ScanInv(line, tree, i - 1) /\ Scanned(line)[i] = Scan(line, tree, i) /\ i \in Nat \ {0}
    BY <1>0, <1>2, ScannedStep
  <2>. HIDE DEF tree
  <2>2. ScanInv(line, Scan(line, tree, i), i)
    BY <2>1, ScanOpen, ScanClose, ScanDelim, ScanOther, ScanWrong
  <2>. QED BY <2>1, <2>2
<1>. HIDE DEF B
<1>3. \A i \in 0..Len(line) : i \in B
  BY <1>0, <1>1, <1>2, UpTo
<1>. QED BY <1>3 DEF B

-----------------------------------------------------------------------------
(* The scan accepts the lines whose brackets are in pairs, and only them    *)

\* What is known of a tree at the end of its line.
LEMMA TreeOfLine ==
    ASSUME NEW S, NEW line \in Seq(S)
    PROVE  LET last == Scanned(line)[Len(line)]
           IN  /\ last \in Trees /\ Tree(line) \in Trees
               /\ ~Tree(line).wrong <=> ~last.wrong /\ last.stack = <<>>
               /\ ~Tree(line).wrong => /\ Nested(line, Tree(line), Len(line))
                                       /\ Marked(line, Tree(line), Len(line))
                                       /\ Members(Tree(line).stack) = {}
<1>. DEFINE last == Scanned(line)[Len(line)]
<1>1. Len(line) \in Nat /\ Len(line) \in 0..Len(line)
  BY LenProperties
<1>2. ScanInv(line, last, Len(line))
  BY <1>1, ScanInvAlways
<1>3. Tree(line) = [last EXCEPT !.wrong = @ \/ last.stack # <<>>]
  BY DEF Tree
<1>. HIDE DEF last
<1>4. last \in Trees /\ (~last.wrong => Nested(line, last, Len(line)) /\ Marked(line, last, Len(line)))
  BY <1>2 DEF ScanInv
<1>5. /\ Tree(line) \in Trees /\ Tree(line).wrong = (last.wrong \/ last.stack # <<>>)
      /\ Tree(line).stack = last.stack /\ Tree(line).blocks = last.blocks
      /\ Tree(line).marks = last.marks
  BY <1>3, <1>4 DEF Trees
<1>6. Members(<<>>) = {}
  BY DEF Members
<1>. QED BY <1>4, <1>5, <1>6 DEF last, Nested, Marked

\* The blocks of an accepted line pair its brackets.
LEMMA AcceptedIsPaired ==
    ASSUME NEW S, NEW line \in Seq(S), ~Tree(line).wrong
    PROVE  Paired(line, {Pair(b) : b \in Tree(line).blocks})
<1>. DEFINE blocks == Tree(line).blocks
            pairs == {Pair(b) : b \in blocks}
<1>1. DOMAIN line = 1..Len(line)
  BY LenProperties
<1>2. /\ Nested(line, Tree(line), Len(line)) /\ Members(Tree(line).stack) = {}
  BY TreeOfLine
<1>3. ASSUME NEW b \in blocks
      PROVE  /\ Pair(b) \in Matching(line) /\ Pair(b)[1] = b.start /\ Pair(b)[2] = b.end
  <2>1. /\ b.start \in 1..Len(line) /\ b.end \in 1..Len(line) /\ b.start < b.end
        /\ SameKind(line[b.start], line[b.end])
    BY <1>2 DEF Nested
  <2>2. b.start \in Brackets(line) /\ b.end \in Brackets(line)
    BY <1>1, <2>1, KindsApart DEF Brackets
  <2>. QED BY <2>1, <2>2 DEF Matching, Pair
<1>4. ASSUME NEW i \in Brackets(line) PROVE \E p \in pairs : i \in {p[1], p[2]}
  <2>1. PICK b \in blocks : i \in {b.start, b.end}
    BY <1>1, <1>2 DEF Nested, Brackets
  <2>. QED BY <1>3, <2>1
<1>5. ASSUME NEW b \in blocks, NEW c \in blocks, Pair(b) # Pair(c)
      PROVE  {b.start, b.end} \cap {c.start, c.end} = {} /\ ~Crossing(Pair(b), Pair(c))
  BY <1>2, <1>5 DEF Nested
<1>6. ASSUME NEW p \in pairs, NEW q \in pairs, p # q
      PROVE  {p[1], p[2]} \cap {q[1], q[2]} = {} /\ ~Crossing(p, q)
  <2>1. PICK b \in blocks, c \in blocks : p = Pair(b) /\ q = Pair(c)
    OBVIOUS
  <2>. QED BY <1>3, <1>5, <1>6, <2>1
<1>7. pairs \subseteq Matching(line)
  BY <1>3
<1>. HIDE DEF pairs
<1>8. Paired(line, pairs)
  BY <1>4, <1>6, <1>7 DEF Paired
<1>. QED BY <1>8 DEF pairs

\* The scan goes through a line whose brackets are in pairs: open are those whose partner is
\* still to come.
LEMMA PairedIsAccepted ==
    ASSUME NEW S, NEW line \in Seq(S), NEW pairs, Paired(line, pairs)
    PROVE  ~Tree(line).wrong
<1>. DEFINE Open(i) == {p[1] : p \in {q \in pairs : q[1] <= i /\ i < q[2]}}
            B == {i \in 0..Len(line) : /\ ~Scanned(line)[i].wrong
                                       /\ Members(Scanned(line)[i].stack) = Open(i)}
<1>0. Len(line) \in Nat /\ DOMAIN line = 1..Len(line)
  BY LenProperties
<1>1. ASSUME NEW p \in pairs
      PROVE  /\ p[1] \in 1..Len(line) /\ p[2] \in 1..Len(line) /\ p[1] < p[2]
             /\ SameKind(line[p[1]], line[p[2]]) /\ p = <<p[1], p[2]>>
             /\ line[p[1]] \in OpenBrackets /\ line[p[2]] \in CloseBrackets
  BY <1>0, KindsApart DEF Paired, Matching, Brackets
<1>2. 0 \in B
  <2>1. /\ Scanned(line)[0].wrong = FALSE /\ Scanned(line)[0].stack = <<>>
    BY ScannedStep DEF EmptyTree
  <2>2. Open(0) = {}
    BY <1>1
  <2>3. Members(Scanned(line)[0].stack) = Open(0)
    BY <2>1, <2>2, MembersEmpty
  <2>. HIDE DEF Open
  <2>. QED BY <1>0, <2>1, <2>3
<1>3. ASSUME NEW i \in 1..Len(line), i - 1 \in B PROVE i \in B
  <2>. DEFINE tree == Scanned(line)[i - 1]
              next == Scan(line, tree, i)
  <2>1. /\ ScanInv(line, tree, i - 1) /\ Scanned(line)[i] = next /\ i \in Nat \ {0}
        /\ ~tree.wrong /\ Members(tree.stack) = Open(i - 1)
    BY <1>0, <1>3, ScannedStep, ScanInvAlways
  <2>0. SUFFICES ~next.wrong /\ Members(next.stack) = Open(i)
    BY <1>0, <2>1
  <2>. HIDE DEF tree, B
  <2>2. CASE line[i] \in OpenBrackets
    <3>1. PICK p \in pairs : i = p[1]
      <4>1. PICK p \in pairs : i \in {p[1], p[2]}
        BY <1>0, <2>2 DEF Paired, Brackets
      <4>. QED BY <1>1, <2>2, <4>1, KindsApart
    <3>2. Open(i) = Open(i - 1) \cup {i}
      <4>1. ASSUME NEW q \in pairs, q # p PROVE q[1] # i /\ q[2] # i
        BY <3>1, <4>1 DEF Paired
      <4>2. i < p[2] /\ i <= i
        BY <1>1, <3>1
      <4>3. ASSUME NEW q \in pairs
            PROVE  (q[1] <= i /\ i < q[2]) <=> (q = p \/ (q[1] <= i - 1 /\ i - 1 < q[2]))
        BY <1>0, <1>1, <3>1, <4>1
      <4>. QED BY <3>1, <4>3
    <3>3. ~next.wrong /\ Members(next.stack) = Members(tree.stack) \cup {i}
      BY <2>1, <2>2, ScanOpen
    <3>. QED BY <2>1, <3>2, <3>3
  <2>3. CASE line[i] \in CloseBrackets
    <3>1. PICK p \in pairs : i = p[2]
      <4>1. PICK p \in pairs : i \in {p[1], p[2]}
        BY <1>0, <2>3 DEF Paired, Brackets
      <4>. QED BY <1>1, <2>3, <4>1, KindsApart
    <3>2. p[1] \in Open(i - 1)
      BY <1>1, <3>1
    <3>3. ASSUME NEW q \in pairs, q # p
          PROVE  /\ q[1] # i /\ q[2] # i /\ q[1] # p[1]
                 /\ ~(p[1] < q[1] /\ q[1] < i /\ i < q[2])
      <4>1. {q[1], q[2]} \cap {p[1], p[2]} = {} /\ ~Crossing(p, q)
        BY <3>3 DEF Paired
      <4>. QED BY <3>1, <4>1 DEF Crossing
    <3>4. Open(i) = Open(i - 1) \ {p[1]}
      <4>1. ASSUME NEW q \in pairs
            PROVE  (q[1] <= i /\ i < q[2]) <=> (q # p /\ (q[1] <= i - 1 /\ i - 1 < q[2]))
        BY <1>0, <1>1, <3>1, <3>3
      <4>2. \A q \in pairs : q # p => q[1] # p[1]
        BY <3>3
      <4>. QED BY <4>1, <4>2
    <3>5. /\ tree.stack # <<>> /\ Last(tree.stack) = p[1]
      <4>1. tree.stack \in Seq(Nat) /\ Rising(tree.stack)
        BY <2>1 DEF ScanInv, Trees, Nested
      <4>2. tree.stack # <<>>
        BY <2>1, <3>2, MembersEmpty
      <4>3. /\ Last(tree.stack) \in Open(i - 1)
            /\ \A x \in Open(i - 1) : x <= Last(tree.stack)
        BY <2>1, <4>1, <4>2, Pop
      <4>4. PICK q \in pairs : /\ Last(tree.stack) = q[1] /\ q[1] <= i - 1 /\ i - 1 < q[2]
        BY <4>3
      <4>5. p[1] <= q[1]
        BY <3>2, <4>3, <4>4
      <4>6. q = p
        BY <1>0, <1>1, <3>1, <3>3, <4>4, <4>5
      <4>. QED BY <4>2, <4>4, <4>6
    <3>6. Closes(line, tree, i)
      BY <1>1, <3>1, <3>5 DEF Closes
    <3>7. ~next.wrong /\ Members(next.stack) = Members(tree.stack) \ {p[1]}
      <4>1. ~next.wrong /\ Members(next.stack) = Members(tree.stack) \ {Last(tree.stack)}
        BY <2>1, <2>3, <3>6, ScanClose
      <4>. QED BY <3>5, <4>1
    <3>. QED BY <2>1, <3>4, <3>7
  <2>4. CASE line[i] \notin OpenBrackets \cup CloseBrackets
    <3>1. Open(i) = Open(i - 1)
      <4>1. ASSUME NEW q \in pairs
            PROVE  (q[1] <= i /\ i < q[2]) <=> (q[1] <= i - 1 /\ i - 1 < q[2])
        <5>1. q[1] # i /\ q[2] # i
          BY <1>1, <2>4
        <5>. QED BY <1>0, <1>1, <5>1
      <4>. QED BY <4>1
    <3>2. ~next.wrong /\ Members(next.stack) = Members(tree.stack)
      <4>1. CASE line[i] \in Delims
        BY <2>1, <4>1, ScanDelim
      <4>2. CASE line[i] \notin Delims
        BY <2>1, <2>4, <4>2, ScanOther
      <4>. QED BY <4>1, <4>2
    <3>. QED BY <2>1, <3>1, <3>2
  <2>. QED BY <2>2, <2>3, <2>4
<1>4. Len(line) \in B
  <2>. HIDE DEF B
  <2>1. \A i \in 0..Len(line) : i \in B
    BY <1>0, <1>2, <1>3, UpTo
  <2>. QED BY <1>0, <2>1
<1>5. Open(Len(line)) = {}
  BY <1>0, <1>1
<1>6. Scanned(line)[Len(line)].stack = <<>>
  <2>1. Scanned(line)[Len(line)].stack \in Seq(Nat)
    BY TreeOfLine DEF Trees
  <2>. HIDE DEF Open
  <2>2. Members(Scanned(line)[Len(line)].stack) = {}
    BY <1>4, <1>5
  <2>. QED BY <2>1, <2>2, MembersEmpty
<1>. QED BY <1>4, <1>6, TreeOfLine

\* _symbols_tree raises for exactly the lines whose brackets have no partners (parser.py:184).
THEOREM TreeIsBalance ==
    \A S : \A line \in Seq(S) : Tree(line).wrong <=> ~Balanced(line)
<1>. TAKE S
<1>. TAKE line \in Seq(S)
<1>1. Tree(line).wrong \in BOOLEAN
  BY TreeOfLine DEF Trees
<1>2. ASSUME ~Tree(line).wrong PROVE Balanced(line)
  <2>. DEFINE pairs == {Pair(b) : b \in Tree(line).blocks}
  <2>1. Paired(line, pairs)
    BY <1>2, AcceptedIsPaired
  <2>. HIDE DEF pairs
  <2>2. pairs \in SUBSET Matching(line)
    BY <2>1 DEF Paired
  <2>. QED BY <2>1, <2>2 DEF Balanced
<1>3. ASSUME Balanced(line) PROVE ~Tree(line).wrong
  BY <1>3, PairedIsAccepted DEF Balanced
<1>. QED BY <1>1, <1>2, <1>3

-----------------------------------------------------------------------------
(* Parts of lines                                                           *)

LEMMA SubLine ==
    ASSUME NEW S, NEW line \in Seq(S), NEW lo \in 1..Len(line) + 1, NEW hi \in lo - 1..Len(line)
    PROVE  /\ SubSeq(line, lo, hi) \in Seq(S)
           /\ Len(SubSeq(line, lo, hi)) = hi - lo + 1
           /\ DOMAIN SubSeq(line, lo, hi) = 1..hi - lo + 1
           /\ \A i \in 1..hi - lo + 1 : SubSeq(line, lo, hi)[i] = line[lo + i - 1]
<1>1. Len(line) \in Nat /\ line \in [1..Len(line) -> S]
  BY LenProperties
<1>2. \A i \in lo..hi : line[i] \in S
  BY <1>1
<1>3. /\ SubSeq(line, lo, hi) \in Seq(S)
      /\ Len(SubSeq(line, lo, hi)) = IF lo <= hi THEN hi - lo + 1 ELSE 0
      /\ \A i \in 1..hi - lo + 1 : SubSeq(line, lo, hi)[i] = line[lo + i - 1]
  BY <1>1, <1>2, SubSeqProperties
<1>. QED BY <1>1, <1>3, LenProperties

\* str.strip keeps what is between the first and the last symbol that is not blank.
StripsTo(line, lo, hi) ==
    /\ Strip(line) = SubSeq(line, lo, hi)
    /\ \A i \in DOMAIN line : i < lo \/ hi < i => line[i] = Blank
    /\ lo <= hi => line[lo] # Blank /\ line[hi] # Blank

LEMMA StripIsPart ==
    ASSUME NEW S, NEW line \in Seq(S)
    PROVE  \E lo \in 1..Len(line) + 1 : \E hi \in lo - 1..Len(line) : StripsTo(line, lo, hi)
<1>. DEFINE kept == {i \in DOMAIN line : line[i] # Blank}
<1>1. Len(line) \in Nat /\ DOMAIN line = 1..Len(line)
  BY LenProperties
<1>2. CASE kept = {}
  <2>1. Strip(line) = SubSeq(line, 1, 0)
    <3>1. SubSeq(line, 1, 0) = <<>>
      BY SubSeqEmpty
    <3>. QED BY <1>2, <3>1 DEF Strip
  <2>2. StripsTo(line, 1, 0)
    BY <1>2, <2>1 DEF StripsTo
  <2>. QED BY <1>1, <2>2
<1>3. CASE kept # {}
  <2>. DEFINE lo == Min(kept)
              hi == Max(kept)
  <2>1. kept \subseteq 0..Len(line)
    BY <1>1
  <2>2. /\ lo \in kept /\ \A y \in kept : lo <= y
        /\ hi \in kept /\ \A y \in kept : y <= hi
    <3>. HIDE DEF kept
    <3>. QED BY <1>1, <1>3, <2>1, MinMax
  <2>3. Strip(line) = SubSeq(line, lo, hi)
    BY <1>3 DEF Strip
  <2>. HIDE DEF lo, hi
  <2>4. StripsTo(line, lo, hi)
    BY <1>1, <2>2, <2>3 DEF StripsTo
  <2>5. lo \in 1..Len(line) + 1 /\ hi \in lo - 1..Len(line)
    BY <1>1, <2>2
  <2>. QED BY <2>4, <2>5
<1>. QED BY <1>2, <1>3

\* A part that holds both brackets of a pair or none is balanced.
LEMMA BalancedPart ==
    ASSUME NEW S, NEW line \in Seq(S), NEW lo \in 1..Len(line) + 1, NEW hi \in lo - 1..Len(line),
           NEW pairs, Paired(line, pairs), \A p \in pairs : p[1] \in lo..hi <=> p[2] \in lo..hi
    PROVE  Balanced(SubSeq(line, lo, hi))
<1>. DEFINE part == SubSeq(line, lo, hi)
            d == 1 - lo
            Shift(p) == <<p[1] + d, p[2] + d>>
            inside == {p \in pairs : p[1] \in lo..hi}
            shifted == {Shift(p) : p \in inside}
<1>1. Len(line) \in Nat /\ DOMAIN line = 1..Len(line) /\ DOMAIN part = 1..hi - lo + 1
      /\ \A i \in 1..hi - lo + 1 : part[i] = line[lo + i - 1]
  BY LenProperties, SubLine
<1>0. d \in Int /\ lo \in Int /\ hi \in Int /\ d = 1 - lo
  BY <1>1
<1>. HIDE DEF part, d
<1>2. ASSUME NEW p \in pairs
      PROVE  /\ p[1] \in 1..Len(line) /\ p[2] \in 1..Len(line) /\ p[1] < p[2] /\ p = <<p[1], p[2]>>
             /\ SameKind(line[p[1]], line[p[2]])
             /\ p[1] \in Brackets(line) /\ p[2] \in Brackets(line)
  BY <1>1 DEF Paired, Matching, Brackets
<1>3. ASSUME NEW p \in inside
      PROVE  /\ Shift(p)[1] = p[1] + d /\ Shift(p)[2] = p[2] + d
             /\ Shift(p) \in Matching(part)
  <2>1. /\ p[1] + d \in 1..hi - lo + 1 /\ p[2] + d \in 1..hi - lo + 1
        /\ part[p[1] + d] = line[p[1]] /\ part[p[2] + d] = line[p[2]]
        /\ p[1] + d < p[2] + d
    <3>1. p[1] \in lo..hi /\ p[2] \in lo..hi /\ p[1] \in Int /\ p[2] \in Int
      BY <1>2
    <3>2. /\ p[1] + d \in 1..hi - lo + 1 /\ p[2] + d \in 1..hi - lo + 1
          /\ p[1] + d < p[2] + d /\ lo + (p[1] + d) - 1 = p[1] /\ lo + (p[2] + d) - 1 = p[2]
      <4>. DEFINE x == p[1]
                  y == p[2]
      <4>1. x \in Int /\ y \in Int /\ lo <= x /\ x <= hi /\ lo <= y /\ y <= hi /\ x < y
        BY <1>2, <3>1
      <4>. HIDE DEF x, y
      <4>2. /\ x + d \in 1..hi - lo + 1 /\ y + d \in 1..hi - lo + 1
            /\ x + d < y + d /\ lo + (x + d) - 1 = x /\ lo + (y + d) - 1 = y
        BY <1>0, <4>1
      <4>. QED BY <4>2 DEF x, y
    <3>. QED BY <1>1, <3>2
  <2>2. p[1] + d \in Brackets(part) /\ p[2] + d \in Brackets(part)
    BY <1>1, <1>2, <2>1 DEF Brackets
  <2>. QED BY <1>2, <2>1, <2>2 DEF Matching
<1>4. ASSUME NEW i \in Brackets(part) PROVE \E q \in shifted : i \in {q[1], q[2]}
  <2>1. i \in 1..hi - lo + 1 /\ lo + i - 1 \in Brackets(line) /\ lo + i - 1 \in lo..hi
    BY <1>1 DEF Brackets
  <2>2. PICK p \in pairs : lo + i - 1 \in {p[1], p[2]}
    BY <2>1 DEF Paired
  <2>3. p \in inside /\ i \in {p[1] + d, p[2] + d}
    BY <1>0, <1>2, <2>1, <2>2
  <2>. QED BY <1>3, <2>3
<1>5. ASSUME NEW q \in shifted, NEW r \in shifted, q # r
      PROVE  {q[1], q[2]} \cap {r[1], r[2]} = {} /\ ~Crossing(q, r)
  <2>1. PICK a \in inside, b \in inside : q = Shift(a) /\ r = Shift(b)
    OBVIOUS
  <2>2. {a[1], a[2]} \cap {b[1], b[2]} = {} /\ ~Crossing(a, b)
    BY <1>5, <2>1 DEF Paired
  <2>3. /\ q[1] = a[1] + d /\ q[2] = a[2] + d
        /\ r[1] = b[1] + d /\ r[2] = b[2] + d
    BY <1>3, <2>1
  <2>4. a[1] \in Int /\ a[2] \in Int /\ b[1] \in Int /\ b[2] \in Int
    BY <1>2
  <2>5. ~Crossing(q, r)
    BY <1>0, <2>2, <2>3, <2>4 DEF Crossing
  <2>6. a[1] # b[1] /\ a[1] # b[2] /\ a[2] # b[1] /\ a[2] # b[2]
    BY <2>2
  <2>7. q[1] # r[1] /\ q[1] # r[2] /\ q[2] # r[1] /\ q[2] # r[2]
    <3>1. \A x, y \in Int : x # y => x + d # y + d
      BY <1>0
    <3>. QED BY <2>3, <2>4, <2>6, <3>1
  <2>. QED BY <2>5, <2>7
<1>6. shifted \subseteq Matching(part)
  BY <1>3
<1>. HIDE DEF shifted
<1>7. Paired(part, shifted)
  BY <1>4, <1>5, <1>6 DEF Paired
<1>. QED BY <1>6, <1>7 DEF Balanced, part

\* A line is balanced if a part of it is that has all its brackets.
LEMMA BalancedWhole ==
    ASSUME NEW S, NEW line \in Seq(S), NEW lo \in 1..Len(line) + 1, NEW hi \in lo - 1..Len(line),
           Brackets(line) \subseteq lo..hi, Balanced(SubSeq(line, lo, hi))
    PROVE  Balanced(line)
<1>. DEFINE part == SubSeq(line, lo, hi)
            Shift(p) == <<p[1] + lo - 1, p[2] + lo - 1>>
<1>1. Len(line) \in Nat /\ DOMAIN line = 1..Len(line) /\ DOMAIN part = 1..hi - lo + 1
      /\ \A i \in 1..hi - lo + 1 : part[i] = line[lo + i - 1]
  BY LenProperties, SubLine
<1>0. PICK pairs : Paired(part, pairs)
  BY DEF Balanced
<1>. DEFINE shifted == {Shift(p) : p \in pairs}
<1>. HIDE DEF part
<1>2. ASSUME NEW p \in pairs
      PROVE  /\ p[1] \in 1..hi - lo + 1 /\ p[2] \in 1..hi - lo + 1 /\ p[1] < p[2]
             /\ SameKind(part[p[1]], part[p[2]]) /\ p = <<p[1], p[2]>>
             /\ p[1] \in Brackets(part) /\ p[2] \in Brackets(part)
  BY <1>0, <1>1 DEF Paired, Matching, Brackets
<1>3. ASSUME NEW p \in pairs
      PROVE  /\ Shift(p)[1] = p[1] + lo - 1 /\ Shift(p)[2] = p[2] + lo - 1
             /\ Shift(p) \in Matching(line)
  <2>1. /\ p[1] + lo - 1 \in 1..Len(line) /\ p[2] + lo - 1 \in 1..Len(line)
        /\ part[p[1]] = line[p[1] + lo - 1] /\ part[p[2]] = line[p[2] + lo - 1]
        /\ p[1] + lo - 1 < p[2] + lo - 1
    <3>1. lo + p[1] - 1 = p[1] + lo - 1 /\ lo + p[2] - 1 = p[2] + lo - 1
      <4>1. \A x \in Int : lo + x - 1 = x + lo - 1
        BY <1>1
      <4>2. p[1] \in Int /\ p[2] \in Int
        BY <1>2
      <4>. QED BY <4>1, <4>2
    <3>2. /\ p[1] + lo - 1 \in 1..Len(line) /\ p[2] + lo - 1 \in 1..Len(line)
          /\ p[1] + lo - 1 < p[2] + lo - 1
      BY <1>1, <1>2
    <3>. QED BY <1>1, <1>2, <3>1, <3>2
  <2>2. p[1] + lo - 1 \in Brackets(line) /\ p[2] + lo - 1 \in Brackets(line)
    BY <1>1, <1>2, <2>1 DEF Brackets
  <2>. QED BY <1>2, <2>1, <2>2 DEF Matching
<1>4. ASSUME NEW i \in Brackets(line) PROVE \E q \in shifted : i \in {q[1], q[2]}
  <2>1. i \in lo..hi
    OBVIOUS
  <2>2. i - lo + 1 \in Brackets(part)
    <3>1. i - lo + 1 \in 1..hi - lo + 1 /\ lo + (i - lo + 1) - 1 = i
      BY <1>1, <2>1
    <3>2. part[i - lo + 1] = line[i]
      BY <1>1, <3>1
    <3>. QED BY <1>1, <3>1, <3>2 DEF Brackets
  <2>3. PICK p \in pairs : i - lo + 1 \in {p[1], p[2]}
    BY <1>0, <2>2 DEF Paired
  <2>4. i \in {p[1] + lo - 1, p[2] + lo - 1}
    BY <1>1, <1>2, <2>1, <2>3
  <2>. QED BY <1>3, <2>4
<1>5. ASSUME NEW q \in shifted, NEW r \in shifted, q # r
      PROVE  {q[1], q[2]} \cap {r[1], r[2]} = {} /\ ~Crossing(q, r)
  <2>1. PICK a \in pairs, b \in pairs : q = Shift(a) /\ r = Shift(b)
    OBVIOUS
  <2>2. {a[1], a[2]} \cap {b[1], b[2]} = {} /\ ~Crossing(a, b)
    BY <1>0, <1>5, <2>1 DEF Paired
  <2>3. /\ q[1] = a[1] + lo - 1 /\ q[2] = a[2] + lo - 1
        /\ r[1] = b[1] + lo - 1 /\ r[2] = b[2] + lo - 1
    BY <1>3, <2>1
  <2>4. a[1] \in Int /\ a[2] \in Int /\ b[1] \in Int /\ b[2] \in Int /\ lo \in Int
    BY <1>1, <1>2
  <2>5. ~Crossing(q, r)
    BY <2>2, <2>3, <2>4 DEF Crossing
  <2>6. a[1] # b[1] /\ a[1] # b[2] /\ a[2] # b[1] /\ a[2] # b[2]
    BY <2>2
  <2>7. q[1] # r[1] /\ q[1] # r[2] /\ q[2] # r[1] /\ q[2] # r[2]
    BY <2>3, <2>4, <2>6
  <2>. QED BY <2>5, <2>7
<1>6. shifted \subseteq Matching(line)
  BY <1>3
<1>. HIDE DEF shifted
<1>7. Paired(line, shifted)
  BY <1>4, <1>5, <1>6 DEF Paired
<1>. QED BY <1>6, <1>7 DEF Balanced

\* Blanks around a line are no brackets.
LEMMA BalancedStrip ==
    ASSUME NEW S, NEW line \in Seq(S)
    PROVE  Strip(line) \in Seq(S) /\ (Balanced(Strip(line)) <=> Balanced(line))
<1>1. PICK lo \in 1..Len(line) + 1 : \E hi \in lo - 1..Len(line) : StripsTo(line, lo, hi)
  BY StripIsPart
<1>2. PICK hi \in lo - 1..Len(line) : StripsTo(line, lo, hi)
  BY <1>1
<1>3. Len(line) \in Nat /\ DOMAIN line = 1..Len(line)
  BY LenProperties
<1>4. Brackets(line) \subseteq lo..hi
  <2>1. ASSUME NEW i \in Brackets(line) PROVE i \in lo..hi
    <3>1. i \in 1..Len(line) /\ line[i] # Blank
      BY <1>3 DEF Brackets, OpenBrackets, CloseBrackets, Blank
    <3>. QED BY <1>2, <1>3, <3>1 DEF StripsTo
  <2>. QED BY <2>1
<1>5. Strip(line) = SubSeq(line, lo, hi)
  BY <1>2 DEF StripsTo
<1>6. ASSUME Balanced(line) PROVE Balanced(SubSeq(line, lo, hi))
  <2>1. PICK pairs : Paired(line, pairs)
    BY <1>6 DEF Balanced
  <2>2. \A p \in pairs : p[1] \in Brackets(line) /\ p[2] \in Brackets(line)
    BY <2>1 DEF Paired, Matching
  <2>3. \A p \in pairs : p[1] \in lo..hi <=> p[2] \in lo..hi
    BY <1>4, <2>2
  <2>. QED BY <2>1, <2>3, BalancedPart
<1>7. ASSUME Balanced(SubSeq(line, lo, hi)) PROVE Balanced(line)
  BY <1>4, <1>7, BalancedWhole
<1>. QED BY <1>5, <1>6, <1>7, SubLine

\* parser.parse raises for exactly the materials that have a bracket without a partner.
THEOREM ParseRaises ==
    \A S : \A raw \in Seq(S) : Raises(raw) <=> ~Balanced(raw)
BY TreeIsBalance, BalancedStrip DEF Raises

-----------------------------------------------------------------------------
(* What a block is cut into                                                 *)

LEMMA TreeBlocks ==
    ASSUME NEW S, NEW line \in Seq(S), ~Tree(line).wrong
    PROVE  /\ Len(line) \in Nat /\ DOMAIN line = 1..Len(line)
           /\ \A b \in Tree(line).blocks :
                /\ b.start \in 1..Len(line) /\ b.end \in 1..Len(line) /\ b.start < b.end
                /\ line[b.start] \in OpenBrackets /\ line[b.end] \in CloseBrackets
           /\ \A b, c \in Tree(line).blocks : b # c =>
                /\ b.start # c.start /\ b.start # c.end /\ b.end # c.start /\ b.end # c.end
                /\ ~(b.start < c.start /\ c.start < b.end /\ b.end < c.end)
           /\ \A m \in Tree(line).marks :
                /\ m.at \in 1..Len(line) /\ line[m.at] \in Delims /\ m.block < m.at
                /\ \A b \in Tree(line).blocks : b.start < m.at /\ m.at < b.end => b.start <= m.block
                /\ m.block = 0 \/ \E b \in Tree(line).blocks : b.start = m.block /\ m.at < b.end
<1>1. /\ Nested(line, Tree(line), Len(line)) /\ Marked(line, Tree(line), Len(line))
      /\ Members(Tree(line).stack) = {}
  BY TreeOfLine
<1>2. Len(line) \in Nat /\ DOMAIN line = 1..Len(line)
  BY LenProperties
<1>3. \A b \in Tree(line).blocks :
        /\ b.start \in 1..Len(line) /\ b.end \in 1..Len(line) /\ b.start < b.end
        /\ line[b.start] \in OpenBrackets /\ line[b.end] \in CloseBrackets
  BY <1>1, KindsApart DEF Nested
<1>4. ASSUME NEW b \in Tree(line).blocks, NEW c \in Tree(line).blocks, b # c
      PROVE  /\ b.start # c.start /\ b.start # c.end /\ b.end # c.start /\ b.end # c.end
             /\ ~(b.start < c.start /\ c.start < b.end /\ b.end < c.end)
  <2>1. {b.start, b.end} \cap {c.start, c.end} = {} /\ ~Crossing(Pair(b), Pair(c))
    BY <1>1, <1>4 DEF Nested
  <2>. QED BY <2>1 DEF Crossing, Pair
<1>5. ASSUME NEW m \in Tree(line).marks
      PROVE  /\ m.at \in 1..Len(line) /\ line[m.at] \in Delims /\ m.block < m.at
             /\ \A b \in Tree(line).blocks : b.start < m.at /\ m.at < b.end => b.start <= m.block
             /\ m.block = 0 \/ \E b \in Tree(line).blocks : b.start = m.block /\ m.at < b.end
  BY <1>1 DEF Marked
<1>. QED BY <1>2, <1>3, <1>4, <1>5

\* A block from after its opening bracket to before its closing one; 0 is the whole line.
Region(line, block, first, last) ==
    \/ block = 0 /\ first = 1 /\ last = Len(line)
    \/ \E b \in Tree(line).blocks : block = b.start /\ first = b.start + 1 /\ last = b.end - 1

\* The delimiters of a block are within it, and no bracket of another is around them.
LEMMA RegionCuts ==
    ASSUME NEW S, NEW line \in Seq(S), ~Tree(line).wrong, NEW block, NEW first, NEW last,
           Region(line, block, first, last), NEW delim
    PROVE  /\ block \in Nat /\ first \in 1..Len(line) + 1 /\ last \in first - 1..Len(line)
           /\ block < first
           /\ \A x \in Cuts(line, Tree(line), block, delim) :
                /\ x \in first..last /\ line[x] = delim /\ delim \in Delims
                /\ \A b \in Tree(line).blocks : b.start < x /\ x < b.end => b.start <= block
<1>. DEFINE tree == Tree(line)
<1>1. /\ Len(line) \in Nat
      /\ \A b \in tree.blocks :
            b.start \in 1..Len(line) /\ b.end \in 1..Len(line) /\ b.start < b.end
      /\ \A b, c \in tree.blocks : b # c => b.start # c.start
      /\ \A m \in tree.marks :
            /\ m.at \in 1..Len(line) /\ line[m.at] \in Delims /\ m.block < m.at
            /\ \A b \in tree.blocks : b.start < m.at /\ m.at < b.end => b.start <= m.block
            /\ m.block = 0 \/ \E b \in tree.blocks : b.start = m.block /\ m.at < b.end
  BY TreeBlocks
<1>. HIDE DEF tree
<1>2. /\ block \in Nat /\ first \in 1..Len(line) + 1 /\ last \in first - 1..Len(line)
      /\ block < first
  BY <1>1 DEF Region, tree
<1>3. ASSUME NEW x \in Cuts(line, tree, block, delim)
      PROVE  /\ x \in first..last /\ line[x] = delim /\ delim \in Delims
             /\ \A b \in tree.blocks : b.start < x /\ x < b.end => b.start <= block
  <2>1. PICK m \in tree.marks : m.at = x /\ m.block = block /\ line[x] = delim
    BY DEF Cuts
  <2>2. x \in 1..Len(line) /\ block < x /\ delim \in Delims
    BY <1>1, <2>1
  <2>3. x \in first..last
    <3>1. CASE block = 0 /\ first = 1 /\ last = Len(line)
      BY <2>2, <3>1
    <3>2. ASSUME NEW b \in tree.blocks, block = b.start, first = b.start + 1, last = b.end - 1
          PROVE  x \in first..last
      <4>1. PICK c \in tree.blocks : c.start = block /\ x < c.end
        BY <1>1, <2>1, <3>2
      <4>2. c = b
        BY <1>1, <3>2, <4>1
      <4>. QED BY <1>1, <2>2, <3>2, <4>1, <4>2
    <3>. QED BY <3>1, <3>2 DEF Region, tree
  <2>. QED BY <1>1, <2>1, <2>2, <2>3
<1>. QED BY <1>2, <1>3 DEF tree

\* What is between two neighbouring cuts has its brackets in pairs.
LEMMA PieceBalanced ==
    ASSUME NEW S, NEW line \in Seq(S), ~Tree(line).wrong, NEW block, NEW first, NEW last,
           Region(line, block, first, last), NEW delim,
           NEW p \in {first - 1} \cup Cuts(line, Tree(line), block, delim),
           NEW q \in {last + 1} \cup Cuts(line, Tree(line), block, delim), p < q
    PROVE  /\ p + 1 \in 1..Len(line) + 1 /\ q - 1 \in p..Len(line)
           /\ Balanced(SubSeq(line, p + 1, q - 1))
<1>. DEFINE tree == Tree(line)
            cuts == Cuts(line, tree, block, delim)
<1>1. /\ Len(line) \in Nat
      /\ \A b \in tree.blocks :
            /\ b.start \in 1..Len(line) /\ b.end \in 1..Len(line) /\ b.start < b.end
            /\ line[b.start] \in OpenBrackets /\ line[b.end] \in CloseBrackets
      /\ \A b, c \in tree.blocks : b # c =>
            /\ b.start # c.start /\ b.start # c.end /\ b.end # c.start /\ b.end # c.end
            /\ ~(b.start < c.start /\ c.start < b.end /\ b.end < c.end)
  BY TreeBlocks
<1>2. /\ block \in Nat /\ first \in 1..Len(line) + 1 /\ last \in first - 1..Len(line)
      /\ block < first
      /\ \A x \in cuts : /\ x \in first..last /\ line[x] = delim /\ delim \in Delims
                         /\ \A b \in tree.blocks : b.start < x /\ x < b.end => b.start <= block
  BY RegionCuts
<1>3. \/ block = 0 /\ first = 1 /\ last = Len(line)
      \/ \E b \in tree.blocks : block = b.start /\ first = b.start + 1 /\ last = b.end - 1
  BY DEF Region
<1>4. p \in {first - 1} \cup cuts /\ q \in {last + 1} \cup cuts /\ p < q
  OBVIOUS
<1>. HIDE DEF tree, cuts
<1>5. p + 1 \in 1..Len(line) + 1 /\ q - 1 \in p..Len(line) /\ p \in Nat /\ q \in Nat
  BY <1>1, <1>2, <1>4
\* No cut is a bracket.
<1>6. ASSUME NEW b \in tree.blocks, NEW x \in cuts PROVE b.start # x /\ b.end # x
  BY <1>1, <1>2, KindsApart
<1>7. ASSUME NEW b \in tree.blocks, b.start \in p + 1..q - 1 PROVE b.end \in p + 1..q - 1
  <2>0. b.start \in Nat /\ b.end \in Nat /\ b.start < b.end /\ first - 1 <= p
    BY <1>1, <1>2, <1>4
  <2>1. SUFFICES ASSUME b.end >= q PROVE FALSE
    BY <1>5, <1>7, <2>0
  <2>2. CASE q \in cuts
    <3>1. b.start < q /\ q < b.end
      BY <1>5, <1>6, <1>7, <2>0, <2>1, <2>2
    <3>2. b.start <= block
      BY <1>2, <2>2, <3>1
    <3>. QED BY <1>2, <1>5, <1>7, <2>0, <3>2
  <2>3. CASE q = last + 1
    <3>1. CASE last = Len(line)
      BY <1>1, <2>1, <2>3, <3>1
    <3>2. ASSUME NEW c \in tree.blocks, block = c.start, first = c.start + 1, last = c.end - 1
          PROVE  FALSE
      <4>1. b # c /\ c.start < b.start /\ b.start < c.end /\ c.end <= b.end
        <5>1. c.start \in Nat /\ c.end \in Nat /\ c.start <= p /\ q = c.end
          BY <1>1, <2>0, <2>3, <3>2
        <5>2. b.start > p /\ b.start < q
          BY <1>5, <1>7, <2>0
        <5>. QED BY <1>5, <2>0, <2>1, <5>1, <5>2
      <4>. QED BY <1>1, <4>1
    <3>. QED BY <1>3, <3>1, <3>2
  <2>. QED BY <1>4, <2>2, <2>3
<1>8. ASSUME NEW b \in tree.blocks, b.end \in p + 1..q - 1 PROVE b.start \in p + 1..q - 1
  <2>0. b.start \in Nat /\ b.end \in Nat /\ b.start < b.end /\ q <= last + 1
    BY <1>1, <1>2, <1>4
  <2>1. SUFFICES ASSUME b.start <= p PROVE FALSE
    BY <1>5, <1>8, <2>0
  <2>2. b.start <= block
    <3>1. CASE p \in cuts
      <4>1. b.start < p /\ p < b.end
        BY <1>5, <1>6, <1>8, <2>0, <2>1, <3>1
      <4>. QED BY <1>2, <3>1, <4>1
    <3>2. CASE p = first - 1
      <4>1. CASE first = 1
        BY <1>1, <2>0, <2>1, <3>2, <4>1
      <4>2. ASSUME NEW c \in tree.blocks, block = c.start, first = c.start + 1 PROVE b.start <= block
        BY <1>1, <2>0, <2>1, <3>2, <4>2
      <4>. QED BY <1>3, <4>1, <4>2
    <3>. QED BY <1>4, <3>1, <3>2
  <2>3. PICK c \in tree.blocks : block = c.start /\ first = c.start + 1 /\ last = c.end - 1
    BY <1>1, <1>3, <2>0, <2>2
  <2>4. b.end < c.end /\ b.end > c.start
    <3>1. c.start \in Nat /\ c.end \in Nat /\ q <= c.end
      BY <1>1, <2>0, <2>3
    <3>2. first - 1 <= p
      BY <1>2, <1>4
    <3>3. c.start <= p
      BY <2>3, <3>1, <3>2
    <3>4. b.end > p /\ b.end < q
      BY <1>5, <1>8, <2>0
    <3>. QED BY <1>5, <2>0, <3>1, <3>3, <3>4
  <2>5. b # c /\ b.start < c.start
    BY <1>1, <2>2, <2>3, <2>4
  <2>. QED BY <1>1, <2>4, <2>5
<1>9. Paired(line, {Pair(b) : b \in tree.blocks})
  BY AcceptedIsPaired DEF tree
<1>10. ASSUME NEW r \in {Pair(b) : b \in tree.blocks}
       PROVE  r[1] \in p + 1..q - 1 <=> r[2] \in p + 1..q - 1
  <2>1. PICK b \in tree.blocks : r[1] = b.start /\ r[2] = b.end
    BY DEF Pair
  <2>. QED BY <1>7, <1>8, <2>1
<1>11. q - 1 \in (p + 1) - 1..Len(line)
  BY <1>5
<1>. DEFINE pairs == {Pair(b) : b \in tree.blocks}
<1>12. Paired(line, pairs) /\ \A r \in pairs : r[1] \in p + 1..q - 1 <=> r[2] \in p + 1..q - 1
  BY <1>9, <1>10
<1>. HIDE DEF pairs
<1>13. Balanced(SubSeq(line, p + 1, q - 1))
  BY <1>5, <1>11, <1>12, BalancedPart
<1>. QED BY <1>5, <1>13

\* Where split_by_delim cuts: before the first symbol, at each delimiter, after the last symbol.
Bounds(first, last, cuts) == Ascending(cuts \cup {first - 1, last + 1}, last + 1)

CutAt(line, first, last, cuts, bounds, pieces) ==
    /\ bounds \in Seq(Nat) /\ Rising(bounds)
    /\ Members(bounds) = cuts \cup {first - 1, last + 1}
    /\ Len(bounds) \in Nat /\ Len(bounds) >= 2
    /\ bounds[1] = first - 1 /\ bounds[Len(bounds)] = last + 1
    /\ Len(pieces) = Len(bounds) - 1
    /\ \A k \in 1..Len(pieces) :
            /\ bounds[k] \in {first - 1} \cup cuts /\ bounds[k + 1] \in {last + 1} \cup cuts
            /\ k < Len(pieces) => bounds[k + 1] \in cuts
            /\ bounds[k] < bounds[k + 1]
            /\ pieces[k] = SubSeq(line, bounds[k] + 1, bounds[k + 1] - 1)

LEMMA SplitPieces ==
    ASSUME NEW S, NEW line \in Seq(S), NEW first \in 1..Len(line) + 1,
           NEW last \in first - 1..Len(line), NEW cuts, cuts \subseteq first..last
    PROVE  /\ Split(line, first, last, cuts) \in Seq(Seq(S))
           /\ CutAt(line, first, last, cuts, Bounds(first, last, cuts),
                    Split(line, first, last, cuts))
<1>. DEFINE all == cuts \cup {first - 1, last + 1}
            bounds == Bounds(first, last, cuts)
            pieces == Split(line, first, last, cuts)
<1>0. Len(line) \in Nat
  BY LenProperties
<1>1. /\ first \in Nat /\ last \in Int /\ last + 1 \in Nat /\ first - 1 \in Nat
      /\ first - 1 < last + 1 /\ all \subseteq 0..last + 1
      /\ \A x \in all : first - 1 <= x /\ x <= last + 1
  BY <1>0
<1>2. bounds \in Seq(Nat) /\ Rising(bounds) /\ Members(bounds) = all
  <2>1. all \cap 0..last + 1 = all
    BY <1>1
  <2>2. bounds = Ascending(all, last + 1)
    BY DEF Bounds
  <2>. HIDE DEF all, bounds
  <2>. QED BY <1>1, <2>1, <2>2, AscendingRises
<1>3. first - 1 \in all /\ last + 1 \in all /\ \A x \in all : x \in cuts \/ x = first - 1 \/ x = last + 1
  OBVIOUS
<1>4. pieces = [k \in 1..Len(bounds) - 1 |-> SubSeq(line, bounds[k] + 1, bounds[k + 1] - 1)]
  BY DEF Split, Bounds
<1>. HIDE DEF all, bounds, pieces
<1>5. Len(bounds) \in Nat /\ \A k \in 1..Len(bounds) : bounds[k] \in all /\ bounds[k] \in Nat
  BY <1>1, <1>2, LenProperties DEF Members
<1>6. PICK k \in 1..Len(bounds) : bounds[k] = first - 1
  BY <1>2, <1>3 DEF Members
<1>7. PICK l \in 1..Len(bounds) : bounds[l] = last + 1
  BY <1>2, <1>3 DEF Members
<1>8. k = 1 /\ l = Len(bounds) /\ Len(bounds) >= 2
  <2>1. 1 \in 1..Len(bounds) /\ Len(bounds) \in 1..Len(bounds)
    BY <1>5, <1>6
  <2>2. ~(1 < k)
    <3>1. 1 < k => bounds[1] < bounds[k]
      BY <1>2, <2>1 DEF Rising
    <3>. QED BY <1>1, <1>5, <1>6, <2>1, <3>1
  <2>3. ~(l < Len(bounds))
    <3>1. l < Len(bounds) => bounds[l] < bounds[Len(bounds)]
      BY <1>2, <2>1 DEF Rising
    <3>. QED BY <1>1, <1>5, <1>7, <2>1, <3>1
  <2>4. k # l
    BY <1>1, <1>6, <1>7
  <2>. QED BY <1>5, <2>2, <2>3, <2>4
<1>9. ASSUME NEW j \in 1..Len(bounds) - 1
      PROVE  /\ bounds[j] \in {first - 1} \cup cuts /\ bounds[j + 1] \in {last + 1} \cup cuts
             /\ j < Len(bounds) - 1 => bounds[j + 1] \in cuts
             /\ bounds[j] < bounds[j + 1]
             /\ SubSeq(line, bounds[j] + 1, bounds[j + 1] - 1) \in Seq(S)
  <2>1. /\ j \in 1..Len(bounds) /\ j + 1 \in 1..Len(bounds) /\ j < j + 1
        /\ 1 \in 1..Len(bounds) /\ Len(bounds) \in 1..Len(bounds) /\ 1 < j + 1 /\ j < Len(bounds)
    BY <1>5, <1>8
  <2>2. /\ bounds[j] < bounds[j + 1] /\ bounds[1] < bounds[j + 1] /\ bounds[j] < bounds[Len(bounds)]
    BY <1>2, <2>1 DEF Rising
  <2>3. bounds[1] = first - 1 /\ bounds[Len(bounds)] = last + 1
    BY <1>6, <1>7, <1>8
  <2>4. j < Len(bounds) - 1 => bounds[j + 1] < bounds[Len(bounds)]
    <3>1. j < Len(bounds) - 1 => j + 1 < Len(bounds)
      BY <1>5
    <3>. QED BY <1>2, <2>1, <3>1 DEF Rising
  <2>5. /\ bounds[j] \in Nat /\ bounds[j + 1] \in Nat /\ bounds[j] \in all /\ bounds[j + 1] \in all
    BY <1>5, <2>1
  <2>6. bounds[j] # last + 1 /\ bounds[j + 1] # first - 1
        /\ (j < Len(bounds) - 1 => bounds[j + 1] # last + 1)
    BY <1>1, <2>2, <2>3, <2>4, <2>5
  <2>7. bounds[j] + 1 \in 1..Len(line) + 1 /\ bounds[j + 1] - 1 \in (bounds[j] + 1) - 1..Len(line)
    <3>1. \A x, y \in all : x < y => x + 1 \in 1..Len(line) + 1 /\ y - 1 \in (x + 1) - 1..Len(line)
      BY <1>0, <1>1
    <3>. QED BY <2>2, <2>5, <3>1
  <2>8. SubSeq(line, bounds[j] + 1, bounds[j + 1] - 1) \in Seq(S)
    BY <2>7, SubLine
  <2>9. bounds[j] \in {first - 1} \cup cuts /\ bounds[j + 1] \in {last + 1} \cup cuts
    BY <1>3, <2>5, <2>6
  <2>10. j < Len(bounds) - 1 => bounds[j + 1] \in cuts
    BY <1>3, <2>5, <2>6
  <2>. QED BY <2>2, <2>8, <2>9, <2>10
<1>10. pieces \in Seq(Seq(S)) /\ Len(pieces) = Len(bounds) - 1
  <2>1. Len(bounds) - 1 \in Nat
    BY <1>5, <1>8
  <2>2. pieces \in [1..Len(bounds) - 1 -> Seq(S)]
    BY <1>4, <1>9
  <2>. QED BY <2>1, <2>2, FunctionIsSeq
<1>11. /\ bounds[1] = first - 1 /\ bounds[Len(bounds)] = last + 1
  BY <1>6, <1>7, <1>8
<1>12. CutAt(line, first, last, cuts, bounds, pieces)
  BY <1>2, <1>4, <1>5, <1>8, <1>9, <1>10, <1>11 DEF all, CutAt
<1>. QED BY <1>10, <1>12 DEF bounds, pieces

-----------------------------------------------------------------------------
(* Blanks                                                                   *)

\* A symbol that stands for a bracket or a delimiter is no blank.
LEMMA BlankApart ==
    \A x \in OpenBrackets \cup CloseBrackets \cup Delims : x # Blank
BY SymbolAssumption DEF OpenBrackets, CloseBrackets, Blank

\* What str.strip leaves ends with the last symbol that is not blank.
LEMMA LastOfStrip ==
    ASSUME NEW S, NEW line \in Seq(S), NEW P \in 0..Len(line),
           \A i \in P + 1..Len(line) : line[i] = Blank, P = 0 \/ line[P] # Blank
    PROVE  /\ P = 0 => Strip(line) = <<>>
           /\ P # 0 => Strip(line) # <<>> /\ Last(Strip(line)) = line[P]
<1>0. PICK lo \in 1..Len(line) + 1 : \E hi \in lo - 1..Len(line) : StripsTo(line, lo, hi)
  BY StripIsPart
<1>1. PICK hi \in lo - 1..Len(line) : StripsTo(line, lo, hi)
  BY <1>0
<1>2. Len(line) \in Nat /\ DOMAIN line = 1..Len(line)
  BY LenProperties
<1>3. /\ Strip(line) \in Seq(S) /\ Len(Strip(line)) = hi - lo + 1
      /\ \A i \in 1..hi - lo + 1 : Strip(line)[i] = line[lo + i - 1]
  BY <1>1, SubLine DEF StripsTo
<1>4. CASE P = 0
  <2>1. hi = lo - 1
    BY <1>1, <1>2, <1>4 DEF StripsTo
  <2>2. Len(Strip(line)) = 0
    BY <1>2, <1>3, <2>1
  <2>. QED BY <1>3, <1>4, <2>2, EmptySeq
<1>5. CASE P # 0
  <2>1. hi = P /\ lo <= P
    <3>1. lo <= P /\ P <= hi
      BY <1>1, <1>2, <1>5 DEF StripsTo
    <3>2. hi \in P + 1..Len(line) => line[hi] = Blank
      OBVIOUS
    <3>. QED BY <1>1, <1>2, <3>1, <3>2 DEF StripsTo
  <2>2. /\ Len(Strip(line)) = P - lo + 1 /\ P - lo + 1 \in 1..hi - lo + 1
        /\ lo + (P - lo + 1) - 1 = P
    BY <1>2, <1>3, <2>1
  <2>3. Strip(line)[P - lo + 1] = line[P]
    BY <1>3, <2>2
  <2>4. Strip(line) # <<>>
    BY <1>2, <2>1, <2>2
  <2>. QED BY <1>5, <2>2, <2>3, <2>4 DEF Last
<1>. QED BY <1>4, <1>5

\* A line of which str.strip leaves nothing is blank throughout, and only such a one.
LEMMA StripBlank ==
    ASSUME NEW S, NEW line \in Seq(S)
    PROVE  Strip(line) = <<>> <=> \A i \in 1..Len(line) : line[i] = Blank
<1>0. PICK lo \in 1..Len(line) + 1 : \E hi \in lo - 1..Len(line) : StripsTo(line, lo, hi)
  BY StripIsPart
<1>1. PICK hi \in lo - 1..Len(line) : StripsTo(line, lo, hi)
  BY <1>0
<1>2. Len(line) \in Nat /\ DOMAIN line = 1..Len(line)
  BY LenProperties
<1>3. /\ Strip(line) \in Seq(S) /\ Len(Strip(line)) = hi - lo + 1
  BY <1>1, SubLine DEF StripsTo
<1>4. Strip(line) = <<>> <=> hi = lo - 1
  <2>1. Strip(line) = <<>> <=> Len(Strip(line)) = 0
    BY <1>3, EmptySeq
  <2>. QED BY <1>2, <1>3, <2>1
<1>5. hi = lo - 1 <=> ~(lo <= hi)
  BY <1>2
<1>6. lo <= hi => lo \in 1..Len(line) /\ line[lo] # Blank
  BY <1>1, <1>2 DEF StripsTo
<1>7. hi = lo - 1 => \A i \in 1..Len(line) : line[i] = Blank
  BY <1>1, <1>2 DEF StripsTo
<1>. QED BY <1>4, <1>5, <1>6, <1>7

LEMMA StripTwice ==
    ASSUME NEW S, NEW line \in Seq(S)
    PROVE  /\ Strip(line) \in Seq(S)
           /\ Strip(Strip(line)) = <<>> => Strip(line) = <<>>
<1>1. Strip(line) \in Seq(S)
  BY BalancedStrip
<1>0. PICK lo \in 1..Len(line) + 1 : \E hi \in lo - 1..Len(line) : StripsTo(line, lo, hi)
  BY StripIsPart
<1>2. PICK hi \in lo - 1..Len(line) : StripsTo(line, lo, hi)
  BY <1>0
<1>3. Len(line) \in Nat /\ DOMAIN line = 1..Len(line)
  BY LenProperties
<1>4. /\ Len(Strip(line)) = hi - lo + 1
      /\ \A i \in 1..hi - lo + 1 : Strip(line)[i] = line[lo + i - 1]
  BY <1>2, SubLine DEF StripsTo
<1>5. CASE lo <= hi
  <2>1. 1 \in 1..Len(Strip(line)) /\ Strip(line)[1] # Blank
    <3>1. 1 \in 1..hi - lo + 1 /\ lo + 1 - 1 = lo /\ line[lo] # Blank
      BY <1>2, <1>3, <1>5 DEF StripsTo
    <3>. QED BY <1>4, <3>1
  <2>. QED BY <1>1, <2>1, StripBlank
<1>6. CASE ~(lo <= hi)
  <2>1. Len(Strip(line)) = 0
    BY <1>3, <1>4, <1>6
  <2>. QED BY <1>1, <2>1, EmptySeq
<1>. QED BY <1>1, <1>5, <1>6

\* A delimiter before which only blanks stand up to the start of the line, an opening bracket
\* or the same delimiter.
LEMMA BlankBefore ==
    ASSUME NEW S, NEW raw \in Seq(S), NEW Q \in 1..Len(raw), NEW P \in 0..Q - 1,
           raw[Q] \in Delims, \A i \in P + 1..Q - 1 : raw[i] = Blank,
           P = 0 \/ raw[P] \in OpenBrackets \/ raw[P] = raw[Q]
    PROVE  NoPartBefore(raw, Q)
<1>. DEFINE before == SubSeq(raw, 1, Q - 1)
<1>1. Len(raw) \in Nat
  BY LenProperties
<1>2. 1 \in 1..Len(raw) + 1 /\ Q - 1 \in 1 - 1..Len(raw)
  BY <1>1
<1>3. /\ before \in Seq(S) /\ Len(before) = Q - 1
      /\ \A i \in 1..Q - 1 : before[i] = raw[i]
  <2>1. /\ before \in Seq(S) /\ Len(before) = Q - 1 - 1 + 1
        /\ \A i \in 1..Q - 1 - 1 + 1 : before[i] = raw[1 + i - 1]
    BY <1>2, SubLine
  <2>2. Q - 1 - 1 + 1 = Q - 1 /\ \A i \in 1..Q - 1 : 1 + i - 1 = i
    BY <1>1
  <2>. QED BY <2>1, <2>2
<1>. HIDE DEF before
<1>4. P = 0 \/ before[P] # Blank
  <2>1. P = 0 \/ before[P] = raw[P]
    BY <1>1, <1>3
  <2>. QED BY <2>1, BlankApart
<1>5. P \in 0..Len(before) /\ \A i \in P + 1..Len(before) : before[i] = Blank
  BY <1>1, <1>3
<1>6. /\ P = 0 => Strip(before) = <<>>
      /\ P # 0 => Last(Strip(before)) = before[P]
  BY <1>3, <1>4, <1>5, LastOfStrip
<1>7. P # 0 => before[P] = raw[P]
  BY <1>1, <1>3
<1>. QED BY <1>6, <1>7 DEF NoPartBefore, before

-----------------------------------------------------------------------------
(* The delimiters of a block                                                *)

LEMMA CutsAreFinite ==
    ASSUME NEW S, NEW line \in Seq(S), ~Tree(line).wrong, NEW block, NEW delim
    PROVE  LET cuts == Cuts(line, Tree(line), block, delim)
           IN  /\ cuts \subseteq 1..Len(line) /\ IsFiniteSet(cuts)
               /\ Cardinality(cuts) \in 0..Len(line)
               /\ cuts # {} <=> Cardinality(cuts) # 0
<1>. DEFINE cuts == Cuts(line, Tree(line), block, delim)
<1>1. Len(line) \in Nat /\ \A m \in Tree(line).marks : m.at \in 1..Len(line)
  BY TreeBlocks
<1>2. cuts \subseteq 1..Len(line)
  BY <1>1 DEF Cuts
<1>3. IsFiniteSet(1..Len(line)) /\ Cardinality(1..Len(line)) = Len(line)
  <2>1. 1 \in Int /\ Len(line) \in Int /\ (1 > Len(line) => Len(line) = 0)
    BY <1>1
  <2>. QED BY <1>1, <2>1, FS_Interval
<1>. HIDE DEF cuts
<1>4. IsFiniteSet(cuts) /\ Cardinality(cuts) <= Len(line)
  BY <1>2, <1>3, FS_Subset
<1>5. Cardinality(cuts) \in Nat /\ (Cardinality(cuts) = 0 <=> cuts = {})
  BY <1>4, FS_CardinalityType, FS_EmptySet
<1>. QED BY <1>1, <1>2, <1>4, <1>5 DEF cuts

\* The count of a block is that of one of its delimiters, and that delimiter is chosen.
LEMMA DelimOfBlock ==
    ASSUME NEW S, NEW line \in Seq(S), ~Tree(line).wrong, NEW block
    PROVE  LET tree == Tree(line)
               count == DelimCount(line, tree, block)
               delim == MaxDelimiter(line, tree, block)
           IN  /\ count \in Nat
               /\ \A d \in Delims : Cardinality(Cuts(line, tree, block, d)) <= count
               /\ count # 0 => /\ delim \in Delims /\ Cuts(line, tree, block, delim) # {}
                               /\ Cardinality(Cuts(line, tree, block, delim)) = count
<1>. DEFINE tree == Tree(line)
            Cut(d) == Cuts(line, tree, block, d)
            counts == {0} \cup {Cardinality(Cut(d)) : d \in Delims}
            count == DelimCount(line, tree, block)
            most == {d \in Delims : Cut(d) # {} /\ Cardinality(Cut(d)) = count}
            Chosen(d) == d \in most /\ \A e \in most : Max(Cut(d)) <= Max(Cut(e))
<1>1. ASSUME NEW d
      PROVE  /\ Cut(d) \subseteq 0..Len(line) /\ Cardinality(Cut(d)) \in 0..Len(line)
             /\ Cut(d) # {} <=> Cardinality(Cut(d)) # 0
  BY CutsAreFinite
<1>2. Len(line) \in Nat
  BY LenProperties
<1>3. count = Max(counts)
  BY DEF DelimCount
<1>4. counts \subseteq 0..Len(line) /\ counts # {}
  BY <1>1, <1>2
<1>5. count \in counts /\ \A c \in counts : c <= count
  <2>. HIDE DEF counts, count
  <2>. QED BY <1>2, <1>3, <1>4, MinMax
<1>6. MaxDelimiter(line, tree, block) = CHOOSE d \in most : \A e \in most : Max(Cut(d)) <= Max(Cut(e))
  BY DEF MaxDelimiter
<1>7. ASSUME count # 0 PROVE \E d \in most : \A e \in most : Max(Cut(d)) <= Max(Cut(e))
  <2>. DEFINE lasts == {Max(Cut(d)) : d \in most}
  <2>1. \E d \in most : TRUE
    <3>1. PICK d \in Delims : count = Cardinality(Cut(d))
      BY <1>5, <1>7
    <3>. QED BY <1>1, <1>7, <3>1
  <2>2. \A d \in most : Max(Cut(d)) \in Nat
    <3>1. ASSUME NEW d \in most PROVE Max(Cut(d)) \in Nat
      <4>1. Cut(d) \subseteq 0..Len(line) /\ Cut(d) # {}
        BY <1>1
      <4>. HIDE DEF Cut
      <4>. QED BY <1>2, <4>1, MinMax
    <3>. QED BY <3>1
  <2>3. lasts \subseteq Nat /\ lasts # {}
    BY <2>1, <2>2
  <2>4. PICK x \in lasts : \A y \in lasts : x <= y
    <3>. HIDE DEF lasts
    <3>. QED BY <2>3, LeastNat
  <2>5. PICK d \in most : x = Max(Cut(d))
    BY <2>4
  <2>. QED BY <2>4, <2>5
<1>8. ASSUME count # 0 PROVE MaxDelimiter(line, tree, block) \in most
  <2>. HIDE DEF most, Cut
  <2>. QED BY <1>6, <1>7, <1>8
<1>9. count \in Nat
  BY <1>2, <1>4, <1>5
<1>. QED BY <1>5, <1>8, <1>9

-----------------------------------------------------------------------------
(* The cases of _parse                                                      *)

\* A material is split by the delimiters of the whole line or of one of its blocks, or by the
\* one delimiter it has, or left whole.
SplitAround(line, res) ==
    \E block, first, last, delim :
        /\ Region(line, block, first, last)
        /\ res.parts = Split(line, first, last, Cuts(line, Tree(line), block, delim))
        /\ res.prefix = SubSeq(line, 1, first - 2)
        /\ res.postfix = SubSeq(line, last + 2, Len(line))
SplitOnce(line, res) ==
    \E delim, x : LET halves == Split(line, 1, Len(line), {x})
                  IN  /\ Cuts(line, Tree(line), 0, delim) = {x}
                      /\ res = Result(<<>>, <<halves[1]>>, halves[2])

LEMMA ParseCases ==
    ASSUME NEW S, NEW raw \in Seq(S), ~Raises(raw)
    PROVE  \/ SplitAround(Strip(raw), Parse0(raw))
           \/ SplitOnce(Strip(raw), Parse0(raw))
           \/ Parse0(raw) = Result(<<>>, <<Strip(raw)>>, <<>>)
           \/ Parse0(raw) = Result(<<>>, <<raw>>, <<>>)
<1>. DEFINE line == Strip(raw)
            tree == Tree(line)
            count == DelimCount(line, tree, 0)
            delim == MaxDelimiter(line, tree, 0)
            cuts == Cuts(line, tree, 0, delim)
            whole == SplitBlock(line, tree, 0, 1, Len(line))
            only == Cardinality(Candidates(line, tree)) = 1
            b == CHOOSE c \in Candidates(line, tree) : TRUE
            Around == Result(SubSeq(line, 1, b.start - 1),
                             SplitBlock(line, tree, b.start, b.start + 1, b.end - 1),
                             SubSeq(line, b.end + 1, Len(line)))
            inner == FirstLevel(tree)
            res == Parse0(raw)
<1>1. line \in Seq(S) /\ ~Tree(line).wrong /\ Len(line) \in Nat
  BY BalancedStrip, LenProperties DEF Raises
<1>2. whole = Split(line, 1, Len(line), cuts)
  BY DEF SplitBlock
<1>3. /\ count \in Nat
      /\ count = 1 => \E x : cuts = {x}
  <2>. HIDE DEF line
  <2>1. /\ count \in Nat
        /\ count # 0 => Cardinality(cuts) = count
    BY <1>1, DelimOfBlock
  <2>2. IsFiniteSet(cuts)
    BY <1>1, CutsAreFinite
  <2>. HIDE DEF cuts, count
  <2>3. count = 1 => Cardinality(cuts) = 1
    BY <2>1
  <2>. QED BY <2>1, <2>2, <2>3, FS_Singleton
<1>4. res = CASE count > 1 -> Result(<<>>, whole, <<>>)
              [] inner = {} /\ count = 1 -> Result(<<>>, <<whole[1]>>, whole[2])
              [] inner = {} /\ count = 0 -> Result(<<>>, <<line>>, <<>>)
              [] inner # {} /\ count <= 1 /\ only -> Around
              [] OTHER -> Result(<<>>, <<raw>>, <<>>)
  BY DEF Parse0
<1>5. CASE count > 1
  <2>1. res = Result(<<>>, whole, <<>>)
    <3>. HIDE DEF count, whole, inner, only, Around, line, res
    <3>. QED BY <1>3, <1>4, <1>5
  <2>2. Region(line, 0, 1, Len(line))
    BY DEF Region
  <2>3. SubSeq(line, 1, 1 - 2) = <<>> /\ SubSeq(line, Len(line) + 2, Len(line)) = <<>>
    <3>. HIDE DEF line
    <3>1. 1 > 1 - 2 /\ Len(line) + 2 > Len(line)
      BY <1>1
    <3>. QED BY <1>1, <3>1, SubSeqEmpty
  <2>4. SplitAround(line, res)
    <3>. HIDE DEF line, whole, delim, res
    <3>. QED BY <1>2, <2>1, <2>2, <2>3 DEF SplitAround, Result
  <2>. QED BY <2>4
<1>6. CASE inner = {} /\ count = 1
  <2>1. res = Result(<<>>, <<whole[1]>>, whole[2])
    <3>. HIDE DEF count, whole, inner, only, Around, line, res
    <3>. QED BY <1>3, <1>4, <1>6
  <2>2. SplitOnce(line, res)
    <3>1. PICK x : cuts = {x}
      BY <1>3, <1>6
    <3>. HIDE DEF line, res, whole, delim
    <3>. QED BY <1>2, <2>1, <3>1 DEF SplitOnce
  <2>. QED BY <2>2
<1>7. CASE inner = {} /\ count = 0
  <2>1. res = Result(<<>>, <<line>>, <<>>)
    <3>. HIDE DEF count, whole, inner, only, Around, line, res
    <3>. QED BY <1>3, <1>4, <1>7
  <2>. QED BY <2>1
<1>8. CASE inner # {} /\ count <= 1 /\ only
  <2>1. res = Around
    <3>. HIDE DEF count, whole, inner, only, Around, line, res
    <3>. QED BY <1>3, <1>4, <1>8
  <2>2. b \in Candidates(line, tree)
    <3>. DEFINE cands == Candidates(line, tree)
    <3>1. Cardinality(cands) = 1
      BY <1>8
    <3>. HIDE DEF cands
    <3>2. cands # {}
      <4>1. Cardinality({}) = 0 /\ 0 # 1
        BY FS_EmptySet
      <4>. QED BY <3>1, <4>1
    <3>3. \E c : c \in cands
      BY <3>2
    <3>. QED BY <3>3 DEF cands
  <2>3. b \in tree.blocks
    BY <2>2 DEF Candidates, FirstLevel
  <2>4. Region(line, b.start, b.start + 1, b.end - 1)
    BY <2>3 DEF Region
  <2>5. b.start \in Int /\ b.end \in Int
    <3>. HIDE DEF line, b
    <3>. QED BY <1>1, <2>3, TreeBlocks
  <2>6. SplitAround(line, res)
    <3>. DEFINE block == b.start
                first == b.start + 1
                last == b.end - 1
                d == MaxDelimiter(line, tree, block)
    <3>1. res.parts = Split(line, first, last, Cuts(line, tree, block, d))
      BY <2>1 DEF SplitBlock, Result
    <3>2. res.prefix = SubSeq(line, 1, b.start - 1) /\ res.postfix = SubSeq(line, b.end + 1, Len(line))
      <4>1. Around.prefix = SubSeq(line, 1, b.start - 1) /\ Around.postfix = SubSeq(line, b.end + 1, Len(line))
        BY DEF Result
      <4>. HIDE DEF Around, res, b, line
      <4>. QED BY <2>1, <4>1
    <3>3. res.prefix = SubSeq(line, 1, first - 2) /\ res.postfix = SubSeq(line, last + 2, Len(line))
      <4>. HIDE DEF line, b, res
      <4>1. first - 2 = b.start - 1 /\ last + 2 = b.end + 1
        BY <2>5
      <4>. HIDE DEF first, last
      <4>. QED BY <3>2, <4>1
    <3>4. Region(line, block, first, last)
      BY <2>4
    <3>. HIDE DEF line, res, d, block, first, last
    <3>. QED BY <3>1, <3>3, <3>4 DEF SplitAround
  <2>. QED BY <2>6
<1>9. CASE /\ ~(count > 1) /\ ~(inner = {} /\ count = 1) /\ ~(inner = {} /\ count = 0)
           /\ ~(inner # {} /\ count <= 1 /\ only)
  <2>1. res = Result(<<>>, <<raw>>, <<>>)
    <3>. HIDE DEF count, whole, inner, only, Around, line, res
    <3>. QED BY <1>3, <1>4, <1>9
  <2>. QED BY <2>1
<1>. QED BY <1>5, <1>6, <1>7, <1>8, <1>9

-----------------------------------------------------------------------------
(* The parts of a material are well formed                                  *)

\* A delimiter with nothing but blanks between it and what ends the part before it.
Bare(line, P, Q) ==
    /\ line[Q] \in Delims
    /\ \A i \in P + 1..Q - 1 : line[i] = Blank
    /\ P = 0 \/ line[P] \in OpenBrackets \/ line[P] = line[Q]
HasBare(line) == \E Q \in 1..Len(line) : \E P \in 0..Q - 1 : Bare(line, P, Q)

\* It is one of the material as well as of the line the blanks around are taken off.
LEMMA BareInRaw ==
    ASSUME NEW S, NEW raw \in Seq(S), HasBare(Strip(raw))
    PROVE  \E i \in DOMAIN raw : NoPartBefore(raw, i)
<1>. DEFINE line == Strip(raw)
<1>0. PICK lo \in 1..Len(raw) + 1 : \E hi \in lo - 1..Len(raw) : StripsTo(raw, lo, hi)
  BY StripIsPart
<1>1. PICK hi \in lo - 1..Len(raw) : StripsTo(raw, lo, hi)
  BY <1>0
<1>2. Len(raw) \in Nat /\ DOMAIN raw = 1..Len(raw)
  BY LenProperties
<1>3. /\ line \in Seq(S) /\ Len(line) = hi - lo + 1
      /\ \A i \in 1..hi - lo + 1 : line[i] = raw[lo + i - 1]
  BY <1>1, SubLine DEF StripsTo
<1>4. PICK Q \in 1..Len(line) : \E P \in 0..Q - 1 : Bare(line, P, Q)
  BY DEF HasBare
<1>5. PICK P \in 0..Q - 1 : Bare(line, P, Q)
  BY <1>4
<1>. HIDE DEF line
<1>. DEFINE q == lo + Q - 1
            p == IF P = 0 THEN 0 ELSE lo + P - 1
<1>6. /\ q \in 1..Len(raw) /\ p \in 0..q - 1 /\ raw[q] = line[Q]
      /\ P # 0 => p # 0 /\ raw[p] = line[P]
  BY <1>2, <1>3
<1>7. ASSUME NEW i \in p + 1..q - 1 PROVE raw[i] = Blank
  <2>1. CASE i < lo
    <3>1. i \in 1..Len(raw)
      <4>1. p \in Nat /\ q \in Nat /\ q <= Len(raw)
        BY <1>2, <1>6
      <4>. HIDE DEF p, q
      <4>. QED BY <1>2, <4>1
    <3>. QED BY <1>1, <1>2, <2>1, <3>1 DEF StripsTo
  <2>2. CASE i >= lo
    <3>1. i - lo + 1 \in P + 1..Q - 1 /\ i - lo + 1 \in 1..hi - lo + 1 /\ lo + (i - lo + 1) - 1 = i
      BY <1>2, <1>3, <1>6, <2>2
    <3>2. raw[i] = line[i - lo + 1]
      BY <1>3, <3>1
    <3>. QED BY <1>5, <3>1, <3>2 DEF Bare
  <2>. QED BY <1>2, <1>6, <2>1, <2>2
<1>8. raw[q] \in Delims /\ (p = 0 \/ raw[p] \in OpenBrackets \/ raw[p] = raw[q])
  BY <1>5, <1>6 DEF Bare
<1>. HIDE DEF p, q
<1>9. NoPartBefore(raw, q)
  BY <1>6, <1>7, <1>8, BlankBefore
<1>. QED BY <1>2, <1>6, <1>9

\* The pieces of a block have their brackets in pairs, and only a bare delimiter leaves one of
\* them blank that is not the last.
LEMMA RegionPieces ==
    ASSUME NEW S, NEW line \in Seq(S), ~Tree(line).wrong, NEW block, NEW first, NEW last,
           Region(line, block, first, last), NEW delim
    PROVE  LET pieces == Split(line, first, last, Cuts(line, Tree(line), block, delim))
           IN  /\ pieces \in Seq(Seq(S)) /\ Len(pieces) \in Nat \ {0}
               /\ \A k \in 1..Len(pieces) : Balanced(pieces[k])
               /\ \A k \in 1..Len(pieces) - 1 : Strip(pieces[k]) = <<>> => HasBare(line)
<1>. DEFINE cuts == Cuts(line, Tree(line), block, delim)
            bounds == Bounds(first, last, cuts)
            pieces == Split(line, first, last, cuts)
<1>1. /\ block \in Nat /\ first \in 1..Len(line) + 1 /\ last \in first - 1..Len(line)
      /\ block < first
      /\ \A x \in cuts : x \in first..last /\ line[x] = delim /\ delim \in Delims
  BY RegionCuts
<1>2. Len(line) \in Nat
  BY LenProperties
<1>3. cuts \subseteq first..last
  BY <1>1
<1>4. /\ Len(bounds) \in Nat /\ Len(bounds) >= 2
      /\ pieces \in Seq(Seq(S)) /\ Len(pieces) = Len(bounds) - 1
      /\ \A k \in 1..Len(pieces) :
            /\ bounds[k] \in {first - 1} \cup cuts /\ bounds[k + 1] \in {last + 1} \cup cuts
            /\ k < Len(pieces) => bounds[k + 1] \in cuts
            /\ bounds[k] < bounds[k + 1]
            /\ pieces[k] = SubSeq(line, bounds[k] + 1, bounds[k + 1] - 1)
  <2>. HIDE DEF cuts
  <2>1. first \in 1..Len(line) + 1 /\ last \in first - 1..Len(line)
    BY <1>1
  <2>2. pieces \in Seq(Seq(S)) /\ CutAt(line, first, last, cuts, bounds, pieces)
    BY <1>3, <2>1, SplitPieces
  <2>. HIDE DEF bounds, pieces
  <2>. QED BY <2>2 DEF CutAt
<1>5. ASSUME NEW k \in 1..Len(pieces) PROVE Balanced(pieces[k])
  BY <1>4, PieceBalanced
<1>6. first = 1 \/ line[first - 1] \in OpenBrackets
  <2>1. CASE block = 0 /\ first = 1
    BY <2>1
  <2>2. ASSUME NEW b \in Tree(line).blocks, first = b.start + 1 PROVE line[first - 1] \in OpenBrackets
    <3>1. b.start \in Nat /\ line[b.start] \in OpenBrackets
      BY TreeBlocks
    <3>2. b.start + 1 - 1 = b.start
      BY <3>1
    <3>. QED BY <2>2, <3>1, <3>2
  <2>. QED BY <2>1, <2>2 DEF Region
<1>. HIDE DEF cuts, bounds, pieces
<1>7. ASSUME NEW k \in 1..Len(pieces) - 1, Strip(pieces[k]) = <<>> PROVE HasBare(line)
  <2>. DEFINE P == bounds[k]
              Q == bounds[k + 1]
  <2>1. k \in 1..Len(pieces) /\ k < Len(pieces)
    BY <1>4
  <2>2. /\ P \in {first - 1} \cup cuts /\ Q \in cuts /\ P < Q /\ pieces[k] = SubSeq(line, P + 1, Q - 1)
    BY <1>4, <2>1
  <2>. HIDE DEF P, Q
  <2>3. /\ P \in Nat /\ Q \in Nat /\ Q \in 1..Len(line) /\ P \in 0..Q - 1
        /\ P + 1 \in 1..Len(line) + 1 /\ Q - 1 \in (P + 1) - 1..Len(line)
    BY <1>1, <1>2, <2>2
  <2>4. line[Q] = delim /\ delim \in Delims /\ (P = 0 \/ line[P] \in OpenBrackets \/ line[P] = delim)
    <3>1. CASE P = first - 1
      BY <1>1, <1>6, <2>2, <3>1
    <3>2. CASE P \in cuts
      BY <1>1, <2>2, <3>2
    <3>. QED BY <2>2, <1>1, <3>1, <3>2
  <2>5. /\ pieces[k] \in Seq(S) /\ Len(pieces[k]) = Q - 1 - (P + 1) + 1
        /\ \A i \in 1..Q - 1 - (P + 1) + 1 : pieces[k][i] = line[(P + 1) + i - 1]
    BY <2>2, <2>3, SubLine
  <2>6. \A i \in 1..Len(pieces[k]) : pieces[k][i] = Blank
    BY <1>7, <2>5, StripBlank
  <2>7. ASSUME NEW i \in P + 1..Q - 1 PROVE line[i] = Blank
    <3>1. i - P \in 1..Q - 1 - (P + 1) + 1 /\ (P + 1) + (i - P) - 1 = i
      BY <2>3
    <3>. QED BY <2>5, <2>6, <3>1
  <2>8. Bare(line, P, Q)
    BY <2>4, <2>7 DEF Bare
  <2>. QED BY <2>3, <2>8 DEF HasBare
<1>8. Len(pieces) \in Nat \ {0}
  BY <1>4
<1>. QED BY <1>4, <1>5, <1>7, <1>8 DEF pieces, cuts

\* One cut leaves two pieces.
LEMMA Halves ==
    ASSUME NEW S, NEW line \in Seq(S), NEW x \in 1..Len(line)
    PROVE  LET halves == Split(line, 1, Len(line), {x})
           IN  /\ halves \in Seq(Seq(S)) /\ Len(halves) = 2
               /\ halves[1] = SubSeq(line, 1, x - 1)
               /\ halves[2] = SubSeq(line, x + 1, Len(line))
<1>. DEFINE halves == Split(line, 1, Len(line), {x})
            bounds == Bounds(1, Len(line), {x})
            n == Len(line)
<1>1. n \in Nat /\ 1 \in 1..n + 1 /\ n \in 1 - 1..n /\ {x} \subseteq 1..n /\ x \in Nat /\ 1 <= x /\ x <= n
  BY LenProperties
<1>2. halves \in Seq(Seq(S)) /\ CutAt(line, 1, n, {x}, bounds, halves)
  BY <1>1, SplitPieces
<1>. HIDE DEF halves, bounds, n
<1>3. /\ Members(bounds) = {x} \cup {1 - 1, n + 1}
      /\ Len(bounds) \in Nat /\ Len(bounds) >= 2
      /\ bounds[1] = 1 - 1 /\ bounds[Len(bounds)] = n + 1
      /\ Len(halves) = Len(bounds) - 1
      /\ \A k \in 1..Len(halves) :
            /\ bounds[k] \in {1 - 1} \cup {x} /\ bounds[k + 1] \in {n + 1} \cup {x}
            /\ k < Len(halves) => bounds[k + 1] \in {x}
            /\ bounds[k] < bounds[k + 1]
            /\ halves[k] = SubSeq(line, bounds[k] + 1, bounds[k + 1] - 1)
  BY <1>2 DEF CutAt
<1>4. Len(bounds) # 2
  <2>1. SUFFICES ASSUME Len(bounds) = 2 PROVE FALSE
    OBVIOUS
  <2>2. Members(bounds) = {bounds[1], bounds[2]}
    <3>1. 1..2 = {1, 2}
      OBVIOUS
    <3>. QED BY <2>1, <3>1 DEF Members
  <2>3. bounds[1] = 0 /\ bounds[2] = n + 1
    BY <1>3, <2>1
  <2>4. x = 0 \/ x = n + 1
    BY <1>3, <2>2, <2>3
  <2>. QED BY <1>1, <2>4
<1>5. bounds[1] = 0 /\ bounds[2] = x
  <2>1. 1 \in 1..Len(halves) /\ 1 < Len(halves) /\ 1 + 1 = 2
    BY <1>3, <1>4
  <2>. QED BY <1>3, <2>1
<1>6. Len(halves) = 2
  <2>1. SUFFICES ASSUME 2 < Len(halves) PROVE FALSE
    BY <1>3, <1>4
  <2>2. 2 \in 1..Len(halves) /\ 2 + 1 = 3
    BY <1>3, <2>1
  <2>3. bounds[3] = x /\ bounds[2] < bounds[3]
    BY <1>3, <2>1, <2>2
  <2>. QED BY <1>1, <1>5, <2>3
<1>7. bounds[3] = n + 1
  <2>1. Len(bounds) \in Nat /\ Len(halves) = Len(bounds) - 1 /\ bounds[Len(bounds)] = n + 1
    BY <1>3
  <2>2. Len(bounds) = 3
    <3>1. \A l \in Nat : 2 = l - 1 => l = 3
      OBVIOUS
    <3>2. Len(bounds) \in Nat /\ 2 = Len(bounds) - 1
      BY <1>6, <2>1
    <3>. QED BY <3>1, <3>2, Zenon
  <2>. QED BY <2>1, <2>2
<1>8. halves[1] = SubSeq(line, bounds[1] + 1, bounds[2] - 1) /\ halves[2] = SubSeq(line, bounds[2] + 1, bounds[3] - 1)
  <2>1. 1 \in 1..Len(halves) /\ 2 \in 1..Len(halves) /\ 1 + 1 = 2 /\ 2 + 1 = 3
    BY <1>6
  <2>. QED BY <1>3, <2>1
<1>9. bounds[1] + 1 = 1 /\ bounds[2] - 1 = x - 1 /\ bounds[2] + 1 = x + 1 /\ bounds[3] - 1 = n
  BY <1>1, <1>5, <1>7
<1>10. halves[1] = SubSeq(line, 1, x - 1) /\ halves[2] = SubSeq(line, x + 1, n)
  BY <1>8, <1>9
<1>. QED BY <1>2, <1>6, <1>10 DEF halves, n

\* The first ")" of a balanced part has its "(" before it.
LEMMA NoLoneClose ==
    ASSUME NEW S, NEW part \in Seq(S), Balanced(part)
    PROVE  LoneClose(part) = {}
<1>1. SUFFICES ASSUME NEW i \in LoneClose(part) PROVE FALSE
  OBVIOUS
<1>2. DOMAIN part = 1..Len(part) /\ Len(part) \in Nat
  BY LenProperties
<1>3. i \in 1..Len(part) /\ part[i] = ")" /\ \A j \in 1..i - 1 : part[j] \notin {"(", "[", ")"}
  BY <1>2 DEF LoneClose
<1>4. i \in Brackets(part)
  BY <1>2, <1>3 DEF Brackets, CloseBrackets
<1>5. PICK pairs : Paired(part, pairs)
  BY DEF Balanced
<1>6. PICK p \in pairs : i \in {p[1], p[2]}
  BY <1>4, <1>5 DEF Paired
<1>7. /\ p[1] \in 1..Len(part) /\ p[2] \in 1..Len(part) /\ p[1] < p[2]
      /\ SameKind(part[p[1]], part[p[2]])
  BY <1>2, <1>5 DEF Paired, Matching, Brackets
<1>8. part[p[1]] # ")" /\ (part[p[2]] = ")" => part[p[1]] = "(")
  BY <1>7 DEF SameKind
<1>9. i = p[2] /\ p[1] \in 1..i - 1
  BY <1>3, <1>6, <1>7, <1>8
<1>. QED BY <1>3, <1>8, <1>9

\* The parts before they are cleaned.
LEMMA ParseSplits ==
    ASSUME NEW S, NEW raw \in Seq(S), ~Raises(raw)
    PROVE  LET res == Parse0(raw)
           IN  /\ res.prefix \in Seq(S) /\ res.postfix \in Seq(S)
               /\ res.parts \in Seq(Seq(S)) /\ Len(res.parts) \in Nat \ {0}
               /\ \A k \in 1..Len(res.parts) : Balanced(res.parts[k])
               /\ \A k \in 1..Len(res.parts) - 1 :
                    Strip(res.parts[k]) = <<>> => \E i \in DOMAIN raw : NoPartBefore(raw, i)
<1>. DEFINE line == Strip(raw)
            tree == Tree(line)
            res == Parse0(raw)
            Fine(r) == /\ r.prefix \in Seq(S) /\ r.postfix \in Seq(S)
                       /\ r.parts \in Seq(Seq(S)) /\ Len(r.parts) \in Nat \ {0}
                       /\ \A k \in 1..Len(r.parts) : Balanced(r.parts[k])
                       /\ \A k \in 1..Len(r.parts) - 1 :
                            Strip(r.parts[k]) = <<>> => \E i \in DOMAIN raw : NoPartBefore(raw, i)
<1>1. line \in Seq(S) /\ ~Tree(line).wrong /\ Len(line) \in Nat
  BY BalancedStrip, LenProperties DEF Raises
<1>2. Balanced(line) /\ Balanced(raw)
  BY <1>1, TreeIsBalance, BalancedStrip
<1>3. HasBare(line) => \E i \in DOMAIN raw : NoPartBefore(raw, i)
  BY BareInRaw
<1>4. ASSUME NEW prefix \in Seq(S), NEW part \in Seq(S), NEW postfix \in Seq(S), Balanced(part)
      PROVE  Fine(Result(prefix, <<part>>, postfix))
  <2>. DEFINE r == Result(prefix, <<part>>, postfix)
  <2>1. r.prefix = prefix /\ r.postfix = postfix /\ r.parts = <<part>>
    BY DEF Result
  <2>2. <<part>> \in Seq(Seq(S)) /\ Len(<<part>>) = 1 /\ <<part>>[1] = part
    OBVIOUS
  <2>. HIDE DEF r
  <2>3. Fine(r)
    BY <1>4, <2>1, <2>2
  <2>. QED BY <2>3 DEF r
<1>5. CASE SplitAround(line, res)
  <2>1. PICK block, first, last, delim :
            /\ Region(line, block, first, last)
            /\ res.parts = Split(line, first, last, Cuts(line, tree, block, delim))
            /\ res.prefix = SubSeq(line, 1, first - 2)
            /\ res.postfix = SubSeq(line, last + 2, Len(line))
    BY <1>5 DEF SplitAround
  <2>. HIDE DEF line, res
  <2>2. /\ first \in 1..Len(line) + 1 /\ last \in first - 1..Len(line)
        /\ \/ first = 1 /\ last = Len(line)
           \/ first - 1 \in 1..Len(line) /\ last + 1 \in 1..Len(line)
    <3>1. first \in 1..Len(line) + 1 /\ last \in first - 1..Len(line)
      BY <1>1, <2>1, RegionCuts
    <3>2. ASSUME NEW b \in tree.blocks, first = b.start + 1, last = b.end - 1
          PROVE  first - 1 \in 1..Len(line) /\ last + 1 \in 1..Len(line)
      <4>1. b.start \in 1..Len(line) /\ b.end \in 1..Len(line)
        BY <1>1, TreeBlocks
      <4>. QED BY <1>1, <3>2, <4>1
    <3>. QED BY <2>1, <3>1, <3>2 DEF Region
  <2>3. res.prefix \in Seq(S) /\ res.postfix \in Seq(S)
    <3>1. CASE first = 1 /\ last = Len(line)
      <4>1. 1 > first - 2 /\ last + 2 > Len(line)
        BY <1>1, <3>1
      <4>2. SubSeq(line, 1, first - 2) = <<>> /\ SubSeq(line, last + 2, Len(line)) = <<>>
        BY <1>1, <3>1, <4>1, SubSeqEmpty
      <4>3. <<>> \in Seq(S)
        OBVIOUS
      <4>. QED BY <2>1, <4>2, <4>3
    <3>2. CASE first - 1 \in 1..Len(line) /\ last + 1 \in 1..Len(line)
      <4>1. /\ 1 \in 1..Len(line) + 1 /\ first - 2 \in 1 - 1..Len(line)
            /\ last + 2 \in 1..Len(line) + 1 /\ Len(line) \in (last + 2) - 1..Len(line)
        BY <1>1, <2>2, <3>2
      <4>. QED BY <1>1, <2>1, <4>1, SubLine
    <3>. QED BY <2>2, <3>1, <3>2
  <2>4. /\ res.parts \in Seq(Seq(S)) /\ Len(res.parts) \in Nat \ {0}
        /\ \A k \in 1..Len(res.parts) : Balanced(res.parts[k])
        /\ \A k \in 1..Len(res.parts) - 1 : Strip(res.parts[k]) = <<>> => HasBare(line)
    <3>. DEFINE pieces == Split(line, first, last, Cuts(line, tree, block, delim))
    <3>1. /\ pieces \in Seq(Seq(S)) /\ Len(pieces) \in Nat \ {0}
          /\ \A k \in 1..Len(pieces) : Balanced(pieces[k])
          /\ \A k \in 1..Len(pieces) - 1 : Strip(pieces[k]) = <<>> => HasBare(line)
      BY <1>1, <2>1, RegionPieces
    <3>2. res.parts = pieces
      BY <2>1
    <3>. HIDE DEF pieces
    <3>. QED BY <3>1, <3>2
  <2>5. Fine(res)
    BY <1>3, <2>3, <2>4
  <2>. QED BY <2>5 DEF res
<1>6. CASE SplitOnce(line, res)
  <2>1. PICK delim, x : /\ Cuts(line, tree, 0, delim) = {x}
                        /\ res = Result(<<>>, <<Split(line, 1, Len(line), {x})[1]>>,
                                        Split(line, 1, Len(line), {x})[2])
    BY <1>6 DEF SplitOnce
  <2>. HIDE DEF line
  <2>2. x \in 1..Len(line)
    BY <1>1, <2>1, CutsAreFinite
  <2>. DEFINE pieces == Split(line, 1, Len(line), {x})
  <2>3. pieces \in Seq(Seq(S)) /\ Len(pieces) = 2
    BY <1>1, <2>2, Halves
  <2>4. Balanced(pieces[1])
    <3>1. Region(line, 0, 1, Len(line))
      BY DEF Region
    <3>2. \A k \in 1..Len(pieces) : Balanced(pieces[k])
      <4>. DEFINE cut == Split(line, 1, Len(line), Cuts(line, tree, 0, delim))
      <4>1. \A k \in 1..Len(cut) : Balanced(cut[k])
        BY <1>1, <3>1, RegionPieces
      <4>2. cut = pieces
        BY <2>1
      <4>. HIDE DEF cut, pieces
      <4>. QED BY <4>1, <4>2
    <3>. HIDE DEF pieces
    <3>. QED BY <2>3, <3>2
  <2>5. res = Result(<<>>, <<pieces[1]>>, pieces[2])
    BY <2>1
  <2>6. pieces[1] \in Seq(S) /\ pieces[2] \in Seq(S) /\ <<>> \in Seq(S)
    <3>. HIDE DEF pieces
    <3>1. 1 \in 1..Len(pieces) /\ 2 \in 1..Len(pieces)
      BY <2>3
    <3>. QED BY <2>3, <3>1, ElementOfSeq
  <2>. HIDE DEF pieces, res, Fine
  <2>7. Fine(res)
    BY <1>4, <2>4, <2>5, <2>6
  <2>. QED BY <2>7 DEF Fine, res
<1>7. CASE res = Result(<<>>, <<line>>, <<>>)
  <2>1. Fine(res)
    <3>. HIDE DEF line, res, Fine
    <3>1. <<>> \in Seq(S)
      OBVIOUS
    <3>. QED BY <1>1, <1>2, <1>4, <1>7, <3>1
  <2>. QED BY <2>1 DEF Fine
<1>8. CASE res = Result(<<>>, <<raw>>, <<>>)
  <2>1. Fine(res)
    <3>. HIDE DEF line, res, Fine
    <3>1. <<>> \in Seq(S)
      OBVIOUS
    <3>. QED BY <1>2, <1>4, <1>8, <3>1
  <2>. QED BY <2>1 DEF Fine
<1>. QED BY <1>5, <1>6, <1>7, <1>8, ParseCases

\* parse strips the parts of Parse0 and drops the last one if nothing is left of it: no part
\* has a ")" of its own to cut at.
LEMMA ParseIsCleaned ==
    ASSUME NEW S, NEW raw \in Seq(S), ~Raises(raw)
    PROVE  LET res == Parse0(raw)
               n == Len(res.parts)
               kept == IF Strip(res.parts[n]) = <<>> THEN n - 1 ELSE n
           IN  /\ Parse(raw).prefix = Strip(res.prefix) /\ Parse(raw).postfix = Strip(res.postfix)
               /\ kept \in Nat
               /\ Parse(raw).parts = [k \in 1..kept |->
                                        Strip(IF k < n THEN res.parts[k] ELSE Strip(res.parts[n]))]
<1>. DEFINE res == Parse0(raw)
            n == Len(res.parts)
            last == Last(res.parts)
            cut == LoneClose(last)
            part == IF cut = {} THEN Strip(last) ELSE Strip(SubSeq(last, 1, Min(cut) - 1))
            tail == IF cut = {} THEN <<>> ELSE Strip(SubSeq(last, Min(cut) + 1, Len(last)))
            front == Front(res.parts)
            parts == front \o (IF part = <<>> THEN <<>> ELSE <<part>>)
            kept == IF Strip(res.parts[n]) = <<>> THEN n - 1 ELSE n
<1>1. /\ res.parts \in Seq(Seq(S)) /\ n \in Nat \ {0}
      /\ \A k \in 1..n : Balanced(res.parts[k])
  BY ParseSplits
<1>2. Parse(raw) = Result(Strip(res.prefix), [k \in DOMAIN parts |-> Strip(parts[k])],
                          Strip(IF tail = <<>> THEN res.postfix ELSE tail))
  BY DEF Parse, Cleaned
<1>3. last = res.parts[n] /\ last \in Seq(S) /\ Balanced(last)
  <2>1. last = res.parts[n]
    BY DEF Last
  <2>. HIDE DEF res, n, last
  <2>2. n \in 1..n
    BY <1>1
  <2>3. res.parts[n] \in Seq(S) /\ Balanced(res.parts[n])
    BY <1>1, <2>2, ElementOfSeq DEF n
  <2>. QED BY <2>1, <2>3
<1>4. cut = {}
  <2>. HIDE DEF last
  <2>. QED BY <1>3, NoLoneClose
<1>5. part = Strip(last) /\ tail = <<>>
  BY <1>4
<1>6. front \in Seq(Seq(S)) /\ Len(front) = n - 1 /\ \A k \in 1..n - 1 : front[k] = res.parts[k]
  <2>1. front = SubSeq(res.parts, 1, n - 1)
    BY DEF Front
  <2>. HIDE DEF res, front
  <2>2. 1 \in 1..Len(res.parts) + 1 /\ n - 1 \in 1 - 1..Len(res.parts)
    BY <1>1
  <2>3. /\ front \in Seq(Seq(S)) /\ Len(front) = n - 1 - 1 + 1
        /\ \A k \in 1..n - 1 - 1 + 1 : front[k] = res.parts[1 + k - 1]
    BY <1>1, <2>1, <2>2, SubLine
  <2>4. n - 1 - 1 + 1 = n - 1 /\ \A k \in 1..n - 1 : 1 + k - 1 = k
    BY <1>1
  <2>. HIDE DEF n
  <2>. QED BY <2>3, <2>4
<1>7. Strip(last) \in Seq(S)
  BY <1>3, BalancedStrip
<1>8. /\ DOMAIN parts = 1..kept /\ kept \in Nat
      /\ \A k \in 1..kept : parts[k] = IF k < n THEN res.parts[k] ELSE Strip(res.parts[n])
  <2>1. kept = IF part = <<>> THEN n - 1 ELSE n
    BY <1>3, <1>5
  <2>2. part = Strip(res.parts[n]) /\ part \in Seq(S)
    BY <1>3, <1>5, <1>7
  <2>. HIDE DEF part, front, kept, n, res
  <2>3. CASE part = <<>>
    <3>1. parts = front
      BY <1>6, <2>3, ConcatEmptySeq
    <3>2. DOMAIN front = 1..n - 1
      BY <1>6, LenProperties
    <3>. HIDE DEF parts
    <3>3. kept = n - 1 /\ \A k \in 1..kept : k < n /\ parts[k] = res.parts[k]
      BY <1>1, <1>6, <2>1, <2>3, <3>1
    <3>. QED BY <1>1, <3>1, <3>2, <3>3
  <2>4. CASE part # <<>>
    <3>1. parts = front \o <<part>>
      BY <2>4
    <3>2. <<part>> \in Seq(Seq(S)) /\ Len(<<part>>) = 1 /\ <<part>>[1] = part
      BY <2>2
    <3>. HIDE DEF parts
    <3>3. /\ parts \in Seq(Seq(S)) /\ Len(parts) = n - 1 + 1
          /\ \A k \in 1..n - 1 + 1 : parts[k] = IF k <= n - 1 THEN front[k] ELSE <<part>>[k - (n - 1)]
      BY <1>6, <3>1, <3>2, ConcatProperties
    <3>4. n - 1 + 1 = n /\ kept = n /\ DOMAIN parts = 1..n
      <4>1. n - 1 + 1 = n
        BY <1>1
      <4>. QED BY <2>1, <2>4, <3>3, <4>1, LenProperties
    <3>5. ASSUME NEW k \in 1..n
          PROVE  parts[k] = IF k < n THEN res.parts[k] ELSE Strip(res.parts[n])
      <4>1. CASE k < n
        <5>1. k \in 1..n - 1 /\ k <= n - 1 /\ k \in 1..n - 1 + 1
          BY <1>1, <4>1
        <5>. QED BY <1>6, <3>3, <4>1, <5>1
      <4>2. CASE k = n
        <5>1. ~(k <= n - 1) /\ k - (n - 1) = 1 /\ k \in 1..n - 1 + 1 /\ ~(k < n)
          BY <1>1, <4>2
        <5>2. parts[k] = <<part>>[1]
          BY <3>3, <5>1
        <5>. QED BY <2>2, <3>2, <5>1, <5>2
      <4>. QED BY <1>1, <4>1, <4>2
    <3>. QED BY <1>1, <3>4, <3>5
  <2>. QED BY <2>3, <2>4
<1>9. Parse(raw) = Result(Strip(res.prefix), [k \in DOMAIN parts |-> Strip(parts[k])], Strip(res.postfix))
  <2>. HIDE DEF parts, res
  <2>. QED BY <1>2, <1>5
<1>. HIDE DEF parts, res, n, kept
<1>10. [k \in DOMAIN parts |-> Strip(parts[k])]
            = [k \in 1..kept |-> Strip(IF k < n THEN res.parts[k] ELSE Strip(res.parts[n]))]
  BY <1>8
<1>11. /\ Parse(raw).prefix = Strip(res.prefix) /\ Parse(raw).postfix = Strip(res.postfix)
       /\ Parse(raw).parts = [k \in 1..kept |-> Strip(IF k < n THEN res.parts[k] ELSE Strip(res.parts[n]))]
  BY <1>9, <1>10 DEF Result
<1>. QED BY <1>8, <1>11 DEF res, n, kept

\* Every part has its brackets in pairs, and a blank one comes of a delimiter with nothing
\* before it (parser.py:378).
THEOREM PartsAreWhole ==
    \A S : \A raw \in Seq(S) : ~Raises(raw) =>
        /\ Parse(raw).prefix \in Seq(S) /\ Parse(raw).postfix \in Seq(S)
        /\ Parse(raw).parts \in Seq(Seq(S))
        /\ \A k \in DOMAIN Parse(raw).parts :
            LET part == Parse(raw).parts[k]
            IN  /\ Balanced(part)
                /\ part = <<>> => \E i \in DOMAIN raw : NoPartBefore(raw, i)
<1>. TAKE S
<1>. TAKE raw \in Seq(S)
<1>. HAVE ~Raises(raw)
<1>. DEFINE res == Parse0(raw)
            n == Len(res.parts)
            kept == IF Strip(res.parts[n]) = <<>> THEN n - 1 ELSE n
            Of(k) == Strip(IF k < n THEN res.parts[k] ELSE Strip(res.parts[n]))
<1>1. /\ res.prefix \in Seq(S) /\ res.postfix \in Seq(S)
      /\ res.parts \in Seq(Seq(S)) /\ n \in Nat \ {0}
      /\ \A k \in 1..n : Balanced(res.parts[k])
      /\ \A k \in 1..n - 1 :
            Strip(res.parts[k]) = <<>> => \E i \in DOMAIN raw : NoPartBefore(raw, i)
  BY ParseSplits
<1>2. /\ Parse(raw).prefix = Strip(res.prefix) /\ Parse(raw).postfix = Strip(res.postfix)
      /\ kept \in Nat /\ Parse(raw).parts = [k \in 1..kept |-> Of(k)]
  BY ParseIsCleaned
<1>3. kept \in {n - 1, n} /\ (kept = n => Strip(res.parts[n]) # <<>>)
  BY <1>1
<1>4. \A k \in 1..n : res.parts[k] \in Seq(S) /\ Balanced(res.parts[k])
  BY <1>1, ElementOfSeq
<1>. HIDE DEF res, n, kept
<1>5. ASSUME NEW k \in 1..kept
      PROVE  /\ Of(k) \in Seq(S) /\ Balanced(Of(k))
             /\ Of(k) = <<>> => \E i \in DOMAIN raw : NoPartBefore(raw, i)
  <2>1. CASE k < n
    <3>1. k \in 1..n - 1 /\ k \in 1..n
      BY <1>1, <2>1
    <3>2. Of(k) = Strip(res.parts[k])
      BY <2>1
    <3>3. Strip(res.parts[k]) \in Seq(S) /\ Balanced(Strip(res.parts[k]))
      BY <1>4, <3>1, BalancedStrip
    <3>. HIDE DEF Of
    <3>. QED BY <1>1, <3>1, <3>2, <3>3
  <2>2. CASE ~(k < n)
    <3>1. k = n /\ kept = n /\ n \in 1..n
      BY <1>1, <1>2, <1>3, <2>2
    <3>2. Of(k) = Strip(Strip(res.parts[n]))
      BY <2>2
    <3>3. res.parts[n] \in Seq(S) /\ Balanced(res.parts[n]) /\ Strip(res.parts[n]) # <<>>
      BY <1>3, <1>4, <3>1
    <3>4. Strip(res.parts[n]) \in Seq(S) /\ Balanced(Strip(res.parts[n]))
      BY <3>3, BalancedStrip
    <3>5. Strip(Strip(res.parts[n])) \in Seq(S) /\ Balanced(Strip(Strip(res.parts[n])))
      BY <3>4, BalancedStrip
    <3>6. Strip(Strip(res.parts[n])) # <<>>
      BY <3>3, StripTwice
    <3>. HIDE DEF Of
    <3>. QED BY <3>2, <3>5, <3>6
  <2>. QED BY <2>1, <2>2
<1>. HIDE DEF Of
<1>6. Parse(raw).parts \in Seq(Seq(S)) /\ DOMAIN Parse(raw).parts = 1..kept
      /\ \A k \in 1..kept : Parse(raw).parts[k] = Of(k)
  <2>1. [k \in 1..kept |-> Of(k)] \in [1..kept -> Seq(S)]
    BY <1>5
  <2>2. [k \in 1..kept |-> Of(k)] \in Seq(Seq(S))
    BY <1>2, <2>1, FunctionIsSeq
  <2>. QED BY <1>2, <2>2
<1>7. Parse(raw).prefix \in Seq(S) /\ Parse(raw).postfix \in Seq(S)
  BY <1>1, <1>2, BalancedStrip
<1>. QED BY <1>5, <1>6, <1>7

-----------------------------------------------------------------------------
(* The letters of a line                                                    *)

Regrouped(a, b, c) == (a \o b) \o c = a \o (b \o c)
LEMMA Associative ==
    ASSUME NEW S, NEW a \in Seq(S), NEW b \in Seq(S), NEW c \in Seq(S)
    PROVE  Regrouped(a, b, c)
BY ConcatAssociative DEF Regrouped

\* Two sequences one after the other are flattened one after the other.
LEMMA FlattenConcat ==
    ASSUME NEW S, NEW ss \in Seq(Seq(S)), NEW tt \in Seq(Seq(S))
    PROVE  /\ ss \o tt \in Seq(Seq(S))
           /\ FlattenSeq(ss \o tt) = FlattenSeq(ss) \o FlattenSeq(tt)
<1>. DEFINE both == ss \o tt
            m == Len(ss)
            n == Len(tt)
<1>1. /\ m \in Nat /\ n \in Nat /\ both \in Seq(Seq(S)) /\ Len(both) = m + n
      /\ \A i \in 1..m : both[i] = ss[i]
      /\ \A i \in 1..n : both[m + i] = tt[i]
  <2>1. /\ m \in Nat /\ n \in Nat /\ both \in Seq(Seq(S)) /\ Len(both) = m + n
        /\ \A k \in 1..m + n : both[k] = IF k <= m THEN ss[k] ELSE tt[k - m]
    BY ConcatProperties, LenProperties
  <2>. HIDE DEF both, m, n
  <2>2. \A i \in 1..m : both[i] = ss[i]
    BY <2>1
  <2>3. ASSUME NEW i \in 1..n PROVE both[m + i] = tt[i]
    <3>1. m + i \in 1..m + n /\ ~(m + i <= m) /\ (m + i) - m = i
      BY <2>1
    <3>. QED BY <2>1, <3>1
  <2>. QED BY <2>1, <2>2, <2>3
<1>2. PICK fs : fs \in [0..Len(ss) -> Seq(S)] /\ Flattens(ss, fs)
  BY FlattenSteps
<1>3. PICK ft : ft \in [0..Len(tt) -> Seq(S)] /\ Flattens(tt, ft)
  BY FlattenSteps
<1>4. PICK fb : fb \in [0..Len(both) -> Seq(S)] /\ Flattens(both, fb)
  <2>. HIDE DEF both
  <2>. QED BY <1>1, FlattenSteps
<1>5. /\ fs[0] = <<>> /\ \A i \in 1..m : fs[i] = fs[i - 1] \o ss[i]
      /\ FlattenSeq(ss) = fs[m]
  BY <1>2 DEF Flattens
<1>6. /\ ft[0] = <<>> /\ \A i \in 1..n : ft[i] = ft[i - 1] \o tt[i]
      /\ FlattenSeq(tt) = ft[n]
  BY <1>3 DEF Flattens
<1>7. /\ fb[0] = <<>> /\ \A i \in 1..m + n : fb[i] = fb[i - 1] \o both[i]
      /\ FlattenSeq(both) = fb[m + n]
  <2>. HIDE DEF both
  <2>. QED BY <1>1, <1>4 DEF Flattens
<1>8. ft \in [0..n -> Seq(S)] /\ fs \in [0..m -> Seq(S)] /\ \A i \in 1..n : tt[i] \in Seq(S)
  BY <1>2, <1>3, ElementOfSeq
<1>. HIDE DEF both, m, n
<1>. DEFINE B == {i \in 0..m : fb[i] = fs[i]}
            C == {i \in 0..n : fb[m + i] = fs[m] \o ft[i]}
<1>9. \A i \in 0..m : i \in B
  <2>1. 0 \in B
    BY <1>1, <1>5, <1>7
  <2>2. ASSUME NEW i \in 1..m, i - 1 \in B PROVE i \in B
    <3>1. i \in 0..m /\ i \in 1..m + n
      BY <1>1
    <3>. QED BY <1>1, <1>5, <1>7, <2>2, <3>1
  <2>. HIDE DEF B
  <2>. QED BY <1>1, <2>1, <2>2, UpTo
<1>10. \A i \in 0..n : i \in C
  <2>1. 0 \in C
    <3>1. m \in 0..m /\ 0 \in 0..n /\ m + 0 = m
      BY <1>1
    <3>2. fs[m] \in Seq(S)
      BY <1>8, <3>1
    <3>3. fs[m] \o <<>> = fs[m]
      BY <3>2, ConcatEmptySeq
    <3>. QED BY <1>6, <1>9, <3>1, <3>3
  <2>2. ASSUME NEW i \in 1..n, i - 1 \in C PROVE i \in C
    <3>1. i \in 0..n /\ m + i \in 1..m + n /\ (m + i) - 1 = m + (i - 1) /\ i - 1 \in 0..n /\ m \in 0..m
      BY <1>1
    <3>2. fb[m + i] = (fs[m] \o ft[i - 1]) \o tt[i]
      BY <1>1, <1>7, <2>2, <3>1
    <3>3. fs[m] \in Seq(S) /\ ft[i - 1] \in Seq(S) /\ tt[i] \in Seq(S)
      BY <1>8, <3>1
    <3>4. (fs[m] \o ft[i - 1]) \o tt[i] = fs[m] \o (ft[i - 1] \o tt[i])
      <4>1. Regrouped(fs[m], ft[i - 1], tt[i])
        BY <3>3, Associative, Zenon
      <4>. QED BY <4>1, Zenon DEF Regrouped
    <3>5. ft[i] = ft[i - 1] \o tt[i]
      BY <1>6
    <3>6. fb[m + i] = fs[m] \o ft[i]
      BY <3>2, <3>4, <3>5, Zenon
    <3>. QED BY <3>1, <3>6
  <2>. HIDE DEF C
  <2>. QED BY <1>1, <2>1, <2>2, UpTo
<1>11. fb[m + n] = fs[m] \o ft[n]
  <2>1. n \in 0..n
    BY <1>1
  <2>2. n \in C
    <3>. HIDE DEF C
    <3>. QED BY <1>10, <2>1
  <2>. QED BY <2>2
<1>. QED BY <1>1, <1>5, <1>6, <1>7, <1>11 DEF both

LEMMA FlattenOne ==
    ASSUME NEW S, NEW x \in Seq(S)
    PROVE  <<x>> \in Seq(Seq(S)) /\ FlattenSeq(<<x>>) = x
<1>1. <<x>> \in Seq(Seq(S)) /\ Len(<<x>>) = 1 /\ <<x>>[1] = x
  OBVIOUS
<1>2. PICK f \in [0..Len(<<x>>) -> Seq(S)] : Flattens(<<x>>, f)
  BY <1>1, FlattenSteps
<1>3. f[0] = <<>> /\ f[1] = f[0] \o <<x>>[1] /\ FlattenSeq(<<x>>) = f[1]
  <2>1. 1 - 1 = 0 /\ 1 \in 1..1
    OBVIOUS
  <2>. QED BY <1>1, <1>2, <2>1 DEF Flattens
<1>4. <<>> \o x = x
  BY ConcatEmptySeq
<1>. QED BY <1>1, <1>3, <1>4

LetterAt(line) == [i \in DOMAIN line |-> IF line[i] \in Letters THEN <<line[i]>> ELSE <<>>]

LEMMA LettersType ==
    ASSUME NEW S, NEW line \in Seq(S)
    PROVE  /\ LettersOf(line) = FlattenSeq(LetterAt(line))
           /\ LetterAt(line) \in Seq(Seq(S)) /\ Len(LetterAt(line)) = Len(line)
           /\ DOMAIN LetterAt(line) = 1..Len(line)
           /\ LettersOf(line) \in Seq(S)
<1>1. Len(line) \in Nat /\ DOMAIN line = 1..Len(line) /\ \A i \in 1..Len(line) : line[i] \in S
  BY LenProperties, ElementOfSeq
<1>2. LetterAt(line) \in [1..Len(line) -> Seq(S)]
  <2>1. ASSUME NEW i \in 1..Len(line)
        PROVE  (IF line[i] \in Letters THEN <<line[i]>> ELSE <<>>) \in Seq(S)
    BY <1>1
  <2>. QED BY <1>1, <2>1 DEF LetterAt
<1>3. LetterAt(line) \in Seq(Seq(S)) /\ Len(LetterAt(line)) = Len(line)
  BY <1>1, <1>2, FunctionIsSeq
<1>4. LettersOf(line) = FlattenSeq(LetterAt(line))
  BY DEF LettersOf, LetterAt
<1>. QED BY <1>2, <1>3, <1>4, FlattenMembers

LEMMA LettersConcat ==
    ASSUME NEW S, NEW a \in Seq(S), NEW b \in Seq(S)
    PROVE  LettersOf(a \o b) = LettersOf(a) \o LettersOf(b)
<1>1. /\ a \o b \in Seq(S) /\ Len(a) \in Nat /\ Len(b) \in Nat /\ Len(a \o b) = Len(a) + Len(b)
      /\ \A k \in 1..Len(a) + Len(b) : (a \o b)[k] = IF k <= Len(a) THEN a[k] ELSE b[k - Len(a)]
      /\ DOMAIN (a \o b) = 1..Len(a) + Len(b)
      /\ DOMAIN a = 1..Len(a) /\ DOMAIN b = 1..Len(b)
  BY ConcatProperties, LenProperties
<1>. DEFINE x == LetterAt(a)
            y == LetterAt(b)
            z == LetterAt(a \o b)
<1>2. /\ x \in Seq(Seq(S)) /\ Len(x) = Len(a) /\ y \in Seq(Seq(S)) /\ Len(y) = Len(b)
      /\ z \in Seq(Seq(S)) /\ Len(z) = Len(a) + Len(b)
  BY <1>1, LettersType
<1>3. /\ x \o y \in Seq(Seq(S)) /\ Len(x \o y) = Len(a) + Len(b)
      /\ \A k \in 1..Len(a) + Len(b) : (x \o y)[k] = IF k <= Len(a) THEN x[k] ELSE y[k - Len(a)]
  <2>. HIDE DEF x, y
  <2>1. /\ x \o y \in Seq(Seq(S)) /\ Len(x \o y) = Len(x) + Len(y)
        /\ \A k \in 1..Len(x) + Len(y) : (x \o y)[k] = IF k <= Len(x) THEN x[k] ELSE y[k - Len(x)]
    <3>1. x \in Seq(Seq(S)) /\ y \in Seq(Seq(S))
      BY <1>2
    <3>2. \A p, q \in Seq(Seq(S)) :
            /\ p \o q \in Seq(Seq(S)) /\ Len(p \o q) = Len(p) + Len(q)
            /\ \A k \in 1..Len(p) + Len(q) : (p \o q)[k] = IF k <= Len(p) THEN p[k] ELSE q[k - Len(p)]
      BY ConcatProperties
    <3>. QED BY <3>1, <3>2, Zenon
  <2>2. Len(x) = Len(a) /\ Len(y) = Len(b)
    BY <1>2
  <2>. QED BY <2>1, <2>2
<1>4. ASSUME NEW k \in 1..Len(a) + Len(b) PROVE z[k] = (x \o y)[k]
  <2>1. z[k] = IF (a \o b)[k] \in Letters THEN <<(a \o b)[k]>> ELSE <<>>
    BY <1>1 DEF LetterAt
  <2>2. CASE k <= Len(a)
    <3>1. k \in DOMAIN a
      BY <1>1, <2>2
    <3>2. x[k] = IF a[k] \in Letters THEN <<a[k]>> ELSE <<>>
      BY <3>1 DEF LetterAt
    <3>. QED BY <1>1, <1>3, <2>1, <2>2, <3>2
  <2>3. CASE ~(k <= Len(a))
    <3>1. k - Len(a) \in DOMAIN b
      BY <1>1, <2>3
    <3>2. y[k - Len(a)] = IF b[k - Len(a)] \in Letters THEN <<b[k - Len(a)]>> ELSE <<>>
      BY <3>1 DEF LetterAt
    <3>. QED BY <1>1, <1>3, <2>1, <2>3, <3>2
  <2>. QED BY <2>2, <2>3
<1>. HIDE DEF x, y, z
<1>5. z = x \o y
  BY <1>2, <1>3, <1>4, SeqEqual
<1>6. FlattenSeq(z) = FlattenSeq(x) \o FlattenSeq(y)
  BY <1>2, <1>5, FlattenConcat
<1>7. LettersOf(a \o b) = FlattenSeq(z) /\ LettersOf(a) = FlattenSeq(x) /\ LettersOf(b) = FlattenSeq(y)
  BY <1>1, LettersType DEF x, y, z
<1>. QED BY <1>6, <1>7

\* A line without a letter has none.
LEMMA LettersNone ==
    ASSUME NEW S, NEW line \in Seq(S), \A i \in 1..Len(line) : line[i] \notin Letters
    PROVE  LettersOf(line) = <<>>
<1>. DEFINE at == LetterAt(line)
<1>1. /\ LettersOf(line) = FlattenSeq(at) /\ at \in Seq(Seq(S)) /\ Len(at) = Len(line)
      /\ Len(line) \in Nat /\ DOMAIN line = 1..Len(line)
  BY LettersType, LenProperties
<1>2. \A i \in 1..Len(line) : at[i] = <<>>
  BY <1>1 DEF LetterAt
<1>. HIDE DEF at
<1>3. PICK f \in [0..Len(at) -> Seq(S)] : Flattens(at, f)
  BY <1>1, FlattenSteps
<1>. DEFINE B == {i \in 0..Len(line) : f[i] = <<>>}
<1>4. 0 \in B
  BY <1>1, <1>3 DEF Flattens
<1>5. ASSUME NEW i \in 1..Len(line), i - 1 \in B PROVE i \in B
  <2>1. f[i] = f[i - 1] \o at[i]
    BY <1>1, <1>3 DEF Flattens
  <2>2. f[i] = <<>> \o <<>>
    BY <1>2, <1>5, <2>1
  <2>3. <<>> \o <<>> = <<>>
    OBVIOUS
  <2>. QED BY <2>2, <2>3
<1>6. \A i \in 0..Len(line) : i \in B
  <2>. HIDE DEF B
  <2>. QED BY <1>1, <1>4, <1>5, UpTo
<1>. QED BY <1>1, <1>3, <1>6 DEF Flattens

-----------------------------------------------------------------------------
(* Splitting keeps the letters                                              *)

LEMMA SubSeqJoin ==
    ASSUME NEW S, NEW line \in Seq(S), NEW a \in 1..Len(line) + 1, NEW b \in a - 1..Len(line),
           NEW c \in b..Len(line)
    PROVE  SubSeq(line, a, c) = SubSeq(line, a, b) \o SubSeq(line, b + 1, c)
<1>. DEFINE x == SubSeq(line, a, b)
            y == SubSeq(line, b + 1, c)
            z == SubSeq(line, a, c)
<1>1. Len(line) \in Nat
  BY LenProperties
<1>2. c \in a - 1..Len(line) /\ b + 1 \in 1..Len(line) + 1 /\ c \in (b + 1) - 1..Len(line)
  BY <1>1
<1>3. /\ x \in Seq(S) /\ Len(x) = b - a + 1 /\ \A i \in 1..b - a + 1 : x[i] = line[a + i - 1]
      /\ y \in Seq(S) /\ Len(y) = c - (b + 1) + 1
      /\ \A i \in 1..c - (b + 1) + 1 : y[i] = line[(b + 1) + i - 1]
      /\ z \in Seq(S) /\ Len(z) = c - a + 1 /\ \A i \in 1..c - a + 1 : z[i] = line[a + i - 1]
  BY <1>2, SubLine
<1>. HIDE DEF x, y, z
<1>4. /\ x \o y \in Seq(S) /\ Len(x \o y) = Len(x) + Len(y)
      /\ \A i \in 1..Len(x) + Len(y) : (x \o y)[i] = IF i <= Len(x) THEN x[i] ELSE y[i - Len(x)]
  BY <1>3, ConcatProperties
<1>5. Len(x) + Len(y) = c - a + 1 /\ Len(x) = b - a + 1
  BY <1>1, <1>2, <1>3
<1>6. ASSUME NEW i \in 1..c - a + 1 PROVE (x \o y)[i] = z[i]
  <2>1. CASE i <= b - a + 1
    <3>1. i \in 1..b - a + 1
      BY <1>1, <2>1
    <3>2. x[i] = line[a + i - 1]
      BY <1>3, <3>1
    <3>3. (x \o y)[i] = x[i]
      BY <1>4, <1>5, <2>1
    <3>. QED BY <1>3, <3>2, <3>3
  <2>2. CASE ~(i <= b - a + 1)
    <3>1. i - (b - a + 1) \in 1..c - (b + 1) + 1 /\ (b + 1) + (i - (b - a + 1)) - 1 = a + i - 1
      BY <1>1, <1>2, <2>2
    <3>2. y[i - (b - a + 1)] = line[a + i - 1]
      BY <1>3, <3>1
    <3>3. (x \o y)[i] = y[i - (b - a + 1)]
      BY <1>4, <1>5, <2>2
    <3>. QED BY <1>3, <3>2, <3>3
  <2>. QED BY <2>1, <2>2
<1>7. Len(x \o y) = Len(z)
  BY <1>3, <1>4, <1>5
<1>8. \A i \in 1..Len(z) : (x \o y)[i] = z[i]
  BY <1>3, <1>6
<1>9. x \o y = z
  BY <1>3, <1>4, <1>7, <1>8, SeqEqual
<1>. QED BY <1>9 DEF x, y, z

LEMMA LettersJoin ==
    ASSUME NEW S, NEW line \in Seq(S), NEW a \in 1..Len(line) + 1, NEW b \in a - 1..Len(line),
           NEW c \in b..Len(line)
    PROVE  LettersOf(SubSeq(line, a, c))
                = LettersOf(SubSeq(line, a, b)) \o LettersOf(SubSeq(line, b + 1, c))
<1>1. Len(line) \in Nat
  BY LenProperties
<1>2. b + 1 \in 1..Len(line) + 1 /\ c \in (b + 1) - 1..Len(line)
  BY <1>1
<1>3. SubSeq(line, a, b) \in Seq(S) /\ SubSeq(line, b + 1, c) \in Seq(S)
  BY <1>2, SubLine
<1>4. SubSeq(line, a, c) = SubSeq(line, a, b) \o SubSeq(line, b + 1, c)
  BY SubSeqJoin
<1>. DEFINE x == SubSeq(line, a, b)
            y == SubSeq(line, b + 1, c)
<1>. HIDE DEF x, y
<1>5. x \in Seq(S) /\ y \in Seq(S) /\ SubSeq(line, a, c) = x \o y
  BY <1>3, <1>4 DEF x, y
<1>6. LettersOf(x \o y) = LettersOf(x) \o LettersOf(y)
  BY <1>5, LettersConcat
<1>. QED BY <1>5, <1>6 DEF x, y

LEMMA LettersGap ==
    ASSUME NEW S, NEW line \in Seq(S), NEW a \in 1..Len(line) + 1, NEW b \in a - 1..Len(line),
           \A i \in a..b : line[i] \notin Letters
    PROVE  LettersOf(SubSeq(line, a, b)) = <<>>
<1>. DEFINE x == SubSeq(line, a, b)
<1>1. Len(line) \in Nat
  BY LenProperties
<1>2. x \in Seq(S) /\ Len(x) = b - a + 1 /\ \A i \in 1..b - a + 1 : x[i] = line[a + i - 1]
  BY SubLine
<1>. HIDE DEF x
<1>3. ASSUME NEW i \in 1..Len(x) PROVE x[i] \notin Letters
  <2>1. i \in 1..b - a + 1 /\ a + i - 1 \in a..b
    BY <1>1, <1>2
  <2>. QED BY <1>2, <2>1
<1>4. LettersOf(x) = <<>>
  BY <1>2, <1>3, LettersNone
<1>. QED BY <1>4 DEF x

\* What has no letters may be left out at either end.
LEMMA LettersAhead ==
    ASSUME NEW S, NEW line \in Seq(S), NEW a \in 1..Len(line) + 1, NEW b \in a - 1..Len(line),
           NEW c \in b..Len(line), \A i \in b + 1..c : line[i] \notin Letters
    PROVE  LettersOf(SubSeq(line, a, c)) = LettersOf(SubSeq(line, a, b))
<1>1. Len(line) \in Nat
  BY LenProperties
<1>2. b + 1 \in 1..Len(line) + 1 /\ c \in (b + 1) - 1..Len(line)
  BY <1>1
<1>3. LettersOf(SubSeq(line, b + 1, c)) = <<>>
  BY <1>2, LettersGap
<1>4. LettersOf(SubSeq(line, a, c)) = LettersOf(SubSeq(line, a, b)) \o <<>>
  BY <1>3, LettersJoin
<1>5. LettersOf(SubSeq(line, a, b)) \in Seq(S)
  BY SubLine, LettersType
<1>. QED BY <1>4, <1>5, ConcatEmptySeq

LEMMA LettersBehind ==
    ASSUME NEW S, NEW line \in Seq(S), NEW a \in 1..Len(line) + 1, NEW b \in a - 1..Len(line),
           NEW c \in b..Len(line), \A i \in a..b : line[i] \notin Letters
    PROVE  LettersOf(SubSeq(line, a, c)) = LettersOf(SubSeq(line, b + 1, c))
<1>1. Len(line) \in Nat
  BY LenProperties
<1>2. b + 1 \in 1..Len(line) + 1 /\ c \in (b + 1) - 1..Len(line)
  BY <1>1
<1>3. LettersOf(SubSeq(line, a, b)) = <<>>
  BY LettersGap
<1>4. LettersOf(SubSeq(line, a, c)) = <<>> \o LettersOf(SubSeq(line, b + 1, c))
  BY <1>3, LettersJoin
<1>5. LettersOf(SubSeq(line, b + 1, c)) \in Seq(S)
  BY <1>2, SubLine, LettersType
<1>. QED BY <1>4, <1>5, ConcatEmptySeq

LEMMA LettersAcross ==
    ASSUME NEW S, NEW line \in Seq(S), NEW a \in 1..Len(line) + 1, NEW p \in a..Len(line),
           NEW c \in p..Len(line), line[p] \notin Letters
    PROVE  LettersOf(SubSeq(line, a, c))
                = LettersOf(SubSeq(line, a, p - 1)) \o LettersOf(SubSeq(line, p + 1, c))
<1>1. Len(line) \in Nat
  BY LenProperties
<1>2. /\ p - 1 \in a - 1..Len(line) /\ c \in p - 1..Len(line) /\ (p - 1) + 1 = p
      /\ p \in 1..Len(line) + 1 /\ p \in p - 1..Len(line) /\ \A i \in p..p : i = p
  BY <1>1
<1>3. LettersOf(SubSeq(line, a, c))
            = LettersOf(SubSeq(line, a, p - 1)) \o LettersOf(SubSeq(line, p, c))
  <2>. DEFINE b == p - 1
  <2>1. b \in a - 1..Len(line) /\ c \in b..Len(line) /\ b + 1 = p
    BY <1>2
  <2>. HIDE DEF b
  <2>2. LettersOf(SubSeq(line, a, c)) = LettersOf(SubSeq(line, a, b)) \o LettersOf(SubSeq(line, b + 1, c))
    BY <2>1, LettersJoin
  <2>. QED BY <2>1, <2>2 DEF b
<1>4. LettersOf(SubSeq(line, p, c)) = LettersOf(SubSeq(line, p + 1, c))
  BY <1>2, LettersBehind
<1>. QED BY <1>3, <1>4

\* Blanks around a line are no letters.
LEMMA LettersStrip ==
    ASSUME NEW S, NEW line \in Seq(S)
    PROVE  LettersOf(Strip(line)) = LettersOf(line)
<1>0. PICK lo \in 1..Len(line) + 1 : \E hi \in lo - 1..Len(line) : StripsTo(line, lo, hi)
  BY StripIsPart
<1>1. PICK hi \in lo - 1..Len(line) : StripsTo(line, lo, hi)
  BY <1>0
<1>2. Len(line) \in Nat /\ DOMAIN line = 1..Len(line)
  BY LenProperties
<1>3. Blank \notin Letters
  BY SymbolAssumption
<1>4. \A i \in 1..Len(line) : i < lo \/ hi < i => line[i] \notin Letters
  BY <1>1, <1>2, <1>3 DEF StripsTo
<1>5. LettersOf(SubSeq(line, 1, Len(line))) = LettersOf(SubSeq(line, lo, Len(line)))
  <2>. DEFINE b == lo - 1
  <2>1. /\ 1 \in 1..Len(line) + 1 /\ b \in 1 - 1..Len(line) /\ Len(line) \in b..Len(line)
        /\ \A i \in 1..b : line[i] \notin Letters
    BY <1>2, <1>4
  <2>2. b + 1 = lo
    BY <1>2
  <2>. HIDE DEF b
  <2>3. LettersOf(SubSeq(line, 1, Len(line))) = LettersOf(SubSeq(line, b + 1, Len(line)))
    BY <2>1, LettersBehind
  <2>. QED BY <2>2, <2>3
<1>6. LettersOf(SubSeq(line, lo, Len(line))) = LettersOf(SubSeq(line, lo, hi))
  <2>1. Len(line) \in hi..Len(line) /\ \A i \in hi + 1..Len(line) : line[i] \notin Letters
    BY <1>2, <1>4
  <2>. QED BY <2>1, LettersAhead
<1>7. SubSeq(line, 1, Len(line)) = line
  BY SubSeqFull
<1>. QED BY <1>1, <1>5, <1>6, <1>7 DEF StripsTo

\* Cutting a part of a line at symbols that are no letters keeps its letters.
LEMMA LettersSplit ==
    ASSUME NEW S, NEW line \in Seq(S), NEW first \in 1..Len(line) + 1,
           NEW last \in first - 1..Len(line), NEW cuts, cuts \subseteq first..last,
           \A x \in cuts : line[x] \notin Letters
    PROVE  LettersOf(FlattenSeq(Split(line, first, last, cuts))) = LettersOf(SubSeq(line, first, last))
<1>. DEFINE pieces == Split(line, first, last, cuts)
            bounds == Bounds(first, last, cuts)
            n == Len(pieces)
<1>1. pieces \in Seq(Seq(S)) /\ CutAt(line, first, last, cuts, bounds, pieces)
  BY SplitPieces
<1>2. Len(line) \in Nat /\ n \in Nat
  BY <1>1, LenProperties
<1>. HIDE DEF pieces, bounds, n
<1>3. /\ Len(bounds) \in Nat /\ n = Len(bounds) - 1 /\ n >= 1
      /\ bounds[1] = first - 1 /\ bounds[Len(bounds)] = last + 1
      /\ \A k \in 1..n :
            /\ bounds[k] \in {first - 1} \cup cuts /\ bounds[k + 1] \in {last + 1} \cup cuts
            /\ bounds[k] < bounds[k + 1]
            /\ pieces[k] = SubSeq(line, bounds[k] + 1, bounds[k + 1] - 1)
  <2>1. n = Len(pieces)
    BY DEF n
  <2>2. /\ Len(bounds) \in Nat /\ Len(bounds) >= 2 /\ n = Len(bounds) - 1
        /\ bounds[1] = first - 1 /\ bounds[Len(bounds)] = last + 1
    BY <1>1, <2>1 DEF CutAt
  <2>3. \A k \in 1..Len(pieces) :
            /\ bounds[k] \in {first - 1} \cup cuts /\ bounds[k + 1] \in {last + 1} \cup cuts
            /\ bounds[k] < bounds[k + 1]
            /\ pieces[k] = SubSeq(line, bounds[k] + 1, bounds[k + 1] - 1)
    BY <1>1 DEF CutAt
  <2>4. n >= 1
    BY <2>2
  <2>. QED BY <2>1, <2>2, <2>3, <2>4
<1>4. PICK f : f \in [0..n -> Seq(S)] /\ Flattens(pieces, f)
  <2>1. \E f \in [0..Len(pieces) -> Seq(S)] : Flattens(pieces, f)
    BY <1>1, FlattenSteps
  <2>. QED BY <2>1 DEF n
<1>5. /\ f[0] = <<>> /\ \A k \in 1..n : f[k] = f[k - 1] \o pieces[k]
      /\ FlattenSeq(pieces) = f[n]
  BY <1>4 DEF Flattens, n
<1>. DEFINE B == {k \in 0..n : LettersOf(f[k]) = LettersOf(SubSeq(line, first, bounds[k + 1] - 1))}
<1>6. 0 \in B
  <2>1. bounds[0 + 1] - 1 = first - 2 /\ first > first - 2
    BY <1>2, <1>3
  <2>2. SubSeq(line, first, bounds[0 + 1] - 1) = <<>>
    BY <1>2, <2>1, SubSeqEmpty
  <2>3. f[0] = <<>>
    BY <1>5
  <2>4. LettersOf(f[0]) = LettersOf(SubSeq(line, first, bounds[0 + 1] - 1))
    BY <2>2, <2>3, Zenon
  <2>5. 0 \in 0..n
    BY <1>2
  <2>. QED BY <2>4, <2>5
<1>7. ASSUME NEW k \in 1..n, k - 1 \in B PROVE k \in B
  <2>. DEFINE p == bounds[k]
              q == bounds[k + 1]
  <2>1. /\ p \in {first - 1} \cup cuts /\ q \in {last + 1} \cup cuts /\ p < q
        /\ pieces[k] = SubSeq(line, p + 1, q - 1)
    BY <1>3
  <2>2. (k - 1) + 1 = k
    BY <1>2
  <2>3. LettersOf(f[k - 1]) = LettersOf(SubSeq(line, first, p - 1))
    BY <1>7, <2>2
  <2>4. LettersOf(f[k]) = LettersOf(f[k - 1]) \o LettersOf(pieces[k])
    <3>1. k - 1 \in 0..n /\ k \in 1..n
      BY <1>2
    <3>2. f[k - 1] \in Seq(S) /\ pieces[k] \in Seq(S) /\ f[k] = f[k - 1] \o pieces[k]
      BY <1>1, <1>4, <1>5, <3>1, ElementOfSeq DEF n
    <3>. QED BY <3>2, LettersConcat
  <2>. HIDE DEF p, q
  <2>5. LettersOf(f[k]) = LettersOf(SubSeq(line, first, p - 1)) \o LettersOf(SubSeq(line, p + 1, q - 1))
    BY <2>1, <2>3, <2>4
  <2>6. LettersOf(f[k]) = LettersOf(SubSeq(line, first, q - 1))
    <3>1. CASE p \in cuts
      <4>. DEFINE c == q - 1
      <4>1. p \in first..Len(line) /\ c \in p..Len(line) /\ line[p] \notin Letters
        BY <1>2, <2>1, <3>1
      <4>. HIDE DEF c
      <4>2. LettersOf(SubSeq(line, first, c)) = LettersOf(SubSeq(line, first, p - 1)) \o LettersOf(SubSeq(line, p + 1, c))
        BY <4>1, LettersAcross
      <4>. QED BY <2>5, <4>2 DEF c
    <3>2. CASE p = first - 1
      <4>1. p + 1 = first /\ first > p - 1 /\ q - 1 \in first - 1..Len(line)
        BY <1>2, <2>1, <3>2
      <4>2. SubSeq(line, first, p - 1) = <<>>
        BY <1>2, <3>2, <4>1, SubSeqEmpty
      <4>3. LettersOf(<<>>) = <<>>
        <5>1. <<>> \in Seq(S) /\ \A i \in 1..Len(<<>>) : <<>>[i] \notin Letters
          OBVIOUS
        <5>. QED BY <5>1, LettersNone
      <4>4. LettersOf(SubSeq(line, first, q - 1)) \in Seq(S)
        BY <4>1, SubLine, LettersType
      <4>5. <<>> \o LettersOf(SubSeq(line, first, q - 1)) = LettersOf(SubSeq(line, first, q - 1))
        BY <4>4, ConcatEmptySeq
      <4>. QED BY <2>5, <4>1, <4>2, <4>3, <4>5
    <3>. QED BY <2>1, <3>1, <3>2
  <2>7. k \in 0..n
    BY <1>2
  <2>. QED BY <2>6, <2>7 DEF q
<1>8. \A k \in 0..n : k \in B
  <2>. HIDE DEF B
  <2>. QED BY <1>2, <1>6, <1>7, UpTo
<1>9. bounds[n + 1] - 1 = last /\ n \in 0..n
  <2>1. n + 1 = Len(bounds)
    BY <1>3
  <2>. QED BY <1>2, <1>3, <2>1
<1>10. LettersOf(f[n]) = LettersOf(SubSeq(line, first, last))
  BY <1>8, <1>9
<1>. QED BY <1>5, <1>10 DEF pieces

\* Sequences whose members have the same letters are flattened to such.
LEMMA LettersAlike ==
    ASSUME NEW S, NEW ss \in Seq(Seq(S)), NEW tt \in Seq(Seq(S)), Len(ss) = Len(tt),
           \A k \in 1..Len(ss) : LettersOf(ss[k]) = LettersOf(tt[k])
    PROVE  LettersOf(FlattenSeq(ss)) = LettersOf(FlattenSeq(tt))
<1>. DEFINE n == Len(ss)
<1>1. n \in Nat /\ n = Len(tt) /\ \A k \in 1..n : ss[k] \in Seq(S) /\ tt[k] \in Seq(S)
  BY LenProperties, ElementOfSeq
<1>2. PICK f : f \in [0..Len(ss) -> Seq(S)] /\ Flattens(ss, f)
  BY FlattenSteps
<1>3. PICK g : g \in [0..Len(tt) -> Seq(S)] /\ Flattens(tt, g)
  BY FlattenSteps
<1>4. /\ f[0] = <<>> /\ \A k \in 1..n : f[k] = f[k - 1] \o ss[k]
      /\ FlattenSeq(ss) = f[n]
  BY <1>2 DEF Flattens
<1>5. /\ g[0] = <<>> /\ \A k \in 1..n : g[k] = g[k - 1] \o tt[k]
      /\ FlattenSeq(tt) = g[n]
  BY <1>1, <1>3 DEF Flattens
<1>6. f \in [0..n -> Seq(S)] /\ g \in [0..n -> Seq(S)]
  BY <1>1, <1>2, <1>3
<1>7. \A k \in 1..n : LettersOf(ss[k]) = LettersOf(tt[k])
  OBVIOUS
<1>. HIDE DEF n
<1>. DEFINE B == {k \in 0..n : LettersOf(f[k]) = LettersOf(g[k])}
<1>8. 0 \in B
  BY <1>1, <1>4, <1>5
<1>9. ASSUME NEW k \in 1..n, k - 1 \in B PROVE k \in B
  <2>1. k \in 0..n /\ k - 1 \in 0..n
    BY <1>1
  <2>2. f[k - 1] \in Seq(S) /\ ss[k] \in Seq(S) /\ f[k] = f[k - 1] \o ss[k]
    BY <1>1, <1>4, <1>6, <2>1
  <2>3. g[k - 1] \in Seq(S) /\ tt[k] \in Seq(S) /\ g[k] = g[k - 1] \o tt[k]
    BY <1>1, <1>5, <1>6, <2>1
  <2>4. LettersOf(f[k]) = LettersOf(f[k - 1]) \o LettersOf(ss[k])
    BY <2>2, LettersConcat
  <2>5. LettersOf(g[k]) = LettersOf(g[k - 1]) \o LettersOf(tt[k])
    BY <2>3, LettersConcat
  <2>. QED BY <1>7, <1>9, <2>1, <2>4, <2>5
<1>10. \A k \in 0..n : k \in B
  <2>. HIDE DEF B
  <2>. QED BY <1>1, <1>8, <1>9, UpTo
<1>11. n \in 0..n
  BY <1>1
<1>. QED BY <1>4, <1>5, <1>10, <1>11

LettersJoined(prefix, flat, postfix) ==
    LettersOf(prefix \o flat \o postfix) = LettersOf(prefix) \o LettersOf(flat) \o LettersOf(postfix)

LEMMA LettersInARow ==
    ASSUME NEW S, NEW prefix \in Seq(S), NEW flat \in Seq(S), NEW postfix \in Seq(S)
    PROVE  LettersJoined(prefix, flat, postfix)
<1>1. prefix \o flat \in Seq(S)
  BY ConcatProperties
<1>2. LettersOf((prefix \o flat) \o postfix) = LettersOf(prefix \o flat) \o LettersOf(postfix)
  BY <1>1, LettersConcat
<1>3. LettersOf(prefix \o flat) = LettersOf(prefix) \o LettersOf(flat)
  BY LettersConcat
<1>. QED BY <1>2, <1>3, Zenon DEF LettersJoined

\* The letters of prefix, parts and postfix are those of the line.
KeepsLetters(res, raw) ==
    LettersOf(res.prefix) \o LettersOf(FlattenSeq(res.parts)) \o LettersOf(res.postfix) = LettersOf(raw)

\* Neither cutting at delimiters nor taking a block out of its brackets loses a letter.
LEMMA LettersOfSplits ==
    ASSUME NEW S, NEW raw \in Seq(S), ~Raises(raw)
    PROVE  KeepsLetters(Parse0(raw), raw)
<1>. DEFINE line == Strip(raw)
            tree == Tree(line)
            res == Parse0(raw)
<1>1. line \in Seq(S) /\ ~Tree(line).wrong /\ Len(line) \in Nat
  BY BalancedStrip, LenProperties DEF Raises
<1>2. LettersOf(line) = LettersOf(raw) /\ LettersOf(raw) \in Seq(S) /\ LettersOf(<<>>) = <<>>
  <2>1. <<>> \in Seq(S) /\ \A i \in 1..Len(<<>>) : <<>>[i] \notin Letters
    OBVIOUS
  <2>2. LettersOf(<<>>) = <<>>
    BY <2>1, LettersNone
  <2>. QED BY <2>2, LettersStrip, LettersType
<1>3. \A x \in Delims \cup OpenBrackets \cup CloseBrackets : x \notin Letters
  BY SymbolAssumption
<1>4. ASSUME NEW part \in Seq(S), NEW r, r = Result(<<>>, <<part>>, <<>>), LettersOf(part) = LettersOf(raw)
      PROVE  KeepsLetters(r, raw)
  <2>1. r.prefix = <<>> /\ r.postfix = <<>> /\ FlattenSeq(r.parts) = part
    BY <1>4, FlattenOne DEF Result
  <2>2. <<>> \o LettersOf(raw) = LettersOf(raw) /\ LettersOf(raw) \o <<>> = LettersOf(raw)
    BY <1>2, ConcatEmptySeq
  <2>. QED BY <1>2, <1>4, <2>1, <2>2 DEF KeepsLetters
<1>5. CASE SplitAround(line, res)
  <2>. HIDE DEF line
  <2>1. PICK block, first, last, delim :
            /\ Region(line, block, first, last)
            /\ res.parts = Split(line, first, last, Cuts(line, tree, block, delim))
            /\ res.prefix = SubSeq(line, 1, first - 2)
            /\ res.postfix = SubSeq(line, last + 2, Len(line))
    BY <1>5 DEF SplitAround
  <2>. HIDE DEF res
  <2>. DEFINE cuts == Cuts(line, tree, block, delim)
              n == Len(line)
  <2>2. /\ first \in 1..n + 1 /\ last \in first - 1..n
        /\ cuts \subseteq first..last /\ \A x \in cuts : line[x] \notin Letters
    BY <1>1, <1>3, <2>1, RegionCuts
  <2>. HIDE DEF cuts
  <2>3. LettersOf(FlattenSeq(res.parts)) = LettersOf(SubSeq(line, first, last))
    BY <1>1, <2>1, <2>2, LettersSplit DEF cuts
  <2>4. \/ first = 1 /\ last = n
        \/ /\ first - 1 \in 1..n /\ last + 1 \in 1..n
           /\ line[first - 1] \notin Letters /\ line[last + 1] \notin Letters
    <3>1. ASSUME NEW b \in tree.blocks, first = b.start + 1, last = b.end - 1
          PROVE  /\ first - 1 \in 1..n /\ last + 1 \in 1..n
                 /\ line[first - 1] \notin Letters /\ line[last + 1] \notin Letters
      <4>1. /\ b.start \in 1..n /\ b.end \in 1..n
            /\ line[b.start] \in OpenBrackets /\ line[b.end] \in CloseBrackets
        BY <1>1, TreeBlocks
      <4>2. first - 1 = b.start /\ last + 1 = b.end
        BY <1>1, <3>1, <4>1
      <4>. QED BY <1>3, <4>1, <4>2
    <3>. QED BY <2>1, <3>1 DEF Region
  <2>5. CASE first = 1 /\ last = n
    <3>1. res.prefix = <<>> /\ res.postfix = <<>>
      <4>1. 1 > first - 2 /\ last + 2 > n
        BY <1>1, <2>5
      <4>. QED BY <1>1, <2>1, <2>5, <4>1, SubSeqEmpty
    <3>2. SubSeq(line, first, last) = line
      BY <1>1, <2>5, SubSeqFull
    <3>3. <<>> \o LettersOf(raw) = LettersOf(raw) /\ LettersOf(raw) \o <<>> = LettersOf(raw)
      BY <1>2, ConcatEmptySeq
    <3>4. KeepsLetters(res, raw)
      BY <1>2, <2>3, <3>1, <3>2, <3>3, Zenon DEF KeepsLetters
    <3>. QED BY <3>4 DEF res
  <2>6. CASE /\ first - 1 \in 1..n /\ last + 1 \in 1..n
             /\ line[first - 1] \notin Letters /\ line[last + 1] \notin Letters
    <3>. DEFINE open == first - 1
                close == last + 1
    <3>1. /\ open \in 1..n /\ close \in open + 1..n /\ first = open + 1 /\ last = close - 1
          /\ line[open] \notin Letters /\ line[close] \notin Letters
      BY <1>1, <2>2, <2>6
    <3>. HIDE DEF open, close
    <3>2. LettersOf(SubSeq(line, 1, n)) = LettersOf(SubSeq(line, 1, open - 1)) \o LettersOf(SubSeq(line, open + 1, n))
      <4>1. 1 \in 1..Len(line) + 1 /\ open \in 1..Len(line) /\ n \in open..Len(line)
        BY <1>1, <3>1
      <4>. QED BY <1>1, <3>1, <4>1, LettersAcross
    <3>3. LettersOf(SubSeq(line, open + 1, n))
                = LettersOf(SubSeq(line, open + 1, close - 1)) \o LettersOf(SubSeq(line, close + 1, n))
      <4>. DEFINE a == open + 1
      <4>1. a \in 1..Len(line) + 1 /\ close \in a..Len(line) /\ n \in close..Len(line)
        BY <1>1, <3>1
      <4>. HIDE DEF a
      <4>2. LettersOf(SubSeq(line, a, n)) = LettersOf(SubSeq(line, a, close - 1)) \o LettersOf(SubSeq(line, close + 1, n))
        BY <1>1, <3>1, <4>1, LettersAcross
      <4>. QED BY <4>2 DEF a
    <3>4. SubSeq(line, 1, n) = line
      BY <1>1, SubSeqFull
    <3>5. /\ LettersOf(SubSeq(line, 1, open - 1)) \in Seq(S)
          /\ LettersOf(SubSeq(line, open + 1, close - 1)) \in Seq(S)
          /\ LettersOf(SubSeq(line, close + 1, n)) \in Seq(S)
      <4>1. /\ 1 \in 1..n + 1 /\ open - 1 \in 1 - 1..n
            /\ open + 1 \in 1..n + 1 /\ close - 1 \in (open + 1) - 1..n
            /\ close + 1 \in 1..n + 1 /\ n \in (close + 1) - 1..n
        BY <1>1, <3>1
      <4>2. /\ SubSeq(line, 1, open - 1) \in Seq(S) /\ SubSeq(line, open + 1, close - 1) \in Seq(S)
            /\ SubSeq(line, close + 1, n) \in Seq(S)
        BY <1>1, <4>1, SubLine
      <4>. QED BY <4>2, LettersType
    <3>6. first - 2 = open - 1 /\ last + 2 = close + 1
      BY <1>1, <3>1
    <3>7. /\ LettersOf(res.prefix) = LettersOf(SubSeq(line, 1, open - 1))
          /\ LettersOf(res.postfix) = LettersOf(SubSeq(line, close + 1, n))
          /\ LettersOf(FlattenSeq(res.parts)) = LettersOf(SubSeq(line, open + 1, close - 1))
      BY <2>1, <2>3, <3>1, <3>6
    <3>8. Regrouped(LettersOf(res.prefix), LettersOf(FlattenSeq(res.parts)), LettersOf(res.postfix))
      BY <3>5, <3>7, Associative, Zenon
    <3>9. LettersOf(line) = LettersOf(res.prefix) \o (LettersOf(FlattenSeq(res.parts)) \o LettersOf(res.postfix))
      BY <3>2, <3>3, <3>4, <3>7, Zenon
    <3>10. KeepsLetters(res, raw)
      BY <1>2, <3>8, <3>9, Zenon DEF Regrouped, KeepsLetters
    <3>. QED BY <3>10 DEF res
  <2>. QED BY <2>4, <2>5, <2>6
<1>6. CASE SplitOnce(line, res)
  <2>. HIDE DEF line
  <2>1. PICK delim, x : /\ Cuts(line, tree, 0, delim) = {x}
                        /\ res = Result(<<>>, <<Split(line, 1, Len(line), {x})[1]>>,
                                        Split(line, 1, Len(line), {x})[2])
    BY <1>6 DEF SplitOnce
  <2>. HIDE DEF res
  <2>. DEFINE n == Len(line)
              left == SubSeq(line, 1, x - 1)
              right == SubSeq(line, x + 1, n)
  <2>2. x \in 1..n /\ line[x] \notin Letters
    <3>1. Region(line, 0, 1, n)
      BY DEF Region
    <3>2. \A y \in Cuts(line, tree, 0, delim) : y \in 1..n /\ line[y] = delim /\ delim \in Delims
      BY <1>1, <3>1, RegionCuts
    <3>. QED BY <1>3, <2>1, <3>2
  <2>3. res = Result(<<>>, <<left>>, right)
    <3>. HIDE DEF left, right
    <3>1. /\ Split(line, 1, Len(line), {x})[1] = left
          /\ Split(line, 1, Len(line), {x})[2] = right
      BY <1>1, <2>2, Halves DEF left, right
    <3>. QED BY <2>1, <3>1
  <2>4. left \in Seq(S) /\ right \in Seq(S)
    <3>1. /\ 1 \in 1..n + 1 /\ x - 1 \in 1 - 1..n /\ x + 1 \in 1..n + 1 /\ n \in (x + 1) - 1..n
      BY <1>1, <2>2
    <3>. QED BY <1>1, <3>1, SubLine
  <2>5. LettersOf(line) = LettersOf(left) \o LettersOf(right)
    <3>1. 1 \in 1..Len(line) + 1 /\ x \in 1..Len(line) /\ n \in x..Len(line)
      BY <1>1, <2>2
    <3>2. SubSeq(line, 1, n) = line
      BY <1>1, SubSeqFull
    <3>3. LettersOf(SubSeq(line, 1, n)) = LettersOf(left) \o LettersOf(right)
      BY <1>1, <2>2, <3>1, LettersAcross
    <3>. QED BY <3>2, <3>3
  <2>. HIDE DEF left, right
  <2>6. res.prefix = <<>> /\ res.postfix = right /\ FlattenSeq(res.parts) = left
    BY <2>3, <2>4, FlattenOne DEF Result
  <2>7. <<>> \o LettersOf(left) = LettersOf(left)
    <3>1. LettersOf(left) \in Seq(S)
      BY <2>4, LettersType
    <3>. QED BY <3>1, ConcatEmptySeq
  <2>8. KeepsLetters(res, raw)
    BY <1>2, <2>5, <2>6, <2>7 DEF KeepsLetters
  <2>. QED BY <2>8 DEF res
<1>7. CASE res = Result(<<>>, <<line>>, <<>>)
  <2>1. KeepsLetters(res, raw)
    <3>. HIDE DEF line, res
    <3>. QED BY <1>1, <1>2, <1>4, <1>7
  <2>. QED BY <2>1 DEF res
<1>8. CASE res = Result(<<>>, <<raw>>, <<>>)
  <2>1. KeepsLetters(res, raw)
    <3>. HIDE DEF line, res
    <3>. QED BY <1>4, <1>8
  <2>. QED BY <2>1 DEF res
<1>. QED BY <1>5, <1>6, <1>7, <1>8, ParseCases

\* Cleaning the parts, and dropping a blank one at the end, loses no letter.
LEMMA LettersOfCleaned ==
    ASSUME NEW S, NEW raw \in Seq(S), ~Raises(raw)
    PROVE  LettersOf(FlattenSeq(Parse(raw).parts)) = LettersOf(FlattenSeq(Parse0(raw).parts))
<1>. DEFINE pieces == Parse0(raw).parts
            parts == Parse(raw).parts
            n == Len(pieces)
            kept == IF Strip(pieces[n]) = <<>> THEN n - 1 ELSE n
            Of(k) == Strip(IF k < n THEN pieces[k] ELSE Strip(pieces[n]))
<1>1. pieces \in Seq(Seq(S)) /\ n \in Nat \ {0}
  BY ParseSplits
<1>2. kept \in Nat /\ parts = [k \in 1..kept |-> Of(k)]
  BY ParseIsCleaned
<1>3. parts \in Seq(Seq(S))
  BY PartsAreWhole
<1>4. \/ kept = n
      \/ kept = n - 1 /\ Strip(pieces[n]) = <<>>
  BY <1>1
<1>5. \A k \in 1..n : pieces[k] \in Seq(S)
  BY <1>1, ElementOfSeq
<1>. HIDE DEF pieces, parts, n, kept
<1>6. Len(parts) = kept /\ \A k \in 1..kept : parts[k] = Of(k)
  <2>1. DOMAIN parts = 1..kept
    BY <1>2
  <2>. QED BY <1>2, <1>3, <2>1, LenProperties
<1>7. ASSUME NEW k \in 1..n PROVE LettersOf(Of(k)) = LettersOf(pieces[k])
  <2>1. CASE k < n
    <3>1. Of(k) = Strip(pieces[k]) /\ pieces[k] \in Seq(S)
      BY <1>5, <2>1
    <3>. HIDE DEF Of
    <3>. QED BY <3>1, LettersStrip
  <2>2. CASE ~(k < n)
    <3>1. k = n /\ Of(k) = Strip(Strip(pieces[n])) /\ pieces[n] \in Seq(S)
      BY <1>1, <1>5, <2>2
    <3>. HIDE DEF Of
    <3>2. Strip(pieces[n]) \in Seq(S) /\ LettersOf(Strip(pieces[n])) = LettersOf(pieces[n])
      BY <3>1, BalancedStrip, LettersStrip
    <3>3. LettersOf(Strip(Strip(pieces[n]))) = LettersOf(Strip(pieces[n]))
      BY <3>2, LettersStrip
    <3>. QED BY <3>1, <3>2, <3>3
  <2>. QED BY <2>1, <2>2
<1>. HIDE DEF Of
<1>8. CASE kept = n
  <2>1. Len(parts) = Len(pieces) /\ \A k \in 1..Len(parts) : LettersOf(parts[k]) = LettersOf(pieces[k])
    BY <1>6, <1>7, <1>8 DEF n
  <2>. QED BY <1>1, <1>3, <2>1, LettersAlike DEF pieces, parts
<1>9. CASE kept = n - 1 /\ Strip(pieces[n]) = <<>>
  <2>. DEFINE front == [k \in 1..n - 1 |-> pieces[k]]
              last == pieces[n]
  <2>1. n \in 1..n /\ n - 1 \in Nat /\ \A k \in 1..n - 1 : k \in 1..n
    BY <1>1
  <2>2. front \in Seq(Seq(S)) /\ Len(front) = n - 1 /\ \A k \in 1..n - 1 : front[k] = pieces[k]
    <3>1. front \in [1..n - 1 -> Seq(S)] /\ DOMAIN front = 1..n - 1
      BY <1>5, <2>1
    <3>2. front \in Seq(Seq(S))
      BY <2>1, <3>1, FunctionIsSeq
    <3>3. Len(front) = n - 1
      <4>. HIDE DEF front
      <4>. QED BY <2>1, <3>1, <3>2, LenProperties
    <3>. QED BY <3>2, <3>3
  <2>3. last \in Seq(S) /\ <<last>> \in Seq(Seq(S)) /\ FlattenSeq(<<last>>) = last
    BY <1>5, <2>1, FlattenOne
  <2>4. Len(<<last>>) = 1 /\ <<last>>[1] = last
    OBVIOUS
  <2>. HIDE DEF front, last
  <2>5. pieces = front \o <<last>>
    <3>. DEFINE both == front \o <<last>>
    <3>1. /\ both \in Seq(Seq(S)) /\ Len(both) = n - 1 + 1
          /\ \A k \in 1..n - 1 + 1 : both[k] = IF k <= n - 1 THEN front[k] ELSE <<last>>[k - (n - 1)]
      BY <2>2, <2>3, <2>4, ConcatProperties
    <3>. HIDE DEF both
    <3>2. n - 1 + 1 = n
      BY <1>1
    <3>3. ASSUME NEW k \in 1..n PROVE both[k] = pieces[k]
      <4>1. CASE k <= n - 1
        <5>1. k \in 1..n - 1 /\ k \in 1..n - 1 + 1
          BY <1>1, <3>2, <4>1
        <5>. QED BY <2>2, <3>1, <4>1, <5>1
      <4>2. CASE k = n
        <5>1. ~(k <= n - 1) /\ k - (n - 1) = 1 /\ k \in 1..n - 1 + 1
          BY <1>1, <4>2
        <5>2. both[k] = <<last>>[1]
          BY <3>1, <5>1
        <5>. QED BY <2>4, <4>2, <5>2 DEF last
      <4>. QED BY <1>1, <4>1, <4>2
    <3>4. Len(both) = Len(pieces) /\ \A k \in 1..Len(pieces) : both[k] = pieces[k]
      BY <3>1, <3>2, <3>3 DEF n
    <3>5. both = pieces
      BY <1>1, <3>1, <3>4, SeqEqual
    <3>. QED BY <3>5 DEF both
  <2>6. LettersOf(last) = <<>>
    <3>1. <<>> \in Seq(S) /\ \A i \in 1..Len(<<>>) : <<>>[i] \notin Letters
      OBVIOUS
    <3>2. LettersOf(<<>>) = <<>>
      BY <3>1, LettersNone
    <3>3. LettersOf(Strip(last)) = LettersOf(last)
      BY <2>3, LettersStrip
    <3>4. Strip(last) = <<>>
      BY <1>9 DEF last
    <3>. QED BY <3>2, <3>3, <3>4
  <2>7. FlattenSeq(pieces) = FlattenSeq(front) \o last
    BY <2>2, <2>3, <2>5, FlattenConcat
  <2>8. FlattenSeq(front) \in Seq(S)
    BY <2>2, FlattenMembers
  <2>9. LettersOf(FlattenSeq(pieces)) = LettersOf(FlattenSeq(front)) \o LettersOf(last)
    BY <2>3, <2>7, <2>8, LettersConcat
  <2>10. LettersOf(FlattenSeq(front)) \o <<>> = LettersOf(FlattenSeq(front))
    BY <2>8, LettersType, ConcatEmptySeq
  <2>11. LettersOf(FlattenSeq(parts)) = LettersOf(FlattenSeq(front))
    <3>1. /\ Len(parts) = Len(front)
          /\ \A k \in 1..Len(parts) : LettersOf(parts[k]) = LettersOf(front[k])
      BY <1>6, <1>7, <1>9, <2>1, <2>2
    <3>. QED BY <1>3, <2>2, <3>1, LettersAlike
  <2>. QED BY <2>6, <2>9, <2>10, <2>11, Zenon DEF pieces, parts
<1>. QED BY <1>4, <1>8, <1>9

\* No letter of the line is lost, doubled or moved: prefix, parts and postfix in a row spell
\* what the line spells (parser.py:318).
THEOREM LettersStay ==
    \A S : \A raw \in Seq(S) : ~Raises(raw) =>
        LettersOf(Parse(raw).prefix \o FlattenSeq(Parse(raw).parts) \o Parse(raw).postfix)
            = LettersOf(raw)
<1>. TAKE S
<1>. TAKE raw \in Seq(S)
<1>. HAVE ~Raises(raw)
<1>. DEFINE res == Parse0(raw)
            out == Parse(raw)
<1>1. res.prefix \in Seq(S) /\ res.postfix \in Seq(S)
  BY ParseSplits
<1>2. out.prefix \in Seq(S) /\ out.parts \in Seq(Seq(S)) /\ out.postfix \in Seq(S)
  BY PartsAreWhole
<1>3. out.prefix = Strip(res.prefix) /\ out.postfix = Strip(res.postfix)
  BY ParseIsCleaned
<1>4. LettersOf(FlattenSeq(out.parts)) = LettersOf(FlattenSeq(res.parts))
  BY LettersOfCleaned
<1>5. LettersOf(res.prefix) \o LettersOf(FlattenSeq(res.parts)) \o LettersOf(res.postfix) = LettersOf(raw)
  BY LettersOfSplits DEF KeepsLetters
<1>. HIDE DEF res, out
<1>6. LettersOf(out.prefix) = LettersOf(res.prefix) /\ LettersOf(out.postfix) = LettersOf(res.postfix)
  BY <1>1, <1>3, LettersStrip
<1>7. LettersOf(out.prefix \o FlattenSeq(out.parts) \o out.postfix)
            = LettersOf(out.prefix) \o LettersOf(FlattenSeq(out.parts)) \o LettersOf(out.postfix)
  <2>. DEFINE flat == FlattenSeq(out.parts)
  <2>1. flat \in Seq(S)
    BY <1>2, FlattenMembers
  <2>. HIDE DEF flat
  <2>2. LettersJoined(out.prefix, flat, out.postfix)
    BY <1>2, <2>1, LettersInARow, Zenon
  <2>. QED BY <2>2, Zenon DEF LettersJoined, flat
<1>8. LettersOf(out.prefix \o FlattenSeq(out.parts) \o out.postfix) = LettersOf(raw)
  BY <1>4, <1>5, <1>6, <1>7, Zenon
<1>. QED BY <1>8 DEF out
=============================================================================
