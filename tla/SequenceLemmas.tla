-------------------------- MODULE SequenceLemmas --------------------------
(***************************************************************************)
(* Facts about data that the proofs share: induction over the natural      *)
(* numbers, what FlattenSeq returns, and the digits of a number.           *)
(*                                                                         *)
(* NatInduction takes its predicate as an operator, which the provers      *)
(* cannot instantiate.  Induction is stated about a set here and proved    *)
(* from the smallest number outside of it.                                 *)
(***************************************************************************)
EXTENDS Integers, SequencesExt, WellFoundedInduction, TLAPS

(* A set that has 0 and with each number the next one has all of them.     *)
LEMMA SetInduction ==
  ASSUME NEW S, 0 \in S, \A n \in Nat : n \in S => n + 1 \in S
  PROVE  Nat \subseteq S
<1> DEFINE R == OpToRel(<, Nat)
           T == Nat \ S
<1>1. IsWellFoundedOn(R, Nat)
  BY NatLessThanWellFounded
<1>2. \A x, y \in Nat : <<x, y>> \in R <=> x < y
  BY DEF OpToRel
<1> HIDE DEF R
<1>3. SUFFICES ASSUME T # {} PROVE FALSE
  OBVIOUS
<1>4. PICK m \in T : \A y \in T : ~(<<y, m>> \in R)
  BY ONLY <1>1, <1>3, WFMin, T \subseteq Nat
<1>5. m # 0
  OBVIOUS
<1>6. m - 1 \in Nat /\ m - 1 \notin S
  BY <1>5
<1>7. <<m - 1, m>> \in R
  BY <1>2, <1>6
<1> QED
  BY <1>4, <1>6, <1>7

(* The same up to a number.                                                *)
LEMMA UpToInduction ==
  ASSUME NEW n \in Nat, NEW S, 0 \in S, \A i \in 0..(n - 1) : i \in S => i + 1 \in S
  PROVE  0..n \subseteq S
<1> DEFINE U == {i \in Nat : i <= n => i \in S}
<1>1. 0 \in U
  OBVIOUS
<1>2. \A i \in Nat : i \in U => i + 1 \in U
  OBVIOUS
<1>3. Nat \subseteq U
  <2> HIDE DEF U
  <2> QED BY <1>1, <1>2, SetInduction
<1> QED
  BY <1>3

-----------------------------------------------------------------------------
(* A set of natural numbers has a smallest one.                            *)
LEMMA Smallest ==
  ASSUME NEW A \in SUBSET Nat, A # {}
  PROVE  \E m \in A : \A l \in A : m <= l
<1> DEFINE B == {n \in Nat : (\E a \in A : a <= n) => \E m \in A : \A l \in A : m <= l}
<1>1. 0 \in B
  OBVIOUS
<1>2. ASSUME NEW n \in Nat, n \in B PROVE n + 1 \in B
  <2> SUFFICES ASSUME NEW a \in A, a <= n + 1 PROVE \E m \in A : \A l \in A : m <= l
    OBVIOUS
  <2>1. CASE \E c \in A : c <= n
    BY <1>2, <2>1
  <2>2. CASE \A c \in A : ~(c <= n)
    BY <2>2
  <2> QED BY <2>1, <2>2
<1>3. Nat \subseteq B
  <2> HIDE DEF B
  <2> QED BY <1>1, <1>2, SetInduction
<1>4. PICK a \in A : TRUE
  OBVIOUS
<1>5. a \in B /\ a \in Nat /\ a <= a
  BY <1>3
<1> QED BY <1>5

-----------------------------------------------------------------------------
(* A set of numbers up to n has a greatest one.                            *)
LEMMA Greatest ==
  ASSUME NEW n \in Nat, NEW A \in SUBSET (1..n), A # {}
  PROVE  \E k \in A : \A l \in A : l <= k
<1> DEFINE S == {m \in Nat : \A B \in SUBSET (1..m) : B # {} => \E k \in B : \A l \in B : l <= k}
<1>1. 0 \in S
  <2>1. \A k : k \notin 1..0
    OBVIOUS
  <2> QED BY <2>1
<1>2. ASSUME NEW m \in Nat, m \in S PROVE m + 1 \in S
  <2> SUFFICES ASSUME NEW B \in SUBSET (1..(m + 1)), B # {}
               PROVE  \E k \in B : \A l \in B : l <= k
    OBVIOUS
  <2>1. CASE m + 1 \in B
    BY <2>1
  <2>2. CASE m + 1 \notin B
    <3>1. B \in SUBSET (1..m)
      BY <2>2
    <3> QED BY <1>2, <3>1
  <2> QED BY <2>1, <2>2
<1>3. Nat \subseteq S
  <2> HIDE DEF S
  <2> QED BY <1>1, <1>2, SetInduction
<1> QED BY <1>3

-----------------------------------------------------------------------------
(* Two sequences one behind the other.                                     *)
LEMMA CatParts ==
  ASSUME NEW T, NEW s \in Seq(T), NEW t \in Seq(T)
  PROVE  /\ s \o t \in Seq(T) /\ Len(s \o t) = Len(s) + Len(t)
         /\ \A k \in 1..Len(s) : (s \o t)[k] = s[k]
         /\ \A k \in (Len(s) + 1)..(Len(s) + Len(t)) : (s \o t)[k] = t[k - Len(s)]
  OBVIOUS

LEMMA CatAssociative ==
  ASSUME NEW T, NEW s \in Seq(T), NEW t \in Seq(T), NEW u \in Seq(T)
  PROVE  (s \o t) \o u = s \o (t \o u)
<1>1. PICK a, b : a = s \o t /\ b = t \o u
  OBVIOUS
<1>2. a \in Seq(T) /\ b \in Seq(T) /\ Len(a) = Len(s) + Len(t) /\ Len(b) = Len(t) + Len(u)
  BY <1>1, CatParts
<1>3. /\ a \o u \in Seq(T) /\ Len(a \o u) = Len(a) + Len(u)
      /\ s \o b \in Seq(T) /\ Len(s \o b) = Len(s) + Len(b)
  BY <1>2, CatParts
<1>4. ASSUME NEW k \in 1..Len(a \o u) PROVE (a \o u)[k] = (s \o b)[k]
  BY <1>1, <1>2, <1>3
<1>5. Len(a \o u) = Len(s \o b)
  BY <1>2, <1>3
<1>6. a \o u = s \o b
  BY SMTT(30), <1>3, <1>4, <1>5
<1> QED BY <1>1, <1>6

(* Sequences of some things, and sequences written as functions.           *)
LEMMA SequenceOf ==
  ASSUME NEW S, NEW T, S \subseteq T, NEW s \in Seq(S)
  PROVE  s \in Seq(T) /\ Len(s) \in Nat
  OBVIOUS

LEMMA SequenceFrom ==
  ASSUME NEW T, NEW n \in Nat, NEW s, DOMAIN s = 1..n, s = [i \in DOMAIN s |-> s[i]],
         \A i \in 1..n : s[i] \in T
  PROVE  s \in Seq(T) /\ Len(s) = n
  OBVIOUS

(* A part of a sequence, known by its elements, and the other way round.   *)
LEMMA PartIs ==
  ASSUME NEW T, NEW s \in Seq(T), NEW t \in Seq(T), NEW a \in Nat \ {0}, NEW b \in Int,
         b = a + Len(t) - 1, b <= Len(s), \A k \in 1..Len(t) : s[a + k - 1] = t[k]
  PROVE  SubSeq(s, a, b) = t
<1>1. Len(t) \in Nat /\ Len(s) \in Nat
  OBVIOUS
<1>2. PICK p : p = SubSeq(s, a, b)
  OBVIOUS
<1>3. p \in Seq(T) /\ Len(p) = Len(t)
  BY <1>1, <1>2
<1>4. \A k \in 1..Len(t) : p[k] = s[a + k - 1]
  BY <1>1, <1>2
<1>5. \A k \in 1..Len(p) : p[k] = t[k]
  BY <1>3, <1>4
<1>6. p = t
  BY <1>3, <1>5
<1> QED BY <1>2, <1>6

LEMMA PartOf ==
  ASSUME NEW T, NEW s \in Seq(T), NEW t \in Seq(T), NEW a \in Nat \ {0}, NEW b \in Int,
         a - 1 <= b, b <= Len(s), SubSeq(s, a, b) = t
  PROVE  Len(t) = b - a + 1 /\ \A k \in 1..Len(t) : s[a + k - 1] = t[k]
<1>1. Len(SubSeq(s, a, b)) = b - a + 1
  OBVIOUS
<1>2. \A k \in 1..(b - a + 1) : SubSeq(s, a, b)[k] = s[a + k - 1]
  OBVIOUS
<1> QED BY <1>1, <1>2

(* A part of a sequence is one of the same things.                         *)
LEMMA PartTyped ==
  ASSUME NEW T, NEW s \in Seq(T), NEW a \in Nat \ {0}, NEW b \in Int, a - 1 <= b, b <= Len(s)
  PROVE  SubSeq(s, a, b) \in Seq(T) /\ Len(SubSeq(s, a, b)) = b - a + 1
  OBVIOUS

(* The front of a sequence, known by its elements.                         *)
LEMMA FrontIs ==
  ASSUME NEW T, NEW s \in Seq(T), NEW t \in Seq(T), Len(t) <= Len(s),
         \A k \in 1..Len(t) : s[k] = t[k]
  PROVE  SubSeq(s, 1, Len(t)) = t
  OBVIOUS

-----------------------------------------------------------------------------
(* What FlattenSeq has put together after each of the sequences.           *)
Flattening(seqs) ==
  CHOOSE f : f = [i \in 1..Len(seqs) |-> IF i = 1 THEN seqs[i] ELSE f[i - 1] \o seqs[i]]

(* There is such a function, which is what the definition of FlattenSeq    *)
(* takes for granted.                                                      *)
LEMMA FlattenDef ==
  ASSUME NEW seqs, Len(seqs) \in Nat \ {0}
  PROVE  /\ FlattenSeq(seqs) = Flattening(seqs)[Len(seqs)]
         /\ Flattening(seqs) =
              [i \in 1..Len(seqs) |->
                 IF i = 1 THEN seqs[i] ELSE Flattening(seqs)[i - 1] \o seqs[i]]
<1> DEFINE Def(f, n) == f = [i \in 1..n |-> IF i = 1 THEN seqs[i] ELSE f[i - 1] \o seqs[i]]
           S == {n \in Nat : \E f : Def(f, n)}
<1>1. 0 \in S
  <2>1. Def([i \in 1..0 |-> 0], 0)
    OBVIOUS
  <2> QED BY <2>1
<1>2. ASSUME NEW n \in Nat, n \in S PROVE n + 1 \in S
  <2>1. PICK f : Def(f, n)
    BY <1>2
  <2>2. PICK g : g = [i \in 1..(n + 1) |-> IF i <= n THEN f[i]
                                           ELSE IF i = 1 THEN seqs[i] ELSE f[n] \o seqs[i]]
    OBVIOUS
  <2> HIDE DEF Def
  <2>3. \A i \in 1..n : f[i] = IF i = 1 THEN seqs[i] ELSE f[i - 1] \o seqs[i]
    BY <2>1 DEF Def
  <2>4. \A i \in 1..n : g[i] = f[i]
    BY <2>2
  <2>5. g[n + 1] = IF n + 1 = 1 THEN seqs[n + 1] ELSE f[n] \o seqs[n + 1]
    BY <2>2
  <2>6. ASSUME NEW i \in 1..(n + 1)
        PROVE  g[i] = IF i = 1 THEN seqs[i] ELSE g[i - 1] \o seqs[i]
    <3>1. CASE i \in 1..n
      <4>1. i # 1 => i - 1 \in 1..n
        BY <3>1
      <4> QED BY <4>1, <3>1, <2>3, <2>4
    <3>2. CASE i = n + 1
      <4>1. n # 0 => n \in 1..n
        OBVIOUS
      <4> QED BY <4>1, <3>2, <2>4, <2>5
    <3> QED BY <3>1, <3>2
  <2>7. Def(g, n + 1)
    BY <2>2, <2>6 DEF Def
  <2> QED BY <2>7
<1>3. Len(seqs) \in S
  <2> HIDE DEF S
  <2> QED BY <1>1, <1>2, SetInduction
<1>4. Def(Flattening(seqs), Len(seqs))
  BY <1>3 DEF Flattening
<1>5. FlattenSeq(seqs) = Flattening(seqs)[Len(seqs)]
  BY DEF FlattenSeq, Flattening
<1> QED BY <1>4, <1>5

(* The same, element by element.                                           *)
LEMMA FlatteningStep ==
  ASSUME NEW T, NEW seqs \in Seq(Seq(T)), Len(seqs) # 0
  PROVE  /\ FlattenSeq(seqs) = Flattening(seqs)[Len(seqs)]
         /\ Flattening(seqs)[1] = seqs[1]
         /\ \A i \in 2..Len(seqs) : Flattening(seqs)[i] = Flattening(seqs)[i - 1] \o seqs[i]
<1>1. Len(seqs) \in Nat \ {0}
  OBVIOUS
<1>2. PICK F : F = Flattening(seqs)
  OBVIOUS
<1>3. /\ FlattenSeq(seqs) = F[Len(seqs)]
      /\ F = [i \in 1..Len(seqs) |-> IF i = 1 THEN seqs[i] ELSE F[i - 1] \o seqs[i]]
  BY ONLY <1>1, <1>2, FlattenDef
<1>4. F[1] = seqs[1]
  BY <1>1, <1>3
<1>5. ASSUME NEW i \in 2..Len(seqs) PROVE F[i] = F[i - 1] \o seqs[i]
  <2>1. i \in 1..Len(seqs) /\ i # 1
    OBVIOUS
  <2> QED BY <2>1, <1>3
<1> QED BY <1>2, <1>3, <1>4, <1>5

(* Where each of the sequences ends in the whole.                          *)
Ends(seqs) == [i \in 0..Len(seqs) |-> IF i = 0 THEN 0 ELSE Len(Flattening(seqs)[i])]

(* The whole is a sequence of the same elements.                           *)
LEMMA FlatteningType ==
  ASSUME NEW T, NEW seqs \in Seq(Seq(T)), Len(seqs) # 0
  PROVE  \A i \in 1..Len(seqs) : Flattening(seqs)[i] \in Seq(T)
<1>1. PICK F : F = Flattening(seqs)
  OBVIOUS
<1> DEFINE S == {i \in Nat : i \in 1..Len(seqs) => F[i] \in Seq(T)}
<1>2. F[1] = seqs[1] /\ \A i \in 2..Len(seqs) : F[i] = F[i - 1] \o seqs[i]
  BY <1>1, FlatteningStep
<1>3. 0 \in S
  OBVIOUS
<1>4. ASSUME NEW i \in Nat, i \in S PROVE i + 1 \in S
  <2> SUFFICES ASSUME i + 1 \in 1..Len(seqs) PROVE F[i + 1] \in Seq(T)
    OBVIOUS
  <2>1. seqs[i + 1] \in Seq(T)
    OBVIOUS
  <2>2. CASE i = 0
    BY <2>1, <2>2, <1>2
  <2>3. CASE i # 0
    <3>1. i + 1 \in 2..Len(seqs) /\ i \in 1..Len(seqs) /\ (i + 1) - 1 = i
      BY <2>3
    <3>2. F[i + 1] = F[i] \o seqs[i + 1]
      BY <3>1, <1>2
    <3>3. F[i] \in Seq(T)
      BY <1>4, <3>1
    <3> QED BY <2>1, <3>2, <3>3
  <2> QED BY <2>2, <2>3
<1>5. Nat \subseteq S
  <2> HIDE DEF S
  <2> QED BY <1>3, <1>4, SetInduction
<1> QED BY <1>1, <1>5

(* Each sequence ends as far behind the one before it as it is long.       *)
LEMMA EndsStep ==
  ASSUME NEW T, NEW seqs \in Seq(Seq(T)), Len(seqs) # 0
  PROVE  /\ \A i \in 0..Len(seqs) : Ends(seqs)[i] \in Nat
         /\ Ends(seqs)[0] = 0
         /\ \A i \in 1..Len(seqs) : Ends(seqs)[i] = Ends(seqs)[i - 1] + Len(seqs[i])
<1>1. PICK F : F = Flattening(seqs)
  OBVIOUS
<1>2. F[1] = seqs[1] /\ \A i \in 2..Len(seqs) : F[i] = F[i - 1] \o seqs[i]
  BY <1>1, FlatteningStep
<1>3. \A i \in 1..Len(seqs) : F[i] \in Seq(T)
  BY <1>1, FlatteningType
<1>4. PICK e : e = Ends(seqs)
  OBVIOUS
<1>5. e = [i \in 0..Len(seqs) |-> IF i = 0 THEN 0 ELSE Len(F[i])]
  BY <1>1, <1>4 DEF Ends
<1>6. e[0] = 0 /\ \A i \in 1..Len(seqs) : e[i] = Len(F[i]) /\ e[i] \in Nat
  BY <1>3, <1>5
<1>7. \A i \in 0..Len(seqs) : e[i] \in Nat
  BY <1>6
<1>8. ASSUME NEW i \in 1..Len(seqs) PROVE e[i] = e[i - 1] + Len(seqs[i])
  <2>1. seqs[i] \in Seq(T)
    OBVIOUS
  <2>2. CASE i = 1
    BY <1>2, <1>6, <2>1, <2>2
  <2>3. CASE i # 1
    <3>1. i \in 2..Len(seqs) /\ i - 1 \in 1..Len(seqs)
      BY <2>3
    <3>2. F[i] = F[i - 1] \o seqs[i] /\ F[i - 1] \in Seq(T)
      BY <3>1, <1>2, <1>3
    <3>3. Len(F[i]) = Len(F[i - 1]) + Len(seqs[i])
      BY <2>1, <3>2
    <3> QED BY <1>6, <3>1, <3>3
  <2> QED BY <2>2, <2>3
<1> QED BY <1>4, <1>6, <1>7, <1>8

(* What is put together stays in front: a part ends before the next one.   *)
LEMMA EndsGrow ==
  ASSUME NEW T, NEW seqs \in Seq(Seq(T)), Len(seqs) # 0
  PROVE  \A j \in 0..Len(seqs) : \A i \in 0..j : Ends(seqs)[i] <= Ends(seqs)[j]
<1>1. PICK e : e = Ends(seqs)
  OBVIOUS
<1>2. /\ \A i \in 0..Len(seqs) : e[i] \in Nat
      /\ \A i \in 1..Len(seqs) : e[i] = e[i - 1] + Len(seqs[i])
  BY <1>1, EndsStep
<1> DEFINE S == {j \in Nat : j <= Len(seqs) => \A i \in 0..j : e[i] <= e[j]}
<1>3. 0 \in S
  BY <1>2
<1>4. ASSUME NEW j \in Nat, j \in S PROVE j + 1 \in S
  <2> SUFFICES ASSUME j + 1 <= Len(seqs), NEW i \in 0..(j + 1) PROVE e[i] <= e[j + 1]
    OBVIOUS
  <2>1. /\ j \in 0..Len(seqs) /\ j + 1 \in 1..Len(seqs) /\ (j + 1) - 1 = j
        /\ j + 1 \in 0..Len(seqs)
    OBVIOUS
  <2>2. seqs[j + 1] \in Seq(T)
    BY <2>1
  <2>3. Len(seqs[j + 1]) \in Nat
    BY <2>2
  <2>4. e[j + 1] = e[j] + Len(seqs[j + 1])
    BY <2>1, <1>2
  <2>5. e[j] \in Nat /\ e[j + 1] \in Nat
    BY <2>1, <1>2
  <2>6. CASE i \in 0..j
    <3>1. e[i] <= e[j]
      BY <1>4, <2>6, <2>1
    <3>2. i \in 0..Len(seqs)
      BY <2>6, <2>1
    <3>3. e[i] \in Nat
      BY <3>2, <1>2
    <3> QED BY <3>1, <3>3, <2>3, <2>4, <2>5
  <2>7. CASE i = j + 1
    BY <2>5, <2>7
  <2> QED BY <2>6, <2>7
<1>5. Nat \subseteq S
  <2> HIDE DEF S
  <2> QED BY <1>3, <1>4, SetInduction
<1> QED BY <1>1, <1>5

(* Where the parts of two sequences are as long, they lie in the same      *)
(* places.                                                                 *)
LEMMA EndsEqual ==
  ASSUME NEW T, NEW s \in Seq(Seq(T)), NEW t \in Seq(Seq(T)), Len(s) # 0, Len(t) = Len(s),
         \A i \in 1..Len(s) : Len(s[i]) = Len(t[i])
  PROVE  \A i \in 0..Len(s) : Ends(s)[i] = Ends(t)[i]
<1>1. PICK e, f : e = Ends(s) /\ f = Ends(t)
  OBVIOUS
<1>2. e[0] = 0 /\ \A i \in 1..Len(s) : e[i] = e[i - 1] + Len(s[i])
  BY <1>1, EndsStep
<1>3. f[0] = 0 /\ \A i \in 1..Len(s) : f[i] = f[i - 1] + Len(t[i])
  BY <1>1, EndsStep
<1> DEFINE S == {i \in Nat : i <= Len(s) => e[i] = f[i]}
<1>4. 0 \in S
  BY <1>2, <1>3
<1>5. ASSUME NEW i \in Nat, i \in S PROVE i + 1 \in S
  <2> SUFFICES ASSUME i + 1 <= Len(s) PROVE e[i + 1] = f[i + 1]
    OBVIOUS
  <2>1. i + 1 \in 1..Len(s) /\ (i + 1) - 1 = i /\ e[i] = f[i]
    BY <1>5
  <2>2. e[i + 1] = e[i] + Len(s[i + 1])
    BY <2>1, <1>2
  <2>3. f[i + 1] = f[i] + Len(t[i + 1])
    BY <2>1, <1>3
  <2> QED BY <2>1, <2>2, <2>3
<1>6. Nat \subseteq S
  <2> HIDE DEF S
  <2> QED BY <1>4, <1>5, SetInduction
<1> QED BY <1>1, <1>6

(* What FlattenSeq returns: a sequence of all the elements, those of each  *)
(* part behind those of the parts before it.                               *)
LEMMA FlattenParts ==
  ASSUME NEW T, NEW seqs \in Seq(Seq(T)), Len(seqs) # 0
  PROVE  /\ FlattenSeq(seqs) \in Seq(T)
         /\ Len(FlattenSeq(seqs)) = Ends(seqs)[Len(seqs)]
         /\ \A i \in 1..Len(seqs) : \A p \in (Ends(seqs)[i - 1] + 1)..Ends(seqs)[i] :
              FlattenSeq(seqs)[p] = seqs[i][p - Ends(seqs)[i - 1]]
<1>1. PICK F, e : F = Flattening(seqs) /\ e = Ends(seqs)
  OBVIOUS
<1>2. /\ FlattenSeq(seqs) = F[Len(seqs)]
      /\ F[1] = seqs[1] /\ \A i \in 2..Len(seqs) : F[i] = F[i - 1] \o seqs[i]
  BY <1>1, FlatteningStep
<1>3. \A i \in 1..Len(seqs) : F[i] \in Seq(T)
  BY <1>1, FlatteningType
<1>4. /\ \A i \in 0..Len(seqs) : e[i] \in Nat
      /\ e[0] = 0
      /\ \A i \in 1..Len(seqs) : e[i] = e[i - 1] + Len(seqs[i])
  BY <1>1, EndsStep
<1>5. \A j \in 0..Len(seqs) : \A i \in 0..j : e[i] <= e[j]
  BY <1>1, EndsGrow
<1>6. \A i \in 1..Len(seqs) : e[i] = Len(F[i])
  BY <1>1 DEF Ends
<1> DEFINE P(j) == \A i \in 1..j : \A p \in (e[i - 1] + 1)..e[i] : F[j][p] = seqs[i][p - e[i - 1]]
           S == {j \in Nat : j \in 1..Len(seqs) => P(j)}
<1>7. 0 \in S
  OBVIOUS
<1>8. ASSUME NEW j \in Nat, j \in S PROVE j + 1 \in S
  <2> SUFFICES ASSUME j + 1 \in 1..Len(seqs) PROVE P(j + 1)
    <3> HIDE DEF P
    <3> QED OBVIOUS
  <2>0. j # 0 => P(j)
    <3> HIDE DEF P
    <3> QED BY <1>8
  <2> SUFFICES ASSUME NEW i \in 1..(j + 1), NEW p \in (e[i - 1] + 1)..e[i]
               PROVE  F[j + 1][p] = seqs[i][p - e[i - 1]]
    OBVIOUS
  <2>1. j # 0 => \A m \in 1..j : \A q \in (e[m - 1] + 1)..e[m] : F[j][q] = seqs[m][q - e[m - 1]]
    BY <2>0
  <2> HIDE DEF S, P
  <2>2. i \in 1..Len(seqs) /\ i - 1 \in 0..Len(seqs) /\ i \in 0..Len(seqs)
    OBVIOUS
  <2>3. e[i - 1] \in Nat /\ e[i] \in Nat /\ e[i] = e[i - 1] + Len(seqs[i])
    BY <2>2, <1>4
  <2>4. CASE j = 0
    <3>1. i = 1 /\ e[i - 1] = 0
      BY <2>4, <1>4
    <3> QED BY <3>1, <2>3, <2>4, <1>2
  <2>5. CASE j # 0
    <3>1. /\ j \in 1..Len(seqs) /\ j + 1 \in 2..Len(seqs) /\ (j + 1) - 1 = j
          /\ j \in 0..Len(seqs) /\ j + 1 \in 1..Len(seqs)
      BY <2>5
    <3>2. /\ F[j + 1] = F[j] \o seqs[j + 1]
          /\ F[j] \in Seq(T) /\ Len(F[j]) = e[j] /\ e[j] \in Nat
      BY <3>1, <1>2, <1>3, <1>6, <1>4
    <3>3. seqs[j + 1] \in Seq(T)
      BY <3>1
    <3>4. CASE i \in 1..j
      <4>1. F[j][p] = seqs[i][p - e[i - 1]]
        BY <2>1, <2>5, <3>4
      <4>2. e[i] <= e[j]
        BY <3>1, <3>4, <1>5
      <4>3. p \in 1..Len(F[j])
        BY SMTT(30), <4>2, <2>3, <3>2
      <4>4. (F[j] \o seqs[j + 1])[p] = F[j][p]
        BY <4>3, <3>2, <3>3, CatParts
      <4> QED BY <4>1, <4>4, <3>2
    <3>5. CASE i = j + 1
      <4>1. e[i - 1] = Len(F[j])
        BY <3>2, <3>5
      <4>2. p \in (Len(F[j]) + 1)..(Len(F[j]) + Len(seqs[j + 1]))
        BY <4>1, <3>5, <2>3
      <4>3. (F[j] \o seqs[j + 1])[p] = seqs[j + 1][p - Len(F[j])]
        BY ONLY ZenonT(30), <4>2, <3>2, <3>3, CatParts
      <4> QED BY <4>1, <4>3, <3>2, <3>5
    <3> QED BY <3>4, <3>5
  <2> QED BY <2>4, <2>5
<1>9. Nat \subseteq S
  <2> HIDE DEF S
  <2> QED BY <1>7, <1>8, SetInduction
<1>10. Len(seqs) \in S /\ Len(seqs) \in 1..Len(seqs)
  <2> HIDE DEF S
  <2> QED BY <1>9
<1> QED BY <1>1, <1>2, <1>3, <1>6, <1>10

-----------------------------------------------------------------------------
(* The quotient and the remainder are the only numbers that do.            *)
LEMMA Division ==
  ASSUME NEW a \in Nat, NEW b \in Nat \ {0}
  PROVE  a \div b \in Nat /\ a % b \in 0..(b - 1) /\ a = b * (a \div b) + (a % b)
  OBVIOUS

LEMMA DivisionUnique ==
  ASSUME NEW b \in Nat \ {0}, NEW q \in Nat, NEW r \in 0..(b - 1)
  PROVE  (b * q + r) \div b = q /\ (b * q + r) % b = r
<1> DEFINE a == b * q + r
<1>1. b * q \in Nat /\ a \in Nat
  OBVIOUS
<1>2. /\ a \div b \in Nat /\ a % b \in 0..(b - 1) /\ a = b * (a \div b) + (a % b)
  BY <1>1, Division
<1>3. PICK x, y : x = a \div b /\ y = a % b
  OBVIOUS
<1>4. /\ x \in Nat /\ y \in 0..(b - 1) /\ b * q + r = b * x + y
  BY <1>2, <1>3
<1>5. x = q
  <2>1. CASE x > q
    <3>1. b * x >= b * q + b
      BY <1>4, <2>1
    <3> QED BY <3>1, <1>1, <1>4
  <2>2. CASE x < q
    <3>1. b * q >= b * x + b
      BY <1>4, <2>2
    <3> QED BY <3>1, <1>1, <1>4
  <2> QED BY <1>4, <2>1, <2>2
<1>6. y = r
  BY <1>1, <1>4, <1>5
<1> QED BY <1>3, <1>5, <1>6

(* A number's digits to the base a * b are those to the base a.            *)
LEMMA Digits ==
  ASSUME NEW n \in Nat, NEW a \in Nat \ {0}, NEW b \in Nat \ {0}
  PROVE  /\ n % (a * b) = a * ((n \div a) % b) + (n % a)
         /\ (n \div a) \div b = n \div (a * b)
<1>1. PICK q, r : q = n \div a /\ r = n % a
  OBVIOUS
<1>2. q \in Nat /\ r \in 0..(a - 1) /\ n = a * q + r
  BY <1>1, Division
<1>3. PICK u, v : u = q \div b /\ v = q % b
  OBVIOUS
<1>4. u \in Nat /\ v \in 0..(b - 1) /\ q = b * u + v
  BY <1>2, <1>3, Division
<1>5. n = (a * b) * u + (a * v + r)
  BY <1>2, <1>4
<1>6. a * b \in Nat \ {0}
  OBVIOUS
<1>7. a * v + r \in 0..(a * b - 1)
  <2>1. a * v \in Nat /\ a * v <= a * (b - 1)
    BY <1>4
  <2>2. a * (b - 1) = a * b - a
    OBVIOUS
  <2> QED BY <2>1, <2>2, <1>2, <1>6
<1>8. n \div (a * b) = u /\ n % (a * b) = a * v + r
  BY <1>4, <1>5, <1>6, <1>7, DivisionUnique
<1> QED BY <1>1, <1>3, <1>8

(* The front of a sequence and the element behind it.                      *)
LEMMA FrontGrows ==
  ASSUME NEW T, NEW s \in Seq(T), NEW k \in 1..Len(s)
  PROVE  Append(SubSeq(s, 1, k - 1), s[k]) = SubSeq(s, 1, k)
<1>1. PICK a, b, c : a = SubSeq(s, 1, k - 1) /\ b = SubSeq(s, 1, k) /\ c = Append(a, s[k])
  OBVIOUS
<1>2. a \in Seq(T) /\ Len(a) = k - 1 /\ \A i \in 1..(k - 1) : a[i] = s[i]
  BY <1>1
<1>3. b \in Seq(T) /\ Len(b) = k /\ \A i \in 1..k : b[i] = s[i]
  BY <1>1
<1>4. c \in Seq(T) /\ Len(c) = k /\ c[k] = s[k] /\ \A i \in 1..(k - 1) : c[i] = a[i]
  BY <1>1, <1>2
<1>5. \A i \in 1..k : c[i] = b[i]
  BY <1>2, <1>3, <1>4
<1>6. c = b
  BY <1>3, <1>4, <1>5
<1> QED BY <1>1, <1>6

LEMMA FrontEnds ==
  ASSUME NEW T, NEW s \in Seq(T)
  PROVE  SubSeq(s, 1, 0) = <<>> /\ SubSeq(s, 1, Len(s)) = s
  OBVIOUS

=============================================================================
