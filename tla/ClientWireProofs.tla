-------------------------- MODULE ClientWireProofs --------------------------
(***************************************************************************)
(* What the client writes, for every URL that fits its members: the bytes  *)
(* of each message are its values one behind the other, and a server that  *)
(* cuts the stream at 128 bytes reads them.                                *)
(***************************************************************************)
EXTENDS ClientWire, SequenceLemmas

-----------------------------------------------------------------------------
(* Pushing.  The items lie one behind the other as long as there is room.  *)
Pushing(size, items) ==
  CHOOSE f : f = [i \in 0..Len(items) |-> IF i = 0 THEN <<>> ELSE Push(size, items[i])[f[i - 1]]]

LEMMA PushStep ==
  ASSUME NEW buf \in Seq(Nat), NEW size \in Nat, NEW item \in Seq(Nat), Len(buf) + Len(item) <= size
  PROVE  Push(size, item)[buf] = buf \o item
<1>1. Push(size, item)[buf] =
        IF Len(item) <= size - Len(buf) THEN buf \o item ELSE SubSeq(buf, 1, Len(buf) - 1)
  BY DEF Push
<1>2. Len(item) <= size - Len(buf)
  OBVIOUS
<1> QED BY <1>1, <1>2

LEMMA Pushed ==
  ASSUME NEW items \in Seq(Seq(Nat)), Len(items) # 0, NEW size \in Nat,
         Ends(items)[Len(items)] <= size
  PROVE  PushAll(size, items) = FlattenSeq(items)
<1>1. PICK n, F, e : n = Len(items) /\ F = Flattening(items) /\ e = Ends(items)
  OBVIOUS
<1>2. n \in Nat \ {0} /\ \A i \in 1..n : items[i] \in Seq(Nat) /\ Len(items[i]) \in Nat
  BY <1>1
<1>3. /\ FlattenSeq(items) = F[n]
      /\ F[1] = items[1] /\ \A i \in 2..n : F[i] = F[i - 1] \o items[i]
  BY <1>1, FlatteningStep
<1>4. \A i \in 1..n : F[i] \in Seq(Nat)
  BY <1>1, FlatteningType
<1>5. /\ \A i \in 0..n : e[i] \in Nat
      /\ e[0] = 0
      /\ \A i \in 1..n : e[i] = e[i - 1] + Len(items[i])
  BY <1>1, EndsStep
<1>6. \A i \in 0..n : e[i] <= size
  <2>1. \A i \in 0..n : e[i] <= e[n]
    BY <1>1, <1>2, EndsGrow
  <2>2. e[n] <= size
    BY <1>1
  <2> QED BY ONLY <1>2, <1>5, <2>1, <2>2, size \in Nat
<1>7. \A i \in 1..n : e[i] = Len(F[i])
  BY <1>1 DEF Ends
<1> DEFINE f == [i \in 0..n |-> IF i = 0 THEN <<>> ELSE F[i]]
           Def(g) == g = [i \in 0..n |-> IF i = 0 THEN <<>> ELSE Push(size, items[i])[g[i - 1]]]
<1>8. \A i \in 1..n : f[i] = Push(size, items[i])[f[i - 1]]
  <2> SUFFICES ASSUME NEW i \in 1..n PROVE f[i] = Push(size, items[i])[f[i - 1]]
    OBVIOUS
  <2>1. PICK x, y : x = f[i - 1] /\ y = items[i]
    OBVIOUS
  <2>2. /\ x \in Seq(Nat) /\ y \in Seq(Nat) /\ Len(x) = e[i - 1] /\ f[i] = x \o y
    <3>1. CASE i = 1
      <4>1. x = <<>> /\ f[i] = items[1] /\ y = items[1]
        BY <2>1, <3>1, <1>3, <1>2
      <4>2. y \in Seq(Nat) /\ y = <<>> \o y
        BY <1>2, <4>1
      <4> QED BY <3>1, <4>1, <4>2, <1>5
    <3>2. CASE i # 1
      <4>1. i \in 2..n /\ i - 1 \in 1..n /\ i - 1 \in 0..n /\ i - 1 # 0 /\ i # 0 /\ i \in 0..n
        BY <1>2, <3>2
      <4>2. x = F[i - 1] /\ f[i] = F[i]
        BY <2>1, <4>1
      <4> QED BY <2>1, <4>1, <4>2, <1>2, <1>3, <1>4, <1>7
    <3> QED BY <3>1, <3>2
  <2>3. Len(x) + Len(y) <= size
    <3>1. Len(y) \in Nat /\ e[i] = e[i - 1] + Len(y) /\ e[i] <= size
      BY <2>1, <1>2, <1>5, <1>6
    <3> QED BY <2>2, <3>1
  <2>4. Push(size, y)[x] = x \o y
    BY <2>2, <2>3, PushStep
  <2> QED BY <2>1, <2>2, <2>4
<1>9. Def(f)
  <2>1. f[0] = <<>>
    BY <1>2
  <2>2. \A i \in 0..n : f[i] = IF i = 0 THEN <<>> ELSE Push(size, items[i])[f[i - 1]]
    <3> HIDE DEF f
    <3> QED BY <1>2, <1>8, <2>1
  <2> QED BY <2>2
<1>10. PICK g : g = Pushing(size, items)
  OBVIOUS
<1>11. Def(g)
  BY <1>1, <1>9, <1>10 DEF Pushing
<1>12. PushAll(size, items) = g[n]
  BY <1>1, <1>10 DEF PushAll, Pushing
<1>13. g[0] = f[0] /\ \A i \in 1..n : g[i] = Push(size, items[i])[g[i - 1]]
  <2>1. f[0] = <<>>
    BY <1>2
  <2> HIDE DEF f
  <2> QED BY SMTT(30), <1>2, <1>11, <2>1
<1> HIDE DEF f, Def
<1> DEFINE S == {i \in Nat : i <= n => g[i] = f[i]}
<1>14. 0 \in S
  BY <1>13
<1>15. ASSUME NEW i \in Nat, i \in S PROVE i + 1 \in S
  <2> SUFFICES ASSUME i + 1 <= n PROVE g[i + 1] = f[i + 1]
    OBVIOUS
  <2>1. i + 1 \in 1..n /\ (i + 1) - 1 = i /\ g[i] = f[i]
    BY <1>2, <1>15
  <2>2. g[i + 1] = Push(size, items[i + 1])[g[i]] /\ f[i + 1] = Push(size, items[i + 1])[f[i]]
    BY <2>1, <1>8, <1>13
  <2> QED BY <2>1, <2>2
<1>16. Nat \subseteq S
  <2> HIDE DEF S
  <2> QED BY <1>14, <1>15, SetInduction
<1>17. g[n] = f[n]
  BY <1>2, <1>16
<1>18. f[n] = F[n]
  BY <1>2 DEF f
<1> QED BY <1>3, <1>12, <1>17, <1>18

-----------------------------------------------------------------------------
(* Reading.  An item yields its value wherever it lies in a body.          *)
Reading(b, values) ==
  CHOOSE f : f = [k \in 0..Len(values) |->
                    IF k = 0 THEN Reader(0, "top", <<>>) ELSE ReadOne(b, f[k - 1])]

LiesAt(b, p, item) ==
  p \in Nat /\ p + Len(item) <= Len(b) /\ \A k \in 1..Len(item) : b[p + k] = item[k]

Yields(item, mode, value, next) ==
  \A b \in Seq(Nat) : \A p \in Nat : \A found :
    LiesAt(b, p, item) =>
      ReadOne(b, Reader(p, mode, found)) = Reader(p + Len(item), next, Append(found, value))

LEMMA HoldsItems ==
  ASSUME NEW T, NEW items \in Seq(Seq(Nat)), Len(items) # 0,
         NEW values \in Seq(T), Len(values) = Len(items),
         NEW modes, modes[0] = "top", modes[Len(items)] = "top",
         \A i \in 1..Len(items) : Yields(items[i], modes[i - 1], values[i], modes[i])
  PROVE  Holds(FlattenSeq(items), values)
<1>1. PICK n, b, e : n = Len(items) /\ b = FlattenSeq(items) /\ e = Ends(items)
  OBVIOUS
<1>2. /\ n \in Nat \ {0} /\ Len(values) = n
      /\ \A i \in 1..n : items[i] \in Seq(Nat) /\ Len(items[i]) \in Nat
  BY <1>1
<1>3. /\ b \in Seq(Nat) /\ Len(b) = e[n]
      /\ \A i \in 1..n : \A p \in (e[i - 1] + 1)..e[i] : b[p] = items[i][p - e[i - 1]]
  BY <1>1, FlattenParts
<1>4. /\ \A i \in 0..n : e[i] \in Nat
      /\ e[0] = 0
      /\ \A i \in 1..n : e[i] = e[i - 1] + Len(items[i])
  BY <1>1, EndsStep
<1>5. \A i \in 0..n : e[i] <= e[n]
  <2>1. \A j \in 0..n : \A i \in 0..j : e[i] <= e[j]
    BY <1>1, EndsGrow
  <2>2. n \in 0..n
    BY <1>2
  <2> QED BY <2>1, <2>2
<1>6. ASSUME NEW i \in 1..n PROVE LiesAt(b, e[i - 1], items[i])
  <2>1. i - 1 \in 0..n /\ i \in 0..n
    BY <1>2
  <2>2. PICK p, item : p = e[i - 1] /\ item = items[i]
    OBVIOUS
  <2>3. p \in Nat /\ Len(item) \in Nat /\ e[i] = p + Len(item) /\ e[i] <= Len(b)
    BY <1>2, <1>3, <1>4, <1>5, <2>1, <2>2
  <2>4. \A q \in (p + 1)..(p + Len(item)) : b[q] = item[q - p]
    BY <1>3, <2>2, <2>3
  <2>5. \A k \in 1..Len(item) : p + k \in (p + 1)..(p + Len(item)) /\ (p + k) - p = k
    BY <2>3
  <2>6. \A k \in 1..Len(item) : b[p + k] = item[k]
    BY <2>4, <2>5
  <2> QED BY <2>2, <2>3, <2>6 DEF LiesAt
<1> DEFINE f == [k \in 0..n |-> Reader(e[k], modes[k], SubSeq(values, 1, k))]
           Def(g) == g = [k \in 0..n |-> IF k = 0 THEN Reader(0, "top", <<>>) ELSE ReadOne(b, g[k - 1])]
<1>7. f[0] = Reader(0, "top", <<>>)
  <2>1. f[0] = Reader(e[0], modes[0], SubSeq(values, 1, 0))
    BY <1>2
  <2>2. SubSeq(values, 1, 0) = <<>>
    BY FrontEnds
  <2> HIDE DEF f
  <2> QED BY <1>4, <2>1, <2>2
<1>8. ASSUME NEW k \in 1..n PROVE f[k] = ReadOne(b, f[k - 1])
  <2>1. k - 1 \in 0..n /\ k \in 0..n /\ k \in 1..Len(values) /\ k \in 1..Len(items)
    BY <1>1, <1>2
  <2>2. f[k - 1] = Reader(e[k - 1], modes[k - 1], SubSeq(values, 1, k - 1))
    BY <2>1
  <2>3. f[k] = Reader(e[k], modes[k], SubSeq(values, 1, k))
    BY <2>1
  <2>4. Append(SubSeq(values, 1, k - 1), values[k]) = SubSeq(values, 1, k)
    BY <2>1, FrontGrows
  <2>5. PICK p, found : p = e[k - 1] /\ found = SubSeq(values, 1, k - 1)
    OBVIOUS
  <2>6. LiesAt(b, p, items[k]) /\ p \in Nat
    BY <1>4, <1>6, <2>1, <2>5
  <2>7. Yields(items[k], modes[k - 1], values[k], modes[k])
    BY <2>1
  <2>8. ReadOne(b, Reader(p, modes[k - 1], found))
          = Reader(p + Len(items[k]), modes[k], Append(found, values[k]))
    BY <1>3, <2>6, <2>7 DEF Yields
  <2>9. e[k] = p + Len(items[k])
    BY <1>4, <2>5
  <2> HIDE DEF f
  <2> QED BY <2>2, <2>3, <2>4, <2>5, <2>8, <2>9
<1>9. Def(f)
  <2>1. \A k \in 0..n : f[k] = IF k = 0 THEN Reader(0, "top", <<>>) ELSE ReadOne(b, f[k - 1])
    <3> HIDE DEF f
    <3> QED BY <1>2, <1>7, <1>8
  <2> QED BY <2>1
<1>10. PICK g : g = Reading(b, values)
  OBVIOUS
<1>11. Def(g)
  BY <1>2, <1>9, <1>10 DEF Reading
<1>12. Holds(b, values) <=> g[n] = Reader(Len(b), "top", values)
  BY <1>2, <1>10 DEF Holds, Reading
<1> HIDE DEF f
<1>13. g[0] = f[0] /\ \A k \in 1..n : g[k] = ReadOne(b, g[k - 1])
  BY <1>2, <1>7, <1>11
<1> HIDE DEF Def
<1> DEFINE S == {i \in Nat : i <= n => g[i] = f[i]}
<1>14. 0 \in S
  BY <1>13
<1>15. ASSUME NEW i \in Nat, i \in S PROVE i + 1 \in S
  <2> SUFFICES ASSUME i + 1 <= n PROVE g[i + 1] = f[i + 1]
    OBVIOUS
  <2>1. i + 1 \in 1..n /\ (i + 1) - 1 = i /\ g[i] = f[i]
    BY <1>2, <1>15
  <2>2. g[i + 1] = ReadOne(b, g[i]) /\ f[i + 1] = ReadOne(b, f[i])
    BY <2>1, <1>8, <1>13
  <2> QED BY <2>1, <2>2
<1>16. Nat \subseteq S
  <2> HIDE DEF S
  <2> QED BY <1>14, <1>15, SetInduction
<1>17. g[n] = f[n]
  BY <1>2, <1>16
<1>18. f[n] = Reader(Len(b), "top", values)
  <2>1. f[n] = Reader(e[n], modes[n], SubSeq(values, 1, n))
    BY <1>2 DEF f
  <2> QED BY <1>1, <1>2, <1>3, <2>1, FrontEnds
<1> QED BY <1>1, <1>12, <1>17, <1>18

-----------------------------------------------------------------------------
(* The items.                                                              *)
LEMMA Behind ==
  ASSUME NEW x \in Nat, NEW s \in Seq(Nat)
  PROVE  /\ <<x>> \o s \in Seq(Nat) /\ Len(<<x>> \o s) = Len(s) + 1
         /\ (<<x>> \o s)[1] = x
         /\ \A k \in 1..Len(s) : (<<x>> \o s)[k + 1] = s[k]
  OBVIOUS

LEMMA TextType ==
  ASSUME NEW k \in Nat, NEW n \in Nat
  PROVE  Text(k, n) \in Seq(Nat) /\ Len(Text(k, n)) = n
  BY DEF Text

LEMMA Length2Type ==
  ASSUME NEW n \in Nat
  PROVE  /\ Length2(n) \in Seq(Nat) /\ Len(Length2(n)) = 2
         /\ Length2(n)[1] \in Nat /\ Length2(n)[2] \in Nat
         /\ Length2(n)[1] * 256 + Length2(n)[2] = n
<1>1. PICK q, r : q = n \div 256 /\ r = n % 256
  OBVIOUS
<1>2. q \in Nat /\ r \in Nat /\ n = 256 * q + r
  BY <1>1, Division
<1>3. Length2(n) = <<q, r>>
  BY <1>1 DEF Length2
<1>4. PICK l : l = <<q, r>>
  OBVIOUS
<1>5. l \in Seq(Nat) /\ Len(l) = 2 /\ l[1] = q /\ l[2] = r
  BY <1>2, <1>4
<1>6. l[1] * 256 + l[2] = n
  BY <1>2, <1>5
<1> QED BY <1>2, <1>3, <1>4, <1>5, <1>6

LEMMA PropNameType ==
  ASSUME NEW s \in Seq(Nat)
  PROVE  /\ PropName(s) \in Seq(Nat) /\ Len(PropName(s)) = Len(s) + 2
         /\ PropName(s)[1] \in Nat /\ PropName(s)[2] \in Nat
         /\ PropName(s)[1] * 256 + PropName(s)[2] = Len(s)
         /\ \A k \in 1..Len(s) : PropName(s)[k + 2] = s[k]
<1>1. PICK l : l = Length2(Len(s))
  OBVIOUS
<1>2. /\ l \in Seq(Nat) /\ Len(l) = 2 /\ l[1] \in Nat /\ l[2] \in Nat /\ l[1] * 256 + l[2] = Len(s)
      /\ Len(s) \in Nat
  <2>1. PICK n \in Nat : n = Len(s)
    OBVIOUS
  <2> QED BY <1>1, <2>1, Length2Type
<1>3. PICK t : t = PropName(s)
  OBVIOUS
<1>4. t = l \o s
  BY <1>1, <1>3 DEF PropName
<1>5. /\ t \in Seq(Nat) /\ Len(t) = Len(l) + Len(s) /\ \A k \in 1..Len(l) : t[k] = l[k]
      /\ \A k \in (Len(l) + 1)..(Len(l) + Len(s)) : t[k] = s[k - Len(l)]
  BY ZenonT(30), <1>2, <1>4, CatParts
<1>6. \A k \in 1..Len(s) : t[k + 2] = s[k]
  BY <1>2, <1>5
<1> QED BY <1>2, <1>3, <1>5, <1>6

LEMMA StringType ==
  ASSUME NEW s \in Seq(Nat)
  PROVE  /\ String(s) \in Seq(Nat) /\ Len(String(s)) = Len(s) + 3
         /\ String(s)[1] = 2 /\ String(s)[2] \in Nat /\ String(s)[3] \in Nat
         /\ String(s)[2] * 256 + String(s)[3] = Len(s)
         /\ \A k \in 1..Len(s) : String(s)[k + 3] = s[k]
<1>1. PICK l : l = Length2(Len(s))
  OBVIOUS
<1>2. /\ l \in Seq(Nat) /\ Len(l) = 2 /\ l[1] \in Nat /\ l[2] \in Nat /\ l[1] * 256 + l[2] = Len(s)
      /\ Len(s) \in Nat
  <2>1. PICK n \in Nat : n = Len(s)
    OBVIOUS
  <2> QED BY <1>1, <2>1, Length2Type
<1>3. PICK t, m : t = String(s) /\ m = <<2>> \o l
  OBVIOUS
<1>4. m \in Seq(Nat) /\ Len(m) = 3 /\ m[1] = 2 /\ m[2] = l[1] /\ m[3] = l[2]
  <2>1. PICK x \in Nat : x = 2
    OBVIOUS
  <2>2. m = <<x>> \o l
    BY <1>3, <2>1
  <2>3. m \in Seq(Nat) /\ Len(m) = Len(l) + 1 /\ m[1] = x /\ \A k \in 1..Len(l) : m[k + 1] = l[k]
    <3>1. l \in Seq(Nat)
      BY <1>2
    <3> QED BY ONLY ZenonT(30), <3>1, <2>2, x \in Nat, Behind
  <2> QED BY <1>2, <2>1, <2>3
<1>5. t = m \o s
  BY <1>1, <1>3 DEF String
<1>6. /\ t \in Seq(Nat) /\ Len(t) = Len(m) + Len(s) /\ \A k \in 1..Len(m) : t[k] = m[k]
      /\ \A k \in (Len(m) + 1)..(Len(m) + Len(s)) : t[k] = s[k - Len(m)]
  BY <1>4, <1>5, CatParts
<1>7. \A k \in 1..Len(s) : t[k + 3] = s[k]
  BY <1>2, <1>4, <1>6
<1>8. t[1] = 2 /\ t[2] = l[1] /\ t[3] = l[2]
  BY <1>4, <1>6
<1> QED BY <1>2, <1>3, <1>4, <1>6, <1>7, <1>8

(* The bytes of a double, swapped and swapped back.                        *)
LEMMA DoubleType ==
  ASSUME NEW v \in Int, v >= -10000
  PROVE  /\ Double(v) \in Seq(Nat) /\ Len(Double(v)) = 8 /\ DoubleOf(Double(v)) = v
         /\ SwapBytes(Double(v)) \in Seq(Nat) /\ Len(SwapBytes(Double(v))) = 8
         /\ SwapBytes(SwapBytes(Double(v))) = Double(v)
<1>1. PICK d : d = Double(v)
  OBVIOUS
<1>2. d = [i \in 1..8 |-> 100000 + 10 * v + i]
  BY <1>1 DEF Double
<1>3. d \in Seq(Nat) /\ Len(d) = 8 /\ d[1] = 100001 + 10 * v
  BY <1>2
<1>4. PICK s : s = SwapBytes(d)
  OBVIOUS
<1>5. s = [i \in 1..8 |-> d[9 - i]]
  BY <1>3, <1>4 DEF SwapBytes
<1>6. s \in Seq(Nat) /\ Len(s) = 8
  <2>1. \A i \in 1..8 : s[i] = 100000 + 10 * v + (9 - i) /\ s[i] \in Nat
    <3>1. \A i \in 1..8 : 9 - i \in 1..8
      OBVIOUS
    <3> QED BY <1>2, <1>5, <3>1
  <2> QED BY <1>5, <2>1
<1>7. PICK t : t = SwapBytes(s)
  OBVIOUS
<1>8. t = [i \in 1..8 |-> s[9 - i]]
  BY <1>6, <1>7 DEF SwapBytes
<1>9. \A i \in 1..8 : t[i] = d[i]
  <2>1. \A i \in 1..8 : 9 - i \in 1..8 /\ 9 - (9 - i) = i
    OBVIOUS
  <2> QED BY <1>5, <1>8, <2>1
<1>10. t = d
  BY <1>2, <1>8, <1>9
<1>11. DoubleOf(d) = v
  BY <1>3 DEF DoubleOf
<1> QED BY <1>1, <1>3, <1>4, <1>6, <1>7, <1>10, <1>11

LEMMA NumberType ==
  ASSUME NEW v \in Int, v >= -10000
  PROVE  /\ Number(v) \in Seq(Nat) /\ Len(Number(v)) = 9 /\ Number(v)[1] = 0
         /\ \A k \in 1..8 : Number(v)[k + 1] = SwapBytes(Double(v))[k]
<1>1. PICK s : s = SwapBytes(Double(v))
  OBVIOUS
<1>2. s \in Seq(Nat) /\ Len(s) = 8
  BY <1>1, DoubleType
<1>3. Number(v) = <<0>> \o s
  BY <1>1 DEF Number
<1>4. PICK t, x : t = Number(v) /\ x = 0
  OBVIOUS
<1>5. t = <<x>> \o s /\ x \in Nat
  BY <1>3, <1>4
<1>6. t \in Seq(Nat) /\ Len(t) = Len(s) + 1 /\ t[1] = x /\ \A k \in 1..Len(s) : t[k + 1] = s[k]
  <2>1. s \in Seq(Nat) /\ x \in Nat
    BY <1>2, <1>5
  <2> QED BY ONLY Zenon, <2>1, <1>5, Behind
<1> QED BY <1>1, <1>2, <1>4, <1>6

LEMMA SmallTypes ==
  /\ Null \in Seq(Nat) /\ Len(Null) = 1 /\ Null[1] = 5
  /\ ObjectBegin \in Seq(Nat) /\ Len(ObjectBegin) = 1 /\ ObjectBegin[1] = 3
  /\ ObjectEnd \in Seq(Nat) /\ Len(ObjectEnd) = 3
  /\ ObjectEnd[1] = 0 /\ ObjectEnd[2] = 0 /\ ObjectEnd[3] = 9
  /\ Bool(FALSE) \in Seq(Nat) /\ Len(Bool(FALSE)) = 2
  /\ Bool(FALSE)[1] = 1 /\ Bool(FALSE)[2] = 0
  BY DEF Null, ObjectBegin, ObjectEnd, Bool

-----------------------------------------------------------------------------
(* What the reader makes of each.                                          *)
Next(mode) == IF mode = "top" THEN "top" ELSE "name"

LEMMA LyingPart ==
  ASSUME NEW b \in Seq(Nat), NEW p \in Nat, NEW item \in Seq(Nat), NEW t \in Seq(Nat),
         NEW a \in Nat, LiesAt(b, p, item), Len(item) = a + Len(t),
         \A k \in 1..Len(t) : item[k + a] = t[k]
  PROVE  SubSeq(b, p + a + 1, p + a + Len(t)) = t
<1>1. PICK n : n = Len(t)
  OBVIOUS
<1>2. n \in Nat /\ Len(item) = a + n /\ p + a + n <= Len(b)
  BY <1>1 DEF LiesAt
<1>3. \A k \in 1..Len(item) : b[p + k] = item[k]
  BY DEF LiesAt
<1>4. \A k \in 1..n : b[(p + a + 1) + k - 1] = t[k]
  <2> SUFFICES ASSUME NEW k \in 1..n PROVE b[(p + a + 1) + k - 1] = t[k]
    OBVIOUS
  <2>1. k + a \in 1..Len(item) /\ p + (k + a) = (p + a + 1) + k - 1
    BY <1>2
  <2>2. b[p + (k + a)] = item[k + a]
    BY <1>3, <2>1
  <2> QED BY <1>1, <2>1, <2>2
<1>5. p + a + 1 \in Nat \ {0} /\ p + a + n = (p + a + 1) + n - 1 /\ p + a + n \in Int
  BY <1>2
<1>6. PICK x, y : x = p + a + 1 /\ y = p + a + n
  OBVIOUS
<1>7. x \in Nat \ {0} /\ y \in Int /\ y = x + n - 1 /\ y <= Len(b) /\ \A k \in 1..n : b[x + k - 1] = t[k]
  BY <1>2, <1>4, <1>5, <1>6
<1>8. SubSeq(b, x, y) = t
  BY <1>1, <1>7, PartIs
<1> QED BY <1>1, <1>6, <1>8

(* A number, where it is expected. *)
LEMMA ReadsNumber ==
  ASSUME NEW b \in Seq(Nat), NEW p \in Nat, NEW mode \in {"top", "value"}, NEW found,
         p + 9 <= Len(b), b[p + 1] = 0
  PROVE  ReadOne(b, Reader(p, mode, found))
           = Found(Reader(p, mode, found), 9, Num(DoubleOf(SwapBytes(TextAt(b, p + 2, 8)))), Next(mode))
<1>1. PICK r : r = Reader(p, mode, found)
  OBVIOUS
<1>2. r.at = p /\ r.mode = mode /\ mode # "name"
  BY <1>1 DEF Reader
<1>3. ReadOne(b, r) = Found(r, 9, Num(DoubleOf(SwapBytes(TextAt(b, p + 2, 8)))), Next(mode))
  BY <1>2 DEF ReadOne, Next, Num
<1> QED BY <1>1, <1>3

LEMMA YieldsNumber ==
  ASSUME NEW v \in Int, v >= -10000, NEW mode \in {"top", "value"}
  PROVE  Yields(Number(v), mode, Num(v), Next(mode))
<1> SUFFICES ASSUME NEW b \in Seq(Nat), NEW p \in Nat, NEW found, LiesAt(b, p, Number(v))
             PROVE  ReadOne(b, Reader(p, mode, found))
                      = Reader(p + Len(Number(v)), Next(mode), Append(found, Num(v)))
  BY DEF Yields
<1>1. PICK item, t : item = Number(v) /\ t = SwapBytes(Double(v))
  OBVIOUS
<1>2. item \in Seq(Nat) /\ Len(item) = 9 /\ item[1] = 0 /\ \A k \in 1..8 : item[k + 1] = t[k]
  <2>1. /\ Number(v) \in Seq(Nat) /\ Len(Number(v)) = 9 /\ Number(v)[1] = 0
        /\ \A k \in 1..8 : Number(v)[k + 1] = SwapBytes(Double(v))[k]
    BY NumberType
  <2> QED BY ONLY <1>1, <2>1
<1>3. t \in Seq(Nat) /\ Len(t) = 8 /\ DoubleOf(SwapBytes(t)) = v
  BY ONLY <1>1, v \in Int, v >= -10000, DoubleType
<1>4. LiesAt(b, p, item)
  BY <1>1
<1>5. SubSeq(b, p + 1 + 1, p + 1 + 8) = t
  <2>1. PICK a \in Nat : a = 1
    OBVIOUS
  <2>2. Len(item) = a + Len(t) /\ \A k \in 1..Len(t) : item[k + a] = t[k]
    BY <1>2, <1>3, <2>1
  <2>3. item \in Seq(Nat) /\ t \in Seq(Nat)
    BY <1>2, <1>3
  <2>4. SubSeq(b, p + a + 1, p + a + Len(t)) = t
    BY ONLY Zenon, b \in Seq(Nat), p \in Nat, a \in Nat, <1>4, <2>2, <2>3, LyingPart
  <2> QED BY <1>3, <2>1, <2>4
<1>6. b[p + 1] = 0 /\ p + 9 <= Len(b)
  BY <1>2, <1>4 DEF LiesAt
<1>7. TextAt(b, p + 2, 8) = t
  BY <1>5 DEF TextAt
<1>8. ReadOne(b, Reader(p, mode, found)) = Found(Reader(p, mode, found), 9, Num(v), Next(mode))
  BY SMTT(30), <1>3, <1>6, <1>7, ReadsNumber
<1> QED BY <1>1, <1>2, <1>8 DEF Found, Reader

LEMMA ReadsString ==
  ASSUME NEW b \in Seq(Nat), NEW p \in Nat, NEW mode \in {"top", "value"}, NEW found,
         NEW n \in Nat, NEW s, p + n + 3 <= Len(b), b[p + 1] = 2, LengthAt(b, p + 2) = n,
         TextAt(b, p + 4, n) = s
  PROVE  ReadOne(b, Reader(p, mode, found)) = Found(Reader(p, mode, found), 3 + n, Str(s), Next(mode))
<1>1. PICK r : r = Reader(p, mode, found)
  OBVIOUS
<1>2. r.at = p /\ r.mode = mode /\ mode # "name"
  BY <1>1 DEF Reader
<1>3. PICK i, l : i = r.at + 1 /\ l = LengthAt(b, i + 1)
  OBVIOUS
<1>4. /\ i = p + 1 /\ i + 1 = p + 2 /\ i + 3 = p + 4 /\ ~(r.at >= Len(b))
      /\ b[i] = 2 /\ b[i] # 0 /\ b[i] # 1 /\ i + 2 <= Len(b) /\ i + 2 + n <= Len(b)
  BY <1>2, <1>3
<1>5. l = n /\ TextAt(b, i + 3, l) = s
  BY <1>3, <1>4
<1>6. ReadOne(b, r) = Found(r, 3 + l, Str(s), IF r.mode = "top" THEN "top" ELSE "name")
  BY <1>2, <1>3, <1>4, <1>5 DEF ReadOne, Str
<1> QED BY <1>1, <1>2, <1>5, <1>6 DEF Next

LEMMA YieldsString ==
  ASSUME NEW s \in Seq(Nat), NEW mode \in {"top", "value"}
  PROVE  Yields(String(s), mode, Str(s), Next(mode))
<1> SUFFICES ASSUME NEW b \in Seq(Nat), NEW p \in Nat, NEW found, LiesAt(b, p, String(s))
             PROVE  ReadOne(b, Reader(p, mode, found))
                      = Reader(p + Len(String(s)), Next(mode), Append(found, Str(s)))
  BY DEF Yields
<1>1. PICK item, r : item = String(s) /\ r = Reader(p, mode, found)
  OBVIOUS
<1>2. PICK n \in Nat : n = Len(s)
  OBVIOUS
<1>3. /\ item \in Seq(Nat) /\ Len(item) = n + 3
      /\ item[1] = 2 /\ item[2] * 256 + item[3] = n
      /\ \A k \in 1..n : item[k + 3] = s[k]
  <2>1. /\ String(s) \in Seq(Nat) /\ Len(String(s)) = Len(s) + 3
        /\ String(s)[1] = 2 /\ String(s)[2] * 256 + String(s)[3] = Len(s)
        /\ \A k \in 1..Len(s) : String(s)[k + 3] = s[k]
    BY StringType
  <2> QED BY ONLY <1>1, <1>2, <2>1
<1>4. LiesAt(b, p, item)
  BY <1>1
<1>5. b[p + 1] = 2 /\ LengthAt(b, p + 2) = n /\ p + n + 3 <= Len(b)
  <2>1. 1 \in 1..Len(item) /\ 2 \in 1..Len(item) /\ 3 \in 1..Len(item)
    BY <1>2, <1>3
  <2>2. b[p + 1] = item[1] /\ b[p + 2] = item[2] /\ b[p + 3] = item[3]
    BY <1>4, <2>1 DEF LiesAt
  <2> QED BY <1>3, <1>4, <2>2 DEF LiesAt, LengthAt
<1>6. TextAt(b, p + 4, n) = s
  <2>1. PICK a \in Nat : a = 3
    OBVIOUS
  <2>2. Len(item) = a + Len(s) /\ \A k \in 1..Len(s) : item[k + a] = s[k]
    BY <1>2, <1>3, <2>1
  <2>3. item \in Seq(Nat)
    BY <1>3
  <2>4. SubSeq(b, p + a + 1, p + a + Len(s)) = s
    BY ONLY Zenon, b \in Seq(Nat), p \in Nat, a \in Nat, s \in Seq(Nat), <1>4, <2>2, <2>3, LyingPart
  <2> QED BY <1>2, <2>1, <2>4 DEF TextAt
<1>7. ReadOne(b, Reader(p, mode, found)) = Found(Reader(p, mode, found), 3 + n, Str(s), Next(mode))
  BY ONLY SMTT(30), b \in Seq(Nat), p \in Nat, mode \in {"top", "value"}, n \in Nat, <1>5, <1>6, ReadsString
<1>8. Found(r, 3 + n, Str(s), Next(mode)) = Reader(p + (3 + n), Next(mode), Append(found, Str(s)))
  BY ONLY <1>1 DEF Found, Reader
<1>9. 3 + n = Len(item)
  BY <1>3
<1> QED BY ONLY <1>1, <1>7, <1>8, <1>9

LEMMA ReadsProp ==
  ASSUME NEW b \in Seq(Nat), NEW p \in Nat, NEW found, NEW n \in Nat \ {0}, NEW s,
         p + n + 2 <= Len(b), LengthAt(b, p + 1) = n, TextAt(b, p + 3, n) = s
  PROVE  ReadOne(b, Reader(p, "name", found)) = Found(Reader(p, "name", found), 2 + n, Prop(s), "value")
<1>1. PICK r : r = Reader(p, "name", found)
  OBVIOUS
<1>2. r.at = p /\ r.mode = "name"
  BY <1>1 DEF Reader
<1>3. PICK i \in Nat, l \in Nat : i = p + 1 /\ l = n
  OBVIOUS
<1>4. /\ i + 2 = p + 3 /\ ~(p >= Len(b)) /\ ~(i + 2 > Len(b)) /\ ~(i + 1 + l > Len(b)) /\ l > 0
      /\ p + 1 = i
  BY <1>3
<1>5. LengthAt(b, i) = l /\ TextAt(b, i + 2, l) = s
  BY <1>3, <1>4
<1>6. ReadOne(b, r) = Found(r, 2 + l, Prop(s), "value")
  BY <1>2, <1>3, <1>4, <1>5 DEF ReadOne, Prop
<1> QED BY <1>1, <1>3, <1>6

LEMMA YieldsProp ==
  ASSUME NEW s \in Seq(Nat), s # <<>>
  PROVE  Yields(PropName(s), "name", Prop(s), "value")
<1> SUFFICES ASSUME NEW b \in Seq(Nat), NEW p \in Nat, NEW found, LiesAt(b, p, PropName(s))
             PROVE  ReadOne(b, Reader(p, "name", found))
                      = Reader(p + Len(PropName(s)), "value", Append(found, Prop(s)))
  BY DEF Yields
<1>1. PICK item, r : item = PropName(s) /\ r = Reader(p, "name", found)
  OBVIOUS
<1>2. PICK n \in Nat : n = Len(s) /\ n > 0
  OBVIOUS
<1>3. /\ item \in Seq(Nat) /\ Len(item) = n + 2
      /\ item[1] * 256 + item[2] = n
      /\ \A k \in 1..n : item[k + 2] = s[k]
  <2>1. /\ PropName(s) \in Seq(Nat) /\ Len(PropName(s)) = Len(s) + 2
        /\ PropName(s)[1] * 256 + PropName(s)[2] = Len(s)
        /\ \A k \in 1..Len(s) : PropName(s)[k + 2] = s[k]
    BY PropNameType
  <2> QED BY ONLY <1>1, <1>2, <2>1
<1>4. LiesAt(b, p, item)
  BY <1>1
<1>5. LengthAt(b, p + 1) = n /\ p + n + 2 <= Len(b)
  <2>1. 1 \in 1..Len(item) /\ 2 \in 1..Len(item)
    BY <1>2, <1>3
  <2>2. b[p + 1] = item[1] /\ b[p + 2] = item[2]
    BY <1>4, <2>1 DEF LiesAt
  <2> QED BY <1>3, <1>4, <2>2 DEF LiesAt, LengthAt
<1>6. TextAt(b, p + 3, n) = s
  <2>1. PICK a \in Nat : a = 2
    OBVIOUS
  <2>2. Len(item) = a + Len(s) /\ \A k \in 1..Len(s) : item[k + a] = s[k]
    BY <1>2, <1>3, <2>1
  <2>3. item \in Seq(Nat)
    BY <1>3
  <2>4. SubSeq(b, p + a + 1, p + a + Len(s)) = s
    BY ONLY Zenon, b \in Seq(Nat), p \in Nat, a \in Nat, s \in Seq(Nat), <1>4, <2>2, <2>3, LyingPart
  <2> QED BY <1>2, <2>1, <2>4 DEF TextAt
<1>7. ReadOne(b, Reader(p, "name", found)) = Found(Reader(p, "name", found), 2 + n, Prop(s), "value")
  <2>1. n \in Nat \ {0}
    BY <1>2
  <2> QED BY ONLY b \in Seq(Nat), p \in Nat, <1>5, <1>6, <2>1, ReadsProp
<1>8. Found(r, 2 + n, Prop(s), "value") = Reader(p + (2 + n), "value", Append(found, Prop(s)))
  BY ONLY <1>1 DEF Found, Reader
<1>9. 2 + n = Len(item)
  BY <1>3
<1> QED BY ONLY <1>1, <1>7, <1>8, <1>9

LEMMA YieldsSmall ==
  ASSUME NEW mode \in {"top", "value"}
  PROVE  /\ Yields(Null, mode, Nothing, Next(mode))
         /\ Yields(ObjectBegin, mode, Value("object", <<>>), "name")
         /\ Yields(Bool(FALSE), mode, Value("bool", <<0>>), Next(mode))
<1>1. ASSUME NEW b \in Seq(Nat), NEW p \in Nat, NEW found
      PROVE  /\ LiesAt(b, p, Null) =>
                  ReadOne(b, Reader(p, mode, found)) = Reader(p + 1, Next(mode), Append(found, Nothing))
             /\ LiesAt(b, p, ObjectBegin) =>
                  ReadOne(b, Reader(p, mode, found))
                    = Reader(p + 1, "name", Append(found, Value("object", <<>>)))
             /\ LiesAt(b, p, Bool(FALSE)) =>
                  ReadOne(b, Reader(p, mode, found))
                    = Reader(p + 2, Next(mode), Append(found, Value("bool", <<0>>)))
  <2>1. PICK r : r = Reader(p, mode, found)
    OBVIOUS
  <2>2. r.at = p /\ r.mode = mode /\ mode # "name"
    BY <2>1 DEF Reader
  <2>3. ASSUME LiesAt(b, p, Null) PROVE ReadOne(b, r) = Found(r, 1, Nothing, Next(mode))
    <3>1. b[p + 1] = 5 /\ p + 1 <= Len(b)
      BY <2>3, SmallTypes DEF LiesAt
    <3> QED BY <2>2, <3>1 DEF ReadOne, Next, Nothing
  <2>4. ASSUME LiesAt(b, p, ObjectBegin)
        PROVE  ReadOne(b, r) = Found(r, 1, Value("object", <<>>), "name")
    <3>1. b[p + 1] = 3 /\ p + 1 <= Len(b)
      BY <2>4, SmallTypes DEF LiesAt
    <3> QED BY <2>2, <3>1 DEF ReadOne
  <2>5. ASSUME LiesAt(b, p, Bool(FALSE))
        PROVE  ReadOne(b, r) = Found(r, 2, Value("bool", <<0>>), Next(mode))
    <3>1. PICK item : item = Bool(FALSE)
      OBVIOUS
    <3>2. LiesAt(b, p, item) /\ Len(item) = 2 /\ item[1] = 1 /\ item[2] = 0
      BY <2>5, <3>1, SmallTypes
    <3>3. b[p + 1] = 1 /\ b[p + 2] = 0 /\ p + 2 <= Len(b)
      BY <3>2 DEF LiesAt
    <3> QED BY <2>2, <3>3 DEF ReadOne, Next
  <2> QED BY <2>1, <2>3, <2>4, <2>5 DEF Found, Reader
<1>2. Len(Null) = 1 /\ Len(ObjectBegin) = 1 /\ Len(Bool(FALSE)) = 2
  BY SmallTypes
<1>3. Yields(Null, mode, Nothing, Next(mode))
  BY ONLY ZenonT(30), <1>1, <1>2 DEF Yields
<1>4. Yields(ObjectBegin, mode, Value("object", <<>>), "name")
  <2> SUFFICES ASSUME NEW b \in Seq(Nat), NEW p \in Nat, NEW found, LiesAt(b, p, ObjectBegin)
               PROVE  ReadOne(b, Reader(p, mode, found))
                        = Reader(p + Len(ObjectBegin), "name", Append(found, Value("object", <<>>)))
    BY DEF Yields
  <2> QED BY <1>1, <1>2
<1>5. Yields(Bool(FALSE), mode, Value("bool", <<0>>), Next(mode))
  BY ONLY ZenonT(30), <1>1, <1>2 DEF Yields
<1> QED BY <1>3, <1>4, <1>5

LEMMA YieldsEnd == Yields(ObjectEnd, "name", Value("end", <<>>), "top")
<1> SUFFICES ASSUME NEW b \in Seq(Nat), NEW p \in Nat, NEW found, LiesAt(b, p, ObjectEnd)
             PROVE  ReadOne(b, Reader(p, "name", found))
                      = Reader(p + Len(ObjectEnd), "top", Append(found, Value("end", <<>>)))
  BY DEF Yields
<1>1. PICK r : r = Reader(p, "name", found)
  OBVIOUS
<1>2. r.at = p /\ r.mode = "name"
  BY <1>1 DEF Reader
<1>3. b[p + 1] = 0 /\ b[p + 2] = 0 /\ b[p + 3] = 9 /\ p + 3 <= Len(b)
  <2>1. PICK item : item = ObjectEnd
    OBVIOUS
  <2>2. Len(item) = 3 /\ item[1] = 0 /\ item[2] = 0 /\ item[3] = 9
    BY <2>1, SmallTypes
  <2>3. LiesAt(b, p, item)
    BY <2>1
  <2> QED BY <2>2, <2>3 DEF LiesAt
<1>4. LengthAt(b, p + 1) = 0
  BY <1>3 DEF LengthAt
<1>5. ReadOne(b, r) = Found(r, 3, Value("end", <<>>), "top")
  BY SMTT(30), <1>2, <1>3, <1>4 DEF ReadOne
<1> QED BY <1>1, <1>5, SmallTypes DEF Found, Reader

-----------------------------------------------------------------------------
(* The bodies of the messages: three, four or five values, and connect.    *)
LEMMA HoldsTop ==
  ASSUME NEW T, NEW items \in Seq(Seq(Nat)), NEW values \in Seq(T), NEW n \in Nat \ {0},
         Len(items) = n, Len(values) = n,
         \A i \in 1..n : Yields(items[i], "top", values[i], "top")
  PROVE  Holds(FlattenSeq(items), values)
<1>1. PICK modes : modes = [i \in 0..n |-> "top"]
  OBVIOUS
<1>2. modes[0] = "top" /\ modes[n] = "top"
  BY <1>1
<1>3. \A i \in 1..n : i - 1 \in 0..n /\ modes[i - 1] = "top" /\ modes[i] = "top"
  BY <1>1
<1>4. /\ Len(items) # 0 /\ Len(values) = Len(items) /\ modes[Len(items)] = "top"
      /\ \A i \in 1..Len(items) : Yields(items[i], modes[i - 1], values[i], modes[i])
  BY <1>2, <1>3
<1> QED BY <1>2, <1>4, HoldsItems

LEMMA EndsOf ==
  ASSUME NEW items \in Seq(Seq(Nat)), NEW n \in Nat \ {0}, Len(items) = n
  PROVE  /\ Ends(items)[0] = 0
         /\ \A i \in 1..n : Ends(items)[i] = Ends(items)[i - 1] + Len(items[i])
<1>1. Len(items) # 0
  OBVIOUS
<1> QED BY <1>1, EndsStep

(* A list of items that make a body of len bytes and convey these values.  *)
Conveys(items, len, values) ==
  /\ items \in Seq(Seq(Nat)) /\ Len(items) # 0
  /\ Ends(items)[Len(items)] = len
  /\ Holds(FlattenSeq(items), values)

LEMMA BodyHolds ==
  ASSUME NEW items, NEW len \in Nat, NEW values, Conveys(items, len, values),
         NEW size \in Nat, len <= size
  PROVE  /\ PushAll(size, items) \in Seq(Nat) /\ Len(PushAll(size, items)) = len
         /\ Holds(PushAll(size, items), values)
<1>1. /\ items \in Seq(Seq(Nat)) /\ Len(items) # 0 /\ Ends(items)[Len(items)] = len
      /\ Holds(FlattenSeq(items), values)
  BY DEF Conveys
<1>2. PushAll(size, items) = FlattenSeq(items)
  <2>1. Ends(items)[Len(items)] <= size
    BY <1>1
  <2> QED BY ONLY <1>1, <2>1, size \in Nat, Pushed
<1>3. FlattenSeq(items) \in Seq(Nat) /\ Len(FlattenSeq(items)) = len
  BY ONLY <1>1, FlattenParts
<1> QED BY <1>1, <1>2, <1>3

LEMMA ThreeItems ==
  ASSUME NEW s \in Seq(Nat), NEW v \in Nat,
         NEW items, items = <<String(s), Number(v), Null>>
  PROVE  Conveys(items, Len(s) + 13, <<Str(s), Num(v), Nothing>>)
<1>1. PICK values : values = <<Str(s), Num(v), Nothing>>
  OBVIOUS
<1>2. /\ String(s) \in Seq(Nat) /\ Len(String(s)) = Len(s) + 3
      /\ Number(v) \in Seq(Nat) /\ Len(Number(v)) = 9
      /\ Null \in Seq(Nat) /\ Len(Null) = 1
  <2>1. \A x \in Nat : x \in Int /\ x >= -10000
    OBVIOUS
  <2> QED BY <2>1, StringType, NumberType, SmallTypes
<1>3. /\ items \in Seq(Seq(Nat)) /\ Len(items) = 3
      /\ items[1] = String(s) /\ items[2] = Number(v) /\ items[3] = Null
  BY <1>2
<1>4. /\ values \in Seq({Str(s), Num(v), Nothing}) /\ Len(values) = 3
      /\ values[1] = Str(s) /\ values[2] = Num(v) /\ values[3] = Nothing
  BY <1>1
<1>5. PICK n \in Nat \ {0} : n = 3
  OBVIOUS
<1>6. items \in Seq(Seq(Nat)) /\ Len(items) = n /\ Len(values) = n
  BY <1>3, <1>4, <1>5
<1>7. Ends(items)[3] = Len(s) + 13
  <2>1. PICK e : e = Ends(items)
    OBVIOUS
  <2>2. e[0] = 0 /\ \A i \in 1..n : e[i] = e[i - 1] + Len(items[i])
    BY ONLY <1>6, <2>1, n \in Nat \ {0}, EndsOf
  <2>3. 1 \in 1..n /\ 2 \in 1..n /\ 3 \in 1..n
    BY <1>5
  <2>4. /\ e[1] = e[0] + Len(items[1])
        /\ e[2] = e[1] + Len(items[2])
        /\ e[3] = e[2] + Len(items[3])
    BY ONLY <2>2, <2>3
  <2>5. /\ Len(s) \in Nat
        /\ Len(items[1]) = Len(s) + 3
        /\ Len(items[2]) = 9
        /\ Len(items[3]) = 1
    BY <1>2, <1>3
  <2> QED BY ONLY <2>1, <2>2, <2>4, <2>5
<1>8. /\ Yields(String(s), "top", Str(s), "top")
      /\ Yields(Number(v), "top", Num(v), "top")
      /\ Yields(Null, "top", Nothing, "top")
  <2>1. /\ "top" \in {"top", "value"} /\ Next("top") = "top"
        /\ \A x \in Nat : x \in Int /\ x >= -10000
    BY DEF Next
  <2> QED BY <2>1, YieldsString, YieldsNumber, YieldsSmall
<1>9. \A i \in 1..n : Yields(items[i], "top", values[i], "top")
  BY <1>3, <1>4, <1>5, <1>8
<1>10. Holds(FlattenSeq(items), values)
  BY ONLY <1>4, <1>6, <1>9, n \in Nat \ {0}, HoldsTop
<1> QED BY <1>1, <1>3, <1>7, <1>10 DEF Conveys

LEMMA FourItems ==
  ASSUME NEW s \in Seq(Nat), NEW v \in Nat, NEW t \in Seq(Nat),
         NEW items, items = <<String(s), Number(v), Null, String(t)>>
  PROVE  Conveys(items, Len(s) + Len(t) + 16, <<Str(s), Num(v), Nothing, Str(t)>>)
<1>1. PICK values : values = <<Str(s), Num(v), Nothing, Str(t)>>
  OBVIOUS
<1>2. /\ String(s) \in Seq(Nat) /\ Len(String(s)) = Len(s) + 3
      /\ Number(v) \in Seq(Nat) /\ Len(Number(v)) = 9
      /\ Null \in Seq(Nat) /\ Len(Null) = 1
      /\ String(t) \in Seq(Nat) /\ Len(String(t)) = Len(t) + 3
  <2>1. \A x \in Nat : x \in Int /\ x >= -10000
    OBVIOUS
  <2> QED BY <2>1, StringType, NumberType, SmallTypes
<1>3. /\ items \in Seq(Seq(Nat)) /\ Len(items) = 4
      /\ items[1] = String(s) /\ items[2] = Number(v) /\ items[3] = Null /\ items[4] = String(t)
  BY <1>2
<1>4. /\ values \in Seq({Str(s), Num(v), Nothing, Str(t)}) /\ Len(values) = 4
      /\ values[1] = Str(s) /\ values[2] = Num(v) /\ values[3] = Nothing /\ values[4] = Str(t)
  BY <1>1
<1>5. PICK n \in Nat \ {0} : n = 4
  OBVIOUS
<1>6. items \in Seq(Seq(Nat)) /\ Len(items) = n /\ Len(values) = n
  BY <1>3, <1>4, <1>5
<1>7. Ends(items)[4] = Len(s) + Len(t) + 16
  <2>1. PICK e : e = Ends(items)
    OBVIOUS
  <2>2. e[0] = 0 /\ \A i \in 1..n : e[i] = e[i - 1] + Len(items[i])
    BY ONLY <1>6, <2>1, n \in Nat \ {0}, EndsOf
  <2>3. 1 \in 1..n /\ 2 \in 1..n /\ 3 \in 1..n /\ 4 \in 1..n
    BY <1>5
  <2>4. /\ e[1] = e[0] + Len(items[1])
        /\ e[2] = e[1] + Len(items[2])
        /\ e[3] = e[2] + Len(items[3])
        /\ e[4] = e[3] + Len(items[4])
    BY ONLY <2>2, <2>3
  <2>5. /\ Len(s) \in Nat
        /\ Len(t) \in Nat
        /\ Len(items[1]) = Len(s) + 3
        /\ Len(items[2]) = 9
        /\ Len(items[3]) = 1
        /\ Len(items[4]) = Len(t) + 3
    BY SMTT(30), <1>2, <1>3
  <2> QED BY ONLY <2>1, <2>2, <2>4, <2>5
<1>8. /\ Yields(String(s), "top", Str(s), "top")
      /\ Yields(Number(v), "top", Num(v), "top")
      /\ Yields(Null, "top", Nothing, "top")
      /\ Yields(String(t), "top", Str(t), "top")
  <2>1. /\ "top" \in {"top", "value"} /\ Next("top") = "top"
        /\ \A x \in Nat : x \in Int /\ x >= -10000
    BY DEF Next
  <2> QED BY <2>1, YieldsString, YieldsNumber, YieldsSmall
<1>9. \A i \in 1..n : Yields(items[i], "top", values[i], "top")
  BY <1>3, <1>4, <1>5, <1>8
<1>10. Holds(FlattenSeq(items), values)
  BY ONLY <1>4, <1>6, <1>9, n \in Nat \ {0}, HoldsTop
<1> QED BY <1>1, <1>3, <1>7, <1>10 DEF Conveys

LEMMA FiveItems ==
  ASSUME NEW s \in Seq(Nat), NEW v \in Nat, NEW t \in Seq(Nat),
         NEW w \in Int, w >= -10000,
         NEW items, items = <<String(s), Number(v), Null, String(t), Number(w)>>
  PROVE  Conveys(items, Len(s) + Len(t) + 25, <<Str(s), Num(v), Nothing, Str(t), Num(w)>>)
<1>1. PICK values : values = <<Str(s), Num(v), Nothing, Str(t), Num(w)>>
  BY ONLY TRUE
<1>2. /\ String(s) \in Seq(Nat) /\ Len(String(s)) = Len(s) + 3
      /\ Number(v) \in Seq(Nat) /\ Len(Number(v)) = 9
      /\ Null \in Seq(Nat) /\ Len(Null) = 1
      /\ String(t) \in Seq(Nat) /\ Len(String(t)) = Len(t) + 3
      /\ Number(w) \in Seq(Nat) /\ Len(Number(w)) = 9
  <2>1. \A x \in Nat : x \in Int /\ x >= -10000
    OBVIOUS
  <2> QED BY <2>1, StringType, NumberType, SmallTypes
<1>3. /\ items \in Seq(Seq(Nat)) /\ Len(items) = 5
      /\ items[1] = String(s) /\ items[2] = Number(v) /\ items[3] = Null /\ items[4] = String(t) /\ items[5] = Number(w)
  BY <1>2
<1>4. /\ values \in Seq({Str(s), Num(v), Nothing, Str(t), Num(w)}) /\ Len(values) = 5
      /\ values[1] = Str(s) /\ values[2] = Num(v) /\ values[3] = Nothing /\ values[4] = Str(t) /\ values[5] = Num(w)
  BY <1>1
<1>5. PICK n \in Nat \ {0} : n = 5
  OBVIOUS
<1>6. items \in Seq(Seq(Nat)) /\ Len(items) = n /\ Len(values) = n
  BY <1>3, <1>4, <1>5
<1>7. Ends(items)[5] = Len(s) + Len(t) + 25
  <2>1. PICK e : e = Ends(items)
    OBVIOUS
  <2>2. e[0] = 0 /\ \A i \in 1..n : e[i] = e[i - 1] + Len(items[i])
    BY ONLY <1>6, <2>1, n \in Nat \ {0}, EndsOf
  <2>3. 1 \in 1..n /\ 2 \in 1..n /\ 3 \in 1..n /\ 4 \in 1..n /\ 5 \in 1..n
    BY <1>5
  <2>4. /\ e[1] = e[0] + Len(items[1])
        /\ e[2] = e[1] + Len(items[2])
        /\ e[3] = e[2] + Len(items[3])
        /\ e[4] = e[3] + Len(items[4])
        /\ e[5] = e[4] + Len(items[5])
    BY ONLY <2>2, <2>3
  <2>5. /\ Len(s) \in Nat
        /\ Len(t) \in Nat
        /\ Len(items[1]) = Len(s) + 3
        /\ Len(items[2]) = 9
        /\ Len(items[3]) = 1
        /\ Len(items[4]) = Len(t) + 3
        /\ Len(items[5]) = 9
    BY SMTT(30), <1>2, <1>3
  <2> QED BY ONLY <2>1, <2>2, <2>4, <2>5
<1>8. /\ Yields(String(s), "top", Str(s), "top")
      /\ Yields(Number(v), "top", Num(v), "top")
      /\ Yields(Null, "top", Nothing, "top")
      /\ Yields(String(t), "top", Str(t), "top")
      /\ Yields(Number(w), "top", Num(w), "top")
  <2>1. /\ "top" \in {"top", "value"} /\ Next("top") = "top"
        /\ \A x \in Nat : x \in Int /\ x >= -10000
    BY DEF Next
  <2> QED BY <2>1, YieldsString, YieldsNumber, YieldsSmall
<1>9. \A i \in 1..n : Yields(items[i], "top", values[i], "top")
  BY <1>3, <1>4, <1>5, <1>8
<1>10. Holds(FlattenSeq(items), values)
  BY ONLY <1>4, <1>6, <1>9, n \in Nat \ {0}, HoldsTop
<1> QED BY <1>1, <1>3, <1>7, <1>10 DEF Conveys

(* An item of len bytes that yields a value.                               *)
Gives(item, len, mode, value, next) ==
  item \in Seq(Nat) /\ Len(item) = len /\ Yields(item, mode, value, next)

LEMMA GivesString ==
  ASSUME NEW s \in Seq(Nat), NEW mode \in {"top", "value"}, NEW n \in Nat, Len(s) = n
  PROVE  Gives(String(s), n + 3, mode, Str(s), Next(mode))
  BY StringType, YieldsString DEF Gives

LEMMA GivesNumber ==
  ASSUME NEW v \in Nat, NEW mode \in {"top", "value"}
  PROVE  Gives(Number(v), 9, mode, Num(v), Next(mode))
<1>1. v \in Int /\ v >= -10000
  OBVIOUS
<1> QED BY <1>1, NumberType, YieldsNumber DEF Gives

LEMMA GivesName ==
  ASSUME NEW k \in Nat, NEW n \in Nat \ {0}
  PROVE  Gives(PropName(Text(k, n)), n + 2, "name", Prop(Text(k, n)), "value")
<1>1. PICK s : s = Text(k, n)
  OBVIOUS
<1>2. s \in Seq(Nat) /\ Len(s) = n /\ s # <<>>
  BY <1>1, TextType
<1>3. Gives(PropName(s), n + 2, "name", Prop(s), "value")
  BY <1>2, PropNameType, YieldsProp DEF Gives
<1> QED BY <1>1, <1>3

(* The values of connect, the end of its object included.                  *)
ConnectValues ==
  <<Str(_connect), Num(1), Value("object", <<>>), Prop(Text(11, 3)), Str(AppText),
    Prop(Text(12, 8)), Str(Text(13, 13)), Prop(Text(14, 5)), Str(rtmp_url),
    Prop(Text(15, 4)), Value("bool", <<0>>), Prop(Text(16, 12)), Num(15),
    Prop(Text(17, 11)), Num(4071), Prop(Text(18, 11)), Num(252), Prop(Text(19, 13)),
    Num(1), Value("end", <<>>)>>

LEMMA ConnectConveys ==
  ASSUME rtmp_url \in Seq(Nat), AppText \in Seq(Nat)
  PROVE  Conveys(ConnectItems, 166 + Len(rtmp_url) + Len(AppText), ConnectValues)
<1>1. PICK items, values : items = ConnectItems /\ values = ConnectValues
  OBVIOUS
<1>2. PICK a \in Nat, u \in Nat : a = Len(AppText) /\ u = Len(rtmp_url)
  OBVIOUS
<1>3. PICK n \in Nat \ {0} : n = 20
  OBVIOUS
<1>4. /\ DOMAIN items = 1..20 /\ items = [i \in DOMAIN items |-> items[i]]
      /\ items[1] = String(_connect)
      /\ items[2] = Number(1)
      /\ items[3] = ObjectBegin
      /\ items[4] = PropName(Text(11, 3))
      /\ items[5] = String(AppText)
      /\ items[6] = PropName(Text(12, 8))
      /\ items[7] = String(Text(13, 13))
      /\ items[8] = PropName(Text(14, 5))
      /\ items[9] = String(rtmp_url)
      /\ items[10] = PropName(Text(15, 4))
      /\ items[11] = Bool(FALSE)
      /\ items[12] = PropName(Text(16, 12))
      /\ items[13] = Number(15)
      /\ items[14] = PropName(Text(17, 11))
      /\ items[15] = Number(4071)
      /\ items[16] = PropName(Text(18, 11))
      /\ items[17] = Number(252)
      /\ items[18] = PropName(Text(19, 13))
      /\ items[19] = Number(1)
      /\ items[20] = ObjectEnd
  BY ONLY <1>1 DEF ConnectItems
<1>5. /\ DOMAIN values = 1..20 /\ values = [i \in DOMAIN values |-> values[i]]
      /\ values[1] = Str(_connect)
      /\ values[2] = Num(1)
      /\ values[3] = Value("object", <<>>)
      /\ values[4] = Prop(Text(11, 3))
      /\ values[5] = Str(AppText)
      /\ values[6] = Prop(Text(12, 8))
      /\ values[7] = Str(Text(13, 13))
      /\ values[8] = Prop(Text(14, 5))
      /\ values[9] = Str(rtmp_url)
      /\ values[10] = Prop(Text(15, 4))
      /\ values[11] = Value("bool", <<0>>)
      /\ values[12] = Prop(Text(16, 12))
      /\ values[13] = Num(15)
      /\ values[14] = Prop(Text(17, 11))
      /\ values[15] = Num(4071)
      /\ values[16] = Prop(Text(18, 11))
      /\ values[17] = Num(252)
      /\ values[18] = Prop(Text(19, 13))
      /\ values[19] = Num(1)
      /\ values[20] = Value("end", <<>>)
  BY ONLY <1>1 DEF ConnectValues
<1>6. _connect \in Seq(Nat) /\ Len(_connect) = 7 /\ Text(13, 13) \in Seq(Nat) /\ Len(Text(13, 13)) = 13
  BY TextType DEF _connect
<1>7. /\ Gives(ObjectBegin, 1, "top", Value("object", <<>>), "name")
      /\ Gives(Bool(FALSE), 2, "value", Value("bool", <<0>>), "name")
      /\ Gives(ObjectEnd, 3, "name", Value("end", <<>>), "top")
  <2>1. /\ "top" \in {"top", "value"} /\ "value" \in {"top", "value"} /\ Next("value") = "name"
    BY DEF Next
  <2> QED BY <2>1, SmallTypes, YieldsSmall, YieldsEnd DEF Gives
<1>8. /\ "top" \in {"top", "value"} /\ Next("top") = "top"
      /\ "value" \in {"top", "value"} /\ Next("value") = "name"
  BY DEF Next
<1>9. Gives(items[1], 10, "top", values[1], "top")
  <2>1. Gives(String(_connect), 7 + 3, "top", Str(_connect), "top")
    BY <1>2, <1>6, <1>8, GivesString
  <2> QED BY ONLY <1>4, <1>5, <2>1
<1>10. Gives(items[2], 9, "top", values[2], "top")
  <2>1. Gives(Number(1), 9, "top", Num(1), "top")
    BY <1>8, GivesNumber
  <2> QED BY ONLY <1>4, <1>5, <2>1
<1>11. Gives(items[3], 1, "top", values[3], "name")
  BY ONLY <1>4, <1>5, <1>7
<1>12. Gives(items[4], 5, "name", values[4], "value")
  <2>1. Gives(PropName(Text(11, 3)), 3 + 2, "name", Prop(Text(11, 3)), "value")
    BY GivesName
  <2> QED BY ONLY <1>4, <1>5, <2>1
<1>13. Gives(items[5], a + 3, "value", values[5], "name")
  <2>1. Gives(String(AppText), a + 3, "value", Str(AppText), "name")
    BY <1>2, <1>6, <1>8, GivesString
  <2> QED BY ONLY <1>4, <1>5, <2>1
<1>14. Gives(items[6], 10, "name", values[6], "value")
  <2>1. Gives(PropName(Text(12, 8)), 8 + 2, "name", Prop(Text(12, 8)), "value")
    BY GivesName
  <2> QED BY ONLY <1>4, <1>5, <2>1
<1>15. Gives(items[7], 16, "value", values[7], "name")
  <2>1. Gives(String(Text(13, 13)), 13 + 3, "value", Str(Text(13, 13)), "name")
    BY <1>2, <1>6, <1>8, GivesString
  <2> QED BY ONLY <1>4, <1>5, <2>1
<1>16. Gives(items[8], 7, "name", values[8], "value")
  <2>1. Gives(PropName(Text(14, 5)), 5 + 2, "name", Prop(Text(14, 5)), "value")
    BY GivesName
  <2> QED BY ONLY <1>4, <1>5, <2>1
<1>17. Gives(items[9], u + 3, "value", values[9], "name")
  <2>1. Gives(String(rtmp_url), u + 3, "value", Str(rtmp_url), "name")
    BY <1>2, <1>6, <1>8, GivesString
  <2> QED BY ONLY <1>4, <1>5, <2>1
<1>18. Gives(items[10], 6, "name", values[10], "value")
  <2>1. Gives(PropName(Text(15, 4)), 4 + 2, "name", Prop(Text(15, 4)), "value")
    BY GivesName
  <2> QED BY ONLY <1>4, <1>5, <2>1
<1>19. Gives(items[11], 2, "value", values[11], "name")
  <2>1. PICK item : item = Bool(FALSE)
    OBVIOUS
  <2>2. items[11] = item
    BY ONLY <1>4, <2>1
  <2>3. Gives(item, 2, "value", Value("bool", <<0>>), "name")
    BY ONLY Zenon, <1>7, <2>1
  <2> QED BY ONLY <1>5, <2>2, <2>3
<1>20. Gives(items[12], 14, "name", values[12], "value")
  <2>1. Gives(PropName(Text(16, 12)), 12 + 2, "name", Prop(Text(16, 12)), "value")
    BY GivesName
  <2> QED BY ONLY <1>4, <1>5, <2>1
<1>21. Gives(items[13], 9, "value", values[13], "name")
  <2>1. Gives(Number(15), 9, "value", Num(15), "name")
    BY <1>8, GivesNumber
  <2> QED BY ONLY <1>4, <1>5, <2>1
<1>22. Gives(items[14], 13, "name", values[14], "value")
  <2>1. Gives(PropName(Text(17, 11)), 11 + 2, "name", Prop(Text(17, 11)), "value")
    BY GivesName
  <2> QED BY ONLY <1>4, <1>5, <2>1
<1>23. Gives(items[15], 9, "value", values[15], "name")
  <2>1. Gives(Number(4071), 9, "value", Num(4071), "name")
    BY <1>8, GivesNumber
  <2> QED BY ONLY <1>4, <1>5, <2>1
<1>24. Gives(items[16], 13, "name", values[16], "value")
  <2>1. Gives(PropName(Text(18, 11)), 11 + 2, "name", Prop(Text(18, 11)), "value")
    BY GivesName
  <2> QED BY ONLY <1>4, <1>5, <2>1
<1>25. Gives(items[17], 9, "value", values[17], "name")
  <2>1. Gives(Number(252), 9, "value", Num(252), "name")
    BY <1>8, GivesNumber
  <2> QED BY ONLY <1>4, <1>5, <2>1
<1>26. Gives(items[18], 15, "name", values[18], "value")
  <2>1. Gives(PropName(Text(19, 13)), 13 + 2, "name", Prop(Text(19, 13)), "value")
    BY GivesName
  <2> QED BY ONLY <1>4, <1>5, <2>1
<1>27. Gives(items[19], 9, "value", values[19], "name")
  <2>1. Gives(Number(1), 9, "value", Num(1), "name")
    BY <1>8, GivesNumber
  <2> QED BY ONLY <1>4, <1>5, <2>1
<1>28. Gives(items[20], 3, "name", values[20], "top")
  BY ONLY <1>4, <1>5, <1>7
<1>29. PICK lens : lens = <<10, 9, 1, 5, a + 3, 10, 16, 7, u + 3, 6, 2, 14, 9, 13, 9, 13, 9, 15, 9, 3>>
  BY ONLY TRUE
<1>30. PICK modes :
         modes = [i \in 0..20 |-> IF i \in {0, 1, 2, 20} THEN "top"
                                  ELSE IF i \in {4, 6, 8, 10, 12, 14, 16, 18} THEN "value" ELSE "name"]
  BY ONLY TRUE
<1>31. /\ lens[1] = 10
       /\ lens[2] = 9
       /\ lens[3] = 1
       /\ lens[4] = 5
       /\ lens[5] = a + 3
       /\ lens[6] = 10
       /\ lens[7] = 16
       /\ lens[8] = 7
       /\ lens[9] = u + 3
       /\ lens[10] = 6
       /\ lens[11] = 2
       /\ lens[12] = 14
       /\ lens[13] = 9
       /\ lens[14] = 13
       /\ lens[15] = 9
       /\ lens[16] = 13
       /\ lens[17] = 9
       /\ lens[18] = 15
       /\ lens[19] = 9
       /\ lens[20] = 3
  BY ONLY <1>29
<1>32. /\ modes[0] = "top"
       /\ modes[1] = "top"
       /\ modes[2] = "top"
       /\ modes[3] = "name"
       /\ modes[4] = "value"
       /\ modes[5] = "name"
       /\ modes[6] = "value"
       /\ modes[7] = "name"
       /\ modes[8] = "value"
       /\ modes[9] = "name"
       /\ modes[10] = "value"
       /\ modes[11] = "name"
       /\ modes[12] = "value"
       /\ modes[13] = "name"
       /\ modes[14] = "value"
       /\ modes[15] = "name"
       /\ modes[16] = "value"
       /\ modes[17] = "name"
       /\ modes[18] = "value"
       /\ modes[19] = "name"
       /\ modes[20] = "top"
  BY ONLY <1>30
<1>33. \A i \in 1..20 : Gives(items[i], lens[i], modes[i - 1], values[i], modes[i])
  BY ONLY <1>31, <1>32, <1>9, <1>10, <1>11, <1>12, <1>13, <1>14, <1>15, <1>16, <1>17, <1>18, <1>19, <1>20, <1>21, <1>22, <1>23, <1>24, <1>25, <1>26, <1>27, <1>28
<1>34. \A i \in 1..n : items[i] \in Seq(Nat) /\ Len(items[i]) = lens[i] /\ Yields(items[i], modes[i - 1], values[i], modes[i])
  BY ONLY <1>3, <1>33 DEF Gives
<1>35. items \in Seq(Seq(Nat)) /\ Len(items) = n
  <2>1. /\ n \in Nat /\ DOMAIN items = 1..n /\ items = [i \in DOMAIN items |-> items[i]]
        /\ \A i \in 1..n : items[i] \in Seq(Nat)
    BY ONLY n \in Nat \ {0}, <1>3, <1>4, <1>34
  <2> QED BY ONLY <2>1, SequenceFrom
<1>36. values \in Seq({values[i] : i \in 1..n}) /\ Len(values) = n
  <2>1. PICK T : T = {values[i] : i \in 1..n}
    OBVIOUS
  <2>2. \A i \in 1..n : values[i] \in T
    BY ONLY <2>1
  <2>3. n \in Nat /\ DOMAIN values = 1..n /\ values = [i \in DOMAIN values |-> values[i]]
    BY ONLY n \in Nat \ {0}, <1>3, <1>5
  <2> QED BY ONLY <2>1, <2>2, <2>3, SequenceFrom
<1>37. Ends(items)[20] = 166 + u + a
  <2>1. PICK e : e = Ends(items)
    OBVIOUS
  <2>2. e[0] = 0 /\ \A i \in 1..n : e[i] = e[i - 1] + Len(items[i])
    BY ONLY <1>35, <2>1, n \in Nat \ {0}, EndsOf
  <2>3. e[0] = 0 /\ \A i \in 1..20 : e[i] = e[i - 1] + lens[i]
    BY ONLY <1>3, <1>34, <2>2
  <2>4. /\ e[1] = e[0] + lens[1]
        /\ e[2] = e[1] + lens[2]
        /\ e[3] = e[2] + lens[3]
        /\ e[4] = e[3] + lens[4]
        /\ e[5] = e[4] + lens[5]
        /\ e[6] = e[5] + lens[6]
        /\ e[7] = e[6] + lens[7]
        /\ e[8] = e[7] + lens[8]
        /\ e[9] = e[8] + lens[9]
        /\ e[10] = e[9] + lens[10]
        /\ e[11] = e[10] + lens[11]
        /\ e[12] = e[11] + lens[12]
        /\ e[13] = e[12] + lens[13]
        /\ e[14] = e[13] + lens[14]
        /\ e[15] = e[14] + lens[15]
        /\ e[16] = e[15] + lens[16]
        /\ e[17] = e[16] + lens[17]
        /\ e[18] = e[17] + lens[18]
        /\ e[19] = e[18] + lens[19]
        /\ e[20] = e[19] + lens[20]
    BY ONLY <2>3
  <2>5. e[5] = 28 + a /\ e[9] = 64 + u + a /\ e[15] = 117 + u + a
    BY ONLY <1>31, <2>3, <2>4, u \in Nat, a \in Nat
  <2> QED BY ONLY <1>31, <2>1, <2>4, <2>5, u \in Nat, a \in Nat
<1>38. Holds(FlattenSeq(items), values)
  <2>1. modes[0] = "top" /\ modes[Len(items)] = "top" /\ Len(items) # 0 /\ Len(values) = Len(items)
    BY <1>3, <1>32, <1>35, <1>36
  <2>2. \A i \in 1..Len(items) : Yields(items[i], modes[i - 1], values[i], modes[i])
    BY <1>34, <1>35
  <2> QED BY ONLY <1>35, <1>36, <2>1, <2>2, HoldsItems
<1> QED BY <1>1, <1>2, <1>3, <1>35, <1>37, <1>38 DEF Conveys

-----------------------------------------------------------------------------
(* The URL.  Where a character is found, and where it is not.              *)
LEMMA FindIs ==
  ASSUME NEW s \in Seq(Nat), NEW c, NEW i \in Nat \ {0}, NEW j \in i..Len(s),
         s[j] = c, \A k \in i..(j - 1) : s[k] # c
  PROVE  Find(s, i, c) = j
<1>1. PICK found : found = {k \in i..Len(s) : s[k] = c}
  OBVIOUS
<1>2. j \in found /\ found # {} /\ \A k \in found : k \in Nat /\ j <= k
  <2>1. j \in found
    BY <1>1
  <2>2. ASSUME NEW k \in found PROVE k \in Nat /\ j <= k
    <3>1. k \in i..Len(s) /\ s[k] = c
      BY <1>1
    <3>2. ~(k < j)
      BY <3>1
    <3> QED BY <3>1, <3>2
  <2> QED BY <2>1, <2>2
<1>3. PICK m : m = CHOOSE k \in found : \A l \in found : k <= l
  OBVIOUS
<1>4. m \in found /\ \A l \in found : m <= l
  BY <1>2, <1>3
<1>5. m = j
  BY <1>2, <1>4
<1>6. Find(s, i, c) = m
  BY <1>1, <1>2, <1>3 DEF Find
<1> QED BY <1>5, <1>6

LEMMA FindNone ==
  ASSUME NEW s \in Seq(Nat), NEW c, NEW i \in Nat \ {0}, \A k \in i..Len(s) : s[k] # c
  PROVE  Find(s, i, c) = 0
<1>1. {k \in i..Len(s) : s[k] = c} = {}
  OBVIOUS
<1> QED BY <1>1 DEF Find

LEMMA LacksFind ==
  ASSUME NEW s \in Seq(Nat), NEW c
  PROVE  Find(s, 1, c) = 0 <=> Lacks(s, c)
<1>1. ASSUME Lacks(s, c) PROVE Find(s, 1, c) = 0
  <2>1. \A k \in 1..Len(s) : s[k] # c
    BY <1>1 DEF Lacks
  <2>2. PICK one \in Nat \ {0} : one = 1
    OBVIOUS
  <2>3. Find(s, one, c) = 0
    BY <2>1, <2>2, FindNone
  <2> QED BY <2>2, <2>3
<1>2. ASSUME ~Lacks(s, c) PROVE Find(s, 1, c) # 0
  <2>1. PICK found : found = {k \in 1..Len(s) : s[k] = c}
    OBVIOUS
  <2>2. found # {} /\ found \in SUBSET Nat /\ 0 \notin found
    BY <1>2, <2>1 DEF Lacks
  <2>3. \E m \in found : \A l \in found : m <= l
    BY <2>2, Smallest
  <2>4. PICK m : m = CHOOSE k \in found : \A l \in found : k <= l
    OBVIOUS
  <2>5. m \in found
    BY <2>3, <2>4
  <2>6. Find(s, 1, c) = m
    BY <2>1, <2>2, <2>4 DEF Find
  <2> QED BY <2>2, <2>5, <2>6
<1> QED BY <1>1, <1>2

(* The digits of a port, read by atoi.                                     *)
LEMMA TensGrow ==
  /\ \A k \in 1..6 : Tens[k] \in Nat \ {0}
  /\ \A k \in 1..5 : Tens[k + 1] = 10 * Tens[k]
  /\ Tens[1] = 1
<1>1. /\ Tens[1] = 1 /\ Tens[2] = 10 /\ Tens[3] = 100 /\ Tens[4] = 1000 /\ Tens[5] = 10000
      /\ Tens[6] = 100000
  BY DEF Tens
<1>2. \A k \in 1..6 : Tens[k] \in Nat \ {0}
  BY <1>1
<1>3. \A k \in 1..5 : Tens[k + 1] = 10 * Tens[k]
  BY <1>1
<1> QED BY <1>1, <1>2, <1>3

AtoiUpTo(digits) ==
  CHOOSE f : f = [i \in 0..Len(digits) |-> IF i = 0 THEN 0 ELSE 10 * f[i - 1] + digits[i] - 48]

LEMMA PortDigitsType ==
  ASSUME NEW n \in Nat, NEW len \in 1..5
  PROVE  /\ PortDigits(n, len) \in Seq(Nat) /\ Len(PortDigits(n, len)) = len
         /\ \A i \in 1..len : /\ len - i + 1 \in 1..5
                              /\ PortDigits(n, len)[i] = 48 + ((n \div Tens[len - i + 1]) % 10)
                              /\ PortDigits(n, len)[i] \in 48..57
<1>1. PICK d : d = PortDigits(n, len)
  OBVIOUS
<1>2. d = [i \in 1..len |-> 48 + ((n \div Tens[len - i + 1]) % 10)]
  BY <1>1 DEF PortDigits
<1>3. ASSUME NEW i \in 1..len
      PROVE  /\ len - i + 1 \in 1..5
             /\ d[i] = 48 + ((n \div Tens[len - i + 1]) % 10) /\ d[i] \in 48..57
  <2>1. len - i + 1 \in 1..5 /\ len - i + 1 \in 1..6
    OBVIOUS
  <2>2. PICK t \in Nat \ {0} : t = Tens[len - i + 1]
    BY <2>1, TensGrow
  <2>3. PICK q \in Nat : q = n \div t
    BY Division
  <2>4. d[i] = 48 + (q % 10)
    BY <1>2, <2>2, <2>3
  <2> QED BY <2>1, <2>2, <2>3, <2>4
<1>4. d \in Seq(Nat) /\ Len(d) = len
  BY <1>2, <1>3
<1> QED BY <1>1, <1>3, <1>4

LEMMA AtoiDigits ==
  ASSUME NEW n \in Nat, NEW len \in 1..5, n < Tens[len + 1]
  PROVE  Atoi(PortDigits(n, len)) = n
<1>1. PICK d : d = PortDigits(n, len)
  OBVIOUS
<1>2. /\ d \in Seq(Nat) /\ Len(d) = len
      /\ \A i \in 1..len : d[i] = 48 + ((n \div Tens[len - i + 1]) % 10)
  BY <1>1, PortDigitsType
<1> DEFINE f == [i \in 0..len |-> n \div Tens[len - i + 1]]
           Def(g) == g = [i \in 0..len |-> IF i = 0 THEN 0 ELSE 10 * g[i - 1] + d[i] - 48]
<1>3. f[0] = 0
  <2>1. PICK t \in Nat \ {0} : t = Tens[len + 1]
    BY TensGrow
  <2>2. n \div t = 0
    <3>1. PICK q \in Nat, r \in 0..(t - 1) : q = n \div t /\ r = n % t /\ n = t * q + r
      BY Division
    <3>2. q > 0 => t * q >= t
      OBVIOUS
    <3> QED BY <2>1, <3>1, <3>2
  <2>3. f[0] = n \div Tens[len - 0 + 1]
    OBVIOUS
  <2> QED BY <2>1, <2>2, <2>3
<1>4. ASSUME NEW i \in 1..len PROVE f[i] = 10 * f[i - 1] + d[i] - 48
  <2>1. PICK k \in 1..5 : k = len - i + 1
    OBVIOUS
  <2>2. PICK t \in Nat \ {0} : t = Tens[k] /\ Tens[k + 1] = t * 10
    BY TensGrow
  <2>3. PICK q \in Nat : q = n \div t
    BY Division
  <2>4. q \div 10 = n \div (t * 10)
    <3>1. PICK ten \in Nat \ {0} : ten = 10
      OBVIOUS
    <3>2. (n \div t) \div ten = n \div (t * ten)
      BY ONLY Zenon, n \in Nat, t \in Nat \ {0}, ten \in Nat \ {0}, Digits
    <3> QED BY <2>3, <3>1, <3>2
  <2>5. len - (i - 1) + 1 = k + 1 /\ i - 1 \in 0..len /\ i \in 0..len
    BY <2>1
  <2>6. f[i - 1] = q \div 10 /\ f[i] = q
    BY <2>1, <2>2, <2>3, <2>4, <2>5
  <2>7. d[i] = 48 + (q % 10)
    BY <1>2, <2>1, <2>2, <2>3
  <2> HIDE DEF f
  <2> QED BY <2>6, <2>7
<1>5. Def(f)
  <2>1. \A i \in 0..len : f[i] = IF i = 0 THEN 0 ELSE 10 * f[i - 1] + d[i] - 48
    <3> HIDE DEF f
    <3> QED BY <1>3, <1>4
  <2> QED BY <2>1
<1>6. PICK g : g = AtoiUpTo(d)
  OBVIOUS
<1>7. Def(g)
  BY <1>2, <1>5, <1>6 DEF AtoiUpTo
<1>8. Atoi(d) = g[len]
  BY <1>2, <1>6 DEF Atoi, AtoiUpTo
<1>9. f[len] = n
  <2>1. f[len] = n \div Tens[len - len + 1]
    OBVIOUS
  <2>2. len - len + 1 = 1 /\ Tens[1] = 1
    BY TensGrow
  <2>3. n \div 1 = n
    OBVIOUS
  <2> QED BY ONLY <2>1, <2>2, <2>3
<1>10. g[0] = f[0] /\ \A i \in 1..len : g[i] = 10 * g[i - 1] + d[i] - 48
  <2> HIDE DEF f
  <2> QED BY <1>3, <1>7
<1> HIDE DEF f, Def
<1> DEFINE S == {i \in Nat : i <= len => g[i] = f[i]}
<1>11. 0 \in S
  BY <1>10
<1>12. ASSUME NEW i \in Nat, i \in S PROVE i + 1 \in S
  <2> SUFFICES ASSUME i + 1 <= len PROVE g[i + 1] = f[i + 1]
    OBVIOUS
  <2>1. i + 1 \in 1..len /\ (i + 1) - 1 = i /\ g[i] = f[i]
    BY <1>12
  <2>2. g[i + 1] = 10 * g[i] + d[i + 1] - 48 /\ f[i + 1] = 10 * f[i] + d[i + 1] - 48
    BY <2>1, <1>4, <1>10
  <2> QED BY <2>1, <2>2
<1>13. Nat \subseteq S
  <2> HIDE DEF S
  <2> QED BY <1>11, <1>12, SetInduction
<1>14. g[len] = f[len]
  BY <1>13
<1> QED BY <1>1, <1>8, <1>9, <1>14

(* A sequence in another one.                                              *)
LEMMA LiesCat ==
  ASSUME NEW s \in Seq(Nat), NEW t \in Seq(Nat), NEW b, b = s \o t
  PROVE  /\ b \in Seq(Nat) /\ Len(b) = Len(s) + Len(t) /\ LiesAt(b, 0, s) /\ LiesAt(b, Len(s), t)
<1>1. PICK m \in Nat, n \in Nat : m = Len(s) /\ n = Len(t)
  OBVIOUS
<1>2. /\ b \in Seq(Nat) /\ Len(b) = m + n
      /\ \A k \in 1..m : b[k] = s[k]
      /\ \A k \in (m + 1)..(m + n) : b[k] = t[k - m]
  BY <1>1, CatParts
<1>3. \A k \in 1..m : b[0 + k] = s[k]
  BY <1>2
<1>4. \A k \in 1..n : b[m + k] = t[k]
  <2> SUFFICES ASSUME NEW k \in 1..n PROVE b[m + k] = t[k]
    OBVIOUS
  <2>1. m + k \in (m + 1)..(m + n) /\ (m + k) - m = k
    OBVIOUS
  <2> QED BY ONLY <1>2, <2>1
<1> QED BY <1>1, <1>2, <1>3, <1>4 DEF LiesAt

LEMMA LiesIn ==
  ASSUME NEW b \in Seq(Nat), NEW a \in Seq(Nat), NEW c \in Seq(Nat), NEW p \in Nat, NEW q \in Nat,
         LiesAt(b, p, a), LiesAt(a, q, c)
  PROVE  LiesAt(b, p + q, c)
<1>1. /\ p + Len(a) <= Len(b) /\ \A k \in 1..Len(a) : b[p + k] = a[k]
      /\ q + Len(c) <= Len(a) /\ \A k \in 1..Len(c) : a[q + k] = c[k]
  BY DEF LiesAt
<1>2. PICK n \in Nat, m \in Nat : n = Len(c) /\ m = Len(a)
  OBVIOUS
<1>3. ASSUME NEW k \in 1..n PROVE b[(p + q) + k] = c[k]
  <2>1. q + k \in 1..m /\ p + (q + k) = (p + q) + k
    BY <1>1, <1>2
  <2>2. b[p + (q + k)] = a[q + k] /\ a[q + k] = c[k]
    BY ONLY <1>1, <1>2, <1>3, <2>1
  <2> QED BY <2>1, <2>2
<1>4. p + q \in Nat /\ (p + q) + n <= Len(b)
  BY <1>1, <1>2
<1> QED BY <1>2, <1>3, <1>4 DEF LiesAt

LEMMA LiesSub ==
  ASSUME NEW b \in Seq(Nat), NEW p \in Nat, NEW t \in Seq(Nat), LiesAt(b, p, t)
  PROVE  SubSeq(b, p + 1, p + Len(t)) = t
<1>1. PICK zero \in Nat : zero = 0
  OBVIOUS
<1>2. Len(t) = zero + Len(t) /\ \A k \in 1..Len(t) : t[k + zero] = t[k]
  BY <1>1
<1>3. SubSeq(b, p + zero + 1, p + zero + Len(t)) = t
  BY ONLY Zenon, b \in Seq(Nat), p \in Nat, t \in Seq(Nat), zero \in Nat, LiesAt(b, p, t), <1>2, LyingPart
<1> QED BY <1>1, <1>3

(* What lacks a character lacks it wherever it lies.                       *)
LEMMA LacksWhereItLies ==
  ASSUME NEW b \in Seq(Nat), NEW p \in Nat, NEW t \in Seq(Nat), NEW c, LiesAt(b, p, t), Lacks(t, c)
  PROVE  \A k \in (p + 1)..(p + Len(t)) : b[k] # c
<1>1. PICK n \in Nat : n = Len(t)
  OBVIOUS
<1>2. ASSUME NEW k \in (p + 1)..(p + n) PROVE b[k] # c
  <2>1. k - p \in 1..n /\ p + (k - p) = k
    OBVIOUS
  <2>2. b[p + (k - p)] = t[k - p]
    BY <1>1, <2>1 DEF LiesAt
  <2> QED BY <1>1, <2>1, <2>2 DEF Lacks
<1> QED BY <1>1, <1>2

LEMMA LacksCat ==
  ASSUME NEW s \in Seq(Nat), NEW t \in Seq(Nat), NEW c, Lacks(s, c), Lacks(t, c)
  PROVE  Lacks(s \o t, c)
<1>1. PICK b : b = s \o t
  OBVIOUS
<1>2. /\ b \in Seq(Nat) /\ Len(b) = Len(s) + Len(t) /\ LiesAt(b, 0, s) /\ LiesAt(b, Len(s), t)
  BY <1>1, LiesCat
<1>3. PICK m \in Nat, n \in Nat, zero \in Nat : m = Len(s) /\ n = Len(t) /\ zero = 0
  OBVIOUS
<1>4. \A k \in (zero + 1)..(zero + m) : b[k] # c
  BY <1>2, <1>3, LacksWhereItLies
<1>5. \A k \in (m + 1)..(m + n) : b[k] # c
  BY <1>2, <1>3, LacksWhereItLies
<1>6. \A k \in 1..Len(b) : b[k] # c
  BY <1>2, <1>3, <1>4, <1>5
<1> QED BY <1>1, <1>6 DEF Lacks

(* Host and port, with and without a colon in between.                     *)
LEMMA PartLies ==
  ASSUME NEW port \in Nat, NEW part \in PortParts(port)
  PROVE  \/ part = <<>> /\ port = 1935
         \/ /\ part \in Seq(Nat) /\ Len(part) > 0 /\ part[1] = Colon
            /\ Lacks(part, Slash)
            /\ \E digits \in Seq(Nat) : LiesAt(part, 1, digits) /\ Len(part) = 1 + Len(digits)
                                        /\ Atoi(digits) = port
<1>1. CASE part = <<>> /\ port = 1935
  BY <1>1
<1>2. CASE ~(part = <<>> /\ port = 1935)
  <2>1. PICK len \in 1..5 : port < Tens[len + 1] /\ part = <<Colon>> \o PortDigits(port, len)
    <3>1. part \in {<<Colon>> \o PortDigits(port, len) : len \in {l \in 1..5 : port < Tens[l + 1]}}
      BY ONLY <1>2, part \in PortParts(port) DEF PortParts
    <3>2. \E len \in {l \in 1..5 : port < Tens[l + 1]} : part = <<Colon>> \o PortDigits(port, len)
      BY ONLY Zenon, <3>1
    <3> QED BY ONLY <3>2
  <2>2. PICK d : d = PortDigits(port, len)
    OBVIOUS
  <2>3. d \in Seq(Nat) /\ Len(d) = len /\ \A i \in 1..len : d[i] \in 48..57
    BY <2>2, PortDigitsType
  <2>4. PICK c : c = <<Colon>>
    OBVIOUS
  <2>5. c \in Seq(Nat) /\ Len(c) = 1 /\ c[1] = Colon /\ Colon = 58
    BY <2>4 DEF Colon
  <2>6. part = c \o d
    BY <2>1, <2>2, <2>4
  <2>7. part \in Seq(Nat) /\ Len(part) = 1 + len /\ LiesAt(part, 0, c) /\ LiesAt(part, 1, d)
    BY ONLY <2>3, <2>5, <2>6, LiesCat
  <2>8. part[1] = Colon
    BY <2>5, <2>7 DEF LiesAt
  <2>9. Lacks(part, Slash)
    <3>1. Lacks(c, Slash)
      BY <2>5 DEF Lacks, Slash
    <3>2. Lacks(d, Slash)
      BY <2>3 DEF Lacks, Slash
    <3> QED BY <2>3, <2>5, <2>6, <3>1, <3>2, LacksCat
  <2>10. Atoi(d) = port
    BY <2>1, <2>2, AtoiDigits
  <2> QED BY <2>3, <2>7, <2>8, <2>9, <2>10
<1> QED BY <1>1, <1>2

(* What the parser takes for the host and the port. *)
HostPort(info, host, port) ==
  /\ info \in Seq(Nat) /\ Lacks(info, Slash)
  /\ Find(info, 1, Colon) = 0 => info = host /\ port = 1935
  /\ Find(info, 1, Colon) # 0 =>
       /\ SubSeq(info, 1, Find(info, 1, Colon) - 1) = host
       /\ Atoi(SubSeq(info, Find(info, 1, Colon) + 1, Len(info))) = port

LEMMA HostAndPort ==
  ASSUME NEW host \in Seq(Nat), Lacks(host, Slash), Lacks(host, Colon),
         NEW port \in Nat, NEW part \in PortParts(port)
  PROVE  HostPort(host \o part, host, port)
<1> PICK info : info = host \o part
  OBVIOUS
<1> SUFFICES HostPort(info, host, port)
  OBVIOUS
<1>1. CASE part = <<>> /\ port = 1935
  <2>1. info = host
    BY <1>1
  <2>2. Find(info, 1, Colon) = 0
    BY <2>1, LacksFind
  <2> QED BY <1>1, <2>1, <2>2 DEF HostPort
<1>2. CASE ~(part = <<>> /\ port = 1935)
  <2>1. /\ part \in Seq(Nat) /\ Len(part) > 0 /\ part[1] = Colon /\ Lacks(part, Slash)
        /\ \E digits \in Seq(Nat) : LiesAt(part, 1, digits) /\ Len(part) = 1 + Len(digits)
                                    /\ Atoi(digits) = port
    BY <1>2, PartLies
  <2>2. PICK digits \in Seq(Nat) : LiesAt(part, 1, digits) /\ Len(part) = 1 + Len(digits)
                                   /\ Atoi(digits) = port
    BY <2>1
  <2>3. PICK h \in Nat, n \in Nat : h = Len(host) /\ n = Len(digits)
    OBVIOUS
  <2>4. /\ info \in Seq(Nat) /\ Len(info) = Len(host) + Len(part)
        /\ LiesAt(info, 0, host) /\ LiesAt(info, Len(host), part)
    BY <2>1, LiesCat
  <2>5. Lacks(info, Slash)
    BY <2>1, LacksCat
  <2>6. info[h + 1] = Colon /\ h + 1 \in 1..Len(info)
    BY <2>1, <2>3, <2>4 DEF LiesAt
  <2>7. \A k \in 1..((h + 1) - 1) : info[k] # Colon
    <3>1. PICK zero \in Nat : zero = 0
      OBVIOUS
    <3>2. \A k \in (zero + 1)..(zero + Len(host)) : info[k] # Colon
      BY <2>4, <3>1, LacksWhereItLies
    <3> QED BY <2>3, <3>1, <3>2
  <2>8. Find(info, 1, Colon) = h + 1
    <3>1. PICK one \in Nat \ {0}, j \in Int : one = 1 /\ j = h + 1
      OBVIOUS
    <3>2. j \in one..Len(info) /\ info[j] = Colon /\ \A k \in one..(j - 1) : info[k] # Colon
      BY <2>6, <2>7, <3>1
    <3>3. Find(info, one, Colon) = j
      BY ONLY <2>4, <3>2, one \in Nat \ {0}, FindIs
    <3> QED BY <3>1, <3>3
  <2>9. SubSeq(info, 1, h) = host
    <3>1. PICK zero \in Nat : zero = 0
      OBVIOUS
    <3>2. SubSeq(info, zero + 1, zero + Len(host)) = host
      BY <2>4, <3>1, LiesSub
    <3> QED BY <2>3, <3>1, <3>2
  <2>10. SubSeq(info, h + 2, Len(info)) = digits
    <3>1. PICK one \in Nat : one = 1
      OBVIOUS
    <3>2. LiesAt(info, h + one, digits)
      BY <2>1, <2>2, <2>3, <2>4, <3>1, LiesIn
    <3>3. PICK q \in Nat : q = h + one
      OBVIOUS
    <3>4. SubSeq(info, q + 1, q + Len(digits)) = digits
      BY <2>4, <3>2, <3>3, LiesSub
    <3>5. q + 1 = h + 2 /\ q + Len(digits) = Len(info)
      BY <2>2, <2>3, <2>4, <3>1, <3>3
    <3> QED BY <3>4, <3>5
  <2>11. PICK f \in Nat : f = h + 1
    OBVIOUS
  <2>12. f - 1 = h /\ f + 1 = h + 2 /\ f # 0 /\ Find(info, 1, Colon) = f
    BY <2>8, <2>11
  <2>13. SubSeq(info, 1, f - 1) = host /\ Atoi(SubSeq(info, f + 1, Len(info))) = port
    BY ONLY <2>2, <2>9, <2>10, <2>12
  <2> QED BY ONLY <2>4, <2>5, <2>12, <2>13 DEF HostPort
<1> QED BY ONLY <1>1, <1>2

(* The server behind "rtmp://", up to the end of the URL or to a slash.    *)
LEMMA ServerLies ==
  ASSUME NEW url \in Seq(Nat), NEW info \in Seq(Nat), NEW end \in Nat, LiesAt(url, 7, info),
         Lacks(info, Slash), end = 7 + Len(info),
         end # Len(url) => url[end + 1] = Slash
  PROVE  /\ ServerInfo(url) = info
         /\ Find(url, 8, Slash) = IF end = Len(url) THEN 0 ELSE end + 1
<1>1. end <= Len(url)
  BY DEF LiesAt
<1>2. \A k \in 8..end : url[k] # Slash
  <2>1. PICK seven \in Nat : seven = 7
    OBVIOUS
  <2>2. \A k \in (seven + 1)..(seven + Len(info)) : url[k] # Slash
    BY <2>1, LacksWhereItLies
  <2> QED BY <2>1, <2>2
<1>3. SubSeq(url, 8, end) = info
  <2>1. PICK seven \in Nat : seven = 7
    OBVIOUS
  <2>2. SubSeq(url, seven + 1, seven + Len(info)) = info
    BY <2>1, LiesSub
  <2> QED BY <2>1, <2>2
<1>4. PICK eight \in Nat \ {0} : eight = 8
  OBVIOUS
<1>5. CASE end = Len(url)
  <2>1. Find(url, eight, Slash) = 0
    BY <1>2, <1>4, <1>5, FindNone
  <2> QED BY <1>3, <1>4, <1>5, <2>1 DEF ServerInfo
<1>6. CASE end # Len(url)
  <2>1. PICK j : j = end + 1
    OBVIOUS
  <2>2. j \in eight..Len(url) /\ url[j] = Slash /\ \A k \in eight..(j - 1) : url[k] # Slash
    BY <1>1, <1>2, <1>4, <1>6, <2>1
  <2>3. Find(url, eight, Slash) = j
    BY ONLY url \in Seq(Nat), eight \in Nat \ {0}, <2>2, FindIs
  <2>4. j # 0 /\ j - 1 = end
    BY <2>1
  <2>5. Find(url, 8, Slash) = j
    BY <1>4, <2>3
  <2>6. ServerInfo(url) = SubSeq(url, 8, j - 1)
    BY <2>4, <2>5 DEF ServerInfo
  <2> QED BY <1>3, <1>6, <2>1, <2>4, <2>5, <2>6
<1> QED BY <1>5, <1>6

LEMMA SchemeAndServer ==
  ASSUME NEW host \in Seq(Nat), NEW part \in Seq(Nat), NEW server, NEW info,
         server = Scheme \o host \o part, info = host \o part
  PROVE  server \in Seq(Nat) /\ Len(server) = 7 + Len(info) /\ LiesAt(server, 7, info)
<1>1. PICK s : s = Scheme
  OBVIOUS
<1>2. s \in Seq(Nat) /\ Len(s) = 7
  BY <1>1 DEF Scheme
<1>3. server = s \o info /\ info \in Seq(Nat)
  <2>1. server = (s \o host) \o part
    BY <1>1
  <2> QED BY SMTT(30), <1>2, <2>1, CatAssociative
<1>4. /\ server \in Seq(Nat) /\ Len(server) = Len(s) + Len(info) /\ LiesAt(server, Len(s), info)
  BY ONLY <1>2, <1>3, LiesCat
<1> QED BY ONLY <1>2, <1>4

LEMMA PlayedIs ==
  ASSUME NEW rest \in Seq(Nat)
  PROVE  (IF Prefixed(rest) THEN Mp4 \o <<Colon>> \o rest ELSE rest) = Played(rest)
  BY LacksFind DEF Prefixed, Played

(* A slash, and more behind it. *)
LEMMA SlashLies ==
  ASSUME NEW front \in Seq(Nat), NEW rest \in Seq(Nat), NEW url, url = front \o <<Slash>> \o rest
  PROVE  /\ url \in Seq(Nat) /\ Len(url) = Len(front) + 1 + Len(rest)
         /\ LiesAt(url, 0, front) /\ url[Len(front) + 1] = Slash
         /\ LiesAt(url, Len(front) + 1, rest)
<1>1. PICK s, t : s = <<Slash>> /\ t = front \o s
  OBVIOUS
<1>2. s \in Seq(Nat) /\ Len(s) = 1 /\ s[1] = Slash
  BY <1>1 DEF Slash
<1>3. /\ t \in Seq(Nat) /\ Len(t) = Len(front) + Len(s)
      /\ LiesAt(t, 0, front) /\ LiesAt(t, Len(front), s)
  BY <1>1, <1>2, LiesCat
<1>4. url = t \o rest
  BY <1>1
<1>5. url \in Seq(Nat) /\ Len(url) = Len(t) + Len(rest) /\ LiesAt(url, 0, t) /\ LiesAt(url, Len(t), rest)
  BY <1>3, <1>4, LiesCat
<1>6. PICK n \in Nat, zero \in Nat : n = Len(front) /\ zero = 0
  OBVIOUS
<1>7. LiesAt(url, zero + zero, front) /\ LiesAt(url, zero + n, s)
  BY <1>2, <1>3, <1>5, <1>6, LiesIn
<1>8. url[n + 1] = Slash
  BY <1>2, <1>6, <1>7 DEF LiesAt
<1>9. zero + zero = 0 /\ Len(t) = n + 1
  BY <1>2, <1>3, <1>6
<1>10. LiesAt(url, 0, front) /\ LiesAt(url, n + 1, rest) /\ Len(url) = n + 1 + Len(rest)
  BY ONLY <1>5, <1>7, <1>9
<1> QED BY ONLY <1>5, <1>6, <1>8, <1>10

(* What is found in each kind of URL.                                      *)
LEMMA BareUrl ==
  ASSUME NEW info \in Seq(Nat), Lacks(info, Slash), NEW url \in Seq(Nat),
         LiesAt(url, 7, info), Len(url) = 7 + Len(info)
  PROVE  /\ ServerInfo(url) = info
         /\ \A old : AppOf(url, old) = old /\ StreamOf(url, old) = old
<1>1. PICK end \in Nat : end = Len(url)
  OBVIOUS
<1>2. ServerInfo(url) = info /\ Find(url, 8, Slash) = 0
  BY <1>1, ServerLies
<1> QED BY <1>2 DEF AppOf, StreamOf

NamedAs(url, info) ==
  /\ ServerInfo(url) = info
  /\ \A old : AppOf(url, old) = CopyOver(old, Live \o <<0>>) /\ StreamOf(url, old) = <<>>

FullAs(url, info, app, stream) ==
  ServerInfo(url) = info /\ \A old : AppOf(url, old) = CopyOver(old, app) /\ StreamOf(url, old) = stream

LEMMA NamedUrl ==
  ASSUME NEW info \in Seq(Nat), Lacks(info, Slash), NEW server \in Seq(Nat),
         LiesAt(server, 7, info), Len(server) = 7 + Len(info),
         NEW rest \in Seq(Nat), Lacks(rest, Slash)
  PROVE  NamedAs(server \o <<Slash>> \o rest, info)
<1> PICK url : url = server \o <<Slash>> \o rest
  OBVIOUS
<1> SUFFICES NamedAs(url, info)
  OBVIOUS
<1>1. PICK end \in Nat, n \in Nat : end = Len(server) /\ n = Len(rest)
  OBVIOUS
<1>2. /\ url \in Seq(Nat) /\ Len(url) = end + 1 + n
      /\ LiesAt(url, 0, server) /\ url[end + 1] = Slash /\ LiesAt(url, end + 1, rest)
  BY <1>1, SlashLies
<1>3. LiesAt(url, 7, info)
  <2>1. PICK zero \in Nat, seven \in Nat : zero = 0 /\ seven = 7
    OBVIOUS
  <2>2. LiesAt(url, zero + seven, info)
    BY <1>2, <2>1, LiesIn
  <2> QED BY <2>1, <2>2
<1>4. ServerInfo(url) = info /\ Find(url, 8, Slash) = end + 1
  <2>1. end # Len(url) /\ end = 7 + Len(info)
    BY <1>1, <1>2
  <2>2. Find(url, 8, Slash) = IF end = Len(url) THEN 0 ELSE end + 1
    BY ONLY <1>2, <1>3, <2>1, info \in Seq(Nat), Lacks(info, Slash), end \in Nat, ServerLies
  <2>3. ServerInfo(url) = info
    BY ONLY <1>2, <1>3, <2>1, info \in Seq(Nat), Lacks(info, Slash), end \in Nat, ServerLies
  <2> QED BY ONLY <2>1, <2>2, <2>3
<1>5. Find(url, (end + 1) + 1, Slash) = 0
  <2>1. PICK q \in Nat, i \in Nat \ {0} : q = end + 1 /\ i = q + 1
    OBVIOUS
  <2>2. \A k \in (q + 1)..(q + Len(rest)) : url[k] # Slash
    <3>1. url \in Seq(Nat) /\ LiesAt(url, q, rest)
      BY ONLY <1>2, <2>1
    <3> QED BY ONLY <3>1, q \in Nat, rest \in Seq(Nat), Lacks(rest, Slash), LacksWhereItLies
  <2>3. i = q + 1 /\ Len(url) = q + Len(rest)
    BY <1>1, <1>2, <2>1
  <2>4. \A k \in i..Len(url) : url[k] # Slash
    BY ONLY <2>2, <2>3
  <2> QED BY <1>2, <2>1, <2>4, FindNone
<1>6. AppEnd(url) = 0
  BY <1>4, <1>5 DEF AppEnd
<1>7. Find(url, 8, Slash) # 0
  BY <1>4
<1> QED BY <1>4, <1>6, <1>7 DEF AppOf, StreamOf, NamedAs

LEMMA FullUrl ==
  ASSUME NEW info \in Seq(Nat), Lacks(info, Slash), NEW server \in Seq(Nat),
         LiesAt(server, 7, info), Len(server) = 7 + Len(info),
         NEW app \in Seq(Nat), Lacks(app, Slash), NEW rest \in Seq(Nat)
  PROVE  FullAs(server \o <<Slash>> \o app \o <<Slash>> \o rest, info, app, Played(rest))
<1> PICK url : url = server \o <<Slash>> \o app \o <<Slash>> \o rest
  OBVIOUS
<1> SUFFICES FullAs(url, info, app, Played(rest))
  OBVIOUS
<1>1. PICK end \in Nat, n \in Nat, m \in Nat : end = Len(server) /\ n = Len(app) /\ m = Len(rest)
  OBVIOUS
<1>2. PICK front : front = server \o <<Slash>> \o app
  OBVIOUS
<1>3. /\ front \in Seq(Nat) /\ Len(front) = end + 1 + n
      /\ LiesAt(front, 0, server) /\ front[end + 1] = Slash /\ LiesAt(front, end + 1, app)
  BY <1>1, <1>2, SlashLies
<1>4. url = front \o <<Slash>> \o rest
  BY <1>2
<1>5. PICK l \in Nat : l = end + 1 + n /\ l = Len(front)
  BY <1>3
<1>6. /\ url \in Seq(Nat) /\ Len(url) = l + 1 + m
      /\ LiesAt(url, 0, front) /\ url[l + 1] = Slash /\ LiesAt(url, l + 1, rest)
  <2>1. /\ url \in Seq(Nat) /\ Len(url) = Len(front) + 1 + Len(rest)
        /\ LiesAt(url, 0, front) /\ url[Len(front) + 1] = Slash
        /\ LiesAt(url, Len(front) + 1, rest)
    BY ONLY <1>3, <1>4, rest \in Seq(Nat), SlashLies
  <2> QED BY ONLY <1>1, <1>5, <2>1
<1>7. PICK zero \in Nat, seven \in Nat, q \in Nat : zero = 0 /\ seven = 7 /\ q = end + 1
  OBVIOUS
<1>8. LiesAt(url, zero + zero, server) /\ LiesAt(url, zero + q, app)
  BY <1>3, <1>6, <1>7, LiesIn
<1>9. LiesAt(url, seven, info) /\ url[end + 1] = Slash
  <2>1. LiesAt(url, zero, server)
    BY <1>7, <1>8
  <2>2. LiesAt(url, zero + seven, info)
    BY <1>6, <1>7, <2>1, LiesIn
  <2>3. url[0 + (end + 1)] = front[end + 1]
    <3>1. end + 1 \in 1..Len(front)
      BY ONLY SMTT(30), <1>1, <1>3, end \in Nat, n \in Nat
    <3>2. \A k \in 1..Len(front) : url[0 + k] = front[k]
      BY ONLY <1>6 DEF LiesAt
    <3> QED BY ONLY <3>1, <3>2
  <2>4. zero + seven = seven /\ 0 + (end + 1) = end + 1
    BY <1>7
  <2> QED BY ONLY <1>3, <2>2, <2>3, <2>4
<1>10. ServerInfo(url) = info /\ Find(url, 8, Slash) = end + 1
  <2>1. end # Len(url) /\ end = 7 + Len(info)
    BY <1>1, <1>5, <1>6
  <2>2. LiesAt(url, 7, info) /\ url[end + 1] = Slash
    BY <1>7, <1>9
  <2>3. Find(url, 8, Slash) = IF end = Len(url) THEN 0 ELSE end + 1
    BY ONLY <1>6, <2>1, <2>2, info \in Seq(Nat), Lacks(info, Slash), end \in Nat, ServerLies
  <2>4. ServerInfo(url) = info
    BY ONLY <1>6, <2>1, <2>2, info \in Seq(Nat), Lacks(info, Slash), end \in Nat, ServerLies
  <2> QED BY ONLY <2>1, <2>3, <2>4
<1>11. LiesAt(url, q, app)
  BY <1>7, <1>8
<1>12. Find(url, q + 1, Slash) = l + 1
  <2>1. PICK i \in Nat \ {0}, j \in Int : i = q + 1 /\ j = l + 1
    OBVIOUS
  <2>2. \A k \in (q + 1)..(q + Len(app)) : url[k] # Slash
    BY <1>6, <1>11, LacksWhereItLies
  <2>3. j \in i..Len(url) /\ url[j] = Slash /\ \A k \in i..(j - 1) : url[k] # Slash
    <3>1. q + n = l /\ i = q + 1 /\ j = l + 1 /\ n = Len(app) /\ l + 1 <= Len(url)
      <4>1. q = end + 1 /\ l = end + 1 + n /\ Len(url) = l + 1 + m
        BY ONLY <1>5, <1>6, <1>7
      <4>2. q + n = l /\ l + 1 <= Len(url)
        BY ONLY <4>1, m \in Nat, n \in Nat, end \in Nat, l \in Nat, q \in Nat
      <4> QED BY ONLY <1>1, <2>1, <4>2
    <3>2. j \in i..Len(url) /\ j - 1 = q + Len(app)
      BY <1>6, <3>1
    <3>3. url[j] = Slash
      BY ONLY <1>6, <3>1
    <3> QED BY ONLY <2>1, <2>2, <3>2, <3>3
  <2>4. Find(url, i, Slash) = j
    BY ONLY <1>6, <2>3, i \in Nat \ {0}, FindIs
  <2> QED BY <2>1, <2>4
<1>13. AppEnd(url) = l + 1
  BY <1>7, <1>10, <1>12 DEF AppEnd
<1>14. SubSeq(url, q + 1, (l + 1) - 1) = app
  <2>1. SubSeq(url, q + 1, q + Len(app)) = app
    BY <1>6, <1>11, LiesSub
  <2>2. q + Len(app) = (l + 1) - 1
    BY <1>1, <1>5, <1>7
  <2> QED BY <2>1, <2>2
<1>15. SubSeq(url, (l + 1) + 1, Len(url)) = rest
  <2>1. PICK x \in Nat : x = l + 1
    OBVIOUS
  <2>2. SubSeq(url, x + 1, x + Len(rest)) = rest
    BY <1>6, <2>1, LiesSub
  <2>3. x + Len(rest) = Len(url)
    BY <1>1, <1>6, <2>1
  <2> QED BY <2>1, <2>2, <2>3
<1>16. PICK a \in Nat, e \in Nat : a = l + 1 /\ e = end + 1
  OBVIOUS
<1>17. /\ Find(url, 8, Slash) = e /\ e # 0 /\ AppEnd(url) = a /\ a # 0
       /\ SubSeq(url, e + 1, a - 1) = app /\ SubSeq(url, a + 1, Len(url)) = rest
  BY ONLY <1>7, <1>10, <1>13, <1>14, <1>15, <1>16, l \in Nat, end \in Nat
<1>18. ASSUME NEW old PROVE AppOf(url, old) = CopyOver(old, app) /\ StreamOf(url, old) = Played(rest)
  <2>1. AppOf(url, old) = CopyOver(old, app)
    BY ONLY <1>17 DEF AppOf
  <2>2. StreamOf(url, old) = IF Prefixed(rest) THEN Mp4 \o <<Colon>> \o rest ELSE rest
    BY ONLY <1>17 DEF StreamOf
  <2> QED BY <2>1, <2>2, PlayedIs
<1> QED BY <1>10, <1>18 DEF FullAs

LEMMA CopyOverType ==
  ASSUME NEW old \in Seq(Nat), NEW s \in Seq(Nat), NEW room \in Nat, Len(old) < room, Len(s) < room
  PROVE  CopyOver(old, s) \in Seq(Nat) /\ Len(CopyOver(old, s)) < room
<1>1. PICK m \in Nat, n \in Nat : m = Len(old) /\ n = Len(s)
  OBVIOUS
<1>2. PICK t : t = SubSeq(old, n + 1, m)
  OBVIOUS
<1>3. CopyOver(old, s) = s \o t
  BY <1>1, <1>2 DEF CopyOver
<1>4. t \in Seq(Nat) /\ n + Len(t) < room
  <2>1. CASE n <= m
    BY <1>1, <1>2, <2>1, PartTyped
  <2>2. CASE n > m
    <3>1. t = <<>>
      BY <1>1, <1>2, <2>2
    <3> QED BY <1>1, <3>1
  <2> QED BY <2>1, <2>2
<1>5. s \o t \in Seq(Nat) /\ Len(s \o t) = n + Len(t)
  BY <1>1, <1>4, CatParts
<1> QED BY <1>3, <1>4, <1>5

LEMMA CopyOverNothing ==
  ASSUME NEW s \in Seq(Nat)
  PROVE  CopyOver(<<>>, s) = s
<1>1. SubSeq(<<>>, Len(s) + 1, Len(<<>>)) = <<>>
  OBVIOUS
<1>2. s \o <<>> = s
  OBVIOUS
<1> QED BY <1>1, <1>2 DEF CopyOver

(* A text in memory, up to its end.                                        *)
LEMMA CTextType ==
  ASSUME NEW b \in Seq(Nat)
  PROVE  CText(b) \in Seq(Nat) /\ Len(CText(b)) <= Len(b)
<1>1. PICK n \in Nat, zero \in Nat, one \in Nat \ {0} : n = Len(b) /\ zero = 0 /\ one = 1
  OBVIOUS
<1>2. PICK m \in Int : m = (IF Find(b, 1, 0) = 0 THEN n ELSE Find(b, 1, 0) - 1) /\ 0 <= m /\ m <= n
  <2>1. CASE Find(b, 1, 0) = 0
    BY <2>1
  <2>2. CASE Find(b, 1, 0) # 0
    <3>1. ~Lacks(b, zero)
      BY <1>1, <2>2, LacksFind
    <3>2. PICK found : found = {k \in 1..Len(b) : b[k] = 0}
      OBVIOUS
    <3>3. found # {} /\ found \in SUBSET Nat
      BY <1>1, <3>1, <3>2 DEF Lacks
    <3>4. PICK k : k = CHOOSE j \in found : \A l \in found : j <= l
      OBVIOUS
    <3>5. k \in found
      BY <3>3, <3>4, Smallest
    <3>6. Find(b, 1, 0) = k
      BY <2>2, <3>2, <3>4 DEF Find
    <3> QED BY <1>1, <2>2, <3>2, <3>5, <3>6
  <2> QED BY <2>1, <2>2
<1>3. PICK t : t = SubSeq(b, one, m)
  OBVIOUS
<1>4. t \in Seq(Nat) /\ Len(t) = m
  BY <1>1, <1>2, <1>3, PartTyped
<1>5. CText(b) = t
  BY <1>1, <1>2, <1>3 DEF CText
<1> QED BY <1>1, <1>2, <1>4, <1>5

LEMMA CTextWhole ==
  ASSUME NEW s \in Seq(Nat), Lacks(s, 0)
  PROVE  CText(s) = s
<1>1. PICK zero \in Nat : zero = 0
  OBVIOUS
<1>2. Find(s, 1, 0) = 0
  BY <1>1, LacksFind
<1>3. SubSeq(s, 1, Len(s)) = s
  OBVIOUS
<1> QED BY <1>2, <1>3 DEF CText

LEMMA CTextEnded ==
  ASSUME NEW s \in Seq(Nat), Lacks(s, 0)
  PROVE  s \o <<0>> \in Seq(Nat) /\ Len(s \o <<0>>) = Len(s) + 1 /\ CText(s \o <<0>>) = s
<1>1. PICK b, e : e = <<0>> /\ b = s \o e
  OBVIOUS
<1>2. e \in Seq(Nat) /\ Len(e) = 1 /\ e[1] = 0
  BY ONLY <1>1
<1>3. PICK n \in Nat, zero \in Nat, one \in Nat \ {0} : n = Len(s) /\ zero = 0 /\ one = 1
  OBVIOUS
<1>4. /\ b \in Seq(Nat) /\ Len(b) = n + 1 /\ \A k \in 1..n : b[k] = s[k]
      /\ \A k \in (n + 1)..(n + 1) : b[k] = e[k - n]
  BY ONLY <1>1, <1>2, <1>3, s \in Seq(Nat), CatParts
<1>5. b[n + 1] = 0
  BY ONLY <1>2, <1>4, <1>3, n \in Nat
<1>6. PICK j \in one..Len(b) : j = n + 1
  BY ONLY <1>3, <1>4, n \in Nat
<1>7. \A k \in one..(j - 1) : b[k] # zero
  BY <1>3, <1>4, <1>6 DEF Lacks
<1>8. Find(b, one, zero) = j
  BY <1>3, <1>4, <1>5, <1>6, <1>7, FindIs
<1>9. CText(b) = SubSeq(b, 1, n)
  BY ONLY <1>3, <1>6, <1>8, n \in Nat DEF CText
<1>10. SubSeq(b, 1, Len(s)) = s
  BY ONLY <1>3, <1>4, s \in Seq(Nat), FrontIs
<1> QED BY <1>1, <1>3, <1>4, <1>9, <1>10

LEMMA PartType ==
  ASSUME NEW port \in Nat, NEW part \in PortParts(port)
  PROVE  part \in Seq(Nat)
<1>1. CASE part = <<>> /\ port = 1935
  BY <1>1
<1>2. CASE ~(part = <<>> /\ port = 1935)
  <2>1. /\ part \in Seq(Nat) /\ Len(part) > 0 /\ part[1] = Colon /\ Lacks(part, Slash)
        /\ \E digits \in Seq(Nat) : LiesAt(part, 1, digits) /\ Len(part) = 1 + Len(digits)
                                    /\ Atoi(digits) = port
    BY <1>2, PartLies
  <2> QED BY <2>1
<1> QED BY <1>1, <1>2

(* A server, as far as the parser sees it. *)
IsServer(server, host, port) ==
  \E info \in Seq(Nat) :
    /\ Lacks(info, Slash)
    /\ server \in Seq(Nat) /\ Len(server) = 7 + Len(info) /\ LiesAt(server, 7, info)
    /\ \A url : ServerInfo(url) = info => HostOf(url) = host /\ PortOf(url) = port

LEMMA ServerMeant ==
  ASSUME NEW host \in Seq(Nat), Lacks(host, Slash), Lacks(host, Colon),
         NEW port \in Nat, NEW part \in PortParts(port)
  PROVE  IsServer(Scheme \o host \o part, host, port)
<1>1. PICK info, server : info = host \o part /\ server = Scheme \o host \o part
  OBVIOUS
<1>2. part \in Seq(Nat)
  BY PartType
<1>3. server \in Seq(Nat) /\ Len(server) = 7 + Len(info) /\ LiesAt(server, 7, info)
  BY <1>1, <1>2, SchemeAndServer
<1>4. HostPort(info, host, port)
  BY <1>1, HostAndPort
<1>5. ASSUME NEW url, ServerInfo(url) = info PROVE HostOf(url) = host /\ PortOf(url) = port
  BY <1>4, <1>5 DEF HostPort, HostOf, PortOf
<1>6. info \in Seq(Nat) /\ Lacks(info, Slash)
  BY <1>4 DEF HostPort
<1> QED BY <1>1, <1>3, <1>5, <1>6 DEF IsServer

(* What the parser makes of a URL: an application and a stream, unless     *)
(* there is only the server in it.                                         *)
Parsed(url, host, port, app, stream) ==
  /\ HostOf(url) = host /\ PortOf(url) = port
  /\ \/ /\ app = <<>> /\ stream = <<>>
        /\ \A old : AppOf(url, old) = old /\ StreamOf(url, old) = old
     \/ \A old : /\ \/ AppOf(url, old) = CopyOver(old, app)
                    \/ app = Live /\ AppOf(url, old) = CopyOver(old, app \o <<0>>)
                 /\ StreamOf(url, old) = stream

LEMMA ParsedBare ==
  ASSUME NEW server, NEW host, NEW port, IsServer(server, host, port)
  PROVE  Parsed(server, host, port, <<>>, <<>>)
<1>1. PICK info \in Seq(Nat) :
        /\ Lacks(info, Slash)
        /\ server \in Seq(Nat) /\ Len(server) = 7 + Len(info) /\ LiesAt(server, 7, info)
        /\ \A url : ServerInfo(url) = info => HostOf(url) = host /\ PortOf(url) = port
  BY DEF IsServer
<1>2. ServerInfo(server) = info /\ \A old : AppOf(server, old) = old /\ StreamOf(server, old) = old
  BY <1>1, BareUrl
<1> QED BY <1>1, <1>2 DEF Parsed

LEMMA ParsedNamed ==
  ASSUME NEW server, NEW host, NEW port, IsServer(server, host, port),
         NEW rest \in Seq(Nat), Lacks(rest, Slash)
  PROVE  Parsed(server \o <<Slash>> \o rest, host, port, Live, <<>>)
<1>1. PICK info \in Seq(Nat) :
        /\ Lacks(info, Slash)
        /\ server \in Seq(Nat) /\ Len(server) = 7 + Len(info) /\ LiesAt(server, 7, info)
        /\ \A url : ServerInfo(url) = info => HostOf(url) = host /\ PortOf(url) = port
  BY DEF IsServer
<1>2. PICK url : url = server \o <<Slash>> \o rest
  OBVIOUS
<1>3. NamedAs(url, info)
  BY <1>1, <1>2, NamedUrl
<1> QED BY <1>1, <1>2, <1>3 DEF NamedAs, Parsed

LEMMA ParsedFull ==
  ASSUME NEW server, NEW host, NEW port, IsServer(server, host, port),
         NEW app \in Seq(Nat), Lacks(app, Slash), NEW rest \in Seq(Nat)
  PROVE  Parsed(server \o <<Slash>> \o app \o <<Slash>> \o rest, host, port, app, Played(rest))
<1>1. PICK info \in Seq(Nat) :
        /\ Lacks(info, Slash)
        /\ server \in Seq(Nat) /\ Len(server) = 7 + Len(info) /\ LiesAt(server, 7, info)
        /\ \A url : ServerInfo(url) = info => HostOf(url) = host /\ PortOf(url) = port
  BY DEF IsServer
<1>2. PICK url : url = server \o <<Slash>> \o app \o <<Slash>> \o rest
  OBVIOUS
<1>3. FullAs(url, info, app, Played(rest))
  BY <1>1, <1>2, FullUrl
<1> QED BY <1>1, <1>2, <1>3 DEF FullAs, Parsed

LEMMA UrlParsed ==
  ASSUME NEW u, IsUrl(u)
  PROVE  Parsed(u.url, u.host, u.port, u.app, u.stream)
<1>1. PICK part \in PortParts(u.port) :
        \/ u.url = Scheme \o u.host \o part /\ u.app = <<>> /\ u.stream = <<>>
        \/ \E i \in 1..(Len(u.url) + 1) :
             \/ /\ u.url = Scheme \o u.host \o part \o <<Slash>> \o SubSeq(u.url, i, Len(u.url))
                /\ Lacks(SubSeq(u.url, i, Len(u.url)), Slash)
                /\ u.app = Live /\ u.stream = <<>>
             \/ /\ u.url = Scheme \o u.host \o part \o <<Slash>> \o u.app \o <<Slash>>
                             \o SubSeq(u.url, i, Len(u.url))
                /\ Lacks(u.app, Slash) /\ u.stream = Played(SubSeq(u.url, i, Len(u.url)))
  <2>1. Means(u)
    BY DEF IsUrl
  <2> QED BY ONLY Zenon, <2>1 DEF Means
<1>2. PICK url \in Seq(Nat), host \in Seq(Nat), app \in Seq(Nat), stream \in Seq(Nat), port \in Nat :
        url = u.url /\ host = u.host /\ app = u.app /\ stream = u.stream /\ port = u.port
  BY DEF IsUrl
<1>3. Lacks(host, Slash) /\ Lacks(host, Colon)
  <2>1. Means(u)
    BY DEF IsUrl
  <2>2. Lacks(u.host, Slash) /\ Lacks(u.host, Colon)
    BY ONLY Zenon, <2>1 DEF Means
  <2> QED BY ONLY <1>2, <2>2
<1>4. PICK server : server = Scheme \o host \o part
  BY ONLY ZenonT(30)
<1>5. IsServer(server, host, port)
  <2>1. part \in PortParts(port)
    BY <1>2
  <2> QED BY <1>3, <1>4, <2>1, ServerMeant
<1>6. \/ url = server /\ app = <<>> /\ stream = <<>>
      \/ \E i \in 1..(Len(url) + 1) :
           \/ /\ url = server \o <<Slash>> \o SubSeq(url, i, Len(url))
              /\ Lacks(SubSeq(url, i, Len(url)), Slash)
              /\ app = Live /\ stream = <<>>
           \/ /\ url = server \o <<Slash>> \o app \o <<Slash>> \o SubSeq(url, i, Len(url))
              /\ Lacks(app, Slash) /\ stream = Played(SubSeq(url, i, Len(url)))
  BY ONLY Zenon, <1>1, <1>2, <1>4
<1>7. Parsed(url, host, port, app, stream)
  <2>1. CASE url = server /\ app = <<>> /\ stream = <<>>
    BY <1>5, <2>1, ParsedBare
  <2>2. CASE ~(url = server /\ app = <<>> /\ stream = <<>>)
    <3>1. PICK i \in 1..(Len(url) + 1) :
            \/ /\ url = server \o <<Slash>> \o SubSeq(url, i, Len(url))
               /\ Lacks(SubSeq(url, i, Len(url)), Slash)
               /\ app = Live /\ stream = <<>>
            \/ /\ url = server \o <<Slash>> \o app \o <<Slash>> \o SubSeq(url, i, Len(url))
               /\ Lacks(app, Slash) /\ stream = Played(SubSeq(url, i, Len(url)))
      BY <1>6, <2>2
    <3>2. PICK rest : rest = SubSeq(url, i, Len(url))
      OBVIOUS
    <3>3. rest \in Seq(Nat)
      <4>1. i \in Nat \ {0} /\ i - 1 <= Len(url) /\ Len(url) \in Int
        OBVIOUS
      <4> QED BY SMTT(30), <3>2, <4>1, PartTyped
    <3>4. CASE /\ url = server \o <<Slash>> \o rest /\ Lacks(rest, Slash)
               /\ app = Live /\ stream = <<>>
      BY <1>5, <3>3, <3>4, ParsedNamed
    <3>5. CASE /\ url = server \o <<Slash>> \o app \o <<Slash>> \o rest
               /\ Lacks(app, Slash) /\ stream = Played(rest)
      BY <1>5, <3>3, <3>5, ParsedFull
    <3> QED BY <3>1, <3>2, <3>4, <3>5
  <2> QED BY <2>1, <2>2
<1> QED BY <1>2, <1>7

-----------------------------------------------------------------------------
(* The URL.                                                                *)
UrlInv ==
  /\ urls \in Nat /\ urls <= MaxUrls
  /\ rtmp_url \in Seq(Nat) /\ Len(rtmp_url) < 512
  /\ rtmp_app \in Seq(Nat) /\ Len(rtmp_app) < 32
  /\ rtmp_stream \in Seq(Nat) /\ Len(rtmp_stream) < 128
  /\ urls = 0 => rtmp_app = <<>> /\ rtmp_stream = <<>>
  /\ urls > 0 => /\ meant \in Urls /\ rtmp_url = meant.url
                 /\ rtmp_host = meant.host /\ rtmp_port = meant.port
  /\ urls = 1 => AppText = meant.app /\ rtmp_stream = meant.stream

LEMMA AppTextType ==
  ASSUME UrlInv
  PROVE  AppText \in Seq(Nat) /\ Len(AppText) < 32
<1>1. PICK b \in Seq(Nat), n \in Nat : b = rtmp_app /\ n = Len(b) /\ n < 32
  BY DEF UrlInv
<1>2. CText(b) \in Seq(Nat) /\ Len(CText(b)) <= n
  BY ONLY <1>1, CTextType
<1> QED BY <1>1, <1>2 DEF AppText

LEMMA UrlInit == ASSUME WireInit PROVE UrlInv
  BY WireAssumption DEF WireInit, UrlInv

LEMMA OthersKeepUrl ==
  ASSUME ThreadRuns \/ ServerServes \/ ServerCommands \/ ServerAnswersOther \/ UNCHANGED wireVars
  PROVE  UNCHANGED urlVars
<1>1. ASSUME ThreadRuns PROVE UNCHANGED urlVars
  BY Zenon, <1>1 DEF ThreadRuns, BuildConnect, MoveConnect, SendConnect, HandleCommand
<1>2. ASSUME ServerServes \/ ServerCommands \/ ServerAnswersOther PROVE UNCHANGED urlVars
  BY Zenon, <1>2 DEF ServerServes, ServerCommands, ServerAnswersOther, ServerReads, ServerAnswers, Says
<1>3. ASSUME UNCHANGED wireVars PROVE UNCHANGED urlVars
  BY <1>3 DEF wireVars
<1> QED BY <1>1, <1>2, <1>3

LEMMA UrlSet ==
  ASSUME UrlInv, NEW u \in Urls, SetupUrl(u)
  PROVE  UrlInv'
<1>1. IsUrl(u)
  BY WireAssumption
<1>2. /\ u.url \in Seq(Nat) /\ u.app \in Seq(Nat) /\ u.stream \in Seq(Nat)
      /\ Len(u.url) < 512 /\ Len(u.app) < 32 /\ Len(u.stream) < 128
  BY <1>1 DEF IsUrl, Fits
<1>3. Parsed(u.url, u.host, u.port, u.app, u.stream)
  BY <1>1, UrlParsed
<1>4. /\ urls' = urls + 1 /\ urls < MaxUrls /\ meant' = u /\ rtmp_url' = u.url
      /\ rtmp_app' = AppOf(u.url, rtmp_app) /\ rtmp_stream' = StreamOf(u.url, rtmp_stream)
      /\ rtmp_host' = HostOf(u.url) /\ rtmp_port' = PortOf(u.url)
  BY DEF SetupUrl
<1>5. rtmp_host' = u.host /\ rtmp_port' = u.port
  BY <1>3, <1>4 DEF Parsed
<1>6. rtmp_app \in Seq(Nat) /\ Len(rtmp_app) < 32 /\ rtmp_stream \in Seq(Nat) /\ Len(rtmp_stream) < 128
  BY DEF UrlInv
<1>7. \/ u.app = <<>> /\ u.stream = <<>> /\ rtmp_app' = rtmp_app /\ rtmp_stream' = rtmp_stream
      \/ /\ \/ rtmp_app' = CopyOver(rtmp_app, u.app)
            \/ u.app = Live /\ rtmp_app' = CopyOver(rtmp_app, u.app \o <<0>>)
         /\ rtmp_stream' = u.stream
  BY <1>3, <1>4 DEF Parsed
<1>8. PICK old \in Seq(Nat), app \in Seq(Nat), room \in Nat, ended \in {u.app \o <<0>>} :
        old = rtmp_app /\ app = u.app /\ room = 32
  BY <1>2, <1>6
<1>9. CopyOver(old, app) \in Seq(Nat) /\ Len(CopyOver(old, app)) < room
  BY <1>2, <1>6, <1>8, CopyOverType
<1>10. Lacks(app, 0)
  BY <1>1, <1>8 DEF IsUrl
<1>11. ended \in Seq(Nat) /\ Len(ended) = Len(app) + 1 /\ CText(ended) = app /\ CText(app) = app
  BY <1>8, <1>10, CTextWhole, CTextEnded
<1>12. ASSUME app = Live PROVE CopyOver(old, ended) \in Seq(Nat) /\ Len(CopyOver(old, ended)) < room
  <2>1. Len(app) = 4
    BY <1>12 DEF Live
  <2>2. Len(ended) < room
    BY <1>8, <1>11, <2>1
  <2> QED BY <1>6, <1>8, <1>11, <2>2, CopyOverType
<1>13. \/ u.app = <<>> /\ rtmp_app' = old
       \/ rtmp_app' = CopyOver(old, app)
       \/ app = Live /\ rtmp_app' = CopyOver(old, ended)
  BY ONLY <1>7, <1>8
<1>14. /\ rtmp_app' \in Seq(Nat) /\ Len(rtmp_app') < 32
       /\ rtmp_stream' \in Seq(Nat) /\ Len(rtmp_stream') < 128
  <2>1. rtmp_app' \in Seq(Nat) /\ Len(rtmp_app') < room
    BY ONLY <1>6, <1>8, <1>9, <1>12, <1>13
  <2> QED BY <1>2, <1>6, <1>7, <1>8, <2>1
<1>15. ASSUME urls' = 1 PROVE AppText' = u.app /\ rtmp_stream' = u.stream
  <2>1. rtmp_app = <<>> /\ rtmp_stream = <<>>
    BY <1>4, <1>15 DEF UrlInv
  <2>2. CopyOver(<<>>, app) = app /\ CopyOver(<<>>, ended) = ended
    BY <1>11, CopyOverNothing
  <2>3. rtmp_app' = app \/ rtmp_app' = ended
    BY ONLY <1>8, <1>13, <2>1, <2>2
  <2>4. CText(rtmp_app') = app
    BY ONLY <1>11, <2>3
  <2> QED BY <1>7, <1>8, <2>1, <2>4 DEF AppText
<1>16. urls' \in Nat /\ urls' > 0 /\ urls' <= MaxUrls
  BY <1>4, WireAssumption DEF UrlInv
<1> QED BY <1>2, <1>4, <1>5, <1>14, <1>15, <1>16 DEF UrlInv

LEMMA UrlNext == ASSUME UrlInv, [WireNext]_wireVars PROVE UrlInv'
<1>1. CASE \E u \in Urls : SetupUrl(u)
  BY <1>1, UrlSet
<1>2. CASE ThreadRuns \/ ServerServes \/ ServerCommands \/ ServerAnswersOther \/ UNCHANGED wireVars
  <2>1. UNCHANGED urlVars
    BY <1>2, OthersKeepUrl
  <2> QED BY <2>1 DEF urlVars, UrlInv, AppText
<1> QED BY <1>1, <1>2 DEF WireNext

LEMMA UrlInvariant == WireSpec => []UrlInv
  BY UrlInit, UrlNext, PTL DEF WireSpec

(* Whatever URL is set: host, port, application and stream are what it     *)
(* means.                                                                  *)
THEOREM UrlIsUnderstood == ASSUME MaxUrls = 1 PROVE WireSpec => []UrlUnderstood
<1>1. UrlInv => UrlUnderstood
  BY DEF UrlInv, UrlUnderstood
<1> QED BY <1>1, UrlInvariant, PTL

(* Of URLs set one after the other, the last one tells which server is     *)
(* called.                                                                 *)
LastCalled == urls > 0 => rtmp_host = meant.host /\ rtmp_port = meant.port /\ rtmp_url = meant.url

THEOREM LastIsCalled == WireSpec => []LastCalled
<1>1. UrlInv => LastCalled
  BY DEF UrlInv, LastCalled
<1> QED BY <1>1, UrlInvariant, PTL

-----------------------------------------------------------------------------
(* The split in place.  While pages are moved, the front of the buffer is  *)
(* as it was, up to the end of the page to be moved next, and the pages    *)
(* behind it lie where they belong.                                        *)

(* Page k, and its header, are in their places. *)
Placed(k) ==
  /\ pag_buf[header_len + k * 129 - 1] = ct
  /\ \A i \in 0..127 : pag_buf[header_len + k * 129 + i] = pushed[header_len + k * 128 + i]

SplitTypeOK ==
  /\ header_len \in Nat /\ pag_len \in Nat /\ pag_len > header_len
  /\ Room(header_len, pag_len)
  /\ page \in 0..page_count

SplitInv ==
  /\ SplitTypeOK
  /\ \A j \in 0..(BufLen - 1) : j < header_len + (page + 1) * 128 => pag_buf[j] = pushed[j]
  /\ \A k \in (page + 1)..page_count : Placed(k)

(* The number of pages after the first is the integer it should be.        *)
LEMMA PageCount ==
  \A n \in Nat : n > 0 =>
    /\ (n - 1) \div 128 \in Nat
    /\ ((n - 1) \div 128) * 128 < n /\ n <= ((n - 1) \div 128 + 1) * 128
  OBVIOUS

LEMMA Pages ==
  ASSUME SplitTypeOK
  PROVE  /\ page_count \in Nat
         /\ page_count * 128 < pag_len - header_len
         /\ pag_len - header_len <= (page_count + 1) * 128
         /\ header_len + (page_count + 1) * 129 <= BufLen
<1>1. pag_len - header_len \in Nat /\ pag_len - header_len > 0
  BY DEF SplitTypeOK
<1> QED
  BY <1>1, PageCount DEF SplitTypeOK, page_count, Room, chunk_max_size

LEMMA SplitBegins == ASSUME Init PROVE SplitInv
<1>1. page_count \in Nat
  <2>1. pag_len - header_len \in Nat /\ pag_len - header_len > 0
    BY DEF Init
  <2> QED BY <2>1, PageCount DEF page_count, chunk_max_size
<1>2. SplitTypeOK
  BY <1>1 DEF Init, SplitTypeOK
<1> QED
  BY <1>1, <1>2 DEF Init, SplitInv

LEMMA SplitGoes == ASSUME SplitInv, MovePage PROVE SplitInv'
<1> USE SplitAssumption
<1> DEFINE src == header_len + page * 128
           dst == header_len + page * 129
<1>1. page \in Nat /\ page > 0 /\ page <= page_count /\ page' = page - 1
  BY Pages DEF SplitInv, SplitTypeOK, MovePage, PageAfter
<1>2. page_count' = page_count /\ UNCHANGED <<header_len, pag_len, pushed>>
  BY DEF MovePage, page_count
<1>3. header_len \in Nat /\ src \in Nat /\ dst \in Nat /\ dst - 1 >= src /\ dst + 127 < BufLen
  BY <1>1, Pages DEF SplitInv, SplitTypeOK
<1>4. pag_buf' = [j \in 0..(BufLen - 1) |->
                    IF j \in dst..(dst + 127) THEN pag_buf[src + (j - dst)]
                    ELSE IF j = dst - 1 THEN ct ELSE pag_buf[j]]
  BY <1>1, <1>3 DEF MovePage, chunk_max_size
<1> HIDE DEF src, dst
<1>5. SplitTypeOK'
  BY <1>1, <1>2, Pages DEF SplitInv, SplitTypeOK, Room
<1>6. ASSUME NEW j \in 0..(BufLen - 1), j < header_len + (page' + 1) * 128
      PROVE  pag_buf'[j] = pushed'[j]
  <2>1. j < src
    BY <1>1, <1>3, <1>6 DEF src
  <2>2. pag_buf'[j] = pag_buf[j]
    BY <1>3, <1>4, <2>1
  <2>3. j < header_len + (page + 1) * 128
    BY <1>1, <1>3, <2>1 DEF src
  <2> QED BY <1>2, <2>2, <2>3 DEF SplitInv
<1>7. ASSUME NEW k \in (page' + 1)..page_count' PROVE Placed(k)'
  <2>1. k \in Nat /\ k >= page /\ k <= page_count
    BY <1>1, <1>2, Pages DEF SplitInv
  <2>2. CASE k = page
    <3>1. pag_buf'[dst - 1] = ct
      BY <1>3, <1>4
    <3>2. ASSUME NEW i \in 0..127 PROVE pag_buf'[dst + i] = pushed[src + i]
      <4>1. pag_buf'[dst + i] = pag_buf[src + i]
        BY <1>3, <1>4
      <4>2. src + i \in 0..(BufLen - 1) /\ src + i < header_len + (page + 1) * 128
        BY <1>1, <1>3 DEF src
      <4> QED BY <4>1, <4>2 DEF SplitInv
    <3>3. /\ header_len' + k * 129 - 1 = dst - 1
          /\ \A i \in 0..127 : /\ header_len' + k * 129 + i = dst + i
                               /\ header_len' + k * 128 + i = src + i
      BY <1>1, <1>2, <1>3, <2>2 DEF src, dst
    <3> QED BY <1>2, <3>1, <3>2, <3>3 DEF Placed
  <2>3. CASE k > page
    <3>1. Placed(k)
      BY <1>1, <2>1, <2>3, Pages DEF SplitInv
    <3>2. \A i \in -1..127 : /\ header_len + k * 129 + i \in 0..(BufLen - 1)
                             /\ header_len + k * 129 + i > dst + 127
      BY <1>1, <1>3, <2>1, <2>3, Pages DEF SplitInv, dst
    <3>3. \A i \in -1..127 :
             pag_buf'[header_len + k * 129 + i] = pag_buf[header_len + k * 129 + i]
      BY <1>3, <1>4, <3>2
    <3>4. pag_buf'[header_len + k * 129 - 1] = pag_buf[header_len + k * 129 - 1]
      BY <1>3, <2>1, <3>3
    <3> QED BY <1>2, <3>1, <3>3, <3>4 DEF Placed
  <2> QED BY <1>1, <2>1, <2>2, <2>3
<1>8. \A j \in 0..(BufLen - 1) :
         j < header_len' + (page' + 1) * 128 => pag_buf'[j] = pushed'[j]
  BY <1>2, <1>6
<1>9. \A k \in (page' + 1)..page_count' : Placed(k)'
  BY <1>7
<1> QED BY <1>5, <1>8, <1>9 DEF SplitInv

LEMMA SplitStays == ASSUME SplitInv, UNCHANGED splitVars PROVE SplitInv'
  BY DEF SplitInv, SplitTypeOK, Room, page_count, Placed, splitVars

(* With all pages moved, byte j is in page j div 128. *)
LEMMA AllMoved == ASSUME SplitInv PROVE SplitRight
<1> USE SplitAssumption
<1> SUFFICES ASSUME page = 0
             PROVE  /\ \A j \in 0..(header_len - 1) : pag_buf[j] = pushed[j]
                    /\ \A j \in 0..(pag_len - header_len - 1) :
                         pag_buf[header_len + j + j \div 128] = pushed[header_len + j]
                    /\ \A k \in 1..page_count : pag_buf[header_len + k * 129 - 1] = ct
  BY DEF SplitRight, chunk_max_size
<1>1. header_len \in Nat /\ pag_len \in Nat /\ SplitTypeOK
  BY DEF SplitInv, SplitTypeOK
<1>2. \A j \in 0..(BufLen - 1) : j < header_len + 128 => pag_buf[j] = pushed[j]
  BY <1>1 DEF SplitInv
<1>3. \A k \in 1..page_count : Placed(k)
  BY DEF SplitInv
<1>4. \A j \in 0..(header_len - 1) : pag_buf[j] = pushed[j]
  BY <1>1, <1>2, Pages
<1>5. ASSUME NEW j \in 0..(pag_len - header_len - 1)
      PROVE  pag_buf[header_len + j + j \div 128] = pushed[header_len + j]
  <2> DEFINE k == j \div 128
             i == j - k * 128
  <2>1. k \in Nat /\ i \in 0..127 /\ j = k * 128 + i
    BY <1>1
  <2>2. k <= page_count
    BY <1>1, <2>1, Pages
  <2>3. CASE k = 0
    BY <1>1, <1>2, <2>1, <2>3, Pages
  <2>4. CASE k > 0
    <3>1. Placed(k)
      BY <1>3, <2>1, <2>2, <2>4, <1>1, Pages
    <3>2. /\ header_len + j + k = header_len + k * 129 + i
          /\ header_len + j = header_len + k * 128 + i
      BY <1>1, <2>1
    <3> QED BY <2>1, <3>1, <3>2 DEF Placed
  <2> QED BY <2>1, <2>3, <2>4
<1> QED BY <1>3, <1>4, <1>5 DEF Placed

(* Whatever the message and wherever it ends, the split loses no byte of   *)
(* it and puts a chunk header in front of every page but the first.        *)
THEOREM SplitIsRight == Spec => []SplitRight
<1>1. SplitInv /\ [MovePage]_splitVars => SplitInv'
  BY SplitGoes, SplitStays
<1> QED BY SplitBegins, AllMoved, <1>1, PTL DEF Spec

-----------------------------------------------------------------------------
(* Headers of chunks.                                                      *)
LEMMA Length3Type ==
  ASSUME NEW n \in Nat
  PROVE  /\ Length3(n) \in Seq(Nat) /\ Len(Length3(n)) = 3
         /\ Length3(n)[1] * 65536 + Length3(n)[2] * 256 + Length3(n)[3] = n
         /\ n < 65536 => Length3(n)[1] = 0
<1>1. PICK b \in Nat \ {0} : b = 65536
  OBVIOUS
<1>2. PICK q, r : q = n \div b /\ r = n % b
  OBVIOUS
<1>3. q \in Nat /\ r \in Nat /\ n = b * q + r
  BY <1>2, Division
<1>4. PICK l : l = Length2(r)
  OBVIOUS
<1>5. l \in Seq(Nat) /\ Len(l) = 2 /\ l[1] \in Nat /\ l[2] \in Nat /\ l[1] * 256 + l[2] = r
  BY ONLY <1>3, <1>4, Length2Type
<1>6. Length3(n) = <<q>> \o l
  BY <1>1, <1>2, <1>4 DEF Length3
<1>7. /\ <<q>> \o l \in Seq(Nat) /\ Len(<<q>> \o l) = Len(l) + 1 /\ (<<q>> \o l)[1] = q
      /\ \A k \in 1..Len(l) : (<<q>> \o l)[k + 1] = l[k]
  BY ONLY ZenonT(30), <1>3, <1>5, Behind
<1>8. (<<q>> \o l)[2] = l[1] /\ (<<q>> \o l)[3] = l[2]
  BY <1>5, <1>7
<1>9. q * 65536 + l[1] * 256 + l[2] = n
  BY ONLY <1>1, <1>3, <1>5
<1>10. n < 65536 => q = 0
  BY ONLY <1>1, <1>3, n \in Nat
<1> QED BY ONLY <1>5, <1>6, <1>7, <1>8, <1>9, <1>10

(* The bytes of a header that a server looks at. *)
IsHeader0(h, csid, len, type, sid) ==
  /\ h \in Seq(Nat) /\ Len(h) = 12
  /\ h[1] = csid /\ h[5] * 65536 + h[6] * 256 + h[7] = len /\ h[8] = type /\ h[9] = sid

IsHeader1(h, csid, len, type) ==
  /\ h \in Seq(Nat) /\ Len(h) = 8
  /\ h[1] = 64 + csid /\ h[5] * 65536 + h[6] * 256 + h[7] = len /\ h[8] = type

(* Two parts, byte by byte. *)
Joins(b, s, m, t, n) ==
  /\ b \in Seq(Nat) /\ Len(b) = m + n
  /\ \A k \in Nat : k > 0 /\ k <= m => b[k] = s[k]
  /\ \A k \in Nat : \A j \in Nat : k > 0 /\ k <= n /\ j = m + k => b[j] = t[k]

LEMMA CatAt ==
  ASSUME NEW s \in Seq(Nat), NEW t \in Seq(Nat), NEW m \in Nat, NEW n \in Nat,
         Len(s) = m, Len(t) = n
  PROVE  Joins(s \o t, s, m, t, n)
<1> PICK b : b = s \o t
  OBVIOUS
<1>1. /\ b \in Seq(Nat) /\ Len(b) = m + n
      /\ \A k \in 1..m : b[k] = s[k]
      /\ \A k \in (m + 1)..(m + n) : b[k] = t[k - m]
  BY ZenonT(30), CatParts
<1>2. ASSUME NEW k \in Nat, k > 0, k <= m PROVE b[k] = s[k]
  <2>1. k \in 1..m
    BY <1>2
  <2> QED BY <1>1, <2>1
<1>3. ASSUME NEW k \in Nat, NEW j \in Nat, k > 0, k <= n, j = m + k PROVE b[j] = t[k]
  <2>1. j \in (m + 1)..(m + n) /\ j - m = k
    BY <1>3
  <2> QED BY ONLY <1>1, <2>1
<1> QED BY ONLY <1>1, <1>2, <1>3, b = s \o t DEF Joins

LEMMA FewBytes ==
  ASSUME NEW x \in Nat, NEW y \in Nat
  PROVE  /\ <<x, 0, 0, 0>> \in Seq(Nat) /\ Len(<<x, 0, 0, 0>>) = 4 /\ <<x, 0, 0, 0>>[1] = x
         /\ <<x, y, 0, 0, 0>> \in Seq(Nat) /\ Len(<<x, y, 0, 0, 0>>) = 5
         /\ <<x, y, 0, 0, 0>>[1] = x /\ <<x, y, 0, 0, 0>>[2] = y
         /\ <<x>> \in Seq(Nat) /\ Len(<<x>>) = 1 /\ <<x>>[1] = x
  OBVIOUS

(* The time stamp, zero, and the length behind the first byte. *)
Begins(d, x, len) ==
  d \in Seq(Nat) /\ Len(d) = 7 /\ d[1] = x /\ d[5] * 65536 + d[6] * 256 + d[7] = len

LEMMA HeaderFront ==
  ASSUME NEW x \in Nat, NEW len \in Nat
  PROVE  Begins(<<x, 0, 0, 0>> \o Length3(len), x, len)
<1>1. PICK l \in Seq(Nat) : l = Length3(len)
  BY Length3Type
<1>2. Len(l) = 3 /\ l[1] * 65536 + l[2] * 256 + l[3] = len
  BY <1>1, Length3Type
<1>3. PICK a \in Seq(Nat) : a = <<x, 0, 0, 0>>
  BY ONLY x \in Nat, FewBytes
<1>4. Len(a) = 4 /\ a[1] = x
  BY ONLY <1>3, x \in Nat, FewBytes
<1>5. PICK m \in Nat, n \in Nat : m = 4 /\ n = 3
  OBVIOUS
<1>6. PICK d : d = a \o l
  OBVIOUS
<1>7. /\ d \in Seq(Nat) /\ Len(d) = m + n
      /\ \A k \in Nat : k > 0 /\ k <= m => d[k] = a[k]
      /\ \A k \in Nat : \A j \in Nat : k > 0 /\ k <= n /\ j = m + k => d[j] = l[k]
  <2>1. Len(a) = m /\ Len(l) = n
    BY ONLY <1>2, <1>4, <1>5
  <2>2. Joins(d, a, m, l, n)
    BY ONLY <1>6, <2>1, a \in Seq(Nat), l \in Seq(Nat), m \in Nat, n \in Nat, CatAt
  <2> QED BY ONLY <2>2 DEF Joins
<1>8. d[1] = a[1]
  BY ONLY <1>5, <1>7
<1>9. d[5] = l[1] /\ d[6] = l[2] /\ d[7] = l[3]
  BY ONLY <1>5, <1>7
<1>10. Len(d) = 7
  BY ONLY <1>5, <1>7
<1>11. d = <<x, 0, 0, 0>> \o Length3(len) /\ d[1] = x
  BY ONLY <1>1, <1>3, <1>4, <1>6, <1>8
<1>12. d[5] * 65536 + d[6] * 256 + d[7] = len
  BY ONLY <1>2, <1>9
<1>13. d \in Seq(Nat)
  BY ONLY <1>7
<1>14. Begins(d, x, len)
  BY ONLY <1>10, <1>11, <1>12, <1>13 DEF Begins
<1> QED BY ONLY <1>11, <1>14

LEMMA Header0Type ==
  ASSUME NEW csid \in Nat, NEW len \in Nat, NEW type \in Nat, NEW sid \in Nat
  PROVE  IsHeader0(Header0(csid, len, type, sid), csid, len, type, sid)
<1>1. PICK e : e = <<csid, 0, 0, 0>> \o Length3(len)
  OBVIOUS
<1>2. Begins(e, csid, len)
  BY ONLY <1>1, csid \in Nat, len \in Nat, HeaderFront
<1>3. PICK d \in Seq(Nat) : d = e /\ Begins(d, csid, len)
  BY ONLY <1>2 DEF Begins
<1>4. /\ Len(d) = 7 /\ d[1] = csid /\ d[5] * 65536 + d[6] * 256 + d[7] = len
  BY ONLY <1>3 DEF Begins
<1>5. PICK c \in Seq(Nat) : c = <<type, sid, 0, 0, 0>>
  BY ONLY type \in Nat, sid \in Nat, FewBytes
<1>6. Len(c) = 5 /\ c[1] = type /\ c[2] = sid
  BY ONLY <1>5, type \in Nat, sid \in Nat, FewBytes
<1>7. PICK m \in Nat, n \in Nat : m = 7 /\ n = 5
  OBVIOUS
<1>8. PICK h : h = d \o c
  OBVIOUS
<1>9. /\ h \in Seq(Nat) /\ Len(h) = m + n
      /\ \A k \in Nat : k > 0 /\ k <= m => h[k] = d[k]
      /\ \A k \in Nat : \A j \in Nat : k > 0 /\ k <= n /\ j = m + k => h[j] = c[k]
  <2>1. Len(d) = m /\ Len(c) = n
    BY ONLY <1>1, <1>3, <1>4, <1>6, <1>7
  <2>2. Joins(h, d, m, c, n)
    BY ONLY <1>8, <2>1, d \in Seq(Nat), c \in Seq(Nat), m \in Nat, n \in Nat, CatAt
  <2> QED BY ONLY <2>2 DEF Joins
<1>10. h[1] = d[1] /\ h[5] = d[5] /\ h[6] = d[6] /\ h[7] = d[7]
  BY ONLY <1>7, <1>9
<1>11. h[8] = c[1] /\ h[9] = c[2]
  BY ONLY <1>7, <1>9
<1>12. h = Header0(csid, len, type, sid)
  BY ONLY <1>1, <1>3, <1>4, <1>5, <1>8 DEF Header0
<1>13. h \in Seq(Nat) /\ Len(h) = 12
  BY ONLY <1>7, <1>9
<1>14. h[5] * 65536 + h[6] * 256 + h[7] = len
  BY ONLY <1>1, <1>3, <1>4, <1>10
<1>15. h[1] = csid /\ h[8] = type /\ h[9] = sid
  BY ONLY <1>1, <1>3, <1>4, <1>6, <1>10, <1>11
<1>16. IsHeader0(h, csid, len, type, sid)
  BY ONLY <1>13, <1>14, <1>15 DEF IsHeader0
<1> QED BY ONLY <1>12, <1>16

LEMMA Header1Type ==
  ASSUME NEW csid \in Nat, NEW len \in Nat, NEW type \in Nat
  PROVE  IsHeader1(Header1(csid, len, type), csid, len, type)
<1>1. PICK x \in Nat : x = 64 + csid
  OBVIOUS
<1>2. PICK e : e = <<x, 0, 0, 0>> \o Length3(len)
  OBVIOUS
<1>3. Begins(e, x, len)
  BY ONLY <1>2, x \in Nat, len \in Nat, HeaderFront
<1>4. PICK d \in Seq(Nat) : d = e /\ Begins(d, x, len)
  BY ONLY <1>3 DEF Begins
<1>5. /\ Len(d) = 7 /\ d[1] = x /\ d[5] * 65536 + d[6] * 256 + d[7] = len
  BY ONLY <1>4 DEF Begins
<1>6. PICK c \in Seq(Nat) : c = <<type>>
  BY ONLY type \in Nat, FewBytes
<1>7. Len(c) = 1 /\ c[1] = type
  BY ONLY <1>6, type \in Nat, FewBytes
<1>8. PICK m \in Nat, n \in Nat : m = 7 /\ n = 1
  OBVIOUS
<1>9. PICK h : h = d \o c
  OBVIOUS
<1>10. /\ h \in Seq(Nat) /\ Len(h) = m + n
       /\ \A k \in Nat : k > 0 /\ k <= m => h[k] = d[k]
       /\ \A k \in Nat : \A j \in Nat : k > 0 /\ k <= n /\ j = m + k => h[j] = c[k]
  <2>1. Len(d) = m /\ Len(c) = n
    BY ONLY <1>2, <1>4, <1>5, <1>7, <1>8
  <2>2. Joins(h, d, m, c, n)
    BY ONLY <1>9, <2>1, d \in Seq(Nat), c \in Seq(Nat), m \in Nat, n \in Nat, CatAt
  <2> QED BY ONLY <2>2 DEF Joins
<1>11. h[1] = d[1] /\ h[5] = d[5] /\ h[6] = d[6] /\ h[7] = d[7]
  BY ONLY <1>8, <1>10
<1>12. h[8] = c[1]
  BY ONLY <1>8, <1>10
<1>13. h = Header1(csid, len, type)
  BY ONLY <1>1, <1>2, <1>4, <1>5, <1>6, <1>9 DEF Header1
<1>14. h \in Seq(Nat) /\ Len(h) = 8
  BY ONLY <1>8, <1>10
<1>15. h[5] * 65536 + h[6] * 256 + h[7] = len
  BY ONLY <1>2, <1>4, <1>5, <1>11
<1>16. h[1] = 64 + csid /\ h[8] = type
  BY ONLY <1>1, <1>2, <1>4, <1>5, <1>7, <1>11, <1>12
<1>17. IsHeader1(h, csid, len, type)
  BY ONLY <1>14, <1>15, <1>16 DEF IsHeader1
<1> QED BY ONLY <1>13, <1>17

(* connect: a header, and the values of the URL behind it.  There is room  *)
(* for the last page.                                                      *)
ConnectBody == Body(BufLen, 12, ConnectItems)

LEMMA ConnectMessage ==
  ASSUME UrlInv
  PROVE  \E h, body : \E len \in Nat :
           /\ connect = h \o body /\ body = ConnectBody /\ IsHeader0(h, 3, len, COMMAND, 0)
           /\ len > 0 /\ len = 166 + Len(rtmp_url) + Len(AppText) /\ len <= 708
           /\ body \in Seq(Nat) /\ Len(body) = len /\ Holds(body, ConnectValues)
<1>1. PICK u \in Nat, a \in Nat : u = Len(rtmp_url) /\ a = Len(AppText)
  BY SMTT(30), AppTextType DEF UrlInv
<1>2. u < 512 /\ a < 32 /\ rtmp_url \in Seq(Nat) /\ AppText \in Seq(Nat)
  BY <1>1, AppTextType DEF UrlInv
<1>3. PICK len \in Nat : len = 166 + u + a
  OBVIOUS
<1>4. len > 0 /\ len <= 708 /\ len = 166 + Len(rtmp_url) + Len(AppText)
  BY <1>1, <1>2, <1>3
<1>5. Conveys(ConnectItems, len, ConnectValues)
  BY <1>2, <1>4, ConnectConveys
<1>6. PICK size \in Nat : size = BufLen - 12 /\ len <= size
  BY <1>4, WireAssumption, SplitAssumption
<1>7. PICK body : body = PushAll(size, ConnectItems)
  OBVIOUS
<1>8. body \in Seq(Nat) /\ Len(body) = len /\ Holds(body, ConnectValues)
  BY ONLY <1>5, <1>6, <1>7, len \in Nat, size \in Nat, BodyHolds
<1>9. PICK three \in Nat, zero \in Nat, type \in Nat : three = 3 /\ zero = 0 /\ type = COMMAND
  BY DEF COMMAND
<1>10. PICK h : h = Header0(three, len, type, zero)
  OBVIOUS
<1>11. IsHeader0(h, 3, len, COMMAND, 0)
  BY <1>9, <1>10, Header0Type
<1>12. connect = h \o body
  BY <1>6, <1>7, <1>8, <1>9, <1>10 DEF connect, Body
<1>13. body = ConnectBody
  BY <1>6, <1>7 DEF ConnectBody, Body
<1> QED BY <1>4, <1>8, <1>11, <1>12, <1>13

LEMMA ConnectLength ==
  ASSUME UrlInv
  PROVE  /\ connect \in Seq(Nat) /\ Len(connect) = 178 + Len(rtmp_url) + Len(AppText)
         /\ Len(connect) > 12 /\ Len(connect) <= 720 /\ Room(12, Len(connect))
<1>1. PICK h, body : \E len \in Nat :
           /\ connect = h \o body /\ IsHeader0(h, 3, len, COMMAND, 0)
           /\ len > 0 /\ len = 166 + Len(rtmp_url) + Len(AppText) /\ len <= 708
           /\ body \in Seq(Nat) /\ Len(body) = len
  BY ConnectMessage
<1>2. PICK len \in Nat :
           /\ connect = h \o body /\ IsHeader0(h, 3, len, COMMAND, 0)
           /\ len > 0 /\ len = 166 + Len(rtmp_url) + Len(AppText) /\ len <= 708
           /\ body \in Seq(Nat) /\ Len(body) = len
  BY <1>1
<1>3. h \in Seq(Nat) /\ Len(h) = 12
  BY <1>2 DEF IsHeader0
<1>4. connect \in Seq(Nat) /\ Len(connect) = 12 + len
  <2>1. PICK c : c = h \o body
    OBVIOUS
  <2>2. c \in Seq(Nat) /\ Len(c) = Len(h) + Len(body)
    BY ONLY <1>2, <1>3, <2>1, CatParts
  <2> QED BY ONLY <1>2, <1>3, <2>1, <2>2
<1>5. PICK n \in Nat : n = Len(connect)
  BY <1>4
<1>6. n > 12 /\ n <= 720 /\ n - 12 = len
  BY ONLY <1>2, <1>4, <1>5, n \in Nat, len \in Nat
<1>7. (n - 12 - 1) \div 128 <= 5 /\ (n - 12 - 1) \div 128 \in Int
  BY ONLY <1>6, n \in Nat
<1>8. Room(12, n)
  BY <1>7, WireAssumption, SplitAssumption DEF Room, chunk_max_size
<1>9. Len(connect) = 178 + Len(rtmp_url) + Len(AppText)
  BY <1>2, <1>4, AppTextType DEF UrlInv
<1> QED BY <1>4, <1>5, <1>6, <1>8, <1>9

(* The connect message is split as any other.                              *)
LEMMA SplitFirst == ASSUME WireInit PROVE SplitInv
<1>1. Room(0, 1)
  BY WireAssumption, SplitAssumption DEF Room, chunk_max_size
<1>2. header_len = 0 /\ pag_len = 1 /\ page = 0 /\ pushed = pag_buf
  BY DEF WireInit
<1>3. page_count = 0
  BY <1>2 DEF page_count, chunk_max_size
<1> QED BY <1>1, <1>2, <1>3 DEF SplitInv, SplitTypeOK

LEMMA SplitConnect == ASSUME UrlInv, BuildConnect PROVE SplitInv'
<1>1. PICK n \in Nat : n = Len(connect)
  BY ConnectLength
<1>2. PICK buf : Split(buf, 12, n)
  BY Zenon, <1>1 DEF BuildConnect
<1>3. n > 12 /\ n <= 720 /\ Room(12, n)
  BY <1>1, ConnectLength
<1>4. header_len' = 12 /\ pag_len' = n /\ pag_buf' = pushed' /\ page' = page_count'
  BY <1>2 DEF Split
<1>5. page_count' \in Nat
  BY <1>3, <1>4 DEF page_count, chunk_max_size
<1>6. Room(header_len, pag_len)'
  BY <1>3, <1>4 DEF Room
<1>7. SplitTypeOK'
  BY <1>3, <1>4, <1>5, <1>6 DEF SplitTypeOK
<1>8. \A k : k \notin (page' + 1)..page_count'
  BY <1>4, <1>5
<1> QED BY <1>4, <1>7, <1>8 DEF SplitInv

LEMMA OthersKeepBuffer ==
  ASSUME [WireNext]_wireVars
  PROVE  BuildConnect \/ (MoveConnect /\ MovePage) \/ UNCHANGED splitVars
<1>1. ASSUME NEW u \in Urls, SetupUrl(u) PROVE UNCHANGED splitVars
  BY <1>1 DEF SetupUrl
<1>2. ASSUME ThreadRuns PROVE BuildConnect \/ (MoveConnect /\ MovePage) \/ UNCHANGED splitVars
  BY Zenon, <1>2 DEF ThreadRuns, MoveConnect, SendConnect, HandleCommand
<1>3. ASSUME ServerServes \/ ServerCommands \/ ServerAnswersOther PROVE UNCHANGED splitVars
  BY Zenon, <1>3 DEF ServerServes, ServerCommands, ServerAnswersOther, ServerReads, ServerAnswers, Says
<1>4. ASSUME UNCHANGED wireVars PROVE UNCHANGED splitVars
  BY <1>4 DEF wireVars
<1> QED BY <1>1, <1>2, <1>3, <1>4 DEF WireNext

LEMMA SplitNext == ASSUME UrlInv, SplitInv, [WireNext]_wireVars PROVE SplitInv'
  BY SplitConnect, SplitGoes, SplitStays, OthersKeepBuffer

LEMMA SplitInvariant == WireSpec => [](UrlInv /\ SplitInv)
<1>1. UrlInv /\ SplitInv /\ [WireNext]_wireVars => (UrlInv /\ SplitInv)'
  BY UrlNext, SplitNext
<1>2. WireInit => UrlInv /\ SplitInv
  BY UrlInit, SplitFirst
<1> QED BY <1>1, <1>2, PTL DEF WireSpec

(* connect is split without loss, whatever is in it.                       *)
THEOREM ConnectIsSplit == WireSpec => []SplitRight
  BY SplitInvariant, AllMoved, PTL

-----------------------------------------------------------------------------
(* Popping.  What was pushed is popped, wherever it lies.                  *)
LEMMA ItemLies ==
  ASSUME NEW items \in Seq(Seq(Nat)), NEW n \in Nat \ {0}, Len(items) = n, NEW i \in 1..n
  PROVE  LiesAt(FlattenSeq(items), Ends(items)[i - 1], items[i])
<1>1. PICK b, e : b = FlattenSeq(items) /\ e = Ends(items)
  OBVIOUS
<1>2. Len(items) # 0 /\ \A k \in 1..n : items[k] \in Seq(Nat) /\ Len(items[k]) \in Nat
  OBVIOUS
<1>3. /\ b \in Seq(Nat) /\ Len(b) = e[n]
      /\ \A k \in 1..n : \A p \in (e[k - 1] + 1)..e[k] : b[p] = items[k][p - e[k - 1]]
  BY <1>1, <1>2, FlattenParts
<1>4. /\ \A k \in 0..n : e[k] \in Nat
      /\ \A k \in 1..n : e[k] = e[k - 1] + Len(items[k])
  BY <1>1, <1>2, EndsStep
<1>5. \A k \in 0..n : e[k] <= e[n]
  <2>1. \A j \in 0..n : \A k \in 0..j : e[k] <= e[j]
    BY <1>1, <1>2, EndsGrow
  <2>2. n \in 0..n
    OBVIOUS
  <2> QED BY <2>1, <2>2
<1>6. i - 1 \in 0..n /\ i \in 0..n
  OBVIOUS
<1>7. PICK p, item : p = e[i - 1] /\ item = items[i]
  OBVIOUS
<1>8. p \in Nat /\ Len(item) \in Nat /\ e[i] = p + Len(item) /\ e[i] <= Len(b)
  BY <1>2, <1>3, <1>4, <1>5, <1>6, <1>7
<1>9. \A q \in (p + 1)..(p + Len(item)) : b[q] = item[q - p]
  BY <1>3, <1>7, <1>8
<1>10. \A k \in 1..Len(item) : p + k \in (p + 1)..(p + Len(item)) /\ (p + k) - p = k
  BY <1>8
<1>11. \A k \in 1..Len(item) : b[p + k] = item[k]
  BY <1>9, <1>10
<1> QED BY <1>1, <1>7, <1>8, <1>11 DEF LiesAt

LEMMA PopsNumber ==
  ASSUME NEW src \in Seq(Nat), NEW v \in Int, v >= -10000, LiesAt(src, 0, Number(v))
  PROVE  PopNumber(src) = [ret |-> 9, val |-> Double(v)]
<1>1. PICK item \in Seq(Nat) : item = Number(v)
  BY NumberType
<1>2. PICK t \in Seq(Nat) : t = SwapBytes(Double(v)) /\ Len(t) = 8 /\ SwapBytes(t) = Double(v)
  BY DoubleType
<1>3. Len(item) = 9 /\ item[1] = 0 /\ \A k \in 1..8 : item[k + 1] = t[k]
  <2>1. /\ Number(v) \in Seq(Nat) /\ Len(Number(v)) = 9 /\ Number(v)[1] = 0
        /\ \A k \in 1..8 : Number(v)[k + 1] = SwapBytes(Double(v))[k]
    BY NumberType
  <2> QED BY ONLY <1>1, <1>2, <2>1
<1>4. Len(src) >= 9 /\ src[1] = 0
  BY <1>1, <1>3 DEF LiesAt
<1>5. PICK zero \in Nat, one \in Nat : zero = 0 /\ one = 1
  OBVIOUS
<1>6. LiesAt(src, zero, item) /\ Len(item) = one + Len(t) /\ \A k \in 1..Len(t) : item[k + one] = t[k]
  BY <1>1, <1>2, <1>3, <1>5
<1>7. SubSeq(src, zero + one + 1, zero + one + Len(t)) = t
  BY ONLY <1>6, src \in Seq(Nat), item \in Seq(Nat), t \in Seq(Nat), zero \in Nat, one \in Nat,
          LyingPart
<1>8. zero + one + 1 = 2 /\ zero + one + Len(t) = 9
  BY <1>2, <1>5
<1>9. SubSeq(src, 2, 9) = t
  BY ONLY <1>7, <1>8
<1>10. Len(src) \in Nat
  OBVIOUS
<1>11. ~(Len(src) < 9 \/ src[1] # 0)
  BY ONLY <1>4, <1>10
<1>12. PopNumber(src) = [ret |-> 9, val |-> SwapBytes(SubSeq(src, 2, 9))]
  BY ONLY <1>11 DEF PopNumber
<1> QED BY ONLY <1>2, <1>9, <1>12

LEMMA PopsNull ==
  ASSUME NEW src \in Seq(Nat), LiesAt(src, 0, Null)
  PROVE  PopNull(src) = [ret |-> 1, val |-> <<>>]
<1>1. Len(src) >= 1 /\ src[1] = 5
  BY SmallTypes DEF LiesAt
<1> QED BY <1>1 DEF PopNull

LEMMA PopsString ==
  ASSUME NEW src \in Seq(Nat), NEW s \in Seq(Nat), NEW size \in Nat, Len(s) < size,
         LiesAt(src, 0, String(s))
  PROVE  PopString(src, size) = [ret |-> Len(s) + 3, val |-> s]
<1>1. PICK item \in Seq(Nat) : item = String(s)
  BY StringType
<1>2. PICK n \in Nat : n = Len(s)
  OBVIOUS
<1>3. /\ Len(item) = n + 3 /\ item[1] = 2 /\ item[2] * 256 + item[3] = n
      /\ \A k \in 1..n : item[k + 3] = s[k]
  BY <1>1, <1>2, StringType
<1>4. Len(src) >= n + 3 /\ src[1] = item[1] /\ src[2] = item[2] /\ src[3] = item[3]
  <2>1. \A k \in 1..Len(item) : src[0 + k] = item[k]
    BY <1>1 DEF LiesAt
  <2>2. 0 + Len(item) <= Len(src)
    BY <1>1 DEF LiesAt
  <2>3. \A k \in 1..(n + 3) : 0 + k = k
    OBVIOUS
  <2>4. 1 \in 1..(n + 3) /\ 2 \in 1..(n + 3) /\ 3 \in 1..(n + 3)
    OBVIOUS
  <2> QED BY ONLY SMTT(30), <1>3, <2>1, <2>2, <2>3, <2>4, n \in Nat, src \in Seq(Nat)
<1>5. PICK zero \in Nat, three \in Nat : zero = 0 /\ three = 3
  OBVIOUS
<1>6. LiesAt(src, zero, item) /\ Len(item) = three + Len(s) /\ \A k \in 1..Len(s) : item[k + three] = s[k]
  BY <1>1, <1>2, <1>3, <1>5
<1>7. SubSeq(src, zero + three + 1, zero + three + Len(s)) = s
  BY ONLY <1>6, src \in Seq(Nat), item \in Seq(Nat), s \in Seq(Nat), zero \in Nat, three \in Nat,
          LyingPart
<1>8. SubSeq(src, 4, n + 3) = s
  <2>1. zero + three + 1 = 4 /\ zero + three + Len(s) = n + 3
    BY <1>2, <1>5
  <2> QED BY ONLY <1>7, <2>1
<1>9. Len(src) \in Nat /\ src[2] * 256 + src[3] = n /\ n < size
  BY <1>2, <1>3, <1>4
<1>10. ~(Len(src) < 3 \/ src[1] # 2) /\ ~(n + 3 > Len(src) \/ n > size - 1)
  BY ONLY SMTT(30), <1>3, <1>4, <1>9, n \in Nat, size \in Nat
<1> QED BY ONLY ZenonT(30), <1>2, <1>8, <1>9, <1>10 DEF PopString

(* Behind what was popped lies what lay behind it before.                  *)
LEMMA RestLies ==
  ASSUME NEW b \in Seq(Nat), NEW p \in Nat, NEW q \in Nat, NEW item \in Seq(Nat),
         LiesAt(b, p + q, item)
  PROVE  /\ Rest(b, p) \in Seq(Nat) /\ Len(Rest(b, p)) = Len(b) - p
         /\ LiesAt(Rest(b, p), q, item)
<1>1. PICK n \in Nat, l \in Nat : n = Len(item) /\ l = Len(b)
  OBVIOUS
<1>2. p + q + n <= l /\ \A k \in 1..n : b[p + q + k] = item[k]
  BY <1>1 DEF LiesAt
<1>3. PICK r : r = SubSeq(b, p + 1, l)
  OBVIOUS
<1>4. r \in Seq(Nat) /\ Len(r) = l - p
  <2>1. p + 1 \in Nat \ {0} /\ l \in Int /\ (p + 1) - 1 <= l /\ l <= Len(b)
    BY <1>1, <1>2
  <2>2. l - (p + 1) + 1 = l - p
    OBVIOUS
  <2> QED BY <1>3, <2>1, <2>2, PartTyped
<1>5. \A k \in 1..(l - p) : r[k] = b[p + k]
  BY <1>1, <1>3
<1>6. ASSUME NEW k \in 1..n PROVE r[q + k] = item[k]
  <2>1. q + k \in 1..(l - p) /\ p + (q + k) = p + q + k
    BY <1>2
  <2> QED BY <1>2, <1>5, <2>1
<1>7. q + n <= Len(r)
  BY <1>2, <1>4
<1> QED BY <1>1, <1>3, <1>4, <1>6, <1>7 DEF Rest, LiesAt

(* A command with a name has one that can be popped.                       *)
LEMMA PopsName ==
  ASSUME NEW src \in Seq(Nat), NamedCommand(src)
  PROVE  PopString(src, 256).ret > 0
<1>1. PICK n \in Nat : n <= 255 /\ Len(src) >= n + 3 /\ SubSeq(src, 1, 3) = <<2>> \o Length2(n)
  <2>1. PICK m \in 0..255 : Len(src) >= m + 3 /\ SubSeq(src, 1, 3) = <<2>> \o Length2(m)
    BY ONLY NamedCommand(src) DEF NamedCommand
  <2>2. m \in Nat /\ m <= 255
    OBVIOUS
  <2> QED BY ONLY Zenon, <2>1, <2>2
<1>2. PICK l \in Seq(Nat) : l = Length2(n)
  BY Length2Type
<1>3. Len(l) = 2 /\ l[1] * 256 + l[2] = n
  BY <1>2, Length2Type
<1>4. PICK t : t = SubSeq(src, 1, 3)
  OBVIOUS
<1>5. t[1] = 2 /\ t[2] = l[1] /\ t[3] = l[2]
  <2>1. PICK two \in Nat : two = 2
    OBVIOUS
  <2>2. t = <<two>> \o l
    BY <1>1, <1>2, <1>4, <2>1
  <2>3. /\ (<<two>> \o l)[1] = two
        /\ \A k \in 1..Len(l) : (<<two>> \o l)[k + 1] = l[k]
    BY ONLY two \in Nat, l \in Seq(Nat), Behind
  <2>4. 1 \in 1..2 /\ 2 \in 1..2 /\ 1 + 1 = 2 /\ 2 + 1 = 3
    OBVIOUS
  <2> QED BY ONLY <1>3, <2>1, <2>2, <2>3, <2>4
<1>6. src[1] = t[1] /\ src[2] = t[2] /\ src[3] = t[3]
  <2>1. Len(src) >= 3 /\ Len(src) \in Nat
    BY <1>1
  <2> QED BY <1>4, <2>1
<1>7. src[1] = 2 /\ src[2] * 256 + src[3] = n /\ Len(src) \in Nat
  BY <1>3, <1>5, <1>6
<1>8. PopString(src, 256).ret = n + 3
  <2>1. ~(Len(src) < 3 \/ src[1] # 2) /\ ~(n + 3 > Len(src) \/ n > 256 - 1)
    BY ONLY SMTT(30), <1>1, <1>7, n \in Nat
  <2> QED BY ONLY <1>7, <2>1 DEF PopString
<1> QED BY <1>8

LEMMA FailedIs == ASSUME NEW x, x = Failed PROVE x.ret = -1 /\ x.val = <<>>
  BY DEF Failed

(* A name that is not _result is not popped as one.                        *)
LEMMA PopsOther ==
  ASSUME NEW src \in Seq(Nat), Len(src) >= 10 => SubSeq(src, 4, 10) # _result
  PROVE  PopString(src, 256).val # _result
<1>1. PICK r \in Seq(Nat) : r = _result /\ Len(r) = 7
  <2>1. PICK k \in Nat, n \in Nat : k = 6 /\ n = 7
    OBVIOUS
  <2> QED BY <2>1, TextType DEF _result
<1>2. SUFFICES ASSUME PopString(src, 256).val = r PROVE FALSE
  BY <1>1
<1>3. r # <<>>
  <2>1. PICK none : none = <<>> /\ Len(none) = 0
    OBVIOUS
  <2>2. 7 # 0
    OBVIOUS
  <2>3. r # none
    BY ONLY Zenon, <1>1, <2>1, <2>2
  <2> QED BY ONLY <2>1, <2>3
<1>4. PICK l : l = Len(src)
  OBVIOUS
<1>5. l \in Nat
  BY <1>4
<1>6. CASE l < 3 \/ src[1] # 2
  <2>1. Len(src) < 3 \/ src[1] # 2
    BY <1>4, <1>6
  <2>2. PopString(src, 256) = Failed
    BY ONLY <2>1 DEF PopString
  <2>3. PopString(src, 256).val = <<>>
    BY ONLY <2>2, FailedIs
  <2> QED BY ONLY <1>3, <1>2, <2>3
<1>7. CASE ~(l < 3 \/ src[1] # 2)
  <2>1. src[2] \in Nat /\ src[3] \in Nat
    BY <1>4, <1>5, <1>7
  <2>2. PICK n \in Nat : n = src[2] * 256 + src[3]
    BY <2>1
  <2>3. CASE n + 3 > l \/ n > 255
    <3>1. ~(Len(src) < 3 \/ src[1] # 2) /\ (n + 3 > Len(src) \/ n > 256 - 1)
      BY <1>4, <1>7, <2>3
    <3>2. PopString(src, 256) = Failed
      BY ONLY <2>2, <3>1 DEF PopString
    <3>3. PopString(src, 256).val = <<>>
      BY ONLY <3>2, FailedIs
    <3> QED BY ONLY <1>3, <1>2, <3>3
  <2>4. CASE ~(n + 3 > l \/ n > 255)
    <3>1. ~(Len(src) < 3 \/ src[1] # 2) /\ ~(n + 3 > Len(src) \/ n > 256 - 1)
      BY <1>4, <1>7, <2>4
    <3>2. PopString(src, 256).val = SubSeq(src, 4, n + 3)
      BY ONLY <2>2, <3>1 DEF PopString
    <3>3. PICK four \in Nat \ {0}, end \in Int : four = 4 /\ end = n + 3
      OBVIOUS
    <3>4. four - 1 <= end /\ end <= Len(src)
      BY <1>4, <1>5, <2>4, <3>3
    <3>5. Len(SubSeq(src, four, end)) = end - four + 1
      BY ONLY <3>4, src \in Seq(Nat), four \in Nat \ {0}, end \in Int, PartTyped
    <3>6. end - four + 1 = 7
      BY ONLY <1>1, <1>2, <3>2, <3>3, <3>5
    <3>7. n = 7
      BY <3>3, <3>6
    <3>8. l >= 10 /\ n + 3 = 10
      BY <1>5, <2>4, <3>7
    <3>9. SubSeq(src, 4, 10) = r
      BY ONLY <1>2, <3>2, <3>8
    <3> QED BY <1>1, <1>4, <3>8, <3>9
  <2> QED BY <2>3, <2>4
<1> QED BY <1>6, <1>7

-----------------------------------------------------------------------------
(* Commands.  Of the server's commands only the two results move the       *)
(* client on, each from the status it belongs to.                          *)
ConnectResult == <<String(_result), Number(1), ObjectBegin, PropName(Text(21, 5)), Number(3),
                   ObjectEnd, Null>>

(* As many results were taken as were sent; out of order, one more may have *)
(* been taken for that of createStream.                                    *)
Settled ==
  \/ answered = 0 /\ rtmp_status = "wait_connect"
  \/ answered = 1 /\ rtmp_status = "wait_create_stream"
  \/ answered = 2 /\ rtmp_status = "wait_play"
  \/ ~InOrder /\ answered = 1 /\ rtmp_status = "wait_play"

Pending(body, sound) == reply = [body |-> body, sound |-> sound, taken |-> FALSE]

(* A result for a request behind createStream. *)
OtherPending == \E n \in {3, 4} : \E body \in OtherResults(n) : Pending(body, TRUE)

StreamKnown == InOrder => rtmp_now_stream_id = IF rtmp_status = "wait_play" THEN created ELSE 0

ReplyInv ==
  /\ pc \in {"url", "split", "recv", "done"}
  /\ created \in {0} \cup StreamIds
  /\ answered = 2 => created \in StreamIds
  /\ rtmp_now_stream_id \in {0} \cup StreamIds \cup Durations
  /\ StreamKnown
  /\ reply = [body |-> reply.body, sound |-> reply.sound, taken |-> reply.taken]
  /\ reply.taken \in BOOLEAN
  /\ pc \in {"url", "split"} => rtmp_status = "wait_s2" /\ answered = 0 /\ reply.taken /\ wire = <<>>
  /\ pc = "recv" =>
       \/ Settled /\ reply.taken
       \/ Settled /\ \E c \in Commands : Pending(c.body, c.sound)
       \/ answered = 1 /\ rtmp_status = "wait_connect" /\ Pending(Join(ConnectResult), TRUE)
       \/ /\ answered = 2 /\ Pending(Numbered(2, created), TRUE)
          /\ rtmp_status = "wait_create_stream" \/ (~InOrder /\ rtmp_status = "wait_play")
       \/ Settled /\ (answered = 2 \/ (~InOrder /\ answered = 1)) /\ OtherPending
  /\ pc = "done" => Settled /\ reply.taken /\ (~reply.sound \/ Misled)

LEMMA ResultName ==
  _result \in Seq(Nat) /\ Len(_result) = 7
<1>1. PICK k \in Nat, n \in Nat : k = 6 /\ n = 7
  OBVIOUS
<1> QED BY <1>1, TextType DEF _result

(* The values of a command lie in it one behind the other.                 *)
AllLie(b, items, n, e) ==
  b \in Seq(Nat) /\ Len(b) = e[n] /\ \A i \in 1..n : LiesAt(b, e[i - 1], items[i])

LEMMA JoinLies ==
  ASSUME NEW items \in Seq(Seq(Nat)), NEW n \in Nat \ {0}, Len(items) = n,
         Ends(items)[n] < 100
  PROVE  AllLie(Join(items), items, n, Ends(items))
<1>1. PICK size \in Nat : size = 65536
  OBVIOUS
<1>2. Len(items) # 0 /\ Ends(items)[n] \in Nat
  <2>1. Len(items) # 0 /\ n \in 0..Len(items)
    OBVIOUS
  <2>2. \A k \in 0..Len(items) : Ends(items)[k] \in Nat
    BY ONLY <2>1, items \in Seq(Seq(Nat)), EndsStep
  <2> QED BY ONLY <2>1, <2>2
<1>3. Ends(items)[Len(items)] <= size
  BY ONLY SMT, <1>1, <1>2, Len(items) = n, Ends(items)[n] < 100
<1>4. PushAll(size, items) = FlattenSeq(items)
  BY ONLY <1>2, <1>3, items \in Seq(Seq(Nat)), size \in Nat, Pushed
<1>5. Join(items) = FlattenSeq(items)
  BY ONLY SMT, <1>1, <1>4 DEF Join
<1>6. \A i \in 1..n : LiesAt(FlattenSeq(items), Ends(items)[i - 1], items[i])
  BY ONLY items \in Seq(Seq(Nat)), n \in Nat \ {0}, Len(items) = n, ItemLies
<1>7. FlattenSeq(items) \in Seq(Nat) /\ Len(FlattenSeq(items)) = Ends(items)[n]
  BY ONLY <1>2, Len(items) = n, items \in Seq(Seq(Nat)), FlattenParts
<1> QED BY ONLY <1>5, <1>6, <1>7 DEF AllLie

LEMMA ResultItems ==
  /\ String(_result) \in Seq(Nat) /\ Len(String(_result)) = 10
  /\ \A v \in Nat : Number(v) \in Seq(Nat) /\ Len(Number(v)) = 9
  /\ ObjectBegin \in Seq(Nat) /\ Len(ObjectBegin) = 1
  /\ PropName(Text(21, 5)) \in Seq(Nat) /\ Len(PropName(Text(21, 5))) = 7
  /\ ObjectEnd \in Seq(Nat) /\ Len(ObjectEnd) = 3
  /\ Null \in Seq(Nat) /\ Len(Null) = 1
<1>1. String(_result) \in Seq(Nat) /\ Len(String(_result)) = 10
  <2>1. PICK s \in Seq(Nat) : s = _result /\ Len(s) = 7
    BY ResultName
  <2>2. String(s) \in Seq(Nat) /\ Len(String(s)) = Len(s) + 3
    BY ONLY s \in Seq(Nat), StringType
  <2> QED BY ONLY <2>1, <2>2
<1>2. ASSUME NEW v \in Nat PROVE Number(v) \in Seq(Nat) /\ Len(Number(v)) = 9
  <2>1. v \in Int /\ v >= -10000
    OBVIOUS
  <2> QED BY <2>1, NumberType
<1>3. PropName(Text(21, 5)) \in Seq(Nat) /\ Len(PropName(Text(21, 5))) = 7
  <2>1. PICK k \in Nat, n \in Nat : k = 21 /\ n = 5
    OBVIOUS
  <2>2. PICK s \in Seq(Nat) : s = Text(k, n) /\ Len(s) = n
    BY TextType
  <2>3. PropName(s) \in Seq(Nat) /\ Len(PropName(s)) = n + 2
    BY <2>2, PropNameType
  <2> QED BY ONLY <2>1, <2>2, <2>3
<1> QED BY <1>1, <1>2, <1>3, SmallTypes

LEMMA ConnectResultLies ==
  Join(ConnectResult) \in Seq(Nat) /\ LiesAt(Join(ConnectResult), 0, String(_result))
<1>1. PICK items : items = ConnectResult
  OBVIOUS
<1>2. PICK one \in Nat, three \in Nat : one = 1 /\ three = 3
  OBVIOUS
<1>3. PICK a, b, c, d, f, g, h :
        /\ a = String(_result) /\ b = Number(one) /\ c = ObjectBegin /\ d = PropName(Text(21, 5))
        /\ f = Number(three) /\ g = ObjectEnd /\ h = Null
  OBVIOUS
<1>4. /\ a \in Seq(Nat) /\ Len(a) = 10 /\ b \in Seq(Nat) /\ Len(b) = 9
      /\ c \in Seq(Nat) /\ Len(c) = 1 /\ d \in Seq(Nat) /\ Len(d) = 7
      /\ f \in Seq(Nat) /\ Len(f) = 9 /\ g \in Seq(Nat) /\ Len(g) = 3
      /\ h \in Seq(Nat) /\ Len(h) = 1
  BY ONLY <1>3, ResultItems, one \in Nat, three \in Nat
<1>5. items = <<a, b, c, d, f, g, h>>
  BY ONLY <1>1, <1>2, <1>3 DEF ConnectResult
<1>6. /\ items \in Seq(Seq(Nat)) /\ Len(items) = 7
      /\ items[1] = a /\ items[2] = b /\ items[3] = c /\ items[4] = d /\ items[5] = f
      /\ items[6] = g /\ items[7] = h
  BY ONLY <1>4, <1>5
<1>7. PICK n \in Nat \ {0} : n = 7
  OBVIOUS
<1>8. PICK e : e = Ends(items)
  OBVIOUS
<1>9. Len(items) = n
  BY <1>6, <1>7
<1>10. e[0] = 0 /\ \A i \in 1..n : e[i] = e[i - 1] + Len(items[i])
  BY ONLY <1>6, <1>8, <1>9, n \in Nat \ {0}, EndsOf
<1>11. /\ 1 \in 1..n /\ 2 \in 1..n /\ 3 \in 1..n /\ 4 \in 1..n /\ 5 \in 1..n /\ 6 \in 1..n /\ 7 \in 1..n
  BY ONLY <1>7
<1>12. /\ e[1] = e[0] + Len(items[1]) /\ e[2] = e[1] + Len(items[2]) /\ e[3] = e[2] + Len(items[3])
       /\ e[4] = e[3] + Len(items[4]) /\ e[5] = e[4] + Len(items[5]) /\ e[6] = e[5] + Len(items[6])
       /\ e[7] = e[6] + Len(items[7])
  BY ONLY <1>10, <1>11
<1>13. e[7] = 40
  BY ONLY <1>4, <1>6, <1>10, <1>12
<1>14. Ends(items)[n] < 100
  BY ONLY <1>7, <1>8, <1>13
<1>15. AllLie(Join(items), items, n, e)
  BY ONLY <1>6, <1>8, <1>9, <1>14, n \in Nat \ {0}, JoinLies
<1>16. Join(items) \in Seq(Nat) /\ \A i \in 1..n : LiesAt(Join(items), e[i - 1], items[i])
  BY ONLY <1>15 DEF AllLie
<1>17. LiesAt(Join(items), e[1 - 1], items[1])
  BY ONLY <1>11, <1>16
<1>18. e[1 - 1] = 0
  BY <1>10
<1> QED BY ONLY <1>1, <1>3, <1>6, <1>16, <1>17, <1>18

LEMMA NumberedLies ==
  ASSUME NEW request \in Nat, NEW v \in Nat
  PROVE  /\ Numbered(request, v) \in Seq(Nat)
         /\ LiesAt(Numbered(request, v), 0, String(_result))
         /\ LiesAt(Numbered(request, v), 10, Number(request))
         /\ LiesAt(Numbered(request, v), 19, Null)
         /\ LiesAt(Numbered(request, v), 20, Number(v))
<1>1. PICK a, b, c, d : a = String(_result) /\ b = Number(request) /\ c = Null /\ d = Number(v)
  OBVIOUS
<1>2. PICK items : items = <<a, b, c, d>>
  OBVIOUS
<1>3. Numbered(request, v) = Join(items)
  BY ONLY <1>1, <1>2 DEF Numbered
<1>4. /\ a \in Seq(Nat) /\ Len(a) = 10 /\ b \in Seq(Nat) /\ Len(b) = 9
      /\ c \in Seq(Nat) /\ Len(c) = 1 /\ d \in Seq(Nat) /\ Len(d) = 9
  BY ONLY <1>1, ResultItems, request \in Nat, v \in Nat
<1>6. /\ items \in Seq(Seq(Nat)) /\ Len(items) = 4
      /\ items[1] = a /\ items[2] = b /\ items[3] = c /\ items[4] = d
  BY ONLY <1>2, <1>4
<1>7. PICK n \in Nat \ {0} : n = 4
  OBVIOUS
<1>8. PICK e : e = Ends(items)
  OBVIOUS
<1>9. Len(items) = n
  BY <1>6, <1>7
<1>10. e[0] = 0 /\ \A i \in 1..n : e[i] = e[i - 1] + Len(items[i])
  BY ONLY <1>6, <1>8, <1>9, n \in Nat \ {0}, EndsOf
<1>11. 1 \in 1..n /\ 2 \in 1..n /\ 3 \in 1..n /\ 4 \in 1..n
  BY ONLY <1>7
<1>12. /\ e[1] = e[0] + Len(items[1]) /\ e[2] = e[1] + Len(items[2]) /\ e[3] = e[2] + Len(items[3])
       /\ e[4] = e[3] + Len(items[4])
  BY ONLY <1>10, <1>11
<1>13. e[1] = 10 /\ e[2] = 19 /\ e[3] = 20 /\ e[4] = 29
  BY ONLY <1>4, <1>6, <1>10, <1>12
<1>14. Ends(items)[n] < 100
  BY ONLY <1>7, <1>8, <1>13
<1>15. AllLie(Join(items), items, n, e)
  BY ONLY <1>6, <1>8, <1>9, <1>14, n \in Nat \ {0}, JoinLies
<1>16. Join(items) \in Seq(Nat) /\ \A i \in 1..n : LiesAt(Join(items), e[i - 1], items[i])
  BY ONLY <1>15 DEF AllLie
<1>17. /\ LiesAt(Join(items), e[1 - 1], items[1]) /\ LiesAt(Join(items), e[2 - 1], items[2])
       /\ LiesAt(Join(items), e[3 - 1], items[3]) /\ LiesAt(Join(items), e[4 - 1], items[4])
  BY ONLY <1>11, <1>16
<1>18. e[1 - 1] = 0 /\ e[2 - 1] = 10 /\ e[3 - 1] = 19 /\ e[4 - 1] = 20
  BY <1>10, <1>13
<1> QED BY ONLY <1>1, <1>3, <1>6, <1>16, <1>17, <1>18

LEMMA UnnumberedLies ==
  ASSUME NEW request \in Nat
  PROVE  /\ Unnumbered(request) \in Seq(Nat)
         /\ LiesAt(Unnumbered(request), 0, String(_result))
         /\ LiesAt(Unnumbered(request), 10, Number(request))
         /\ LiesAt(Unnumbered(request), 19, Null)
         /\ Len(Unnumbered(request)) = 20
<1>1. PICK a, b, c : a = String(_result) /\ b = Number(request) /\ c = Null
  OBVIOUS
<1>2. PICK items : items = <<a, b, c>>
  OBVIOUS
<1>3. Unnumbered(request) = Join(items)
  BY ONLY <1>1, <1>2 DEF Unnumbered
<1>4. /\ a \in Seq(Nat) /\ Len(a) = 10 /\ b \in Seq(Nat) /\ Len(b) = 9
      /\ c \in Seq(Nat) /\ Len(c) = 1
  BY ONLY <1>1, ResultItems, request \in Nat
<1>6. /\ items \in Seq(Seq(Nat)) /\ Len(items) = 3
      /\ items[1] = a /\ items[2] = b /\ items[3] = c
  BY ONLY <1>2, <1>4
<1>7. PICK n \in Nat \ {0} : n = 3
  OBVIOUS
<1>8. PICK e : e = Ends(items)
  OBVIOUS
<1>9. Len(items) = n
  BY <1>6, <1>7
<1>10. e[0] = 0 /\ \A i \in 1..n : e[i] = e[i - 1] + Len(items[i])
  BY ONLY <1>6, <1>8, <1>9, n \in Nat \ {0}, EndsOf
<1>11. 1 \in 1..n /\ 2 \in 1..n /\ 3 \in 1..n
  BY ONLY <1>7
<1>12. /\ e[1] = e[0] + Len(items[1]) /\ e[2] = e[1] + Len(items[2]) /\ e[3] = e[2] + Len(items[3])
  BY ONLY <1>10, <1>11
<1>13. e[1] = 10 /\ e[2] = 19 /\ e[3] = 20
  BY ONLY <1>4, <1>6, <1>10, <1>12
<1>14. Ends(items)[n] < 100
  BY ONLY <1>7, <1>8, <1>13
<1>15. AllLie(Join(items), items, n, e)
  BY ONLY <1>6, <1>8, <1>9, <1>14, n \in Nat \ {0}, JoinLies
<1>16. Join(items) \in Seq(Nat) /\ Len(Join(items)) = e[n] /\ \A i \in 1..n : LiesAt(Join(items), e[i - 1], items[i])
  BY ONLY <1>15 DEF AllLie
<1>17. /\ LiesAt(Join(items), e[1 - 1], items[1]) /\ LiesAt(Join(items), e[2 - 1], items[2])
       /\ LiesAt(Join(items), e[3 - 1], items[3])
  BY ONLY <1>11, <1>16
<1>18. e[1 - 1] = 0 /\ e[2 - 1] = 10 /\ e[3 - 1] = 19
  BY <1>10, <1>13
<1>19. Len(Join(items)) = 20
  BY ONLY <1>7, <1>13, <1>16
<1> QED BY ONLY <1>1, <1>3, <1>6, <1>16, <1>17, <1>18, <1>19

LEMMA ResultPopped ==
  ASSUME NEW body \in Seq(Nat), LiesAt(body, 0, String(_result))
  PROVE  PopString(body, 256) = [ret |-> 10, val |-> _result]
<1>1. PICK s \in Seq(Nat), size \in Nat : s = _result /\ size = 256
  BY ResultName
<1>2. Len(s) = 7 /\ Len(s) < size /\ LiesAt(body, 0, String(s))
  BY <1>1, ResultName
<1>3. PopString(body, size) = [ret |-> Len(s) + 3, val |-> s]
  BY <1>2, PopsString
<1>4. Len(s) + 3 = 10
  BY <1>2
<1> QED BY ONLY <1>1, <1>3, <1>4

(* The number of a result is taken for the id of the stream.              *)
LEMMA NumberPopped ==
  ASSUME NEW request \in Nat, NEW v \in Nat
  PROVE  ResultNumbers(Rest(Numbered(request, v), 10)) = [ret |-> 9, val |-> Double(v)]
<1>1. PICK b \in Seq(Nat) : b = Numbered(request, v)
  BY NumberedLies
<1>2. LiesAt(b, 10, Number(request)) /\ LiesAt(b, 19, Null) /\ LiesAt(b, 20, Number(v))
  BY <1>1, NumberedLies
<1>3. PICK ten \in Nat, nine \in Nat, zero \in Nat, one \in Nat :
        ten = 10 /\ nine = 9 /\ zero = 0 /\ one = 1
  OBVIOUS
<1>4. PICK item \in Seq(Nat), null \in Seq(Nat), given \in Seq(Nat) :
        item = Number(request) /\ null = Null /\ given = Number(v)
  BY ResultItems
<1>5. LiesAt(b, ten + zero, item) /\ LiesAt(b, ten + nine, null) /\ LiesAt(b, ten + ten, given)
  BY <1>2, <1>3, <1>4
<1>6. PICK src : src = Rest(b, ten)
  OBVIOUS
<1>7. /\ src \in Seq(Nat)
      /\ LiesAt(src, zero, item) /\ LiesAt(src, nine, null) /\ LiesAt(src, ten, given)
  BY <1>5, <1>6, RestLies
<1>8. PopNumber(src) = [ret |-> 9, val |-> Double(request)]
  <2>1. request \in Int /\ request >= -10000 /\ LiesAt(src, 0, Number(request))
    BY <1>3, <1>4, <1>7
  <2> QED BY ONLY <1>7, <2>1, PopsNumber
<1>9. PICK behind : behind = Rest(src, nine)
  OBVIOUS
<1>10. behind \in Seq(Nat) /\ LiesAt(behind, zero, null)
  <2>1. LiesAt(src, nine + zero, null)
    BY <1>3, <1>7
  <2> QED BY <1>7, <1>9, <2>1, RestLies
<1>11. PopNull(behind) = [ret |-> 1, val |-> <<>>]
  BY <1>3, <1>4, <1>10, PopsNull
<1>12. PICK last : last = Rest(src, ten)
  OBVIOUS
<1>13. last \in Seq(Nat) /\ LiesAt(last, zero, given)
  <2>1. LiesAt(src, ten + zero, given)
    BY <1>3, <1>7
  <2> QED BY <1>7, <1>12, <2>1, RestLies
<1>14. PopNumber(last) = [ret |-> 9, val |-> Double(v)]
  <2>1. v \in Int /\ v >= -10000 /\ LiesAt(last, 0, Number(v))
    BY <1>3, <1>4, <1>13
  <2> QED BY ONLY <1>13, <2>1, PopsNumber
<1>15. PopNumber(src).ret = 9 /\ PopNull(Rest(src, 9)).ret = 1
  BY <1>3, <1>8, <1>9, <1>11
<1>16. PopNumber(Rest(src, 9 + 1)) = [ret |-> 9, val |-> Double(v)]
  BY <1>3, <1>12, <1>14
<1>17. ~(9 < 0) /\ ~(1 < 0)
  OBVIOUS
<1>18. ResultNumbers(src) = [ret |-> 9, val |-> Double(v)]
  BY ONLY <1>15, <1>16, <1>17 DEF ResultNumbers
<1> QED BY <1>1, <1>3, <1>6, <1>18

(* Of a result without one nothing is left to take.                        *)
LEMMA NoNumberPopped ==
  ASSUME NEW request \in Nat
  PROVE  ResultNumbers(Rest(Unnumbered(request), 10)).ret = -1
<1>1. PICK b \in Seq(Nat) : b = Unnumbered(request)
  BY UnnumberedLies
<1>2. LiesAt(b, 10, Number(request)) /\ LiesAt(b, 19, Null) /\ Len(b) = 20
  BY <1>1, UnnumberedLies
<1>3. PICK ten \in Nat, nine \in Nat, zero \in Nat, one \in Nat :
        ten = 10 /\ nine = 9 /\ zero = 0 /\ one = 1
  OBVIOUS
<1>4. PICK item \in Seq(Nat), null \in Seq(Nat) : item = Number(request) /\ null = Null
  BY ResultItems
<1>5. LiesAt(b, ten + zero, item) /\ LiesAt(b, ten + nine, null)
  BY <1>2, <1>3, <1>4
<1>6. PICK src : src = Rest(b, ten)
  OBVIOUS
<1>7. /\ src \in Seq(Nat) /\ Len(src) = 10
      /\ LiesAt(src, zero, item) /\ LiesAt(src, nine, null)
  <2>1. Len(Rest(b, ten)) = Len(b) - ten
    BY <1>5, RestLies
  <2> QED BY <1>2, <1>3, <1>5, <1>6, <2>1, RestLies
<1>8. PopNumber(src) = [ret |-> 9, val |-> Double(request)]
  <2>1. request \in Int /\ request >= -10000 /\ LiesAt(src, 0, Number(request))
    BY <1>3, <1>4, <1>7
  <2> QED BY ONLY <1>7, <2>1, PopsNumber
<1>9. PICK behind : behind = Rest(src, nine)
  OBVIOUS
<1>10. behind \in Seq(Nat) /\ LiesAt(behind, zero, null)
  <2>1. LiesAt(src, nine + zero, null)
    BY <1>3, <1>7
  <2> QED BY <1>7, <1>9, <2>1, RestLies
<1>11. PopNull(behind) = [ret |-> 1, val |-> <<>>]
  BY <1>3, <1>4, <1>10, PopsNull
<1>12. PICK last : last = Rest(src, ten)
  OBVIOUS
<1>13. last = <<>>
  <2>1. last = SubSeq(src, 11, 10)
    BY <1>3, <1>7, <1>12 DEF Rest
  <2> QED BY <2>1
<1>14. Len(last) < 9
  BY <1>13
<1>15. PopNumber(last) = Failed
  BY ONLY <1>14 DEF PopNumber
<1>16. PopNumber(src).ret = 9 /\ PopNull(Rest(src, 9)).ret = 1
  BY <1>3, <1>8, <1>9, <1>11
<1>17. PopNumber(Rest(src, 9 + 1)) = Failed
  BY <1>3, <1>12, <1>15
<1>18. ~(9 < 0) /\ ~(1 < 0)
  OBVIOUS
<1>19. ResultNumbers(src) = Failed
  BY ONLY <1>16, <1>17, <1>18 DEF ResultNumbers
<1>20. ResultNumbers(src).ret = -1
  BY ONLY <1>19, FailedIs
<1> QED BY <1>1, <1>3, <1>6, <1>20

(* What the client has of the server's command. *)
Handled(pcNext, statusNext, idNext) ==
  /\ pc' = pcNext /\ rtmp_status' = statusNext /\ rtmp_now_stream_id' = idNext
  /\ reply' = [reply EXCEPT !.taken = TRUE] /\ UNCHANGED <<answered, created>>

(* Any other command leaves the client as it is, or ends it if it has no   *)
(* name.                                                                   *)
LEMMA HandlesOther ==
  ASSUME HandleCommand, NEW c \in Commands, Pending(c.body, c.sound)
  PROVE  \/ Handled(pc, rtmp_status, rtmp_now_stream_id)
         \/ Handled("done", rtmp_status, rtmp_now_stream_id) /\ ~c.sound
<1>1. reply.body = c.body /\ pc = "recv"
  BY DEF Pending, HandleCommand
<1>2. c.body \in Seq(Nat) /\ (Len(c.body) >= 10 => SubSeq(c.body, 4, 10) # _result)
      /\ (c.sound => NamedCommand(c.body))
  BY WireAssumption
<1>3. PopString(c.body, 256).val # _result
  BY <1>2, PopsOther
<1>4. c.sound => PopString(c.body, 256).ret > 0
  BY <1>2, PopsName
<1>5. c.sound => ~(PopString(c.body, 256).ret < 0)
  <2>1. \A x : x \in Int /\ x > 0 => ~(x < 0)
    OBVIOUS
  <2>2. PICK r : r = PopString(c.body, 256).ret
    OBVIOUS
  <2>3. r = -1 \/ r \in Nat
    BY SMTT(30), <1>2, <2>2 DEF PopString, Failed
  <2> QED BY <1>4, <2>2, <2>3
<1>6. /\ reply' = [reply EXCEPT !.taken = TRUE] /\ UNCHANGED <<answered, created>>
      /\ \/ /\ PopString(c.body, 256).ret < 0 /\ pc' = "done"
            /\ UNCHANGED <<rtmp_status, rtmp_now_stream_id>>
         \/ UNCHANGED <<pc, rtmp_status, rtmp_now_stream_id>>
  BY ONLY Zenon, <1>1, <1>3, HandleCommand DEF HandleCommand, answerVars
<1> QED BY <1>5, <1>6 DEF Handled

LEMMA HandlesConnect ==
  ASSUME HandleCommand, rtmp_status = "wait_connect", Pending(Join(ConnectResult), TRUE)
  PROVE  Handled("recv", "wait_create_stream", rtmp_now_stream_id)
<1>1. reply.body = Join(ConnectResult) /\ pc = "recv"
  BY DEF Pending, HandleCommand
<1>2. PopString(reply.body, 256) = [ret |-> 10, val |-> _result]
  BY ONLY <1>1, ConnectResultLies, ResultPopped
<1>3. PopString(reply.body, 256).val = _result /\ ~(PopString(reply.body, 256).ret < 0)
  BY ONLY <1>2
<1>4. "wait_connect" # "wait_create_stream" /\ "wait_connect" # "wait_play"
  OBVIOUS
<1>5. /\ reply' = [reply EXCEPT !.taken = TRUE] /\ UNCHANGED <<answered, created>>
      /\ rtmp_status' = "wait_create_stream" /\ UNCHANGED <<pc, rtmp_now_stream_id>>
  BY ONLY Zenon, <1>3, <1>4, HandleCommand, rtmp_status = "wait_connect" DEF HandleCommand, answerVars
<1> QED BY <1>1, <1>5 DEF Handled

(* In wait_create_stream a number is taken for the id of the stream, and a *)
(* result without one ends the thread.                                     *)
LEMMA HandlesNumber ==
  ASSUME HandleCommand, rtmp_status = "wait_create_stream", NEW request \in Nat, NEW v \in Nat,
         Pending(Numbered(request, v), TRUE)
  PROVE  Handled("recv", "wait_play", v)
<1>1. reply.body = Numbered(request, v) /\ pc = "recv"
  BY DEF Pending, HandleCommand
<1>2. PICK b \in Seq(Nat) : b = Numbered(request, v) /\ LiesAt(b, 0, String(_result))
  BY NumberedLies
<1>3. PopString(reply.body, 256) = [ret |-> 10, val |-> _result]
  BY ONLY <1>1, <1>2, ResultPopped
<1>4. /\ PopString(reply.body, 256).val = _result /\ ~(PopString(reply.body, 256).ret < 0)
      /\ PopString(reply.body, 256).ret = 10
  BY ONLY <1>3
<1>5. PICK numbers : numbers = ResultNumbers(Rest(reply.body, 10))
  OBVIOUS
<1>6. numbers = [ret |-> 9, val |-> Double(v)]
  BY ONLY <1>1, <1>5, request \in Nat, v \in Nat, NumberPopped
<1>7. ~(numbers.ret < 0) /\ numbers.val = Double(v)
  BY ONLY <1>6
<1>8. DoubleOf(numbers.val) = v
  <2>1. v \in Int /\ v >= -10000
    OBVIOUS
  <2>2. DoubleOf(Double(v)) = v
    BY <2>1, DoubleType
  <2> QED BY ONLY <1>7, <2>2
<1>9. "wait_create_stream" # "wait_connect" /\ "wait_create_stream" # "wait_play"
  OBVIOUS
<1>10. /\ reply' = [reply EXCEPT !.taken = TRUE] /\ UNCHANGED <<answered, created>>
       /\ rtmp_status' = "wait_play" /\ rtmp_now_stream_id' = DoubleOf(numbers.val) /\ UNCHANGED pc
  BY ONLY Zenon, <1>4, <1>5, <1>7, <1>9, HandleCommand, rtmp_status = "wait_create_stream"
     DEF HandleCommand, answerVars
<1> QED BY <1>1, <1>8, <1>10 DEF Handled

LEMMA HandlesNoNumber ==
  ASSUME HandleCommand, rtmp_status = "wait_create_stream", NEW request \in Nat,
         Pending(Unnumbered(request), TRUE)
  PROVE  Handled("done", "wait_create_stream", rtmp_now_stream_id)
<1>1. reply.body = Unnumbered(request) /\ pc = "recv"
  BY DEF Pending, HandleCommand
<1>2. PICK b \in Seq(Nat) : b = Unnumbered(request) /\ LiesAt(b, 0, String(_result))
  BY UnnumberedLies
<1>3. PopString(reply.body, 256) = [ret |-> 10, val |-> _result]
  BY ONLY <1>1, <1>2, ResultPopped
<1>4. /\ PopString(reply.body, 256).val = _result /\ ~(PopString(reply.body, 256).ret < 0)
      /\ PopString(reply.body, 256).ret = 10
  BY ONLY <1>3
<1>5. PICK numbers : numbers = ResultNumbers(Rest(reply.body, 10))
  OBVIOUS
<1>6. numbers.ret = -1
  BY ONLY <1>1, <1>5, request \in Nat, NoNumberPopped
<1>7. ~(numbers.ret > 0)
  BY ONLY <1>6
<1>8. "wait_create_stream" # "wait_connect" /\ "wait_create_stream" # "wait_play"
  OBVIOUS
<1>9. /\ reply' = [reply EXCEPT !.taken = TRUE] /\ UNCHANGED <<answered, created>>
      /\ pc' = "done" /\ UNCHANGED <<rtmp_status, rtmp_now_stream_id>>
  BY ONLY Zenon, <1>4, <1>5, <1>7, <1>8, HandleCommand, rtmp_status = "wait_create_stream"
     DEF HandleCommand, answerVars
<1> QED BY <1>9 DEF Handled

(* In wait_play every result is left alone.                                *)
LEMMA HandlesLate ==
  ASSUME HandleCommand, rtmp_status = "wait_play", NEW b \in Seq(Nat),
         LiesAt(b, 0, String(_result)), Pending(b, TRUE)
  PROVE  Handled("recv", "wait_play", rtmp_now_stream_id)
<1>1. reply.body = b /\ pc = "recv"
  BY DEF Pending, HandleCommand
<1>2. PopString(reply.body, 256) = [ret |-> 10, val |-> _result]
  BY ONLY <1>1, b \in Seq(Nat), LiesAt(b, 0, String(_result)), ResultPopped
<1>3. PopString(reply.body, 256).val = _result /\ ~(PopString(reply.body, 256).ret < 0)
  BY ONLY <1>2
<1>4. "wait_play" # "wait_create_stream" /\ "wait_play" # "wait_connect"
  OBVIOUS
<1>5. /\ reply' = [reply EXCEPT !.taken = TRUE] /\ UNCHANGED <<answered, created>>
      /\ UNCHANGED <<pc, rtmp_status, rtmp_now_stream_id>>
  BY ONLY Zenon, <1>3, <1>4, HandleCommand, rtmp_status = "wait_play" DEF HandleCommand, answerVars
<1> QED BY <1>1, <1>5 DEF Handled

LEMMA Taking ==
  ASSUME reply = [body |-> reply.body, sound |-> reply.sound, taken |-> reply.taken],
         reply' = [reply EXCEPT !.taken = TRUE]
  PROVE  /\ reply' = [body |-> reply'.body, sound |-> reply'.sound, taken |-> reply'.taken]
         /\ reply'.taken = TRUE /\ reply'.sound = reply.sound /\ reply'.body = reply.body
  OBVIOUS

LEMMA IsPending ==
  ASSUME NEW body, NEW sound, Pending(body, sound)
  PROVE  /\ reply = [body |-> reply.body, sound |-> reply.sound, taken |-> reply.taken]
         /\ reply.taken = FALSE /\ reply.body = body /\ reply.sound = sound
  BY DEF Pending

LEMMA ReplyInit == ASSUME WireInit PROVE ReplyInv
  BY DEF WireInit, ReplyInv, StreamKnown

LEMMA ReplyHandled == ASSUME ReplyInv, HandleCommand PROVE ReplyInv'
<1>1. /\ reply = [body |-> reply.body, sound |-> reply.sound, taken |-> reply.taken]
      /\ created \in {0} \cup StreamIds /\ (answered = 2 => created \in StreamIds)
      /\ rtmp_now_stream_id \in {0} \cup StreamIds \cup Durations /\ StreamKnown
  BY DEF ReplyInv
<1>2. pc = "recv" /\ ~reply.taken /\ reply' = [reply EXCEPT !.taken = TRUE]
  BY DEF HandleCommand
<1>3. /\ reply' = [body |-> reply'.body, sound |-> reply'.sound, taken |-> reply'.taken]
      /\ reply'.taken = TRUE /\ reply'.sound = reply.sound /\ reply'.body = reply.body
  BY ONLY <1>1, <1>2, Taking
<1>4. \/ Settled /\ \E c \in Commands : Pending(c.body, c.sound)
      \/ answered = 1 /\ rtmp_status = "wait_connect" /\ Pending(Join(ConnectResult), TRUE)
      \/ /\ answered = 2 /\ Pending(Numbered(2, created), TRUE)
         /\ rtmp_status = "wait_create_stream" \/ (~InOrder /\ rtmp_status = "wait_play")
      \/ Settled /\ (answered = 2 \/ (~InOrder /\ answered = 1)) /\ OtherPending
  BY <1>2 DEF ReplyInv
<1>5. ASSUME Settled, Handled(pc, rtmp_status, rtmp_now_stream_id)
      PROVE  ReplyInv'
  <2>1. UNCHANGED <<pc, rtmp_status, rtmp_now_stream_id, answered, created>>
    BY <1>5 DEF Handled
  <2>2. Settled' /\ StreamKnown'
    BY <1>1, <1>5, <2>1 DEF Settled, StreamKnown
  <2> QED BY <1>1, <1>2, <1>3, <2>1, <2>2 DEF ReplyInv
<1>6. ASSUME Settled, Handled("done", rtmp_status, rtmp_now_stream_id), ~reply.sound \/ Misled
      PROVE  ReplyInv'
  <2>1. pc' = "done" /\ UNCHANGED <<rtmp_status, rtmp_now_stream_id, answered, created>>
    BY <1>6 DEF Handled
  <2>2. Settled' /\ StreamKnown'
    BY <1>1, <1>6, <2>1 DEF Settled, StreamKnown
  <2>3. ~reply'.sound \/ Misled'
    BY <1>3, <1>6 DEF Misled
  <2> QED BY <1>1, <1>3, <2>1, <2>2, <2>3 DEF ReplyInv
<1>7. ASSUME NEW v \in StreamIds \cup Durations, Handled("recv", "wait_play", v),
             answered = 2 \/ (~InOrder /\ answered = 1), InOrder => v = created
      PROVE  ReplyInv'
  <2>1. /\ pc' = "recv" /\ rtmp_status' = "wait_play" /\ rtmp_now_stream_id' = v
        /\ UNCHANGED <<answered, created>>
    BY <1>7 DEF Handled
  <2>2. Settled' /\ StreamKnown'
    BY <1>7, <2>1 DEF Settled, StreamKnown
  <2> QED BY <1>1, <1>3, <2>1, <2>2 DEF ReplyInv
<1>8. ASSUME Settled, NEW c \in Commands, Pending(c.body, c.sound)
      PROVE  ReplyInv'
  <2>1. reply.sound = c.sound
    BY <1>8 DEF Pending
  <2> QED BY <1>5, <1>6, <1>8, <2>1, HandlesOther
<1>9. ASSUME answered = 1, rtmp_status = "wait_connect", Pending(Join(ConnectResult), TRUE)
      PROVE  ReplyInv'
  <2>1. Handled("recv", "wait_create_stream", rtmp_now_stream_id)
    BY <1>9, HandlesConnect
  <2>2. /\ pc' = "recv" /\ rtmp_status' = "wait_create_stream"
        /\ UNCHANGED <<rtmp_now_stream_id, answered, created>>
    BY <2>1 DEF Handled
  <2>3. Settled' /\ StreamKnown'
    BY <1>1, <1>9, <2>2 DEF Settled, StreamKnown
  <2> QED BY <1>1, <1>3, <2>2, <2>3 DEF ReplyInv
<1>10. ASSUME answered = 2, Pending(Numbered(2, created), TRUE),
              rtmp_status = "wait_create_stream" \/ (~InOrder /\ rtmp_status = "wait_play")
       PROVE  ReplyInv'
  <2>1. PICK two \in Nat : two = 2
    OBVIOUS
  <2>2. created \in StreamIds /\ created \in Nat
    BY <1>1, <1>10, WireAssumption
  <2>3. Pending(Numbered(two, created), TRUE)
    BY <1>10, <2>1
  <2>4. CASE rtmp_status = "wait_create_stream"
    <3>1. Handled("recv", "wait_play", created)
      BY <2>2, <2>3, <2>4, HandlesNumber
    <3> QED BY <1>7, <1>10, <2>2, <3>1
  <2>5. CASE ~InOrder /\ rtmp_status = "wait_play"
    <3>1. PICK b \in Seq(Nat) : b = Numbered(two, created) /\ LiesAt(b, 0, String(_result))
      BY <2>2, NumberedLies
    <3>2. Handled("recv", "wait_play", rtmp_now_stream_id)
      BY <2>3, <2>5, <3>1, HandlesLate
    <3>3. Settled /\ Handled(pc, rtmp_status, rtmp_now_stream_id)
      BY <1>2, <1>10, <2>5, <3>2 DEF Settled
    <3> QED BY <1>5, <3>3
  <2> QED BY <1>10, <2>4, <2>5
<1>11. ASSUME Settled, answered = 2 \/ (~InOrder /\ answered = 1), OtherPending
       PROVE  ReplyInv'
  <2>1. PICK n \in {3, 4} : \E body \in OtherResults(n) : Pending(body, TRUE)
    BY <1>11 DEF OtherPending
  <2>2. PICK body \in OtherResults(n) : Pending(body, TRUE)
    BY <2>1
  <2>3. n \in Nat
    OBVIOUS
  <2>4. body \in Seq(Nat) /\ LiesAt(body, 0, String(_result))
    BY <2>2, <2>3, NumberedLies, UnnumberedLies, WireAssumption DEF OtherResults
  <2>5. CASE rtmp_status = "wait_play"
    <3>1. Handled("recv", "wait_play", rtmp_now_stream_id)
      BY <2>2, <2>4, <2>5, HandlesLate
    <3>2. Handled(pc, rtmp_status, rtmp_now_stream_id)
      BY <1>2, <2>5, <3>1
    <3> QED BY <1>5, <1>11, <3>2
  <2>6. CASE rtmp_status # "wait_play"
    <3>1. ~InOrder /\ answered = 1 /\ rtmp_status = "wait_create_stream"
      BY <1>11, <2>6 DEF Settled
    <3>2. CASE body = Unnumbered(n)
      <4>1. Handled("done", rtmp_status, rtmp_now_stream_id)
        BY <2>2, <2>3, <3>1, <3>2, HandlesNoNumber
      <4>2. Misled
        BY <2>2, <3>1, <3>2 DEF Misled, Pending
      <4> QED BY <1>6, <1>11, <4>1, <4>2
    <3>3. ASSUME NEW v \in Durations, body = Numbered(n, v) PROVE ReplyInv'
      <4>1. v \in Nat
        BY WireAssumption
      <4>2. Handled("recv", "wait_play", v)
        BY <2>2, <2>3, <3>1, <3>3, <4>1, HandlesNumber
      <4> QED BY <1>7, <3>1, <4>2
    <3> QED BY <2>2, <3>2, <3>3 DEF OtherResults
  <2> QED BY <2>5, <2>6
<1> QED BY <1>4, <1>8, <1>9, <1>10, <1>11

(* Only a client that has taken the command before gets another one.       *)
LEMMA ReplyTaken ==
  ASSUME ReplyInv, pc = "recv", reply.taken
  PROVE  Settled
  BY IsPending DEF ReplyInv

Said(body, sound) ==
  /\ Settled /\ pc = "recv" /\ pc' = "recv" /\ Pending(body, sound)'
  /\ reply' = [body |-> reply'.body, sound |-> reply'.sound, taken |-> reply'.taken]
  /\ reply'.taken = FALSE
  /\ UNCHANGED <<rtmp_status, rtmp_now_stream_id>>

LEMMA SaysThis ==
  ASSUME ReplyInv, NEW body, NEW sound, Says(body, sound)
  PROVE  Said(body, sound)
<1>1. reply' = [body |-> body, sound |-> sound, taken |-> FALSE]
  BY DEF Says
<1>2. reply.taken /\ pc = "recv" /\ UNCHANGED <<pc, rtmp_status, rtmp_now_stream_id>>
  BY DEF Says, statusVars
<1>3. /\ reply' = [body |-> reply'.body, sound |-> reply'.sound, taken |-> reply'.taken]
      /\ reply'.taken = FALSE
  BY ONLY <1>1
<1>4. Pending(body, sound)'
  BY <1>1 DEF Pending
<1>5. Settled
  BY <1>2, ReplyTaken
<1> QED BY <1>2, <1>3, <1>4, <1>5 DEF Said

LEMMA ReplySaid ==
  ASSUME ReplyInv, ServerAnswers \/ ServerCommands \/ ServerAnswersOther
  PROVE  ReplyInv'
<1>1. ASSUME NEW body, NEW sound, Says(body, sound)
      PROVE  Said(body, sound)
  BY <1>1, SaysThis
<1>2. /\ created \in {0} \cup StreamIds /\ (answered = 2 => created \in StreamIds)
      /\ rtmp_now_stream_id \in {0} \cup StreamIds \cup Durations /\ StreamKnown
  BY DEF ReplyInv
<1>3. ASSUME answered = 0, answered' = 1, Said(Join(ConnectResult), TRUE), UNCHANGED created
      PROVE  ReplyInv'
  <2>1. rtmp_status = "wait_connect" /\ rtmp_status' = "wait_connect"
    BY <1>3 DEF Settled, Said
  <2>2. /\ pc' = "recv" /\ reply'.taken = FALSE /\ UNCHANGED <<rtmp_status, rtmp_now_stream_id>>
        /\ reply' = [body |-> reply'.body, sound |-> reply'.sound, taken |-> reply'.taken]
        /\ Pending(Join(ConnectResult), TRUE)'
    BY <1>3 DEF Said
  <2>3. answered' = 1 /\ created' = created
    BY <1>3
  <2>4. StreamKnown'
    BY <1>2, <2>2, <2>3 DEF StreamKnown
  <2> QED BY ONLY <1>2, <2>1, <2>2, <2>3, <2>4 DEF ReplyInv, Pending
<1>4. ASSUME NEW id \in StreamIds, answered = 1, answered' = 2, Said(Numbered(2, id), TRUE),
             created' = id
      PROVE  ReplyInv'
  <2>1. /\ rtmp_status = "wait_create_stream" \/ (~InOrder /\ rtmp_status = "wait_play")
        /\ rtmp_status' = rtmp_status
    BY <1>4 DEF Settled, Said
  <2>2. Pending(Numbered(2, created), TRUE)'
    BY <1>4 DEF Pending, Said
  <2>3. StreamKnown'
    BY <1>2, <1>4, <2>1 DEF StreamKnown, Said
  <2>4. /\ pc' = "recv" /\ reply'.taken = FALSE /\ UNCHANGED <<rtmp_status, rtmp_now_stream_id>>
        /\ reply' = [body |-> reply'.body, sound |-> reply'.sound, taken |-> reply'.taken]
    BY <1>4 DEF Said
  <2>5. answered' = 2 /\ created' \in StreamIds
    BY <1>4
  <2> QED BY ONLY <1>2, <2>1, <2>2, <2>3, <2>4, <2>5 DEF ReplyInv
<1>5. ASSUME NEW body, NEW sound, Said(body, sound), UNCHANGED <<answered, created>>,
             \/ \E c \in Commands : body = c.body /\ sound = c.sound
             \/ /\ answered = 2 \/ (~InOrder /\ answered = 1)
                /\ sound = TRUE /\ \E n \in {3, 4} : body \in OtherResults(n)
      PROVE  ReplyInv'
  <2>1. Settled' /\ StreamKnown'
    BY <1>2, <1>5 DEF Settled, Said, StreamKnown
  <2>2. /\ pc' = "recv" /\ reply'.taken = FALSE /\ UNCHANGED <<rtmp_status, rtmp_now_stream_id>>
        /\ reply' = [body |-> reply'.body, sound |-> reply'.sound, taken |-> reply'.taken]
        /\ reply' = [body |-> body, sound |-> sound, taken |-> FALSE]
    BY <1>5 DEF Said, Pending
  <2>3. CASE \E c \in Commands : body = c.body /\ sound = c.sound
    <3>1. (\E c \in Commands : Pending(c.body, c.sound))'
      BY <2>2, <2>3 DEF Pending
    <3> QED BY <1>2, <1>5, <2>1, <2>2, <3>1 DEF ReplyInv
  <2>4. CASE /\ answered = 2 \/ (~InOrder /\ answered = 1)
             /\ sound = TRUE /\ \E n \in {3, 4} : body \in OtherResults(n)
    <3>1. OtherPending'
      BY <2>2, <2>4 DEF OtherPending, Pending
    <3>2. answered' = 2 \/ (~InOrder /\ answered' = 1)
      BY <1>5, <2>4
    <3> QED BY <1>2, <1>5, <2>1, <2>2, <3>1, <3>2 DEF ReplyInv
  <2> QED BY <1>5, <2>3, <2>4
<1>6. ASSUME ServerAnswers PROVE ReplyInv'
  <2>1. CASE /\ answered = 0 /\ answered' = 1 /\ UNCHANGED created
             /\ Says(Join(ConnectResult), TRUE)
    BY <1>1, <1>3, <2>1
  <2>2. CASE /\ answered = 1 /\ answered' = 2
             /\ \E id \in StreamIds : Says(Numbered(2, id), TRUE) /\ created' = id
    BY <1>1, <1>4, <2>2
  <2> QED BY ONLY Zenon, <1>6, <2>1, <2>2 DEF ServerAnswers, ConnectResult
<1>7. ASSUME ServerCommands PROVE ReplyInv'
  <2>1. PICK c \in Commands : Says(c.body, c.sound)
    BY <1>7 DEF ServerCommands
  <2>2. UNCHANGED <<answered, created>>
    BY <1>7 DEF ServerCommands
  <2> QED BY <1>1, <1>5, <2>1, <2>2
<1>8. ASSUME ServerAnswersOther PROVE ReplyInv'
  <2>1. /\ answered = 2 \/ (~InOrder /\ answered = 1)
        /\ UNCHANGED <<answered, created>>
        /\ \E n \in {4, 5} \ others : \E body \in OtherResults(n - 1) : Says(body, TRUE)
    BY ONLY Zenon, <1>8 DEF ServerAnswersOther
  <2>2. PICK n \in {4, 5} : \E body \in OtherResults(n - 1) : Says(body, TRUE)
    BY <2>1
  <2>3. PICK body \in OtherResults(n - 1) : Says(body, TRUE)
    BY <2>2
  <2>4. n - 1 \in {3, 4}
    OBVIOUS
  <2>5. \E m \in {3, 4} : body \in OtherResults(m)
    BY ONLY <2>3, <2>4
  <2> QED BY <1>1, <1>5, <2>1, <2>3, <2>5
<1> QED BY <1>6, <1>7, <1>8

LEMMA ReplyNext == ASSUME ReplyInv, [WireNext]_wireVars PROVE ReplyInv'
<1>1. /\ created \in {0} \cup StreamIds /\ (answered = 2 => created \in StreamIds)
      /\ rtmp_now_stream_id \in {0} \cup StreamIds \cup Durations /\ StreamKnown
      /\ reply = [body |-> reply.body, sound |-> reply.sound, taken |-> reply.taken]
      /\ reply.taken \in BOOLEAN
  BY DEF ReplyInv
<1>2. CASE \/ \E u \in Urls : SetupUrl(u)
           \/ BuildConnect \/ MoveConnect
  <2>1. /\ pc \in {"url", "split"} /\ pc' \in {"url", "split"}
        /\ UNCHANGED <<rtmp_status, rtmp_now_stream_id, answered, created, reply, wire>>
    <3>1. ASSUME NEW u \in Urls, SetupUrl(u)
          PROVE  /\ pc = "url" /\ pc' = "url"
                 /\ UNCHANGED <<rtmp_status, rtmp_now_stream_id, answered, created, reply, wire>>
      BY <3>1 DEF SetupUrl, statusVars, answerVars
    <3>2. ASSUME BuildConnect
          PROVE  /\ pc = "url" /\ pc' = "split"
                 /\ UNCHANGED <<rtmp_status, rtmp_now_stream_id, answered, created, reply, wire>>
      BY <3>2 DEF BuildConnect, statusVars, answerVars
    <3>3. ASSUME MoveConnect
          PROVE  /\ pc = "split" /\ pc' = "split"
                 /\ UNCHANGED <<rtmp_status, rtmp_now_stream_id, answered, created, reply, wire>>
      BY <3>3 DEF MoveConnect, statusVars, answerVars
    <3> QED BY <1>2, <3>1, <3>2, <3>3
  <2> QED BY <1>1, <2>1 DEF ReplyInv, StreamKnown
<1>3. CASE SendConnect
  <2>1. /\ pc = "split" /\ pc' = "recv" /\ rtmp_status' = "wait_connect"
        /\ UNCHANGED <<rtmp_now_stream_id, answered, created, reply>>
    BY <1>3 DEF SendConnect, answerVars
  <2>2. answered = 0 /\ reply.taken /\ rtmp_status = "wait_s2"
    BY <2>1 DEF ReplyInv
  <2> QED BY <1>1, <2>1, <2>2 DEF ReplyInv, Settled, StreamKnown
<1>4. CASE ServerReads \/ UNCHANGED wireVars
  <2>1. UNCHANGED <<pc, rtmp_status, rtmp_now_stream_id, answered, created, reply, wire>>
    BY <1>4 DEF ServerReads, wireVars, statusVars, answerVars
  <2> QED BY <2>1 DEF ReplyInv, Settled, Pending, OtherPending, Misled, StreamKnown
<1> QED BY <1>2, <1>3, <1>4, ReplyHandled, ReplySaid DEF WireNext, ThreadRuns, ServerServes

LEMMA ReplyInvariant == WireSpec => []ReplyInv
  BY ReplyInit, ReplyNext, PTL DEF WireSpec

(* The thread ends only on a damaged command or, if the server does not    *)
(* answer in order, on a result without a number that it takes for that of *)
(* createStream: a result to any request may come in between, at any time  *)
(* the server may send it.                                                 *)
THEOREM EndsOnlyOnDamaged == WireSpec => []EndsOnlyOnDamage
<1>1. ReplyInv => EndsOnlyOnDamage
  BY DEF ReplyInv, EndsOnlyOnDamage, Misled
<1> QED BY <1>1, ReplyInvariant, PTL

(* The stream the client plays is the one the server created for it, if    *)
(* the server answers in order.                                            *)
PlaysCreated == rtmp_status = "wait_play" => rtmp_now_stream_id = created /\ created \in StreamIds

THEOREM PlaysWhatWasCreated == ASSUME InOrder PROVE WireSpec => []PlaysCreated
<1>1. ReplyInv => PlaysCreated
  BY DEF ReplyInv, PlaysCreated, Settled, StreamKnown
<1> QED BY <1>1, ReplyInvariant, PTL

-----------------------------------------------------------------------------
(* Messages behind connect: a header, and a body of the length it says.    *)
Message0(m, csid, len, type, sid, body) ==
  \E h : IsHeader0(h, csid, len, type, sid) /\ m = h \o body /\ body \in Seq(Nat) /\ Len(body) = len

Message1(m, csid, len, type, body) ==
  \E h : IsHeader1(h, csid, len, type) /\ m = h \o body /\ body \in Seq(Nat) /\ Len(body) = len

LEMMA MessageType ==
  ASSUME NEW m, NEW csid, NEW len \in Nat, NEW type, NEW sid, NEW body
  PROVE  /\ Message0(m, csid, len, type, sid, body) => m \in Seq(Nat) /\ Len(m) = 12 + len
         /\ Message1(m, csid, len, type, body) => m \in Seq(Nat) /\ Len(m) = 8 + len
<1>1. ASSUME NEW h \in Seq(Nat), NEW b \in Seq(Nat), NEW k \in Nat, Len(h) = k, Len(b) = len, m = h \o b
      PROVE  m \in Seq(Nat) /\ Len(m) = k + len
  BY <1>1, CatParts
<1>2. ASSUME Message0(m, csid, len, type, sid, body) PROVE m \in Seq(Nat) /\ Len(m) = 12 + len
  <2>1. PICK h : IsHeader0(h, csid, len, type, sid) /\ m = h \o body /\ body \in Seq(Nat) /\ Len(body) = len
    BY <1>2 DEF Message0
  <2>2. h \in Seq(Nat) /\ Len(h) = 12
    BY <2>1 DEF IsHeader0
  <2> QED BY ONLY <1>1, <2>1, <2>2, 12 \in Nat
<1>3. ASSUME Message1(m, csid, len, type, body) PROVE m \in Seq(Nat) /\ Len(m) = 8 + len
  <2>1. PICK h : IsHeader1(h, csid, len, type) /\ m = h \o body /\ body \in Seq(Nat) /\ Len(body) = len
    BY <1>3 DEF Message1
  <2>2. h \in Seq(Nat) /\ Len(h) = 8
    BY <2>1 DEF IsHeader1
  <2> QED BY ONLY <1>1, <2>1, <2>2, 8 \in Nat
<1> QED BY <1>2, <1>3

LEMMA CommandTexts ==
  /\ _createStream \in Seq(Nat) /\ Len(_createStream) = 12
  /\ _checkbw \in Seq(Nat) /\ Len(_checkbw) = 8
  /\ getStreamLength \in Seq(Nat) /\ Len(getStreamLength) = 15
  /\ _play \in Seq(Nat) /\ Len(_play) = 4
<1>1. PICK a \in Nat, b \in Nat, c \in Nat, d \in Nat : a = 2 /\ b = 3 /\ c = 4 /\ d = 5
  OBVIOUS
<1>2. PICK k \in Nat, l \in Nat, m \in Nat, n \in Nat : k = 12 /\ l = 8 /\ m = 15 /\ n = 4
  OBVIOUS
<1>3. /\ Text(a, k) \in Seq(Nat) /\ Len(Text(a, k)) = k /\ Text(b, l) \in Seq(Nat) /\ Len(Text(b, l)) = l
      /\ Text(c, m) \in Seq(Nat) /\ Len(Text(c, m)) = m /\ Text(d, n) \in Seq(Nat) /\ Len(Text(d, n)) = n
  BY ONLY a \in Nat, b \in Nat, c \in Nat, d \in Nat, k \in Nat, l \in Nat, m \in Nat, n \in Nat, TextType
<1> QED BY ONLY <1>1, <1>2, <1>3 DEF _createStream, _checkbw, getStreamLength, _play

(* The body of a command of three values. *)
Short(body, len, s, v) ==
  body \in Seq(Nat) /\ Len(body) = len /\ Holds(body, <<Str(s), Num(v), Nothing>>)

LEMMA ShortBody ==
  ASSUME NEW s \in Seq(Nat), NEW v \in Nat, NEW size \in Nat, NEW len \in Nat,
         len = Len(s) + 13, len <= size
  PROVE  Short(PushAll(size, <<String(s), Number(v), Null>>), len, s, v)
<1>1. PICK items, body : items = <<String(s), Number(v), Null>> /\ body = PushAll(size, items)
  OBVIOUS
<1>2. PICK values : values = <<Str(s), Num(v), Nothing>>
  OBVIOUS
<1>3. Conveys(items, len, values)
  BY <1>1, <1>2, ThreeItems
<1>4. body \in Seq(Nat) /\ Len(body) = len /\ Holds(body, values)
  BY ONLY <1>1, <1>3, len \in Nat, size \in Nat, len <= size, BodyHolds
<1> QED BY ONLY <1>1, <1>2, <1>4 DEF Short

LEMMA CreateStreamMessage ==
  \E body : Message1(create_stream, 3, 25, COMMAND, body) /\ Short(body, 25, _createStream, 2)
<1>1. PICK s \in Seq(Nat), v \in Nat : s = _createStream /\ v = 2
  BY ONLY CommandTexts
<1>2. PICK size \in Nat, len \in Nat : size = 1008 - 8 /\ size = 1000 /\ len = 25
  OBVIOUS
<1>3. PICK body : body = PushAll(size, <<String(s), Number(v), Null>>)
  OBVIOUS
<1>4. len = Len(s) + 13 /\ len <= size
  BY ONLY <1>1, <1>2, CommandTexts
<1>5. Short(body, len, s, v)
  BY ONLY <1>3, <1>4, s \in Seq(Nat), v \in Nat, size \in Nat, len \in Nat, ShortBody
<1>6. PICK three \in Nat, type \in Nat : three = 3 /\ type = COMMAND
  BY DEF COMMAND
<1>7. PICK h : h = Header1(three, len, type)
  OBVIOUS
<1>8. IsHeader1(h, three, len, type)
  BY ONLY <1>7, three \in Nat, len \in Nat, type \in Nat, Header1Type
<1>9. body = Body(1008, 8, <<String(_createStream), Number(2), Null>>)
  <2>1. PICK items : items = <<String(_createStream), Number(2), Null>>
    OBVIOUS
  <2>2. items = <<String(s), Number(v), Null>>
    BY ONLY <1>1, <2>1
  <2>3. Body(1008, 8, items) = PushAll(1008 - 8, items)
    BY ONLY TRUE DEF Body
  <2>4. body = PushAll(size, items)
    BY ONLY Zenon, <1>3, <2>2
  <2>5. body = Body(1008, 8, items)
    BY ONLY SMT, <1>2, <2>3, <2>4
  <2> QED BY ONLY Zenon, <2>1, <2>5
<1>10. Len(body) = len /\ body \in Seq(Nat)
  BY ONLY <1>5 DEF Short
<1>11. create_stream = h \o body
  <2>1. create_stream = Header1(3, Len(body), COMMAND) \o body
    BY ONLY SMT, <1>9 DEF create_stream
  <2>2. Header1(3, Len(body), COMMAND) = h
    BY ONLY SMT, <1>6, <1>7, <1>10
  <2> QED BY ONLY Zenon, <2>1, <2>2
<1>12. Message1(create_stream, three, len, type, body)
  BY ONLY <1>8, <1>10, <1>11 DEF Message1
<1> QED BY ONLY ZenonT(30), <1>1, <1>2, <1>5, <1>6, <1>12

LEMMA CheckbwMessage ==
  \E body : Message1(checkbw, 3, 21, COMMAND, body) /\ Short(body, 21, _checkbw, 3)
<1>1. PICK s \in Seq(Nat), v \in Nat : s = _checkbw /\ v = 3
  BY ONLY CommandTexts
<1>2. PICK size \in Nat, len \in Nat : size = 975 - 8 /\ size = 967 /\ len = 21
  OBVIOUS
<1>3. PICK body : body = PushAll(size, <<String(s), Number(v), Null>>)
  OBVIOUS
<1>4. len = Len(s) + 13 /\ len <= size
  BY ONLY <1>1, <1>2, CommandTexts
<1>5. Short(body, len, s, v)
  BY ONLY <1>3, <1>4, s \in Seq(Nat), v \in Nat, size \in Nat, len \in Nat, ShortBody
<1>6. PICK three \in Nat, type \in Nat : three = 3 /\ type = COMMAND
  BY DEF COMMAND
<1>7. PICK h : h = Header1(three, len, type)
  OBVIOUS
<1>8. IsHeader1(h, three, len, type)
  BY ONLY <1>7, three \in Nat, len \in Nat, type \in Nat, Header1Type
<1>9. body = Body(975, 8, <<String(_checkbw), Number(3), Null>>)
  <2>1. PICK items : items = <<String(_checkbw), Number(3), Null>>
    OBVIOUS
  <2>2. items = <<String(s), Number(v), Null>>
    BY ONLY <1>1, <2>1
  <2>3. Body(975, 8, items) = PushAll(975 - 8, items)
    BY ONLY TRUE DEF Body
  <2>4. body = PushAll(size, items)
    BY ONLY Zenon, <1>3, <2>2
  <2>5. body = Body(975, 8, items)
    BY ONLY SMT, <1>2, <2>3, <2>4
  <2> QED BY ONLY Zenon, <2>1, <2>5
<1>10. Len(body) = len /\ body \in Seq(Nat)
  BY ONLY <1>5 DEF Short
<1>11. checkbw = h \o body
  <2>1. checkbw = Header1(3, Len(body), COMMAND) \o body
    BY ONLY SMT, <1>9 DEF checkbw
  <2>2. Header1(3, Len(body), COMMAND) = h
    BY ONLY SMT, <1>6, <1>7, <1>10
  <2> QED BY ONLY Zenon, <2>1, <2>2
<1>12. Message1(checkbw, three, len, type, body)
  BY ONLY <1>8, <1>10, <1>11 DEF Message1
<1> QED BY ONLY ZenonT(30), <1>1, <1>2, <1>5, <1>6, <1>12

LEMMA StreamLengthMessage ==
  ASSUME NEW stream \in Seq(Nat), stream = rtmp_stream, Len(stream) < 128
  PROVE  \E body : /\ Message0(get_stream_length, 8, Len(stream) + 31, COMMAND, 0, body)
                   /\ Holds(body, <<Str(getStreamLength), Num(4), Nothing, Str(stream)>>)
<1>1. PICK s \in Seq(Nat), v \in Nat : s = getStreamLength /\ v = 4
  BY ONLY CommandTexts
<1>2. PICK size \in Nat, len \in Nat : size = 1024 - 12 /\ size = 1012 /\ len = Len(stream) + 31
  BY SMTT(30)
<1>3. PICK items, body, values :
        /\ items = <<String(s), Number(v), Null, String(stream)>> /\ body = PushAll(size, items)
        /\ values = <<Str(s), Num(v), Nothing, Str(stream)>>
  OBVIOUS
<1>4. len = Len(s) + Len(stream) + 16 /\ len <= size
  BY <1>1, <1>2, CommandTexts
<1>5. Conveys(items, len, values)
  BY <1>3, <1>4, FourItems
<1>6. body \in Seq(Nat) /\ Len(body) = len /\ Holds(body, values)
  BY ONLY <1>3, <1>4, <1>5, len \in Nat, size \in Nat, BodyHolds
<1>7. PICK eight \in Nat, zero \in Nat, type \in Nat : eight = 8 /\ zero = 0 /\ type = COMMAND
  BY DEF COMMAND
<1>8. PICK h : h = Header0(eight, len, type, zero)
  OBVIOUS
<1>9. IsHeader0(h, eight, len, type, zero)
  BY ONLY <1>8, eight \in Nat, len \in Nat, type \in Nat, zero \in Nat, Header0Type
<1>10. body = Body(1024, 12, <<String(getStreamLength), Number(4), Null, String(rtmp_stream)>>)
  <2>1. PICK all : all = <<String(getStreamLength), Number(4), Null, String(rtmp_stream)>>
    OBVIOUS
  <2>2. all = items
    BY ONLY <1>1, stream = rtmp_stream, <1>3, <2>1
  <2>3. Body(1024, 12, all) = PushAll(1024 - 12, all)
    BY ONLY TRUE DEF Body
  <2>4. body = PushAll(size, all)
    BY ONLY Zenon, <1>3, <2>2
  <2>5. body = Body(1024, 12, all)
    BY ONLY SMT, <1>2, <2>3, <2>4
  <2> QED BY ONLY Zenon, <2>1, <2>5
<1>11. get_stream_length = h \o body
  <2>1. get_stream_length = Header0(8, Len(body), COMMAND, 0) \o body
    BY ONLY SMT, <1>10 DEF get_stream_length
  <2>2. Header0(8, Len(body), COMMAND, 0) = h
    BY ONLY SMT, <1>6, <1>7, <1>8
  <2> QED BY ONLY Zenon, <2>1, <2>2
<1>12. Message0(get_stream_length, eight, len, type, zero, body)
  BY ONLY <1>6, <1>9, <1>11 DEF Message0
<1> QED BY ONLY ZenonT(30), <1>1, <1>2, <1>3, <1>6, <1>7, <1>12

AsksToPlay(id, stream) ==
  \E body : /\ Message0(play(id), 8, Len(stream) + 29, COMMAND, id % 256, body)
            /\ Holds(body, <<Str(_play), Num(5), Nothing, Str(stream), Num(-2000)>>)

LEMMA PlayMessage ==
  ASSUME NEW stream \in Seq(Nat), stream = rtmp_stream, Len(stream) < 128, NEW id \in Nat
  PROVE  AsksToPlay(id, stream)
<1>1. PICK s \in Seq(Nat), v \in Nat : s = _play /\ v = 5
  BY ONLY CommandTexts
<1>2. PICK size \in Nat, len \in Nat : size = 1024 - 12 /\ size = 1012 /\ len = Len(stream) + 29
  BY ONLY SMTT(30)
<1>3. PICK w \in Int : w = -2000 /\ w >= -10000
  BY ONLY SMTT(30)
<1>4. PICK items, body, values :
        /\ items = <<String(s), Number(v), Null, String(stream), Number(w)>>
        /\ body = PushAll(size, items)
        /\ values = <<Str(s), Num(v), Nothing, Str(stream), Num(w)>>
  OBVIOUS
<1>5. len = Len(s) + Len(stream) + 25 /\ len <= size
  BY <1>1, <1>2, CommandTexts
<1>6. Conveys(items, len, values)
  BY <1>3, <1>4, <1>5, FiveItems
<1>7. body \in Seq(Nat) /\ Len(body) = len /\ Holds(body, values)
  BY ONLY <1>4, <1>5, <1>6, len \in Nat, size \in Nat, BodyHolds
<1>8. PICK eight \in Nat, sid \in Nat, type \in Nat : eight = 8 /\ sid = id % 256 /\ type = COMMAND
  BY DEF COMMAND
<1>9. PICK h : h = Header0(eight, len, type, sid)
  OBVIOUS
<1>10. IsHeader0(h, eight, len, type, sid)
  BY ONLY <1>9, eight \in Nat, len \in Nat, type \in Nat, sid \in Nat, Header0Type
<1>11. body = Body(1024, 12, <<String(_play), Number(5), Null, String(rtmp_stream), Number(-2000)>>)
  <2>0. PICK neg : neg = Number(-2000)
    BY ONLY SMT
  <2>1. PICK all : all = <<String(_play), Number(5), Null, String(rtmp_stream), neg>>
    OBVIOUS
  <2>2. all = items
    BY ONLY <1>1, <1>3, stream = rtmp_stream, <1>4, <2>0, <2>1
  <2>3. Body(1024, 12, all) = PushAll(1024 - 12, all)
    BY ONLY TRUE DEF Body
  <2>4. body = PushAll(size, all)
    BY ONLY Zenon, <1>4, <2>2
  <2>5. body = Body(1024, 12, all)
    BY ONLY SMT, <1>2, <2>3, <2>4
  <2> QED BY ONLY SMT, <2>0, <2>1, <2>5
<1>12. play(id) = h \o body
  <2>1. play(id) = Header0(8, Len(body), COMMAND, id % 256) \o body
    BY ONLY SMT, <1>11 DEF play
  <2>2. Header0(8, Len(body), COMMAND, id % 256) = h
    BY ONLY SMT, <1>7, <1>8, <1>9
  <2> QED BY ONLY Zenon, <2>1, <2>2
<1>13. Message0(play(id), eight, len, type, sid, body)
  BY ONLY <1>7, <1>10, <1>12 DEF Message0
<1>14. values = <<Str(_play), Num(5), Nothing, Str(stream), Num(-2000)>>
  BY ONLY SMT, <1>1, <1>3, <1>4
<1> QED BY ONLY SMT, <1>2, <1>7, <1>8, <1>13, <1>14 DEF AsksToPlay

LEMMA Length4Type ==
  ASSUME NEW n \in Nat
  PROVE  Length4(n) \in Seq(Nat) /\ Len(Length4(n)) = 4
<1>1. PICK b \in Nat \ {0} : b = 65536
  OBVIOUS
<1>2. PICK q, r : q = n \div b /\ r = n % b
  OBVIOUS
<1>3. q \in Nat /\ r \in Nat
  BY <1>2, Division
<1>4. PICK x \in Seq(Nat), y \in Seq(Nat) : x = Length2(q) /\ y = Length2(r) /\ Len(x) = 2 /\ Len(y) = 2
  BY ONLY <1>3, Length2Type
<1>5. x \o y \in Seq(Nat) /\ Len(x \o y) = Len(x) + Len(y)
  BY CatParts
<1>6. Length4(n) = x \o y
  BY ONLY <1>1, <1>2, <1>4 DEF Length4
<1> QED BY ONLY <1>4, <1>5, <1>6

LEMMA WindowMessage ==
  ASSUME acknowledgement_size \in Nat
  PROVE  Message0(win_ack_size, 2, 4, WINDOW_ACK, 0, Length4(acknowledgement_size))
<1>1. PICK two \in Nat, len \in Nat, zero \in Nat, type \in Nat :
        two = 2 /\ len = 4 /\ zero = 0 /\ type = WINDOW_ACK
  BY DEF WINDOW_ACK
<1>2. PICK h, body : h = Header0(two, len, type, zero) /\ body = Length4(acknowledgement_size)
  OBVIOUS
<1>3. IsHeader0(h, two, len, type, zero)
  BY ONLY <1>2, two \in Nat, len \in Nat, type \in Nat, zero \in Nat, Header0Type
<1>4. body \in Seq(Nat) /\ Len(body) = len
  BY <1>1, <1>2, Length4Type
<1>5. win_ack_size = h \o body
  BY ONLY <1>1, <1>2 DEF win_ack_size
<1>6. Message0(win_ack_size, two, len, type, zero, body)
  BY ONLY <1>3, <1>4, <1>5 DEF Message0
<1> QED BY ONLY <1>1, <1>2, <1>6

(* What asks the server to keep three seconds of stream 1 in its buffer.   *)
Buffered == <<0, 3, 0, 0, 0, 1, 0, 0, 11, 184>>

LEMMA BufferedBytes ==
  /\ <<0, 3, 0, 0, 0, 1>> \o Length4(3000) = Buffered
  /\ <<0, 3, 0, 0, 0, 1>> \in Seq(Nat) /\ Length4(3000) \in Seq(Nat)
  /\ Buffered \in Seq(Nat) /\ Len(Buffered) = 10
<1>1. PICK a : a = <<0, 3, 0, 0, 0, 1>>
  OBVIOUS
<1>2. /\ a \in Seq(Nat) /\ Len(a) = 6
      /\ a[1] = 0 /\ a[2] = 3 /\ a[3] = 0 /\ a[4] = 0 /\ a[5] = 0 /\ a[6] = 1
  BY <1>1
<1>3. PICK size \in Nat, rest \in Nat, zero \in Nat : /\ size = 3000 /\ zero = 0
                                                      /\ size \div 65536 = zero /\ size % 65536 = size
  OBVIOUS
<1>4. PICK x, y : x = Length2(zero) /\ y = Length2(size)
  OBVIOUS
<1>5. x \in Seq(Nat) /\ y \in Seq(Nat) /\ Len(x) = 2 /\ Len(y) = 2
  BY ONLY <1>4, zero \in Nat, size \in Nat, Length2Type
<1>6. x[1] = 0 /\ x[2] = 0
  BY ONLY SMT, <1>3, <1>4 DEF Length2
<1>7. y[1] = 11 /\ y[2] = 184
  BY ONLY SMT, <1>3, <1>4 DEF Length2
<1>8. PICK d : d = x \o y
  OBVIOUS
<1>9. PICK two \in Nat : two = 2
  OBVIOUS
<1>10. Joins(d, x, two, y, two)
  BY ONLY <1>5, <1>8, <1>9, two \in Nat, CatAt
<1>11. d \in Seq(Nat) /\ Len(d) = 4 /\ d[1] = 0 /\ d[2] = 0 /\ d[3] = 11 /\ d[4] = 184
  BY ONLY <1>6, <1>7, <1>9, <1>10 DEF Joins
<1>12. Length4(size) = d
  BY ONLY SMT, <1>3, <1>4, <1>8 DEF Length4
<1>13. PICK m \in Nat, n \in Nat : m = 6 /\ n = 4
  OBVIOUS
<1>14. PICK b : b = a \o d
  OBVIOUS
<1>15. Joins(b, a, m, d, n)
  BY ONLY <1>2, <1>11, <1>13, <1>14, m \in Nat, n \in Nat, CatAt
<1>16. /\ b[1] = 0 /\ b[2] = 3 /\ b[3] = 0 /\ b[4] = 0 /\ b[5] = 0 /\ b[6] = 1
  BY ONLY <1>2, <1>13, <1>15 DEF Joins
<1>17. /\ b \in Seq(Nat) /\ Len(b) = 10
       /\ b[7] = 0 /\ b[8] = 0 /\ b[9] = 11 /\ b[10] = 184
  BY ONLY <1>11, <1>13, <1>15 DEF Joins
<1>18. b = Buffered
  BY ONLY SMT, <1>16, <1>17 DEF Buffered
<1>19. d = Length4(3000)
  BY ONLY SMT, <1>3, <1>12
<1>20. b = a \o Length4(3000) /\ Length4(3000) \in Seq(Nat)
  BY ONLY SMT, <1>11, <1>14, <1>19
<1> QED BY ONLY SMT, <1>1, <1>2, <1>17, <1>18, <1>20

LEMMA BufferMessage == Message1(Set_buffer_length, 2, 10, USER_CONTROL, Buffered)
<1>1. PICK two \in Nat, len \in Nat, type \in Nat : two = 2 /\ len = 10 /\ type = USER_CONTROL
  BY DEF USER_CONTROL
<1>2. PICK h : h = Header1(two, len, type)
  OBVIOUS
<1>3. IsHeader1(h, two, len, type)
  BY ONLY <1>2, two \in Nat, len \in Nat, type \in Nat, Header1Type
<1>4. PICK a : a = <<0, 3, 0, 0, 0, 1>>
  OBVIOUS
<1>5. PICK b : b = Length4(3000)
  BY ONLY SMT
<1>6. a \in Seq(Nat) /\ b \in Seq(Nat) /\ a \o b = Buffered /\ Buffered \in Seq(Nat) /\ Len(Buffered) = 10
  BY ONLY SMT, <1>4, <1>5, BufferedBytes
<1>7. h \in Seq(Nat)
  BY ONLY <1>3 DEF IsHeader1
<1>8. (h \o a) \o b = h \o (a \o b)
  <2>1. a \in Seq(Nat) /\ b \in Seq(Nat)
    BY <1>6
  <2> QED BY ONLY SMTT(30), <1>7, <2>1, CatAssociative
<1>9. Set_buffer_length = (h \o a) \o b
  BY ONLY SMT, <1>1, <1>2, <1>4, <1>5 DEF Set_buffer_length
<1>10. Set_buffer_length = h \o Buffered
  BY ONLY Zenon, <1>6, <1>8, <1>9
<1>11. Buffered \in Seq(Nat) /\ Len(Buffered) = len
  BY ONLY <1>1, <1>6
<1>12. Message1(Set_buffer_length, two, len, type, Buffered)
  BY ONLY <1>3, <1>10, <1>11 DEF Message1
<1> QED BY ONLY Zenon, <1>1, <1>12

-----------------------------------------------------------------------------
(* The bytes sent and read.  The server never reads behind what is sent,   *)
(* and never keeps more of a message than its size.                        *)
Chunk == [seen : BOOLEAN, size : Nat, type : Nat, sid : Nat, body : Seq(Nat)]

BytesInv ==
  /\ pag_buf \in [0..(BufLen - 1) -> Nat]
  /\ wire \in Seq(Nat) /\ read \in Nat /\ read <= Len(wire)
  /\ acknowledgement_size \in Nat
  /\ chunks \in [2..63 -> Chunk]
  /\ \A cs \in 2..63 : Len(chunks[cs].body) <= chunks[cs].size

LEMMA BytesInit == ASSUME WireInit PROVE BytesInv
<1>1. /\ wire = <<>> /\ read = 0 /\ chunks = [cs \in 2..63 |-> NoChunk]
      /\ acknowledgement_size \in Windows /\ pag_buf = [j \in 0..(BufLen - 1) |-> 0]
  BY DEF WireInit
<1>2. NoChunk \in Chunk /\ Len(NoChunk.body) <= NoChunk.size
  BY DEF NoChunk, Chunk
<1>3. Windows \subseteq Nat
  BY WireAssumption
<1> QED BY <1>1, <1>2, <1>3 DEF BytesInv

(* What the server finds where it is, if it is a chunk.                    *)
LEMMA ChunkFound ==
  ASSUME BytesInv, CanRead, IsChunk
  PROVE  /\ Csid \in 2..63 /\ Format \in 0..3 /\ ChunkHeader \in Nat
         /\ read + ChunkHeader + Payload <= Len(wire)
         /\ MessageSize \in Nat /\ Begun \in Seq(Nat)
         /\ Payload \in Nat /\ Len(Begun) + Payload <= MessageSize
         /\ Format < 2 => WireAt(8) \in Nat
         /\ Format = 0 => WireAt(9) \in Nat
         /\ Kept \in Chunk
<1>1. wire \in Seq(Nat) /\ read \in Nat /\ Len(wire) \in Nat /\ read < Len(wire)
  BY DEF BytesInv, CanRead
<1>2. PICK b \in Nat : b = wire[read + 1]
  BY <1>1
<1>3. b < 256 /\ Csid = b % 64 /\ Csid >= 2 /\ Format = b \div 64
  BY <1>2 DEF IsChunk, Csid, Format
<1>4. Csid \in 2..63 /\ Format \in 0..3
  BY <1>3
<1>5. /\ Format = 0 => ChunkHeader = 12
      /\ Format = 1 => ChunkHeader = 8
      /\ Format = 2 => ChunkHeader = 4
      /\ Format = 3 => ChunkHeader = 1
  BY <1>4 DEF ChunkHeader
<1>6. ChunkHeader \in Nat /\ read + ChunkHeader <= Len(wire)
  BY <1>4, <1>5 DEF CanRead
<1>7. \A i \in 1..12 : read + i <= Len(wire) => WireAt(i) \in Nat
  BY <1>1 DEF WireAt
<1>8. /\ Format < 2 => /\ WireAt(5) \in Nat /\ WireAt(6) \in Nat /\ WireAt(7) \in Nat
                       /\ WireAt(8) \in Nat
      /\ Format = 0 => WireAt(9) \in Nat
  <2>1. /\ Format < 2 => \A i \in 1..8 : i \in 1..12 /\ read + i <= Len(wire)
        /\ Format = 0 => read + 9 <= Len(wire)
    BY ONLY <1>1, <1>4, <1>5, <1>6
  <2>2. 5 \in 1..8 /\ 6 \in 1..8 /\ 7 \in 1..8 /\ 8 \in 1..8 /\ 9 \in 1..12
    OBVIOUS
  <2> QED BY ONLY <1>7, <2>1, <2>2
<1>9. Kept \in Chunk /\ Len(Kept.body) <= Kept.size
  BY <1>4 DEF BytesInv, Kept
<1>10. PICK k : k = Kept /\ k.size \in Nat /\ k.body \in Seq(Nat) /\ Len(k.body) <= k.size
  BY <1>9 DEF Chunk
<1>11. \/ Begun = <<>>
       \/ Begun = k.body /\ MessageSize = k.size
  <2>1. CASE Format < 3
    BY <2>1 DEF Begun
  <2>2. CASE ~(Format < 3)
    <3>1. ~(Format < 2)
      BY <1>4, <2>2
    <3> QED BY <1>10, <2>2, <3>1 DEF Begun, MessageSize
  <2> QED BY <2>1, <2>2
<1>12. MessageSize \in Nat
  <2>1. CASE Format < 2
    <3>1. PICK x \in Nat, y \in Nat, z \in Nat : x = WireAt(5) /\ y = WireAt(6) /\ z = WireAt(7)
      BY <1>8, <2>1
    <3> QED BY <2>1, <3>1 DEF MessageSize
  <2>2. CASE ~(Format < 2)
    BY <1>10, <2>2 DEF MessageSize
  <2> QED BY <2>1, <2>2
<1>13. Begun \in Seq(Nat) /\ Len(Begun) \in Nat /\ Len(Begun) <= MessageSize
  <2>1. <<>> \in Seq(Nat) /\ Len(<<>>) = 0 /\ Len(k.body) \in Nat
    BY <1>10
  <2>2. PICK size, begun : size = MessageSize /\ begun = Begun
    OBVIOUS
  <2>5. size \in Nat
    BY <1>12, <2>2
  <2>3. begun = <<>> \/ (begun = k.body /\ size = k.size)
    BY ONLY <1>11, <2>2
  <2>4. begun \in Seq(Nat) /\ Len(begun) \in Nat /\ Len(begun) <= size
    <3>1. CASE begun = <<>>
      BY ONLY <2>1, <2>5, <3>1
    <3>2. CASE begun = k.body /\ size = k.size
      BY ONLY <1>10, <2>1, <3>2
    <3> QED BY ONLY <2>3, <3>1, <3>2
  <2> QED BY ONLY <2>2, <2>4
<1>14. Payload \in Nat /\ Len(Begun) + Payload <= MessageSize
  BY <1>12, <1>13 DEF Payload
<1>15. read + ChunkHeader + Payload <= Len(wire)
  BY DEF CanRead
<1> QED BY <1>4, <1>6, <1>8, <1>9, <1>12, <1>13, <1>14, <1>15

LEMMA BytesRead == ASSUME BytesInv, ServerReads PROVE BytesInv'
<1>1. CanRead /\ UNCHANGED <<wire, pag_buf, acknowledgement_size>>
  BY DEF ServerReads, splitVars, statusVars
<1>2. CASE ~IsChunk
  <2>1. UNCHANGED <<read, chunks>>
    BY <1>2 DEF ServerReads
  <2> QED BY <1>1, <2>1 DEF BytesInv
<1>3. CASE IsChunk
  <2>1. PICK size \in Nat, csid \in 2..63, begun \in Seq(Nat), kept \in Chunk :
          size = MessageSize /\ csid = Csid /\ begun = Begun /\ kept = Kept
    BY <1>1, <1>3, ChunkFound
  <2>2. PICK header \in Nat, payload \in Nat : header = ChunkHeader /\ payload = Payload
    BY <1>1, <1>3, ChunkFound
  <2>3. PICK part : part = SubSeq(wire, read + header + 1, read + header + payload)
    OBVIOUS
  <2>4. PICK body : body = begun \o part
    OBVIOUS
  <2>5. PICK type \in Nat, sid \in Nat : /\ type = IF Format < 2 THEN WireAt(8) ELSE Kept.type
                                         /\ sid = IF Format = 0 THEN WireAt(9) ELSE Kept.sid
    BY <1>1, <1>3, ChunkFound DEF Chunk
  <2>6. PICK now : now = [seen |-> TRUE, size |-> size, type |-> type, sid |-> sid, body |-> body]
    OBVIOUS
  <2>7. /\ read' = read + header + payload
        /\ chunks' = [chunks EXCEPT ![csid] = IF Len(body) = size THEN [now EXCEPT !.body = <<>>]
                                              ELSE now]
    BY <1>3, <2>1, <2>2, <2>3, <2>4, <2>5, <2>6 DEF ServerReads
  <2>8. part \in Seq(Nat) /\ Len(part) = payload
    <3>1. wire \in Seq(Nat) /\ read \in Nat /\ read + header + payload <= Len(wire)
      BY <1>1, <1>3, <2>2, ChunkFound DEF BytesInv
    <3>2. PICK a \in Nat \ {0}, b \in Int :
            /\ a = read + header + 1 /\ b = read + header + payload
            /\ a - 1 <= b /\ b - a + 1 = payload
      BY ONLY <3>1, header \in Nat, payload \in Nat
    <3>3. SubSeq(wire, a, b) \in Seq(Nat) /\ Len(SubSeq(wire, a, b)) = b - a + 1
      BY ONLY <3>1, <3>2, PartTyped
    <3> QED BY ONLY <2>3, <3>2, <3>3
  <2>9. body \in Seq(Nat) /\ Len(body) = Len(begun) + payload
    BY ONLY <2>4, <2>8, begun \in Seq(Nat), CatParts
  <2>10. Len(body) <= size
    BY ONLY <1>1, <1>3, <2>1, <2>2, <2>9, BytesInv, ChunkFound
  <2>11. PICK done : done = [now EXCEPT !.body = <<>>]
    OBVIOUS
  <2>12. /\ now \in Chunk /\ Len(now.body) <= now.size
         /\ done \in Chunk /\ Len(done.body) <= done.size
    <3>1. <<>> \in Seq(Nat) /\ Len(<<>>) <= size
      OBVIOUS
    <3>2. done = [seen |-> TRUE, size |-> size, type |-> type, sid |-> sid, body |-> <<>>]
      BY ONLY <2>6, <2>11
    <3> QED BY ONLY <2>6, <2>9, <2>10, <3>1, <3>2, size \in Nat, type \in Nat, sid \in Nat DEF Chunk
  <2>13. PICK new \in Chunk : /\ chunks' = [chunks EXCEPT ![csid] = new]
                              /\ Len(new.body) <= new.size
    BY ONLY <2>7, <2>11, <2>12
  <2>14. /\ chunks' \in [2..63 -> Chunk]
         /\ \A cs \in 2..63 : Len(chunks'[cs].body) <= chunks'[cs].size
    BY <2>13 DEF BytesInv
  <2>15. read' \in Nat /\ read' <= Len(wire')
    <3>1. read \in Nat
      BY DEF BytesInv
    <3> QED BY <1>1, <1>3, <2>2, <2>7, <3>1, ChunkFound
  <2> QED BY <1>1, <2>14, <2>15 DEF BytesInv
<1> QED BY <1>2, <1>3

(* More bytes behind those sent. *)
LEMMA BytesGrow ==
  ASSUME BytesInv, NEW m \in Seq(Nat), wire' = wire \o m,
         UNCHANGED <<pag_buf, read, chunks, acknowledgement_size>>
  PROVE  BytesInv'
<1>1. wire \in Seq(Nat) /\ read \in Nat /\ read <= Len(wire) /\ Len(wire) \in Nat /\ Len(m) \in Nat
  <2>1. wire \in Seq(Nat) /\ read \in Nat /\ read <= Len(wire)
    BY DEF BytesInv
  <2> QED BY ONLY <2>1, m \in Seq(Nat)
<1>2. wire \o m \in Seq(Nat) /\ Len(wire \o m) = Len(wire) + Len(m)
  BY <1>1, CatParts
<1>3. wire' \in Seq(Nat) /\ read' <= Len(wire')
  BY <1>1, <1>2
<1> QED BY <1>3 DEF BytesInv

(* The messages sent together. *)
Regroups(s, a, b) == (s \o a) \o b = s \o (a \o b)

Regroups3(s, a, b, c) == s \o a \o b \o c = s \o ((a \o b) \o c)

LEMMA ThreeParts ==
  ASSUME NEW s \in Seq(Nat), NEW a \in Seq(Nat), NEW b \in Seq(Nat)
  PROVE  Regroups(s, a, b)
<1>1. (s \o a) \o b = s \o (a \o b)
  <2>1. PICK T : T = Nat
    OBVIOUS
  <2>2. s \in Seq(T) /\ a \in Seq(T) /\ b \in Seq(T)
    BY <2>1
  <2> QED BY ONLY SMTT(30), <2>2, CatAssociative
<1> QED BY ONLY Zenon, <1>1 DEF Regroups

LEMMA FourParts ==
  ASSUME NEW s \in Seq(Nat), NEW a \in Seq(Nat), NEW b \in Seq(Nat), NEW c \in Seq(Nat)
  PROVE  Regroups3(s, a, b, c)
<1>1. PICK e \in Seq(Nat) : e = a \o b
  BY CatParts
<1>2. Regroups(s, a, b) /\ Regroups(s, e, c)
  BY ONLY ThreeParts, s \in Seq(Nat), a \in Seq(Nat), b \in Seq(Nat), c \in Seq(Nat), e \in Seq(Nat)
<1> QED BY ONLY Zenon, <1>1, <1>2 DEF Regroups, Regroups3

LEMMA FirstMessages ==
  ASSUME BytesInv
  PROVE  /\ win_ack_size \in Seq(Nat) /\ create_stream \in Seq(Nat) /\ checkbw \in Seq(Nat)
         /\ wire \o win_ack_size \o create_stream \o checkbw =
              wire \o ((win_ack_size \o create_stream) \o checkbw)
<1>1. wire \in Seq(Nat) /\ acknowledgement_size \in Nat
  BY DEF BytesInv
<1>2. win_ack_size \in Seq(Nat)
  <2>1. PICK len \in Nat : len = 4
    OBVIOUS
  <2> QED BY <1>1, <2>1, WindowMessage, MessageType
<1>3. create_stream \in Seq(Nat)
  <2>1. PICK len \in Nat : len = 25
    OBVIOUS
  <2> QED BY <2>1, CreateStreamMessage, MessageType
<1>4. checkbw \in Seq(Nat)
  <2>1. PICK len \in Nat : len = 21
    OBVIOUS
  <2> QED BY <2>1, CheckbwMessage, MessageType
<1>5. PICK s \in Seq(Nat), a \in Seq(Nat), b \in Seq(Nat), c \in Seq(Nat) :
        s = wire /\ a = win_ack_size /\ b = create_stream /\ c = checkbw
  BY ONLY <1>1, <1>2, <1>3, <1>4
<1>6. Regroups3(s, a, b, c)
  BY ONLY s \in Seq(Nat), a \in Seq(Nat), b \in Seq(Nat), c \in Seq(Nat), FourParts
<1> QED BY ONLY Zenon, <1>2, <1>3, <1>4, <1>5, <1>6 DEF Regroups3

LEMMA LastMessages ==
  ASSUME BytesInv, UrlInv, NEW id \in Nat
  PROVE  /\ get_stream_length \in Seq(Nat) /\ play(id) \in Seq(Nat) /\ Set_buffer_length \in Seq(Nat)
         /\ wire \o get_stream_length \o play(id) \o Set_buffer_length =
              wire \o ((get_stream_length \o play(id)) \o Set_buffer_length)
<1>1. wire \in Seq(Nat)
  BY DEF BytesInv
<1>2. PICK stream \in Seq(Nat) : stream = rtmp_stream /\ Len(stream) < 128
  BY DEF UrlInv
<1>3. get_stream_length \in Seq(Nat)
  <2>1. PICK len \in Nat : len = Len(stream) + 31
    OBVIOUS
  <2> QED BY <1>2, <2>1, StreamLengthMessage, MessageType
<1>4. play(id) \in Seq(Nat)
  <2>1. PICK len \in Nat, sid \in Int : len = Len(stream) + 29 /\ sid = id % 256
    OBVIOUS
  <2>0. \E body : Message0(play(id), 8, Len(stream) + 29, COMMAND, id % 256, body)
    <3>1. AsksToPlay(id, stream)
      BY ONLY <1>2, id \in Nat, PlayMessage
    <3> QED BY ONLY SMT, <3>1 DEF AsksToPlay
  <2>2. PICK body : Message0(play(id), 8, len, COMMAND, sid, body)
    BY ONLY Zenon, <2>0, <2>1
  <2>3. PICK m : m = play(id)
    OBVIOUS
  <2> QED BY ONLY <2>2, <2>3, len \in Nat, MessageType
<1>5. Set_buffer_length \in Seq(Nat)
  <2>1. PICK len \in Nat : len = 10
    OBVIOUS
  <2> QED BY <2>1, BufferMessage, MessageType
<1>6. PICK s \in Seq(Nat), a \in Seq(Nat), b \in Seq(Nat), c \in Seq(Nat) :
        s = wire /\ a = get_stream_length /\ b = play(id) /\ c = Set_buffer_length
  BY ONLY <1>1, <1>3, <1>4, <1>5
<1>7. Regroups3(s, a, b, c)
  BY ONLY s \in Seq(Nat), a \in Seq(Nat), b \in Seq(Nat), c \in Seq(Nat), FourParts
<1> QED BY ONLY Zenon, <1>3, <1>4, <1>5, <1>6, <1>7 DEF Regroups3

LEMMA BytesHandled ==
  ASSUME BytesInv, UrlInv, HandleCommand, rtmp_now_stream_id' \in Nat
  PROVE  BytesInv'
<1>1. UNCHANGED <<pag_buf, read, chunks, acknowledgement_size>>
  BY DEF HandleCommand, splitVars, readVars
<1>2. \/ UNCHANGED wire
      \/ wire' = wire \o win_ack_size \o create_stream \o checkbw
      \/ wire' = wire \o get_stream_length \o play(rtmp_now_stream_id') \o Set_buffer_length
  BY ONLY Zenon, HandleCommand DEF HandleCommand
<1>3. CASE UNCHANGED wire
  BY <1>1, <1>3 DEF BytesInv
<1>4. CASE wire' = wire \o win_ack_size \o create_stream \o checkbw
  <2>1. PICK a \in Seq(Nat), b \in Seq(Nat), c \in Seq(Nat) :
          wire' = wire \o ((a \o b) \o c)
    BY <1>4, FirstMessages
  <2>2. (a \o b) \o c \in Seq(Nat)
    BY ONLY a \in Seq(Nat), b \in Seq(Nat), c \in Seq(Nat), CatParts
  <2> QED BY ONLY <1>1, <2>1, <2>2, BytesInv, BytesGrow
<1>5. CASE wire' = wire \o get_stream_length \o play(rtmp_now_stream_id') \o Set_buffer_length
  <2>1. PICK a \in Seq(Nat), b \in Seq(Nat), c \in Seq(Nat) :
          wire' = wire \o ((a \o b) \o c)
    BY <1>5, LastMessages
  <2>2. (a \o b) \o c \in Seq(Nat)
    BY ONLY a \in Seq(Nat), b \in Seq(Nat), c \in Seq(Nat), CatParts
  <2> QED BY ONLY <1>1, <2>1, <2>2, BytesInv, BytesGrow
<1> QED BY <1>2, <1>3, <1>4, <1>5

LEMMA BytesBuilt == ASSUME BytesInv, UrlInv, BuildConnect PROVE BytesInv'
<1>1. PICK m \in Seq(Nat) : m = connect
  BY ConnectLength
<1>2. /\ pag_buf' = [j \in 0..(BufLen - 1) |-> IF j < Len(m) THEN m[j + 1] ELSE 0]
      /\ UNCHANGED <<wire, read, chunks, acknowledgement_size>>
  BY Zenon, <1>1 DEF BuildConnect, Split, readVars, statusVars
<1>3. \A j \in 0..(BufLen - 1) : (IF j < Len(m) THEN m[j + 1] ELSE 0) \in Nat
  BY SplitAssumption
<1>4. pag_buf' \in [0..(BufLen - 1) -> Nat]
  BY ONLY <1>2, <1>3
<1> QED BY <1>2, <1>4 DEF BytesInv

LEMMA BytesMoved == ASSUME BytesInv, SplitInv, MoveConnect PROVE BytesInv'
<1>1. MovePage /\ UNCHANGED <<wire, read, chunks, acknowledgement_size>>
  BY DEF MoveConnect, readVars, statusVars
<1>2. header_len \in Nat /\ page \in Nat
  BY Pages DEF SplitInv, SplitTypeOK
<1>3. PICK src \in Nat, dst \in Nat : /\ src = header_len + page * 128 /\ dst = header_len + page * 129
                                      /\ src <= dst
  BY <1>2
<1>4. pag_buf' = [j \in 0..(BufLen - 1) |->
                    IF j \in dst..(dst + 128 - 1) THEN pag_buf[src + (j - dst)]
                    ELSE IF j = dst - 1 THEN ct ELSE pag_buf[j]]
  BY <1>1, <1>3 DEF MovePage, chunk_max_size
<1>5. ct \in Nat /\ BufLen \in Nat
  BY WireAssumption, SplitAssumption
<1>9. ASSUME NEW j \in 0..(BufLen - 1)
      PROVE  (IF j \in dst..(dst + 128 - 1) THEN pag_buf[src + (j - dst)]
              ELSE IF j = dst - 1 THEN ct ELSE pag_buf[j]) \in Nat
  <2>1. j \in dst..(dst + 128 - 1) => src + (j - dst) \in 0..(BufLen - 1)
    BY ONLY <1>3, <1>5, j \in 0..(BufLen - 1), src \in Nat, dst \in Nat
  <2>2. \A k \in 0..(BufLen - 1) : pag_buf[k] \in Nat
    BY DEF BytesInv
  <2> QED BY ONLY <1>5, <2>1, <2>2, j \in 0..(BufLen - 1)
<1>6. \A j \in 0..(BufLen - 1) :
        (IF j \in dst..(dst + 128 - 1) THEN pag_buf[src + (j - dst)]
         ELSE IF j = dst - 1 THEN ct ELSE pag_buf[j]) \in Nat
  BY ONLY <1>9
<1>7. pag_buf' \in [0..(BufLen - 1) -> Nat]
  BY ONLY <1>4, <1>6
<1> QED BY <1>1, <1>7 DEF BytesInv

LEMMA BytesSent == ASSUME BytesInv, SplitInv, SendConnect PROVE BytesInv'
<1>1. UNCHANGED <<pag_buf, read, chunks, acknowledgement_size>>
  BY DEF SendConnect, splitVars, readVars
<1>2. PICK n \in Nat : n = SplitLen /\ n <= BufLen
  <2>1. /\ page_count \in Nat /\ pag_len \in Nat /\ header_len \in Nat /\ BufLen \in Nat
        /\ pag_len - header_len <= (page_count + 1) * 128
        /\ header_len + (page_count + 1) * 129 <= BufLen
    BY Pages, SplitAssumption DEF SplitInv, SplitTypeOK
  <2> QED BY <2>1 DEF SplitLen
<1>3. PICK m : m = [i \in 1..n |-> pag_buf[i - 1]]
  OBVIOUS
<1>4. m \in Seq(Nat)
  <2>1. \A i \in 1..n : i - 1 \in 0..(BufLen - 1)
    BY <1>2, SplitAssumption
  <2>2. \A i \in 1..n : pag_buf[i - 1] \in Nat
    BY <2>1 DEF BytesInv
  <2> QED BY ONLY <1>3, <2>2, n \in Nat
<1>5. wire' = wire \o m
  BY <1>2, <1>3 DEF SendConnect
<1> QED BY ONLY <1>1, <1>4, <1>5, BytesInv, BytesGrow

LEMMA BytesNext ==
  ASSUME UrlInv, SplitInv, ReplyInv', BytesInv, [WireNext]_wireVars
  PROVE  BytesInv'
<1>1. CASE HandleCommand
  <2>1. rtmp_now_stream_id' \in Nat
    BY WireAssumption DEF ReplyInv
  <2> QED BY <1>1, <2>1, BytesHandled
<1>2. CASE \/ \E u \in Urls : SetupUrl(u)
           \/ ServerAnswers \/ ServerCommands \/ ServerAnswersOther \/ UNCHANGED wireVars
  <2>1. UNCHANGED <<pag_buf, wire, read, chunks, acknowledgement_size>>
    <3>1. ASSUME NEW u \in Urls, SetupUrl(u)
          PROVE  UNCHANGED <<pag_buf, wire, read, chunks, acknowledgement_size>>
      BY <3>1 DEF SetupUrl, splitVars, readVars, statusVars
    <3>2. ASSUME ServerAnswers \/ ServerCommands \/ ServerAnswersOther
          PROVE  UNCHANGED <<splitVars, wire, readVars, statusVars>>
      BY Zenon, <3>2 DEF ServerAnswers, ServerCommands, ServerAnswersOther, Says
    <3>3. ASSUME UNCHANGED wireVars PROVE UNCHANGED <<splitVars, wire, readVars, statusVars>>
      BY <3>3 DEF wireVars
    <3>4. ASSUME UNCHANGED <<splitVars, wire, readVars, statusVars>>
          PROVE  UNCHANGED <<pag_buf, wire, read, chunks, acknowledgement_size>>
      BY <3>4 DEF splitVars, readVars, statusVars
    <3> QED BY <1>2, <3>1, <3>2, <3>3, <3>4
  <2> QED BY <2>1 DEF BytesInv
<1> QED BY <1>1, <1>2, BytesBuilt, BytesMoved, BytesSent, BytesRead
        DEF WireNext, ThreadRuns, ServerServes

LEMMA BytesInvariant == WireSpec => [](UrlInv /\ SplitInv /\ ReplyInv /\ BytesInv)
<1>1. WireInit => UrlInv /\ SplitInv /\ ReplyInv /\ BytesInv
  BY UrlInit, SplitFirst, ReplyInit, BytesInit
<1>2. UrlInv /\ SplitInv /\ ReplyInv /\ BytesInv /\ [WireNext]_wireVars
        => (UrlInv /\ SplitInv /\ ReplyInv /\ BytesInv)'
  BY UrlNext, SplitNext, ReplyNext, BytesNext
<1> QED BY <1>1, <1>2, PTL DEF WireSpec

(* Whatever the URL and the server's commands: connect fits the buffer     *)
(* with room for its last page, what is in the members the parts of a URL  *)
(* are copied to never grows beyond them as long as each URL fits by       *)
(* itself, and the server has read no byte that was not sent.              *)
THEOREM WireTypeCorrect == WireSpec => []WireTypeOK
<1>1. UrlInv /\ SplitInv /\ ReplyInv /\ BytesInv => WireTypeOK
  <2> SUFFICES ASSUME UrlInv, SplitInv, ReplyInv, BytesInv PROVE WireTypeOK
    OBVIOUS
  <2>1. /\ pc \in {"url", "split", "recv", "done"}
        /\ rtmp_status \in {"wait_s2", "wait_connect", "wait_create_stream", "wait_play"}
        /\ rtmp_now_stream_id \in {0} \cup StreamIds \cup Durations
    BY IsPending DEF ReplyInv, Settled
  <2>2. page \in Nat /\ pag_len \in 1..BufLen /\ Room(header_len, pag_len)
    <3>1. /\ page_count \in Nat /\ pag_len \in Nat /\ header_len \in Nat /\ BufLen \in Nat
          /\ pag_len > header_len /\ page \in 0..page_count /\ Room(header_len, pag_len)
          /\ pag_len - header_len <= (page_count + 1) * 128
          /\ header_len + (page_count + 1) * 129 <= BufLen
      BY Pages, SplitAssumption DEF SplitInv, SplitTypeOK
    <3> QED BY ONLY <3>1
  <2>3. read \in 0..Len(wire)
    BY DEF BytesInv
  <2> QED BY <2>1, <2>2, <2>3 DEF WireTypeOK, UrlInv
<1> QED BY <1>1, BytesInvariant, PTL
=============================================================================
