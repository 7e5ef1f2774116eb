-------------------------- MODULE UriFormatProofs ---------------------------
(***************************************************************************)
(* Reading and writing URIs, for texts of any length over any characters.  *)
(*                                                                         *)
(* Theorems: the members of an object give back the parts it was made of   *)
(* (PartsAreDenoted), a constructor throws exactly for a port out of range *)
(* and a key that occurs twice (ThrowsOnlyWhenInvalid), and to_string      *)
(* writes the text of the format (TheFormatIsWritten).                     *)
(*                                                                         *)
(* A text of the format is a row of parts with a mark between each two,    *)
(* and no part has a character that would end it.  So the iterator stops   *)
(* at the end of the part it is in (Across) and what is cut out is that    *)
(* part (Cut).  Applied part by part this gives the outline of the text    *)
(* (SetupRead), what is between scheme and query (BodyWithAuthority and    *)
(* its two siblings) and the stanzas of the query, of which there is any   *)
(* number: those and the digits of a port are recursive functions, whose   *)
(* values for all n CountingUp reaches one after the other.  Together they *)
(* say what a constructor makes (ParseRead, ComponentsRead, Replaced) and  *)
(* what to_string writes (TextWritten); Sound is the inductive invariant.  *)
(***************************************************************************)
EXTENDS UriFormat, Integers, SequenceTheorems, FiniteSetTheorems, TLAPS

(* Counting up from l to m.  If some n were missing, n -> n + 1 would map  *)
(* the numbers below it into themselves without l, which the pigeonhole    *)
(* principle forbids.                                                      *)
LEMMA CountingUp ==
  ASSUME NEW l \in Nat, NEW m \in Nat, NEW S, l \in S,
         \A n \in l..m : n \in S /\ n < m => n + 1 \in S
  PROVE  \A n \in l..m : n \in S
  <1> SUFFICES ASSUME NEW n \in l..m, n \notin S PROVE FALSE
    OBVIOUS
  <1> DEFINE B == S \cap l..(n - 1)
             f == [x \in B |-> x + 1]
  <1>0. n # l /\ n \in Nat
    OBVIOUS
  <1>1. IsFiniteSet(B) /\ Cardinality(B) \in Nat
    <2>1. IsFiniteSet(l..(n - 1))
      BY FS_Interval
    <2>2. QED  BY <2>1, FS_Subset, FS_CardinalityType
  <1>2. l \in B
    BY <1>0
  <1>3. IsFiniteSet(B \ {l}) /\ Cardinality(B \ {l}) = Cardinality(B) - 1
    BY <1>1, <1>2, FS_RemoveElement
  <1>4. f \in [B -> B \ {l}]
    <2> SUFFICES ASSUME NEW x \in B PROVE x + 1 \in B \ {l}
      OBVIOUS
    <2>1. x \in S /\ x \in l..(n - 1)
      OBVIOUS
    <2>2. x \in l..m /\ x < m
      BY <2>1
    <2>3. x + 1 \in S
      BY <2>1, <2>2
    <2>4. x + 1 # n
      BY <2>3
    <2>5. x + 1 \in l..(n - 1) /\ x + 1 # l
      BY <2>1, <2>4
    <2>6. QED  BY <2>3, <2>5
  <1>5. \E x, y \in B : x # y /\ f[x] = f[y]
    <2> HIDE DEF f, B
    <2>1. QED  BY <1>1, <1>3, <1>4, FS_PigeonHole
  <1>6. QED  BY <1>5

-----------------------------------------------------------------------------
(* Texts in general.                                                       *)

(* A text without stopping characters. *)
Free(s, stops) == \A i \in 1..Len(s) : s[i] \notin stops

(* A text that stops at once. *)
Meets(s, stops) == s = <<>> \/ s[1] \in stops

(* The iterator stops at the first stopping character. *)
LEMMA FindIs ==
  ASSUME NEW S, NEW s \in Seq(S), NEW i \in 1..(Len(s) + 1), NEW k \in i..(Len(s) + 1), NEW stops,
         \A j \in i..(k - 1) : s[j] \notin stops,
         k <= Len(s) => s[k] \in stops
  PROVE  Find(s, i, stops) = k
  <1> DEFINE T == {j \in i..Len(s) : s[j] \in stops} \union {Len(s) + 1}
  <1>0. Len(s) \in Nat
    OBVIOUS
  <1>1. k \in T
    BY <1>0
  <1>2. \A x \in T : x \in i..(Len(s) + 1)
    BY <1>0
  <1>3. \A x \in T : k <= x
    BY <1>0
  <1>4. \A x \in T : (\A y \in T : x <= y) => x = k
    <2> HIDE DEF T
    <2>1. QED  BY <1>0, <1>1, <1>2, <1>3
  <1>5. Find(s, i, stops) = CHOOSE x \in T : \A y \in T : x <= y
    BY DEF Find, Min
  <1> HIDE DEF T
  <1>6. QED  BY <1>1, <1>3, <1>4, <1>5

(* From the end of one text through the next one. *)
LEMMA FindAcross ==
  ASSUME NEW S, NEW a \in Seq(S), NEW b \in Seq(S), NEW c \in Seq(S), NEW stops,
         Free(b, stops), Meets(c, stops)
  PROVE  Find(a \o b \o c, Len(a) + 1, stops) = Len(a) + Len(b) + 1
  <1> DEFINE s == a \o b \o c
  <1>1. /\ s \in Seq(S) /\ Len(s) = Len(a) + Len(b) + Len(c)
        /\ Len(a) \in Nat /\ Len(b) \in Nat /\ Len(c) \in Nat
    OBVIOUS
  <1>2. \A j \in (Len(a) + 1)..(Len(a) + Len(b)) : s[j] = b[j - Len(a)]
    <2>1. \A j \in 1..(Len(a) + Len(b)) : s[j] = (a \o b)[j]
      OBVIOUS
    <2>2. \A j \in (Len(a) + 1)..(Len(a) + Len(b)) : (a \o b)[j] = b[j - Len(a)]
      OBVIOUS
    <2> HIDE DEF s
    <2>3. QED  BY <1>1, <2>1, <2>2
  <1>3. Len(c) > 0 => s[Len(a) + Len(b) + 1] = c[1]
    OBVIOUS
  <1>4. Len(c) > 0 => c # <<>>
    OBVIOUS
  <1> HIDE DEF s
  <1>5. \A j \in (Len(a) + 1)..(Len(a) + Len(b)) : s[j] \notin stops
    <2> SUFFICES ASSUME NEW j \in (Len(a) + 1)..(Len(a) + Len(b)) PROVE s[j] \notin stops
      OBVIOUS
    <2>1. j - Len(a) \in 1..Len(b)
      BY <1>1
    <2>2. QED  BY <1>2, <2>1 DEF Free
  <1>6. Len(a) + Len(b) + 1 <= Len(s) => s[Len(a) + Len(b) + 1] \in stops
    BY <1>1, <1>3, <1>4 DEF Meets
  <1>7. /\ Len(a) + 1 \in 1..(Len(s) + 1)
        /\ Len(a) + Len(b) + 1 \in (Len(a) + 1)..(Len(s) + 1)
        /\ (Len(a) + Len(b) + 1) - 1 = Len(a) + Len(b)
    BY <1>1
  <1>8. \A j \in (Len(a) + 1)..((Len(a) + Len(b) + 1) - 1) : s[j] \notin stops
    BY <1>5, <1>7
  <1> DEFINE k == Len(a) + Len(b) + 1
             i == Len(a) + 1
  <1>10. s \in Seq(S) /\ i \in 1..(Len(s) + 1) /\ k \in i..(Len(s) + 1)
    BY <1>1, <1>7
  <1>11. (\A j \in i..(k - 1) : s[j] \notin stops) /\ (k <= Len(s) => s[k] \in stops)
    BY <1>6, <1>8
  <1> HIDE DEF i, k
  <1>12. Find(s, i, stops) = k
    BY <1>10, <1>11, FindIs
  <1>13. QED  BY <1>12 DEF s, i, k

(* What lies between two texts. *)
LEMMA CutOut ==
  ASSUME NEW S, NEW a \in Seq(S), NEW b \in Seq(S), NEW c \in Seq(S)
  PROVE  SubSeq(a \o b \o c, Len(a) + 1, Len(a) + Len(b)) = b
  <1> DEFINE s == a \o b \o c
             t == SubSeq(s, Len(a) + 1, Len(a) + Len(b))
  <1>1. /\ s \in Seq(S) /\ Len(s) = Len(a) + Len(b) + Len(c)
        /\ Len(a) \in Nat /\ Len(b) \in Nat /\ Len(c) \in Nat
    OBVIOUS
  <1>2. \A j \in (Len(a) + 1)..(Len(a) + Len(b)) : s[j] = b[j - Len(a)]
    <2>1. \A j \in 1..(Len(a) + Len(b)) : s[j] = (a \o b)[j]
      OBVIOUS
    <2>2. \A j \in (Len(a) + 1)..(Len(a) + Len(b)) : (a \o b)[j] = b[j - Len(a)]
      OBVIOUS
    <2> HIDE DEF s
    <2>3. QED  BY <1>1, <2>1, <2>2
  <1> HIDE DEF s
  <1>3. \A i \in (Len(a) + 1)..(Len(a) + Len(b)) : s[i] \in S
    BY <1>1
  <1>4. /\ t \in Seq(S)
        /\ Len(t) = IF Len(a) + 1 <= Len(a) + Len(b)
                     THEN (Len(a) + Len(b)) - (Len(a) + 1) + 1 ELSE 0
        /\ \A i \in 1..((Len(a) + Len(b)) - (Len(a) + 1) + 1) : t[i] = s[(Len(a) + 1) + i - 1]
    <2>1. Len(a) + 1 \in Int /\ Len(a) + Len(b) \in Int
      BY <1>1
    <2>2. QED  BY <1>3, <2>1, SubSeqProperties
  <1>5. Len(t) = Len(b) /\ \A i \in 1..Len(b) : t[i] = b[i]
    <2>1. Len(t) = Len(b)
      BY <1>1, <1>4
    <2>2. ASSUME NEW i \in 1..Len(b) PROVE t[i] = b[i]
      <3>1. t[i] = s[Len(a) + i]
        <4>1. i \in 1..((Len(a) + Len(b)) - (Len(a) + 1) + 1) /\ (Len(a) + 1) + i - 1 = Len(a) + i
          BY <1>1
        <4> HIDE DEF t
        <4>2. QED  BY <1>4, <4>1
      <3>2. Len(a) + i \in (Len(a) + 1)..(Len(a) + Len(b)) /\ (Len(a) + i) - Len(a) = i
        BY <1>1
      <3> HIDE DEF t
      <3>3. s[Len(a) + i] = b[(Len(a) + i) - Len(a)]
        BY <1>2, <3>2
      <3>4. QED  BY <3>1, <3>2, <3>3
    <2>3. QED  BY <2>1, <2>2
  <1> HIDE DEF t
  <1>6. t = b
    BY <1>4, <1>5, SeqEqual
  <1>7. QED  BY <1>6 DEF s, t

(* What lies behind a text. *)
LEMMA Rest ==
  ASSUME NEW S, NEW a \in Seq(S), NEW c \in Seq(S)
  PROVE  From(a \o c, Len(a) + 1) = c
  <1>1. <<>> \in Seq(S) /\ a \o c \o <<>> = a \o c /\ Len(a \o c) = Len(a) + Len(c)
    OBVIOUS
  <1>2. SubSeq(a \o c \o <<>>, Len(a) + 1, Len(a) + Len(c)) = c
    BY <1>1, CutOut
  <1>3. QED  BY <1>1, <1>2 DEF From

(* The character behind a text. *)
LEMMA Behind ==
  ASSUME NEW S, NEW a \in Seq(S), NEW c \in Seq(S), NEW char
  PROVE  IsAt(a \o c, Len(a) + 1, char) <=> c # <<>> /\ c[1] = char
  <1>1. /\ Len(a \o c) = Len(a) + Len(c) /\ Len(a) \in Nat /\ Len(c) \in Nat
        /\ c # <<>> <=> Len(c) > 0
    OBVIOUS
  <1>2. Len(c) > 0 => (a \o c)[Len(a) + 1] = c[1]
    OBVIOUS
  <1>3. QED  BY <1>1, <1>2 DEF IsAt

-----------------------------------------------------------------------------
(* Numbers as digits.                                                      *)

(* A digit is taken off a number and put back. *)
LEMMA Tenth ==
  /\ \A m \in Nat : m >= 10 => m \div 10 \in 0..(m - 1)
  /\ \A x \in Nat, d \in 0..9 :
       /\ (10 * x + d) \div 10 = x /\ (10 * x + d) % 10 = d
       /\ 10 * x + d \in Nat /\ 10 * x + d >= x /\ (x >= 1 => ~(10 * x + d < 10))
  OBVIOUS

(* The sums of std::stoul, digit by digit. *)
Reads(v, s) ==
  /\ v \in [0..Len(s) -> Nat] /\ v[0] = 0
  /\ \A i \in 1..Len(s) : v[i] = 10 * v[i-1] + DigitOf[s[i]]

(* There are such sums. *)
LEMMA ReadingExists ==
  ASSUME NEW m \in Nat, NEW g \in [1..m -> Nat]
  PROVE  \E f \in [0..m -> Nat] : f[0] = 0 /\ \A i \in 1..m : f[i] = 10 * f[i-1] + g[i]
  <1> DEFINE Good(f, k) == f[0] = 0 /\ \A i \in 1..k : f[i] = 10 * f[i-1] + g[i]
             T == {k \in 0..m : \E f \in [0..k -> Nat] : Good(f, k)}
  <1>1. 0 \in T
    <2> DEFINE f == [i \in 0..0 |-> 0]
    <2>1. f \in [0..0 -> Nat] /\ Good(f, 0)
      OBVIOUS
    <2> HIDE DEF f, Good
    <2>2. QED  BY <2>1
  <1>2. ASSUME NEW k \in 0..m, k \in T, k < m PROVE k + 1 \in T
    <2>1. PICK f \in [0..k -> Nat] : Good(f, k)
      BY <1>2
    <2> DEFINE e == [i \in 0..(k+1) |-> IF i = k + 1 THEN 10 * f[k] + g[k+1] ELSE f[i]]
    <2>2. e \in [0..(k+1) -> Nat]
      <3>1. k + 1 \in 1..m /\ 10 * f[k] + g[k+1] \in Nat
        BY <1>2
      <3>2. \A i \in 0..(k+1) : i # k + 1 => f[i] \in Nat
        OBVIOUS
      <3>3. QED  BY <3>1, <3>2
    <2>3. Good(e, k + 1)
      BY <2>1
    <2>4. k + 1 \in 0..m
      BY <1>2
    <2> HIDE DEF e, Good
    <2>5. QED  BY <2>2, <2>3, <2>4
  <1>3. \A n \in 0..m : n \in T
    <2> HIDE DEF T
    <2>1. QED  BY <1>1, <1>2, CountingUp
  <1>4. m \in 0..m
    OBVIOUS
  <1>5. QED  BY <1>3, <1>4

(* Number reads the digits of a text. *)
LEMMA NumberReads ==
  ASSUME NEW s \in Seq(Digits)
  PROVE  \E v : Reads(v, s) /\ Number(s) = v[Len(s)]
  <1> DEFINE g == [i \in 1..Len(s) |-> DigitOf[s[i]]]
             Eq(v) == v = [n \in 0..Len(s) |-> IF n = 0 THEN 0 ELSE 10 * v[n-1] + DigitOf[s[n]]]
  <1>0. \A i \in 1..Len(s) : DigitOf[s[i]] \in 0..9
    BY UriAssumption DEF Digits
  <1>1. PICK w \in [0..Len(s) -> Nat] : w[0] = 0 /\ \A i \in 1..Len(s) : w[i] = 10 * w[i-1] + g[i]
    <2>1. g \in [1..Len(s) -> Nat] /\ Len(s) \in Nat
      BY <1>0
    <2> HIDE DEF g
    <2>2. QED  BY <2>1, ReadingExists
  <1>2. Eq(w)
    BY <1>1
  <1>3. \E v : Eq(v) /\ Number(s) = v[Len(s)]
    BY <1>2 DEF Number
  <1>4. PICK v : Eq(v) /\ Number(s) = v[Len(s)]
    BY <1>3
  <1>5. v[0] = 0 /\ \A i \in 1..Len(s) : v[i] = 10 * v[i-1] + DigitOf[s[i]]
    <2>1. \A i \in 0..Len(s) : v[i] = IF i = 0 THEN 0 ELSE 10 * v[i-1] + DigitOf[s[i]]
      BY <1>4
    <2>2. \A i \in 1..Len(s) : i \in 0..Len(s) /\ i # 0
      OBVIOUS
    <2>3. 0 \in 0..Len(s)
      OBVIOUS
    <2> HIDE DEF Eq
    <2>4. QED  BY <2>1, <2>2, <2>3
  <1>6. v \in [0..Len(s) -> Nat]
    <2> DEFINE T == {n \in 0..Len(s) : v[n] \in Nat}
    <2>1. 0 \in T
      BY <1>5
    <2>2. ASSUME NEW n \in 0..Len(s), n \in T, n < Len(s) PROVE n + 1 \in T
      <3>1. n + 1 \in 1..Len(s) /\ n + 1 \in 0..Len(s) /\ (n + 1) - 1 = n
        BY <2>2
      <3>2. v[n + 1] = 10 * v[n] + DigitOf[s[n + 1]] /\ DigitOf[s[n + 1]] \in 0..9
        BY <1>0, <1>5, <3>1
      <3>3. v[n + 1] \in Nat
        <4>1. v[n] \in Nat
          BY <2>2
        <4>2. 10 * v[n] + DigitOf[s[n + 1]] \in Nat
          BY <3>2, <4>1, Tenth, Zenon
        <4>3. QED  BY <3>2, <4>2, Zenon
      <3>4. QED  BY <3>1, <3>3
    <2>3. \A n \in 0..Len(s) : n \in T
      <3> HIDE DEF T
      <3>1. Len(s) \in Nat
        OBVIOUS
      <3>2. QED  BY <2>1, <2>2, <3>1, CountingUp
    <2>4. QED  BY <1>4, <2>3
  <1>7. QED  BY <1>4, <1>5, <1>6 DEF Reads

(* One step of std::to_string, and all of them up to m. *)
Wrote(f, m) == IF m < 10 THEN <<DigitFor(m)>> ELSE Append(f[m \div 10], DigitFor(m % 10))
Writes(f, n) == f = [m \in 0..n |-> Wrote(f, m)]

(* There is such a recursion. *)
LEMMA WritingExists ==
  ASSUME NEW n \in Nat
  PROVE  \E f : Writes(f, n)
  <1> DEFINE T == {k \in 0..n : \E f : Writes(f, k)}
  <1>1. 0 \in T
    <2> DEFINE f == [m \in 0..0 |-> <<DigitFor(m)>>]
    <2>1. Writes(f, 0)
      BY DEF Writes, Wrote
    <2> HIDE DEF f
    <2>2. QED  BY <2>1
  <1>2. ASSUME NEW k \in 0..n, k \in T, k < n PROVE k + 1 \in T
    <2>1. PICK f : Writes(f, k)
      BY <1>2
    <2> DEFINE e == [m \in 0..(k + 1) |-> IF m = k + 1 THEN Wrote(f, m) ELSE f[m]]
    <2>2. \A m \in 0..(k + 1) : Wrote(e, m) = Wrote(f, m)
      <3> SUFFICES ASSUME NEW m \in 0..(k + 1), ~(m < 10) PROVE e[m \div 10] = f[m \div 10]
        BY DEF Wrote
      <3>1. m \div 10 \in 0..(m - 1)
        BY Tenth
      <3>2. m \div 10 \in 0..(k + 1) /\ m \div 10 # k + 1
        BY <3>1
      <3>3. QED  BY <3>2
    <2>3. \A m \in 0..k : f[m] = Wrote(f, m)
      BY <2>1 DEF Writes
    <2>4. \A m \in 0..(k + 1) : e[m] = Wrote(e, m)
      <3> SUFFICES ASSUME NEW m \in 0..(k + 1) PROVE e[m] = Wrote(f, m)
        BY <2>2
      <3>1. m # k + 1 => m \in 0..k
        OBVIOUS
      <3>2. QED  BY <2>3, <3>1
    <2>5. Writes(e, k + 1)
      <3>1. e = [m \in 0..(k + 1) |-> e[m]]
        OBVIOUS
      <3> HIDE DEF e
      <3>2. QED  BY <2>4, <3>1 DEF Writes
    <2>6. k + 1 \in 0..n
      BY <1>2
    <2> HIDE DEF e
    <2>7. QED  BY <2>5, <2>6
  <1>3. \A k \in 0..n : k \in T
    <2> HIDE DEF T
    <2>1. QED  BY <1>1, <1>2, CountingUp
  <1>4. QED  BY <1>3

(* Without leading zeros, a number is written as it was read. *)
LEMMA NumeralOfNumber ==
  ASSUME NEW s \in Seq(Digits), s # <<>>, DigitOf[s[1]] # 0
  PROVE  Numeral(Number(s)) = s /\ Number(s) \in Nat \ {0}
  <1>1. PICK v : Reads(v, s) /\ Number(s) = v[Len(s)]
    BY NumberReads
  <1> DEFINE n == v[Len(s)]
  <1>2. /\ Len(s) \in Nat /\ 1 \in 1..Len(s) /\ s[1] \in Digits
        /\ \A i \in 1..Len(s) : s[i] \in Digits
    OBVIOUS
  <1>3. /\ \A i \in 0..Len(s) : v[i] \in Nat
        /\ \A i \in 1..Len(s) : v[i] = 10 * v[i-1] + DigitOf[s[i]]
        /\ v[0] = 0
    BY <1>1 DEF Reads
  <1>4. \A i \in 1..Len(s) : DigitOf[s[i]] \in 0..9 /\ DigitFor(DigitOf[s[i]]) = s[i]
    BY <1>2, UriAssumption DEF Digits, DigitFor
  <1>5. v[1] = DigitOf[s[1]] /\ v[1] \in 1..9
    <2>1. v[1] = 10 * v[1 - 1] + DigitOf[s[1]] /\ DigitOf[s[1]] \in 0..9
      BY <1>2, <1>3, <1>4
    <2>2. QED  BY <1>3, <2>1
  <1>6. ASSUME NEW k \in 1..Len(s), k < Len(s)
        PROVE  /\ k + 1 \in 1..Len(s) /\ v[k + 1] = 10 * v[k] + DigitOf[s[k + 1]]
               /\ v[k] \in Nat /\ DigitOf[s[k + 1]] \in 0..9 /\ v[k + 1] \in Nat
    <2>1. k + 1 \in 1..Len(s) /\ (k + 1) - 1 = k /\ k \in 0..Len(s) /\ k + 1 \in 0..Len(s)
      BY <1>2, <1>6
    <2>2. v[k + 1] = 10 * v[(k + 1) - 1] + DigitOf[s[k + 1]]
      BY <1>3, <2>1
    <2>3. QED  BY <1>3, <1>4, <2>1, <2>2
  <1>7. \A k \in 1..Len(s) : v[k] >= 1 /\ \A j \in 1..k : v[j] <= v[k]
    <2> DEFINE T == {k \in 1..Len(s) : v[k] >= 1 /\ \A j \in 1..k : v[j] <= v[k]}
    <2>1. 1 \in T
      <3>1. \A j \in 1..1 : j = 1
        OBVIOUS
      <3>2. QED  BY <1>2, <1>5, <3>1
    <2>2. ASSUME NEW k \in 1..Len(s), k \in T, k < Len(s) PROVE k + 1 \in T
      <3>1. v[k + 1] >= v[k] /\ v[k + 1] >= 1
        <4>1. v[k + 1] >= v[k] /\ v[k] \in Nat /\ v[k + 1] \in Nat
          BY <1>6, <2>2, Tenth
        <4>2. QED  BY <2>2, <4>1
      <3>2. ASSUME NEW j \in 1..(k + 1) PROVE v[j] <= v[k + 1]
        <4>1. CASE j = k + 1
          BY <1>6, <2>2, <4>1
        <4>2. CASE j # k + 1
          <5>1. j \in 1..k /\ j \in 0..Len(s)
            BY <2>2, <4>2
          <5>2. v[j] <= v[k] /\ v[j] \in Nat
            BY <1>3, <2>2, <5>1
          <5>3. QED  BY <1>6, <2>2, <3>1, <5>2
        <4>3. QED  BY <4>1, <4>2
      <3>3. QED  BY <1>6, <2>2, <3>1, <3>2
    <2>3. \A k \in 1..Len(s) : k \in T
      <3> HIDE DEF T
      <3>1. QED  BY <1>2, <2>1, <2>2, CountingUp
    <2>4. QED  BY <2>3
  <1>8. n \in Nat /\ n >= 1 /\ \A k \in 1..Len(s) : v[k] \in 0..n
    <2>1. Len(s) \in 1..Len(s) /\ Len(s) \in 0..Len(s) /\ \A k \in 1..Len(s) : k \in 0..Len(s)
      BY <1>2
    <2>2. QED  BY <1>3, <1>7, <2>1
  <1>9. \E f : Writes(f, n) /\ Numeral(n) = f[n]
    <2> HIDE DEF n
    <2>1. \E f : f = [m \in 0..n |-> IF m < 10 THEN <<DigitFor(m)>>
                                       ELSE Append(f[m \div 10], DigitFor(m % 10))]
      BY <1>8, WritingExists DEF Writes, Wrote
    <2>2. QED  BY <2>1 DEF Numeral, Writes, Wrote
  <1>10. PICK f : Writes(f, n) /\ Numeral(n) = f[n]
    BY <1>9
  <1>11. \A m \in 0..n : f[m] = Wrote(f, m)
    BY <1>10 DEF Writes
  <1> HIDE DEF n
  <1>12. \A k \in 1..Len(s) : f[v[k]] = SubSeq(s, 1, k)
    <2> DEFINE T == {k \in 1..Len(s) : f[v[k]] = SubSeq(s, 1, k)}
    <2>1. 1 \in T
      <3>1. f[v[1]] = <<DigitFor(v[1])>>
        <4>1. v[1] \in 0..n /\ v[1] < 10
          BY <1>2, <1>5, <1>8
        <4>2. f[v[1]] = Wrote(f, v[1])
          BY <1>11, <4>1
        <4>3. QED  BY <4>1, <4>2 DEF Wrote
      <3>2. f[v[1]] = <<s[1]>>
        BY <1>2, <1>4, <1>5, <3>1
      <3>3. SubSeq(s, 1, 1) = <<s[1]>>
        <4>1. /\ SubSeq(s, 1, 1) \in Seq(Digits) /\ Len(SubSeq(s, 1, 1)) = 1
               /\ SubSeq(s, 1, 1)[1] = s[1]
          <5>1. \A i \in 1..1 : s[i] \in Digits
            BY <1>2
          <5>2. 1 \in 1..(1 - 1 + 1) /\ 1 + 1 - 1 = 1
            OBVIOUS
          <5>3. QED  BY <5>1, <5>2, SubSeqProperties
        <4>2. <<s[1]>> \in Seq(Digits) /\ Len(<<s[1]>>) = 1 /\ <<s[1]>>[1] = s[1]
          BY <1>2
        <4>3. \A i \in 1..1 : i = 1
          OBVIOUS
        <4>4. QED  BY <4>1, <4>2, <4>3, SeqEqual
      <3>4. QED  BY <1>2, <3>2, <3>3
    <2>2. ASSUME NEW k \in 1..Len(s), k \in T, k < Len(s) PROVE k + 1 \in T
      <3>1. /\ k + 1 \in 1..Len(s) /\ v[k + 1] = 10 * v[k] + DigitOf[s[k + 1]]
            /\ v[k] \in Nat /\ v[k] >= 1 /\ DigitOf[s[k + 1]] \in 0..9 /\ v[k + 1] \in 0..n
        BY <1>6, <1>7, <1>8, <2>2
      <3>2. v[k + 1] \div 10 = v[k] /\ v[k + 1] % 10 = DigitOf[s[k + 1]]
        BY <3>1, Tenth
      <3>3. ~(v[k + 1] < 10)
        BY <3>1, Tenth
      <3>4. f[v[k + 1]] = Append(f[v[k]], DigitFor(DigitOf[s[k + 1]]))
        BY <1>11, <3>1, <3>2, <3>3 DEF Wrote
      <3>5. f[v[k + 1]] = Append(SubSeq(s, 1, k), s[k + 1])
        BY <1>4, <2>2, <3>1, <3>4
      <3>6. SubSeq(s, 1, k + 1) = Append(SubSeq(s, 1, k), s[k + 1])
        <4>1. SubSeq(s, 1, k + 1) = SubSeq(s, 1, (k + 1) - 1) \o <<s[k + 1]>>
          BY <1>2, <3>1, SubSeqRecursiveSecond
        <4>2. SubSeq(s, 1, k) \in Seq(Digits) /\ s[k + 1] \in Digits /\ (k + 1) - 1 = k
          BY <1>2, <3>1
        <4>3. QED  BY <4>1, <4>2, AppendIsConcat
      <3>7. QED  BY <3>1, <3>5, <3>6
    <2>3. \A k \in 1..Len(s) : k \in T
      <3> HIDE DEF T
      <3>1. QED  BY <1>2, <2>1, <2>2, CountingUp
    <2>4. QED  BY <2>3
  <1>13. f[n] = s
    <2>1. Len(s) \in 1..Len(s) /\ SubSeq(s, 1, Len(s)) = s
      BY <1>2, SubSeqFull
    <2>2. QED  BY <1>12, <2>1 DEF n
  <1>14. QED  BY <1>1, <1>8, <1>10, <1>13 DEF n

-----------------------------------------------------------------------------
(* The characters of the parts.                                            *)
Char ==
  (UNION {Alphabet[text] : text \in Texts}) \union Alphabet.key \union Alphabet.value
    \union SchemeChars \union Digits
    \union {":", "/", "@", "[", "]", "?", "#", "&", ";", "="}

Parts ==
  [scheme : Seq(SchemeChars), category : {Hierarchical, NonHierarchical},
   separator : {"ampersand", "semicolon"}, authority : BOOLEAN, literal : BOOLEAN,
   rooted : BOOLEAN, user : Seq(Alphabet.user), password : Seq(Alphabet.password),
   domain : Seq(Alphabet.domain), port : Seq(Alphabet.port), path : Seq(Alphabet.path),
   stanzas : Seq(Stanzas), fragment : Seq(Alphabet.fragment)]

(* A text over an alphabet has no other characters. *)
LEMMA Over ==
  ASSUME NEW A, NEW s \in Seq(A), NEW X, A \cap X = {}
  PROVE  Free(s, X)
  BY DEF Free

(* Two texts without a character, one behind the other. *)
LEMMA FreeConcat ==
  ASSUME NEW a \in Seq(Char), NEW b \in Seq(Char), NEW X
  PROVE  Free(a \o b, X) <=> Free(a, X) /\ Free(b, X)
  <1> DEFINE s == a \o b
  <1>1. /\ Len(s) = Len(a) + Len(b) /\ Len(a) \in Nat /\ Len(b) \in Nat
        /\ \A i \in 1..Len(a) : s[i] = a[i]
        /\ \A i \in 1..Len(b) : s[Len(a) + i] = b[i]
    OBVIOUS
  <1> HIDE DEF s
  <1>2. \A i \in 1..Len(s) : \/ i \in 1..Len(a)
                             \/ i - Len(a) \in 1..Len(b) /\ i = Len(a) + (i - Len(a))
    BY <1>1
  <1>3. \A i \in 1..Len(a) : i \in 1..Len(s)
    BY <1>1
  <1>4. \A i \in 1..Len(b) : Len(a) + i \in 1..Len(s)
    BY <1>1
  <1>5. Free(a, X) /\ Free(b, X) => Free(s, X)
    <2> SUFFICES ASSUME Free(a, X), Free(b, X), NEW i \in 1..Len(s) PROVE s[i] \notin X
      BY DEF Free
    <2>1. CASE i \in 1..Len(a)
      BY <1>1, <2>1 DEF Free
    <2>2. CASE i - Len(a) \in 1..Len(b) /\ i = Len(a) + (i - Len(a))
      BY <1>1, <2>2 DEF Free
    <2>3. QED  BY <1>2, <2>1, <2>2
  <1>6. Free(s, X) => Free(a, X)
    BY <1>1, <1>3 DEF Free
  <1>7. Free(s, X) => Free(b, X)
    BY <1>1, <1>4 DEF Free
  <1>8. QED  BY <1>5, <1>6, <1>7 DEF s

(* Three texts, one behind the other. *)
LEMMA Assoc ==
  ASSUME NEW a \in Seq(Char), NEW b \in Seq(Char), NEW c \in Seq(Char)
  PROVE  (a \o b) \o c = a \o (b \o c)
  BY ConcatAssociative

(* The facts about texts in general, for these characters. *)
LEMMA Across ==
  ASSUME NEW a \in Seq(Char), NEW b \in Seq(Char), NEW c \in Seq(Char), NEW stops,
         Free(b, stops), Meets(c, stops)
  PROVE  Find(a \o b \o c, Len(a) + 1, stops) = Len(a) + Len(b) + 1
  BY FindAcross

(* The part between two marks, cut out. *)
LEMMA Cut ==
  ASSUME NEW a \in Seq(Char), NEW b \in Seq(Char), NEW c \in Seq(Char)
  PROVE  SubSeq(a \o b \o c, Len(a) + 1, Len(a) + Len(b)) = b
  BY CutOut

(* Putting texts one behind the other. *)
LEMMA Glued ==
  ASSUME NEW a \in Seq(Char), NEW b \in Seq(Char)
  PROVE  a \o b \in Seq(Char) /\ Len(a \o b) = Len(a) + Len(b) /\ Len(a) \in Nat
  OBVIOUS

(* A text of one character. *)
LEMMA One ==
  ASSUME NEW c, NEW X
  PROVE  /\ Len(<<c>>) = 1 /\ <<c>>[1] = c /\ <<c>> # <<>>
         /\ c \in Char => <<c>> \in Seq(Char)
         /\ c \notin X => Free(<<c>>, X)
  <1>1. Len(<<c>>) = 1 /\ <<c>>[1] = c /\ (c \in Char => <<c>> \in Seq(Char)) /\ <<c>> # <<>>
    OBVIOUS
  <1>2. \A i \in 1..1 : i = 1
    OBVIOUS
  <1>3. QED  BY <1>1, <1>2 DEF Free

(* What the parts are made of. *)
LEMMA PartTexts ==
  ASSUME NEW p \in Parts
  PROVE  /\ p.scheme \in Seq(Char) /\ p.scheme \in Seq(SchemeChars) /\ Free(p.scheme, {":"})
         /\ p.user \in Seq(Char) /\ Free(p.user, {":", "@", "?", "#"})
         /\ p.password \in Seq(Char) /\ Free(p.password, {"@", "?", "#"})
         /\ p.domain \in Seq(Char) /\ Free(p.domain, {"[", "]", "/", "@", "?", "#"})
         /\ p.port \in Seq(Char) /\ p.port \in Seq(Digits) /\ Free(p.port, {"/", "@", "?", "#"})
         /\ p.path \in Seq(Char) /\ Free(p.path, {"@", "?", "#"})
         /\ p.fragment \in Seq(Char)
  <1>1. \A text \in Texts : Alphabet[text] \subseteq Char
    BY DEF Char
  <1>2. /\ p.scheme \in Seq(SchemeChars) /\ p.user \in Seq(Alphabet.user)
        /\ p.password \in Seq(Alphabet.password) /\ p.domain \in Seq(Alphabet.domain)
        /\ p.port \in Seq(Alphabet.port) /\ p.path \in Seq(Alphabet.path)
        /\ p.fragment \in Seq(Alphabet.fragment)
    BY DEF Parts
  <1>3. /\ p.scheme \in Seq(Char) /\ p.user \in Seq(Char) /\ p.password \in Seq(Char)
        /\ p.domain \in Seq(Char) /\ p.port \in Seq(Char) /\ p.path \in Seq(Char)
        /\ p.fragment \in Seq(Char)
    <2>1. /\ SchemeChars \subseteq Char /\ Alphabet.user \subseteq Char
          /\ Alphabet.password \subseteq Char /\ Alphabet.domain \subseteq Char
          /\ Alphabet.port \subseteq Char /\ Alphabet.path \subseteq Char
          /\ Alphabet.fragment \subseteq Char
      BY <1>1 DEF Texts, Char
    <2>2. QED  BY <1>2, <2>1, SeqMonotonic
  <1>4. p.scheme \in Seq(SchemeChars) /\ p.port \in Seq(Digits)
    BY <1>2, FormatAssumption, SeqMonotonic
  <1>5. Free(p.scheme, {":"})
    BY <1>4, UriAssumption DEF Free
  <1>6. /\ Free(p.user, {":", "@", "?", "#"}) /\ Free(p.password, {"@", "?", "#"})
        /\ Free(p.domain, {"[", "]", "/", "@", "?", "#"})
        /\ Free(p.port, {"/", "@", "?", "#"}) /\ Free(p.path, {"@", "?", "#"})
    BY <1>2, FormatAssumption, Over
  <1>7. QED  BY <1>3, <1>4, <1>5, <1>6

(* Less to be free of. *)
LEMMA FreeLess ==
  ASSUME NEW s, NEW X, NEW Y, Free(s, X), Y \subseteq X
  PROVE  Free(s, Y)
  BY DEF Free

-----------------------------------------------------------------------------
(* Queries.                                                                *)

(* A stanza, and what is read of it. *)
LEMMA PairRead ==
  ASSUME NEW s \in Stanzas
  PROVE  /\ Pair(s) \in Seq(Char) /\ Free(Pair(s), {"#", "&", ";"})
         /\ KeyOf(Pair(s)) = s.key /\ ValueOf(Pair(s)) = s.value
  <1> DEFINE c == IF s.value = <<>> THEN <<>> ELSE <<"=">> \o s.value
  <1>1. s.key \in Seq(Alphabet.key) /\ s.value \in Seq(Alphabet.value)
    BY FormatAssumption
  <1>2. s.key \in Seq(Char) /\ s.value \in Seq(Char) /\ <<>> \in Seq(Char) /\ <<"=">> \in Seq(Char)
    <2>1. Alphabet.key \subseteq Char /\ Alphabet.value \subseteq Char /\ "=" \in Char
      BY DEF Char
    <2>2. QED  BY <1>1, <2>1, SeqMonotonic
  <1>3. /\ Free(s.key, {"#", "&", ";", "="}) /\ Free(s.value, {"#", "&", ";"})
        /\ Free(<<"=">>, {"#", "&", ";"})
    <2> DEFINE X == {"#", "&", ";"}
    <2>0. "=" \notin X
      OBVIOUS
    <2> HIDE DEF X
    <2>3. Free(<<"=">>, X)
      BY <2>0, One
    <2>1. Free(<<"=">>, {"#", "&", ";"})
      BY <2>3 DEF X
    <2>2. QED  BY <1>1, <2>1, FormatAssumption, Over
  <1>4. /\ c \in Seq(Char) /\ Meets(c, {"="}) /\ Free(c, {"#", "&", ";"})
    <2>1. CASE s.value = <<>>
      BY <1>2, <2>1 DEF Meets, Free
    <2>2. CASE s.value # <<>>
      <3>1. c = <<"=">> \o s.value
        BY <2>2
      <3>2. (<<"=">> \o s.value)[1] = "=" /\ <<"=">> \o s.value \in Seq(Char)
        BY <1>2
      <3>3. Free(<<"=">> \o s.value, {"#", "&", ";"})
        BY <1>2, <1>3, FreeConcat
      <3> HIDE DEF c
      <3>4. QED  BY <3>1, <3>2, <3>3 DEF Meets
    <2>3. QED  BY <2>1, <2>2
  <1>5. Pair(s) = s.key \o c
    BY DEF Pair
  <1>6. s.key \o c = <<>> \o s.key \o c /\ Len(<<>>) = 0
    BY <1>2, ConcatEmptySeq
  <1>7. Free(s.key, {"="}) /\ Free(s.key, {"#", "&", ";"})
    BY <1>3 DEF Free
  <1>8. Len(s.key) \in Nat
    BY <1>2
  <1>9. Find(Pair(s), 1, {"="}) = Len(s.key) + 1
    <2> HIDE DEF c
    <2>1. Find(<<>> \o s.key \o c, Len(<<>>) + 1, {"="}) = Len(<<>>) + Len(s.key) + 1
      BY <1>2, <1>4, <1>7, FindAcross
    <2>2. Len(<<>>) + 1 = 1 /\ Len(<<>>) + Len(s.key) + 1 = Len(s.key) + 1
      BY <1>6, <1>8
    <2>3. QED  BY <1>5, <1>6, <2>1, <2>2
  <1>10. KeyOf(Pair(s)) = s.key
    <2> HIDE DEF c
    <2>1. SubSeq(<<>> \o s.key \o c, Len(<<>>) + 1, Len(<<>>) + Len(s.key)) = s.key
      BY <1>2, <1>4, CutOut
    <2>2. /\ Len(<<>>) + 1 = 1 /\ Len(<<>>) + Len(s.key) = Len(s.key)
          /\ Len(s.key) + 1 - 1 = Len(s.key)
      BY <1>6, <1>8
    <2>3. QED  BY <1>5, <1>6, <1>9, <2>1, <2>2 DEF KeyOf
  <1>11. ValueOf(Pair(s)) = s.value
    <2>1. CASE s.value = <<>>
      <3>1. Pair(s) = s.key
        BY <1>2, <1>5, <2>1, ConcatEmptySeq
      <3>2. SubSeq(s.key, Len(s.key) + 1 + 1, Len(s.key)) = <<>>
        BY <1>8, SubSeqEmpty
      <3>3. QED  BY <1>9, <2>1, <3>1, <3>2 DEF ValueOf, From
    <2>2. CASE s.value # <<>>
      <3>1. Pair(s) = s.key \o (<<"=">> \o s.value)
        BY <1>5, <2>2
      <3>2. s.key \o (<<"=">> \o s.value) = (s.key \o <<"=">>) \o s.value
        BY <1>2, Assoc
      <3>3. s.key \o <<"=">> \in Seq(Char) /\ Len(s.key \o <<"=">>) = Len(s.key) + 1
        BY <1>2
      <3>4. From((s.key \o <<"=">>) \o s.value, Len(s.key \o <<"=">>) + 1) = s.value
        BY <1>2, <3>3, Rest
      <3>5. QED  BY <1>9, <3>1, <3>2, <3>3, <3>4 DEF ValueOf
    <2>3. QED  BY <2>1, <2>2
  <1>12. Pair(s) \in Seq(Char) /\ Free(Pair(s), {"#", "&", ";"})
    <2> HIDE DEF c
    <2> DEFINE X == {"#", "&", ";"}
    <2>1. Free(s.key, X) /\ Free(c, X)
      BY <1>4, <1>7
    <2>4. s.key \o c \in Seq(Char)
      BY <1>2, <1>4, Glued
    <2> HIDE DEF X
    <2>2. Free(s.key \o c, X)
      BY <1>2, <1>4, <2>1, FreeConcat
    <2>3. QED  BY <1>5, <2>2, <2>4 DEF X
  <1>13. QED  BY <1>10, <1>11, <1>12

(* The text of the first stanzas. *)
SepOf(p) == SeparatorChar[p.separator]
Between(p, i) == IF i = 1 THEN <<>> ELSE <<SepOf(p)>>

Joins(v, p) ==
  /\ v \in [0..Len(p.stanzas) -> Seq(Char)] /\ v[0] = <<>>
  /\ \A i \in 1..Len(p.stanzas) : v[i] = v[i-1] \o Between(p, i) \o Pair(p.stanzas[i])

(* There are such texts. *)
LEMMA JoiningExists ==
  ASSUME NEW m \in Nat, NEW g \in [1..m -> Seq(Char)], NEW h \in [1..m -> Seq(Char)]
  PROVE  \E f \in [0..m -> Seq(Char)] : f[0] = <<>> /\ \A i \in 1..m : f[i] = f[i-1] \o g[i] \o h[i]
  <1> DEFINE Good(f, k) == f[0] = <<>> /\ \A i \in 1..k : f[i] = f[i-1] \o g[i] \o h[i]
             T == {k \in 0..m : \E f \in [0..k -> Seq(Char)] : Good(f, k)}
  <1>1. 0 \in T
    <2> DEFINE f == [i \in 0..0 |-> <<>>]
    <2>1. f \in [0..0 -> Seq(Char)] /\ Good(f, 0)
      OBVIOUS
    <2> HIDE DEF f, Good
    <2>2. QED  BY <2>1
  <1>2. ASSUME NEW k \in 0..m, k \in T, k < m PROVE k + 1 \in T
    <2>1. PICK f \in [0..k -> Seq(Char)] : Good(f, k)
      BY <1>2
    <2> DEFINE e == [i \in 0..(k+1) |-> IF i = k + 1 THEN f[k] \o g[k+1] \o h[k+1] ELSE f[i]]
    <2>2. e \in [0..(k+1) -> Seq(Char)]
      <3>1. k + 1 \in 1..m /\ k \in 0..k
        BY <1>2
      <3>2. f[k] \in Seq(Char) /\ g[k+1] \in Seq(Char) /\ h[k+1] \in Seq(Char)
        BY <3>1
      <3>3. f[k] \o g[k+1] \o h[k+1] \in Seq(Char)
        BY <3>2
      <3>4. \A i \in 0..(k+1) : i # k + 1 => f[i] \in Seq(Char)
        OBVIOUS
      <3>5. QED  BY <3>3, <3>4
    <2>3. Good(e, k + 1)
      <3>1. e[0] = <<>>
        BY <2>1
      <3>2. ASSUME NEW i \in 1..(k+1) PROVE e[i] = e[i-1] \o g[i] \o h[i]
        <4>1. CASE i = k + 1
          <5>1. k + 1 \in 0..(k+1) /\ k \in 0..(k+1) /\ k # k + 1 /\ (k + 1) - 1 = k
            OBVIOUS
          <5>2. e[k + 1] = f[k] \o g[k+1] \o h[k+1] /\ e[k] = f[k]
            BY <5>1
          <5> HIDE DEF e
          <5>3. QED  BY <4>1, <5>1, <5>2
        <4>2. CASE i # k + 1
          <5>1. e[i] = f[i] /\ e[i-1] = f[i-1] /\ i \in 1..k
            BY <4>2
          <5> HIDE DEF e
          <5>2. QED  BY <2>1, <5>1
        <4>3. QED  BY <4>1, <4>2
      <3> HIDE DEF e
      <3>3. QED  BY <3>1, <3>2
    <2>4. k + 1 \in 0..m
      BY <1>2
    <2> HIDE DEF e, Good
    <2>5. QED  BY <2>2, <2>3, <2>4
  <1>3. \A n \in 0..m : n \in T
    <2> HIDE DEF T
    <2>1. QED  BY <1>1, <1>2, CountingUp
  <1>4. m \in 0..m
    OBVIOUS
  <1>5. QED  BY <1>3, <1>4

(* QueryOf joins all stanzas. *)
LEMMA QueryJoins ==
  ASSUME NEW p \in Parts
  PROVE  \E v : Joins(v, p) /\ QueryOf(p) = v[Len(p.stanzas)]
  <1> DEFINE m == Len(p.stanzas)
             g == [i \in 1..m |-> Between(p, i)]
             h == [i \in 1..m |-> Pair(p.stanzas[i])]
             Eq(v) == v = [n \in 0..m |-> IF n = 0 THEN <<>>
                                          ELSE v[n-1] \o Between(p, n) \o Pair(p.stanzas[n])]
  <1>1. /\ p.stanzas \in Seq(Stanzas) /\ m \in Nat /\ SepOf(p) \in Char
        /\ \A i \in 1..m : p.stanzas[i] \in Stanzas
    <2>1. p.stanzas \in Seq(Stanzas) /\ p.separator \in {"ampersand", "semicolon"}
      BY DEF Parts
    <2>2. SepOf(p) \in {"&", ";"}
      <3>1. SeparatorChar["ampersand"] = "&" /\ SeparatorChar["semicolon"] = ";"
        BY DEF SeparatorChar
      <3>2. QED  BY <2>1, <3>1 DEF SepOf
    <2>3. SepOf(p) \in Char
      BY <2>2 DEF Char
    <2>4. QED  BY <2>1, <2>3
  <1>2. \A i \in 1..m : Pair(p.stanzas[i]) \in Seq(Char) /\ Between(p, i) \in Seq(Char)
    <2> SUFFICES ASSUME NEW i \in 1..m
                 PROVE  Pair(p.stanzas[i]) \in Seq(Char) /\ Between(p, i) \in Seq(Char)
      OBVIOUS
    <2>1. Pair(p.stanzas[i]) \in Seq(Char)
      BY <1>1, PairRead
    <2>2. Between(p, i) \in Seq(Char)
      BY <1>1 DEF Between
    <2>3. QED  BY <2>1, <2>2
  <1>3. PICK w \in [0..m -> Seq(Char)] :
          w[0] = <<>> /\ \A i \in 1..m : w[i] = w[i-1] \o g[i] \o h[i]
    <2>1. g \in [1..m -> Seq(Char)] /\ h \in [1..m -> Seq(Char)]
      BY <1>2
    <2>2. m \in Nat
      BY <1>1
    <2> HIDE DEF g, h, m, Eq
    <2>3. QED  BY <2>1, <2>2, JoiningExists
  <1>4. Eq(w)
    <2>1. \A i \in 1..m : g[i] = Between(p, i) /\ h[i] = Pair(p.stanzas[i])
      OBVIOUS
    <2> HIDE DEF g, h, m
    <2>2. \A n \in 0..m : n # 0 => n \in 1..m
      BY <1>1
    <2>3. \A n \in 0..m :
            w[n] = IF n = 0 THEN <<>> ELSE w[n-1] \o Between(p, n) \o Pair(p.stanzas[n])
      BY <1>3, <2>1, <2>2
    <2>4. w = [n \in 0..m |-> w[n]]
      OBVIOUS
    <2>5. QED  BY <2>3, <2>4
  <1>5. \E v : Eq(v) /\ QueryOf(p) = v[m]
    BY <1>4 DEF QueryOf, Written, Between, SepOf
  <1>6. PICK v : Eq(v) /\ QueryOf(p) = v[m]
    BY <1>5
  <1>7. /\ v[0] = <<>> /\ \A n \in 0..m : n \in DOMAIN v
        /\ \A i \in 1..m : v[i] = v[i-1] \o Between(p, i) \o Pair(p.stanzas[i])
    <2>1. \A i \in 0..m :
            v[i] = IF i = 0 THEN <<>> ELSE v[i-1] \o Between(p, i) \o Pair(p.stanzas[i])
      BY <1>6
    <2>2. \A i \in 1..m : i \in 0..m /\ i # 0
      OBVIOUS
    <2>3. 0 \in 0..m /\ DOMAIN v = 0..m
      BY <1>1, <1>6
    <2> HIDE DEF Eq
    <2>4. QED  BY <2>1, <2>2, <2>3
  <1>8. \A n \in 0..m : v[n] \in Seq(Char)
    <2> DEFINE T == {n \in 0..m : v[n] \in Seq(Char)}
    <2> HIDE DEF Eq, g, h, m
    <2>1. 0 \in T
      <3>1. 0 \in 0..m /\ <<>> \in Seq(Char)
        BY <1>1
      <3>2. QED  BY <1>7, <3>1
    <2>2. ASSUME NEW n \in 0..m, n \in T, n < m PROVE n + 1 \in T
      <3>1. n + 1 \in 1..m /\ n + 1 \in 0..m /\ (n + 1) - 1 = n
        BY <1>1, <2>2
      <3>2. v[n + 1] = v[n] \o Between(p, n + 1) \o Pair(p.stanzas[n + 1])
        BY <1>7, <3>1
      <3>3. /\ v[n] \in Seq(Char) /\ Between(p, n + 1) \in Seq(Char)
            /\ Pair(p.stanzas[n + 1]) \in Seq(Char)
        BY <1>2, <2>2, <3>1
      <3>4. v[n] \o Between(p, n + 1) \o Pair(p.stanzas[n + 1]) \in Seq(Char)
        BY <3>3
      <3>5. QED  BY <3>1, <3>2, <3>4
    <2>3. \A n \in 0..m : n \in T
      <3> HIDE DEF T
      <3>1. QED  BY <1>1, <2>1, <2>2, CountingUp
    <2>4. QED  BY <2>3
  <1>9. v \in [0..m -> Seq(Char)]
    BY <1>6, <1>8
  <1>10. QED  BY <1>6, <1>7, <1>9 DEF Joins

(* Where the stanzas of a text begin, and where the k-th one does. *)
Begins(q, char) == {0} \union {i \in 1..Len(q) : q[i] = char}
At(v, k) == IF k = 1 THEN 0 ELSE Len(v[k-1]) + 1

(* A separator and a stanza more. *)
LEMMA BeginsStep ==
  ASSUME NEW q \in Seq(Char), NEW b \in Seq(Char), NEW char \in Char, Free(b, {char})
  PROVE  Begins(q \o <<char>> \o b, char) = Begins(q, char) \union {Len(q) + 1}
  <1> DEFINE s == q \o <<char>> \o b
  <1>1. /\ Len(s) = Len(q) + 1 + Len(b) /\ Len(q) \in Nat /\ Len(b) \in Nat
        /\ \A i \in 1..Len(q) : s[i] = q[i]
        /\ s[Len(q) + 1] = char
        /\ \A i \in 1..Len(b) : s[Len(q) + 1 + i] = b[i]
    <2> DEFINE r == q \o <<char>>
    <2>1. /\ r \in Seq(Char) /\ Len(r) = Len(q) + 1 /\ r[Len(q) + 1] = char
          /\ \A i \in 1..Len(q) : r[i] = q[i]
          /\ Len(q) \in Nat /\ Len(b) \in Nat
      OBVIOUS
    <2> HIDE DEF r
    <2>2. /\ Len(r \o b) = Len(r) + Len(b)
          /\ \A i \in 1..Len(r) : (r \o b)[i] = r[i]
          /\ \A i \in 1..Len(b) : (r \o b)[Len(r) + i] = b[i]
      BY <2>1
    <2> DEFINE t == r \o b
    <2>3. t = s
      BY DEF r
    <2> HIDE DEF t
    <2>4. /\ Len(t) = Len(q) + 1 + Len(b)
          /\ \A i \in 1..Len(q) : t[i] = q[i]
          /\ t[Len(q) + 1] = char
          /\ \A i \in 1..Len(b) : t[Len(q) + 1 + i] = b[i]
      BY <2>1, <2>2 DEF t
    <2> HIDE DEF s
    <2>5. QED  BY <2>1, <2>3, <2>4
  <1> HIDE DEF s
  <1>2. \A i \in 1..Len(b) : b[i] # char
    BY DEF Free
  <1>3. ASSUME NEW i \in 1..Len(s), s[i] = char
        PROVE  (i \in 1..Len(q) /\ q[i] = char) \/ i = Len(q) + 1
    <2>1. \/ i \in 1..Len(q) \/ i = Len(q) + 1
          \/ i - (Len(q) + 1) \in 1..Len(b) /\ i = Len(q) + 1 + (i - (Len(q) + 1))
      BY <1>1
    <2>2. CASE i - (Len(q) + 1) \in 1..Len(b) /\ i = Len(q) + 1 + (i - (Len(q) + 1))
      <3>1. s[i] = b[i - (Len(q) + 1)]
        BY <1>1, <2>2
      <3>2. QED  BY <1>2, <1>3, <2>2, <3>1
    <2>3. QED  BY <1>1, <1>3, <2>1, <2>2
  <1>4. ASSUME NEW i, (i \in 1..Len(q) /\ q[i] = char) \/ i = Len(q) + 1
        PROVE  i \in 1..Len(s) /\ s[i] = char
    BY <1>1, <1>4
  <1>5. {i \in 1..Len(s) : s[i] = char} = {i \in 1..Len(q) : q[i] = char} \union {Len(q) + 1}
    BY <1>3, <1>4
  <1>6. QED  BY <1>5 DEF Begins, s

(* The text of the first n stanzas, divided again. *)
Divided(v, p, n) ==
  /\ Begins(v[n], SepOf(p)) = {At(v, k) : k \in 1..n}
  /\ \A k \in 1..n : At(v, k) \in 0..Len(v[n])
  /\ \A k, j \in 1..n : k # j => At(v, k) # At(v, j)
  /\ \A k \in 1..n : \E a, c \in Seq(Char) :
       v[n] = a \o Pair(p.stanzas[k]) \o c /\ Len(a) = At(v, k) /\ Meets(c, {SepOf(p)})

(* The separator and the stanzas of some parts. *)
LEMMA StanzaTexts ==
  ASSUME NEW p \in Parts
  PROVE  /\ Len(p.stanzas) \in Nat /\ SepOf(p) \in Char /\ SepOf(p) \in {"&", ";"}
         /\ \A i \in 1..Len(p.stanzas) :
              /\ Pair(p.stanzas[i]) \in Seq(Char) /\ Free(Pair(p.stanzas[i]), {SepOf(p)})
              /\ Free(Pair(p.stanzas[i]), {"#"})
              /\ KeyOf(Pair(p.stanzas[i])) = p.stanzas[i].key
              /\ ValueOf(Pair(p.stanzas[i])) = p.stanzas[i].value
  <1>1. /\ p.stanzas \in Seq(Stanzas) /\ Len(p.stanzas) \in Nat
        /\ \A i \in 1..Len(p.stanzas) : p.stanzas[i] \in Stanzas
    <2>1. p.stanzas \in Seq(Stanzas)
      BY DEF Parts
    <2>2. QED  BY <2>1
  <1>2. SepOf(p) \in {"&", ";"}
    <2>1. SeparatorChar["ampersand"] = "&" /\ SeparatorChar["semicolon"] = ";"
      BY DEF SeparatorChar
    <2>2. p.separator \in {"ampersand", "semicolon"}
      BY DEF Parts
    <2>3. QED  BY <2>1, <2>2 DEF SepOf
  <1>3. SepOf(p) \in Char
    BY <1>2 DEF Char
  <1>4. ASSUME NEW i \in 1..Len(p.stanzas)
        PROVE  /\ Pair(p.stanzas[i]) \in Seq(Char) /\ Free(Pair(p.stanzas[i]), {"#", "&", ";"})
               /\ KeyOf(Pair(p.stanzas[i])) = p.stanzas[i].key
               /\ ValueOf(Pair(p.stanzas[i])) = p.stanzas[i].value
    BY <1>1, PairRead
  <1>5. {SepOf(p)} \subseteq {"#", "&", ";"} /\ {"#"} \subseteq {"#", "&", ";"}
    BY <1>2
  <1>6. \A i \in 1..Len(p.stanzas) :
          Free(Pair(p.stanzas[i]), {SepOf(p)}) /\ Free(Pair(p.stanzas[i]), {"#"})
    BY <1>4, <1>5, FreeLess
  <1>7. QED  BY <1>1, <1>2, <1>3, <1>4, <1>6

(* The first stanza alone. *)
LEMMA DividedFirst ==
  ASSUME NEW p \in Parts, p.stanzas # <<>>, NEW v, Joins(v, p)
  PROVE  Divided(v, p, 1)
  <1> DEFINE b == Pair(p.stanzas[1])
  <1>1. 1 \in 1..Len(p.stanzas) /\ Len(p.stanzas) \in Nat /\ <<>> \in Seq(Char)
    <2>1. p.stanzas \in Seq(Stanzas)
      BY DEF Parts
    <2>2. QED  BY <2>1
  <1>2. b \in Seq(Char) /\ Free(b, {SepOf(p)})
    BY <1>1, StanzaTexts
  <1>3. v[1] = b
    <2>0. \A i \in 1..Len(p.stanzas) : v[i] = v[i-1] \o Between(p, i) \o Pair(p.stanzas[i])
      BY DEF Joins
    <2>1. v[1] = v[1-1] \o Between(p, 1) \o b /\ v[0] = <<>> /\ 1 - 1 = 0
      <3>1. v[1] = v[1-1] \o Between(p, 1) \o Pair(p.stanzas[1])
        BY <1>1, <2>0, Zenon
      <3>2. v[0] = <<>> /\ 1 - 1 = 0
        BY DEF Joins
      <3>3. QED  BY <3>1, <3>2
    <2>2. Between(p, 1) = <<>>
      BY DEF Between
    <2> HIDE DEF b
    <2>3. <<>> \o <<>> \o b = b
      BY <1>2, ConcatEmptySeq
    <2>4. QED  BY <2>1, <2>2, <2>3
  <1>4. b = <<>> \o b \o <<>> /\ Len(<<>>) = 0 /\ Meets(<<>>, {SepOf(p)})
    <2> HIDE DEF b
    <2>1. QED  BY <1>2, ConcatEmptySeq DEF Meets
  <1>5. \A k \in 1..1 : k = 1
    OBVIOUS
  <1>6. At(v, 1) = 0 /\ 1 \in 1..1
    BY DEF At
  <1>7. Begins(b, SepOf(p)) = {0}
    BY <1>2 DEF Begins, Free
  <1>8. Len(b) \in Nat
    <2> HIDE DEF b
    <2>1. QED  BY <1>2
  <1>9. Begins(v[1], SepOf(p)) = {At(v, k) : k \in 1..1}
    BY <1>3, <1>5, <1>6, <1>7
  <1>10. ASSUME NEW k \in 1..1
         PROVE  /\ At(v, k) \in 0..Len(v[1])
                /\ \E a, c \in Seq(Char) :
                     /\ v[1] = a \o Pair(p.stanzas[k]) \o c
                     /\ Len(a) = At(v, k) /\ Meets(c, {SepOf(p)})
    <2>1. k = 1
      BY <1>5
    <2>2. At(v, k) \in 0..Len(v[1])
      BY <1>3, <1>6, <1>8, <2>1
    <2>3. v[1] = <<>> \o Pair(p.stanzas[k]) \o <<>> /\ Len(<<>>) = At(v, k)
      BY <1>3, <1>4, <1>6, <2>1
    <2> HIDE DEF b
    <2>4. QED  BY <1>1, <1>4, <2>2, <2>3
  <1>11. QED  BY <1>5, <1>9, <1>10 DEF Divided

(* One stanza more. *)
LEMMA DividedNext ==
  ASSUME NEW p \in Parts, NEW v, Joins(v, p),
         NEW n \in 1..Len(p.stanzas), n < Len(p.stanzas), Divided(v, p, n)
  PROVE  Divided(v, p, n + 1)
  <1> DEFINE sep == SepOf(p)
             b == Pair(p.stanzas[n + 1])
             q == v[n]
             r == v[n + 1]
  <1>1. /\ n + 1 \in 1..Len(p.stanzas) /\ (n + 1) - 1 = n /\ n \in 0..Len(p.stanzas)
        /\ n + 1 \in 0..Len(p.stanzas) /\ n + 1 # 1
    <2>1. Len(p.stanzas) \in Nat
      BY StanzaTexts
    <2>2. QED  BY <2>1
  <1>2. b \in Seq(Char) /\ Free(b, {sep}) /\ sep \in Char /\ q \in Seq(Char) /\ r \in Seq(Char)
    BY <1>1, StanzaTexts DEF Joins
  <1>3. r = q \o <<sep>> \o b
    <2>1. v[n + 1] = v[(n + 1) - 1] \o Between(p, n + 1) \o Pair(p.stanzas[n + 1])
      BY <1>1 DEF Joins
    <2>2. Between(p, n + 1) = <<sep>>
      BY <1>1 DEF Between
    <2>3. QED  BY <1>1, <2>1, <2>2
  <1>4. At(v, n + 1) = Len(q) + 1
    BY <1>1 DEF At
  <1>5. /\ Begins(q, sep) = {At(v, k) : k \in 1..n}
        /\ \A k \in 1..n : At(v, k) \in 0..Len(q)
        /\ \A k, j \in 1..n : k # j => At(v, k) # At(v, j)
        /\ \A k \in 1..n : \E a, c \in Seq(Char) :
             q = a \o Pair(p.stanzas[k]) \o c /\ Len(a) = At(v, k) /\ Meets(c, {sep})
    BY DEF Divided
  <1>6. /\ <<sep>> \in Seq(Char) /\ <<sep>> \o b \in Seq(Char) /\ q \o <<sep>> \in Seq(Char)
        /\ Len(q \o <<sep>>) = Len(q) + 1 /\ (<<sep>> \o b)[1] = sep /\ <<sep>> \o b # <<>>
        /\ Len(r) = Len(q) + 1 + Len(b) /\ Len(q) \in Nat /\ Len(b) \in Nat
    <2> HIDE DEF sep, b, q, r
    <2>1. <<sep>> \in Seq(Char) /\ Len(<<sep>>) = 1 /\ <<sep>>[1] = sep
      BY <1>2
    <2>2. <<sep>> \o b \in Seq(Char) /\ (<<sep>> \o b)[1] = sep /\ <<sep>> \o b # <<>>
      BY <1>2, <2>1
    <2>3. q \o <<sep>> \in Seq(Char) /\ Len(q \o <<sep>>) = Len(q) + 1
      BY <1>2, <2>1
    <2>4. Len(r) = Len(q) + 1 + Len(b) /\ Len(q) \in Nat /\ Len(b) \in Nat
      BY <1>2, <1>3, <2>3, Glued
    <2>5. QED  BY <2>1, <2>2, <2>3, <2>4
  <1>7. \A k \in 1..(n + 1) : k \in 1..n \/ k = n + 1
    OBVIOUS
  <1>8. \A k \in 1..n : k \in 1..(n + 1) /\ k # n + 1
    OBVIOUS
  <1>9. n + 1 \in 1..(n + 1)
    OBVIOUS
  <1> HIDE DEF sep, b, q, r
  <1>10. Begins(r, sep) = {At(v, k) : k \in 1..(n + 1)}
    <2>1. Begins(r, sep) = Begins(q, sep) \union {At(v, n + 1)}
      BY <1>2, <1>3, <1>4, BeginsStep
    <2>2. {At(v, k) : k \in 1..(n + 1)} = {At(v, k) : k \in 1..n} \union {At(v, n + 1)}
      BY <1>7, <1>8, <1>9, Zenon
    <2>3. QED  BY <1>5, <2>1, <2>2
  <1>11. \A k \in 1..(n + 1) : At(v, k) \in 0..Len(r)
    BY <1>4, <1>5, <1>6, <1>7
  <1>12. \A k \in 1..n : At(v, k) # At(v, n + 1)
    BY <1>4, <1>5, <1>6
  <1>13. \A k, j \in 1..(n + 1) : k # j => At(v, k) # At(v, j)
    BY <1>5, <1>7, <1>12, Zenon
  <1>14. ASSUME NEW k \in 1..(n + 1)
         PROVE  \E a, c \in Seq(Char) :
                  r = a \o Pair(p.stanzas[k]) \o c /\ Len(a) = At(v, k) /\ Meets(c, {sep})
    <2>1. CASE k = n + 1
      <3>1. r = (q \o <<sep>>) \o Pair(p.stanzas[k]) \o <<>>
        <4>1. (q \o <<sep>>) \o b \in Seq(Char)
          BY <1>2, <1>6, Glued
        <4>2. r = ((q \o <<sep>>) \o b) \o <<>>
          BY <1>3, <4>1, ConcatEmptySeq
        <4>3. QED  BY <2>1, <4>2 DEF b
      <3>2. Meets(<<>>, {sep}) /\ <<>> \in Seq(Char)
        BY DEF Meets
      <3>3. QED  BY <1>4, <1>6, <2>1, <3>1, <3>2
    <2>2. CASE k \in 1..n
      <3>1. PICK a \in Seq(Char), c \in Seq(Char) :
              q = a \o Pair(p.stanzas[k]) \o c /\ Len(a) = At(v, k) /\ Meets(c, {sep})
        BY <1>5, <2>2
      <3> DEFINE e == Pair(p.stanzas[k])
                 d == c \o (<<sep>> \o b)
      <3>2. e \in Seq(Char)
        <4>1. k \in 1..Len(p.stanzas)
          BY <1>1, <2>2
        <4>2. QED  BY <4>1, StanzaTexts
      <3> HIDE DEF e
      <3>3. r = (a \o e) \o d
        <4>1. a \o e \in Seq(Char) /\ (a \o e) \o c \in Seq(Char)
          BY <3>2, Glued
        <4>2. r = ((a \o e) \o c) \o (<<sep>> \o b)
          <5>1. (q \o <<sep>>) \o b = q \o (<<sep>> \o b)
            BY <1>2, <1>6, Assoc
          <5>2. QED  BY <1>3, <3>1, <5>1 DEF e
        <4> DEFINE f == <<sep>> \o b
        <4>3. f \in Seq(Char) /\ r = ((a \o e) \o c) \o f /\ d = c \o f
          BY <1>6, <4>2
        <4> HIDE DEF d, f
        <4>4. ((a \o e) \o c) \o f = (a \o e) \o (c \o f)
          BY <3>1, <4>1, <4>3, Assoc
        <4>5. QED  BY <4>3, <4>4, Zenon
      <3>4. d \in Seq(Char) /\ Meets(d, {sep})
        <4>1. CASE c = <<>>
          <5>1. d = <<sep>> \o b
            BY <1>6, <4>1, ConcatEmptySeq
          <5>2. QED  BY <1>6, <5>1 DEF Meets
        <4>2. CASE c # <<>>
          <5>1. d \in Seq(Char) /\ d[1] = c[1]
            BY <1>6, <4>2
          <5>2. c[1] \in {sep}
            BY <3>1, <4>2 DEF Meets
          <5>3. QED  BY <5>1, <5>2 DEF Meets
        <4>3. QED  BY <4>1, <4>2
      <3> HIDE DEF d
      <3>5. QED  BY <3>1, <3>3, <3>4 DEF e
    <2>3. QED  BY <1>7, <2>1, <2>2
  <1>15. QED  BY <1>10, <1>11, <1>13, <1>14 DEF Divided, sep, r

(* All of them. *)
LEMMA DividedAll ==
  ASSUME NEW p \in Parts, p.stanzas # <<>>, NEW v, Joins(v, p)
  PROVE  Divided(v, p, Len(p.stanzas))
  <1> DEFINE m == Len(p.stanzas)
             T == {n \in 1..m : Divided(v, p, n)}
  <1>1. m \in Nat /\ 1 \in 1..m /\ m \in 1..m
    <2>1. p.stanzas \in Seq(Stanzas)
      BY DEF Parts
    <2>2. QED  BY <2>1
  <1>2. 1 \in T
    BY <1>1, DividedFirst
  <1>3. ASSUME NEW n \in 1..m, n \in T, n < m PROVE n + 1 \in T
    <2>1. Divided(v, p, n + 1)
      BY <1>3, DividedNext
    <2>2. n + 1 \in 1..m
      BY <1>1, <1>3
    <2>3. QED  BY <2>1, <2>2
  <1>4. \A n \in 1..m : n \in T
    <2> HIDE DEF T, m
    <2>1. QED  BY <1>1, <1>2, <1>3, CountingUp
  <1>5. QED  BY <1>1, <1>4

(* A query is read as its stanzas. *)
LEMMA DictionaryRead ==
  ASSUME NEW p \in Parts, p.stanzas # <<>> => QueryOf(p) # <<>>
  PROVE  /\ QueryThrows(QueryOf(p), SepOf(p)) <=> HasDuplicates(p)
         /\ Dictionary(QueryOf(p), SepOf(p)) =
              {<<p.stanzas[i].key, p.stanzas[i].value>> : i \in 1..Len(p.stanzas)}
  <1> DEFINE m == Len(p.stanzas)
             q == QueryOf(p)
             sep == SepOf(p)
  <1>1. PICK v : Joins(v, p) /\ q = v[m]
    BY QueryJoins
  <1>2. m \in Nat /\ (p.stanzas = <<>> <=> m = 0)
    <2>1. p.stanzas \in Seq(Stanzas)
      BY DEF Parts
    <2>2. QED  BY <2>1
  <1>3. CASE p.stanzas = <<>>
    <2>1. m = 0
      BY <1>2, <1>3
    <2>2. q = <<>>
      BY <1>1, <2>1 DEF Joins
    <2>3. Starts(q, sep) = {} /\ 1..m = {}
      BY <2>1, <2>2 DEF Starts
    <2> HIDE DEF q, sep, m
    <2>4. ~QueryThrows(q, sep) /\ Dictionary(q, sep) = {}
      BY <2>3 DEF QueryThrows, Dictionary
    <2>5. ~HasDuplicates(p) /\ {<<p.stanzas[i].key, p.stanzas[i].value>> : i \in 1..m} = {}
      BY <2>3 DEF HasDuplicates, m
    <2>6. QED  BY <2>4, <2>5 DEF q, sep, m
  <1>4. CASE p.stanzas # <<>>
    <2>1. Divided(v, p, m)
      BY <1>1, <1>4, DividedAll
    <2>2. Starts(q, sep) = {At(v, k) : k \in 1..m}
      BY <1>1, <1>4, <2>1 DEF Divided, Begins, Starts
    <2>3. ASSUME NEW k \in 1..m PROVE Stanza(q, At(v, k), sep) = Pair(p.stanzas[k])
      <3> DEFINE b == Pair(p.stanzas[k])
      <3>1. PICK a \in Seq(Char), c \in Seq(Char) :
              q = a \o b \o c /\ Len(a) = At(v, k) /\ Meets(c, {sep})
        BY <1>1, <2>1 DEF Divided
      <3>2. b \in Seq(Char) /\ Free(b, {sep})
        BY StanzaTexts
      <3> HIDE DEF b, q, sep
      <3>3. Find(a \o b \o c, Len(a) + 1, {sep}) = Len(a) + Len(b) + 1
        BY <3>1, <3>2, FindAcross
      <3>4. SubSeq(a \o b \o c, Len(a) + 1, Len(a) + Len(b)) = b
        BY <3>2, CutOut
      <3>5. (Len(a) + Len(b) + 1) - 1 = Len(a) + Len(b)
        BY <3>2
      <3>6. Stanza(a \o b \o c, Len(a), sep)
              = SubSeq(a \o b \o c, Len(a) + 1, Find(a \o b \o c, Len(a) + 1, {sep}) - 1)
        BY Zenon DEF Stanza
      <3>7. Stanza(a \o b \o c, Len(a), sep) = b
        BY <3>3, <3>4, <3>5, <3>6, Zenon
      <3>8. Stanza(q, At(v, k), sep) = b
        BY <3>1, <3>7, Zenon
      <3>9. QED  BY <3>8 DEF b
    <2>4. \A k \in 1..m : /\ KeyOf(Pair(p.stanzas[k])) = p.stanzas[k].key
                          /\ ValueOf(Pair(p.stanzas[k])) = p.stanzas[k].value
      BY StanzaTexts
    <2>5. \A k, j \in 1..m : k # j <=> At(v, k) # At(v, j)
      BY <2>1 DEF Divided
    <2>6. QueryThrows(q, sep) <=> HasDuplicates(p)
      <3>1. QueryThrows(q, sep) <=>
              \E k, j \in 1..m :
                /\ At(v, k) # At(v, j)
                /\ KeyOf(Stanza(q, At(v, k), sep)) = KeyOf(Stanza(q, At(v, j), sep))
        <4> HIDE DEF q, sep, m
        <4>1. QED  BY <2>2 DEF QueryThrows
      <3>2. HasDuplicates(p) <=> \E k, j \in 1..m : k # j /\ p.stanzas[k].key = p.stanzas[j].key
        BY DEF HasDuplicates
      <3> HIDE DEF q, sep, m
      <3>3. \A k \in 1..m : KeyOf(Stanza(q, At(v, k), sep)) = p.stanzas[k].key
        BY <2>3, <2>4
      <3>4. QED  BY <2>5, <3>1, <3>2, <3>3, Zenon
    <2>7. Dictionary(q, sep) = {<<p.stanzas[i].key, p.stanzas[i].value>> : i \in 1..m}
      <3> HIDE DEF q, sep, m
      <3>1. \A k \in 1..m : <<KeyOf(Stanza(q, At(v, k), sep)), ValueOf(Stanza(q, At(v, k), sep))>>
                              = <<p.stanzas[k].key, p.stanzas[k].value>>
        BY <2>3, <2>4
      <3> DEFINE F(i) == <<KeyOf(Stanza(q, i, sep)), ValueOf(Stanza(q, i, sep))>>
      <3>2. Dictionary(q, sep) = {F(i) : i \in {At(v, k) : k \in 1..m}}
        BY <2>2 DEF Dictionary
      <3>3. \A k \in 1..m : F(At(v, k)) = <<p.stanzas[k].key, p.stanzas[k].value>>
        BY <3>1
      <3> HIDE DEF F
      <3>4. {F(i) : i \in {At(v, k) : k \in 1..m}} = {F(At(v, k)) : k \in 1..m}
        OBVIOUS
      <3>5. {F(At(v, k)) : k \in 1..m} = {<<p.stanzas[k].key, p.stanzas[k].value>> : k \in 1..m}
        BY <3>3
      <3>6. QED  BY <3>2, <3>4, <3>5
    <2>8. QED  BY <2>6, <2>7
  <1>5. QED  BY <1>3, <1>4

(* A query is a text without the mark of a fragment. *)
LEMMA QueryText ==
  ASSUME NEW p \in Parts
  PROVE  QueryOf(p) \in Seq(Char) /\ Free(QueryOf(p), {"#"})
  <1> DEFINE m == Len(p.stanzas)
  <1>1. PICK v : Joins(v, p) /\ QueryOf(p) = v[m]
    BY QueryJoins
  <1>2. m \in Nat /\ m \in 0..m /\ 0 \in 0..m
    <2>1. m \in Nat
      BY StanzaTexts
    <2> HIDE DEF m
    <2>2. QED  BY <2>1
  <1>3. v[0] = <<>> /\ \A n \in 0..m : v[n] \in Seq(Char)
    BY <1>1 DEF Joins
  <1> DEFINE T == {n \in 0..m : Free(v[n], {"#"})}
  <1>4. 0 \in T
    BY <1>2, <1>3 DEF Free
  <1>5. ASSUME NEW n \in 0..m, n \in T, n < m PROVE n + 1 \in T
    <2> DEFINE b == Pair(p.stanzas[n + 1])
               e == Between(p, n + 1)
               X == {"#"}
    <2>1. n + 1 \in 1..m /\ n + 1 \in 0..m /\ (n + 1) - 1 = n
      BY <1>2, <1>5
    <2>2. b \in Seq(Char) /\ Free(b, X)
      BY <2>1, StanzaTexts
    <2>3. e \in Seq(Char) /\ Free(e, X)
      <3>1. SepOf(p) \in Char /\ SepOf(p) \notin X
        BY StanzaTexts
      <3> HIDE DEF X
      <3>2. <<SepOf(p)>> \in Seq(Char) /\ Free(<<SepOf(p)>>, X)
        BY <3>1, One
      <3>3. <<>> \in Seq(Char) /\ Free(<<>>, X)
        BY DEF Free
      <3>4. QED  BY <3>2, <3>3 DEF Between
    <2>4. v[n + 1] = v[n] \o e \o b
      <3>1. \A i \in 1..m : v[i] = v[i-1] \o Between(p, i) \o Pair(p.stanzas[i])
        BY <1>1 DEF Joins
      <3>2. v[n + 1] = v[(n + 1) - 1] \o Between(p, n + 1) \o Pair(p.stanzas[n + 1])
        BY <2>1, <3>1, Zenon
      <3>3. QED  BY <2>1, <3>2
    <2>5. v[n] \in Seq(Char) /\ Free(v[n], X)
      BY <1>3, <1>5
    <2> HIDE DEF b, e, X
    <2>6. v[n] \o e \in Seq(Char) /\ Free(v[n] \o e, X)
      BY <2>3, <2>5, FreeConcat, Glued
    <2>7. Free(v[n] \o e \o b, X)
      BY <2>2, <2>6, FreeConcat
    <2>8. QED  BY <2>1, <2>4, <2>7 DEF X
  <1>6. \A n \in 0..m : n \in T
    <2> HIDE DEF T, m
    <2>1. QED  BY <1>2, <1>4, <1>5, CountingUp
  <1>7. QED  BY <1>1, <1>2, <1>3, <1>6

-----------------------------------------------------------------------------
(* The outline of a text: scheme, content, query and fragment.             *)

(* A marked text is a text, and stops where its mark does. *)
LEMMA MarkedText ==
  ASSUME NEW mark \in Char, NEW f \in Seq(Char)
  PROVE  /\ Marked(mark, f) \in Seq(Char)
         /\ f = <<>> => Marked(mark, f) = <<>>
         /\ f # <<>> => /\ Marked(mark, f) = <<mark>> \o f
                        /\ Marked(mark, f) # <<>> /\ Marked(mark, f)[1] = mark
  <1>1. <<mark>> \o f \in Seq(Char) /\ (<<mark>> \o f)[1] = mark /\ <<mark>> \o f # <<>>
    OBVIOUS
  <1>2. <<>> \in Seq(Char)
    OBVIOUS
  <1>3. QED  BY <1>1, <1>2 DEF Marked

(* What lies behind a mark. *)
LEMMA BehindMark ==
  ASSUME NEW k \in Seq(Char), NEW mark \in Char, NEW f \in Seq(Char)
  PROVE  From(k \o Marked(mark, f), Len(k) + 2) = f
  <1>1. CASE f = <<>>
    <2>1. k \o Marked(mark, f) = k
      BY <1>1, MarkedText, ConcatEmptySeq
    <2>2. SubSeq(k, Len(k) + 2, Len(k)) = <<>>
      <3>1. Len(k) \in Nat
        OBVIOUS
      <3>2. QED  BY <3>1, SubSeqEmpty
    <2>3. QED  BY <1>1, <2>1, <2>2 DEF From
  <1>2. CASE f # <<>>
    <2>1. <<mark>> \in Seq(Char) /\ Len(<<mark>>) = 1
      OBVIOUS
    <2>2. k \o <<mark>> \in Seq(Char) /\ Len(k \o <<mark>>) = Len(k) + 1 /\ Len(k) \in Nat
      BY <2>1, Glued
    <2>3. k \o Marked(mark, f) = (k \o <<mark>>) \o f
      <3>1. Marked(mark, f) = <<mark>> \o f
        BY <1>2, MarkedText
      <3>2. (k \o <<mark>>) \o f = k \o (<<mark>> \o f)
        BY <2>1, Assoc
      <3>3. QED  BY <3>1, <3>2, Zenon
    <2>4. From((k \o <<mark>>) \o f, Len(k \o <<mark>>) + 1) = f
      BY <2>2, Rest
    <2>5. Len(k \o <<mark>>) + 1 = Len(k) + 2
      BY <2>2
    <2>6. QED  BY <2>3, <2>4, <2>5
  <1>3. QED  BY <1>1, <1>2

(* One text behind another stops where the first one does, or, when that   *)
(* is empty, where the second one does.                                    *)
LEMMA MeetsConcat ==
  ASSUME NEW a \in Seq(Char), NEW b \in Seq(Char), NEW X, Meets(a, X), Meets(b, X)
  PROVE  Meets(a \o b, X)
  <1>1. CASE a = <<>>
    BY <1>1, ConcatEmptySeq
  <1>2. CASE a # <<>>
    <2>1. (a \o b)[1] = a[1]
      BY <1>2
    <2>2. QED  BY <1>2, <2>1 DEF Meets
  <1>3. QED  BY <1>1, <1>2

(* A mark among the stopping characters. *)
LEMMA MarkedMeets ==
  ASSUME NEW mark \in Char, NEW f \in Seq(Char), NEW X, mark \in X
  PROVE  Meets(Marked(mark, f), X)
  BY MarkedText DEF Meets

(* The characters of the format. *)
LEMMA MarksAreChars ==
  /\ ":" \in Char /\ "/" \in Char /\ "@" \in Char /\ "[" \in Char /\ "]" \in Char
  /\ "?" \in Char /\ "#" \in Char /\ SchemeChars \subseteq Char /\ Digits \subseteq Char
  BY DEF Char

(* The scheme, in lower case. *)
LEMMA SchemeRead ==
  ASSUME NEW s \in Seq(SchemeChars), s # <<>>, NEW r \in Seq(Char)
  PROVE  LET text == (s \o <<":">>) \o r
         IN  /\ ~SchemeThrows(text) /\ Scheme(text) = InLowerCase(s)
             /\ Find(text, 1, {":"}) = Len(s) + 1
  <1> DEFINE text == (s \o <<":">>) \o r
  <1>1. s \in Seq(Char) /\ <<":">> \in Seq(Char) /\ <<":">>[1] = ":" /\ Free(s, {":"})
    <2>1. s \in Seq(Char)
      BY MarksAreChars, SeqMonotonic
    <2>2. Free(s, {":"})
      BY UriAssumption DEF Free
    <2>3. QED  BY <2>1, <2>2, MarksAreChars, One
  <1>2. Find(text, 1, {":"}) = Len(s) + 1
    <2> DEFINE c == <<":">> \o r
    <2>1. c \in Seq(Char) /\ Meets(c, {":"})
      <3>1. c \in Seq(Char) /\ c[1] = ":"
        BY <1>1
      <3>2. QED  BY <3>1 DEF Meets
    <2>2. text = <<>> \o s \o c
      <3>1. <<>> \o s = s
        BY <1>1, ConcatEmptySeq
      <3>2. (s \o <<":">>) \o r = s \o (<<":">> \o r)
        BY <1>1, Assoc
      <3>3. QED  BY <3>1, <3>2
    <2>3. <<>> \in Seq(Char) /\ Len(<<>>) = 0 /\ Len(s) \in Nat
      BY <1>1
    <2> HIDE DEF text, c
    <2>4. Find(<<>> \o s \o c, Len(<<>>) + 1, {":"}) = Len(<<>>) + Len(s) + 1
      BY <1>1, <2>1, <2>3, FindAcross
    <2>5. Len(<<>>) + 1 = 1 /\ Len(<<>>) + Len(s) + 1 = Len(s) + 1
      BY <2>3
    <2>6. QED  BY <2>2, <2>4, <2>5
  <1>3. /\ Len(s) \in Nat /\ Len(s) # 0 /\ (Len(s) + 1) - 1 = Len(s) /\ Len(text) >= Len(s) + 1
        /\ \A i \in 1..Len(s) : text[i] = s[i]
    <2> DEFINE a == s \o <<":">>
    <2>1. /\ a \in Seq(Char) /\ Len(a) = Len(s) + 1 /\ \A i \in 1..Len(s) : a[i] = s[i]
          /\ Len(s) \in Nat /\ Len(s) # 0 /\ Len(r) \in Nat
      BY <1>1
    <2> HIDE DEF a
    <2>2. Len(a \o r) = Len(a) + Len(r) /\ \A i \in 1..Len(a) : (a \o r)[i] = a[i]
      BY <2>1
    <2> DEFINE t == a \o r
    <2>3. t = text
      BY DEF a
    <2>4. Len(t) >= Len(s) + 1 /\ \A i \in 1..Len(s) : t[i] = s[i]
      <3>1. \A i \in 1..Len(s) : i \in 1..Len(a)
        BY <2>1
      <3>2. QED  BY <2>1, <2>2, <3>1
    <2> HIDE DEF t, text
    <2>5. QED  BY <2>1, <2>3, <2>4
  <1>4. \A i \in 1..Len(s) : s[i] \in SchemeChars
    OBVIOUS
  <1> HIDE DEF text
  <1>5. ~SchemeThrows(text)
    <2>1. ~(Len(s) + 1 = 1) /\ ~(Len(s) + 1 > Len(text))
      <3>1. Len(text) \in Nat
        BY <1>1, Glued DEF text
      <3>2. QED  BY <1>3, <3>1
    <2>2. \A i \in 1..((Len(s) + 1) - 1) : text[i] \in SchemeChars
      BY <1>3, <1>4
    <2>3. QED  BY <1>2, <2>1, <2>2 DEF SchemeThrows
  <1>6. Scheme(text) = InLowerCase(s)
    <2>1. Scheme(text) = [i \in 1..((Len(s) + 1) - 1) |-> Lower[text[i]]]
      BY <1>2 DEF Scheme
    <2>2. QED  BY <1>3, <2>1 DEF InLowerCase
  <1>7. QED  BY <1>2, <1>5, <1>6 DEF text

(* Where a content and where a query ends. *)
Marks == {"?", "#"}
Hash  == {"#"}

(* Behind a text, a marked one and another one. *)
Joined(h, w, q, m) == ((h \o w) \o q) \o m

(* The grouping of the texts before, of and behind a mark does not matter. *)
LEMMA MarkedBetween ==
  ASSUME NEW h \in Seq(Char), NEW w \in Seq(Char), NEW q \in Seq(Char), NEW m \in Seq(Char)
  PROVE  Joined(h, w, q, m) = h \o ((w \o q) \o m)
  <1>1. h \o w \in Seq(Char) /\ q \o m \in Seq(Char)
    BY Glued
  <1>2. (w \o q) \o m = w \o (q \o m)
    BY Assoc, Zenon
  <1>3. (h \o w) \o (q \o m) = h \o (w \o (q \o m))
    <2> DEFINE y == q \o m
    <2>1. y \in Seq(Char)
      BY <1>1
    <2> HIDE DEF y
    <2>2. (h \o w) \o y = h \o (w \o y)
      BY <2>1, Assoc, Zenon
    <2>3. QED  BY <2>2 DEF y
  <1>4. ((h \o w) \o q) \o m = (h \o w) \o (q \o m)
    <2> DEFINE x == h \o w
    <2>1. x \in Seq(Char)
      BY <1>1
    <2> HIDE DEF x
    <2>2. (x \o q) \o m = x \o (q \o m)
      BY <2>1, Assoc, Zenon
    <2>3. QED  BY <2>2 DEF x
  <1>5. QED  BY <1>2, <1>3, <1>4, Zenon DEF Joined

(* Query and fragment, wherever the content ends. *)
LEMMA QueryRead ==
  ASSUME NEW h \in Seq(Char), NEW q \in Seq(Char), Free(q, Hash), NEW f \in Seq(Char),
         NEW text, text = h \o (Marked("?", q) \o Marked("#", f)),
         ContentEnd(text) = Len(h) + 1
  PROVE  Query(text) = q /\ Fragment(text) = f
  <1> DEFINE m == Marked("#", f)
             t == Marked("?", q) \o m
  <1>1. /\ m \in Seq(Char) /\ (f = <<>> => m = <<>>)
        /\ (f # <<>> => m = <<"#">> \o f /\ m # <<>> /\ m[1] = "#")
    BY MarkedText, MarksAreChars
  <1>2. Meets(m, Hash)
    <2>1. "#" \in Hash
      BY DEF Hash
    <2>2. QED  BY <2>1, MarkedMeets, MarksAreChars
  <1>3. /\ Marked("?", q) \in Seq(Char) /\ t \in Seq(Char) /\ Len(h) \in Nat
        /\ Len(h) + 1 + 1 = Len(h) + 2
    <2>1. Marked("?", q) \in Seq(Char)
      BY MarkedText, MarksAreChars
    <2>2. t \in Seq(Char)
      BY <1>1, <2>1, Glued
    <2> HIDE DEF t
    <2>3. QED  BY <2>1, <2>2
  <1>4. IsAt(text, Len(h) + 1, "?") <=> t # <<>> /\ t[1] = "?"
    <2> HIDE DEF m
    <2>1. text = h \o t
      BY DEF m
    <2> HIDE DEF t
    <2>2. QED  BY <1>3, <2>1, Behind
  <1> HIDE DEF m
  <1>5. CASE q = <<>>
    <2>1. t = m
      <3>1. Marked("?", q) = <<>>
        BY <1>5, MarkedText, MarksAreChars
      <3>2. QED  BY <1>1, <3>1, ConcatEmptySeq
    <2>2. text = h \o m
      BY <2>1 DEF m
    <2>3. QueryEnd(text) = Len(h) + 1
      BY <1>1, <1>4, <2>1 DEF QueryEnd
    <2>4. SubSeq(text, Len(h) + 2, Len(h)) = <<>>
      <3>1. text \in Seq(Char)
        BY <1>1, <2>2, Glued
      <3>2. QED  BY <1>3, <3>1, SubSeqEmpty
    <2>5. Query(text) = q
      <3>1. (Len(h) + 1) - 1 = Len(h)
        BY <1>3
      <3>2. QED  BY <1>3, <1>5, <2>3, <2>4, <3>1 DEF Query
    <2>6. Fragment(text) = f
      <3>1. From(h \o m, Len(h) + 2) = f
        BY BehindMark, MarksAreChars DEF m
      <3>2. QED  BY <1>3, <2>2, <2>3, <3>1 DEF Fragment
    <2>7. QED  BY <2>5, <2>6
  <1>6. CASE q # <<>>
    <2> DEFINE k == h \o <<"?">>
               e == k \o q
    <2>1. /\ <<"?">> \in Seq(Char) /\ k \in Seq(Char) /\ Len(k) = Len(h) + 1
          /\ e \in Seq(Char) /\ Len(e) = Len(k) + Len(q) /\ Len(k) \in Nat /\ Len(q) \in Nat
      <3>1. <<"?">> \in Seq(Char) /\ Len(<<"?">>) = 1
        BY MarksAreChars, One
      <3>2. k \in Seq(Char) /\ Len(k) = Len(h) + 1
        BY <3>1, Glued
      <3> HIDE DEF k
      <3>3. QED  BY <3>1, <3>2, Glued
    <2>2. Marked("?", q) = <<"?">> \o q /\ (<<"?">> \o q)[1] = "?" /\ <<"?">> \o q # <<>>
      <3>1. Marked("?", q) = <<"?">> \o q
        BY <1>6 DEF Marked
      <3>2. (<<"?">> \o q)[1] = "?" /\ <<"?">> \o q # <<>>
        OBVIOUS
      <3>3. QED  BY <3>1, <3>2
    <2>3. text = e \o m
      <3> DEFINE w == <<"?">>
      <3>1. w \in Seq(Char) /\ m \in Seq(Char)
        BY <1>1, <2>1
      <3> HIDE DEF w
      <3>2. \A x, y, z \in Seq(Char) : Joined(h, x, y, z) = h \o ((x \o y) \o z)
        BY MarkedBetween, Zenon
      <3>4. \A y, z \in Seq(Char) : Joined(h, w, y, z) = h \o ((w \o y) \o z)
        BY <3>1, <3>2, Zenon
      <3>5. Joined(h, w, q, m) = h \o ((w \o q) \o m)
        BY <3>1, <3>4, Zenon
      <3>3. QED  BY <2>2, <3>5 DEF w, m, Joined
    <2>4. IsAt(text, ContentEnd(text), "?")
      <3>1. t # <<>> /\ t[1] = "?"
        <4>1. <<"?">> \o q \in Seq(Char)
          BY <2>1, Glued
        <4> DEFINE z == <<"?">> \o q
        <4>2. z \in Seq(Char) /\ z # <<>> /\ z[1] = "?"
          BY <2>2, <4>1
        <4> HIDE DEF z
        <4>3. z \o m # <<>> /\ (z \o m)[1] = "?"
          BY <1>1, <4>2
        <4>4. QED  BY <2>2, <4>3 DEF z
      <3>2. QED  BY <1>4, <3>1
    <2> HIDE DEF k, t
    <2>5. Find(k \o q \o m, Len(k) + 1, Hash) = Len(k) + Len(q) + 1
      <3>1. k \in Seq(Char) /\ m \in Seq(Char)
        BY <1>1, <2>1
      <3>2. QED  BY <1>2, <3>1, Across, Z3
    <2>6. QueryEnd(text) = Len(e) + 1
      <3>1. ContentEnd(text) + 1 = Len(k) + 1
        BY <2>1
      <3>2. QueryEnd(text) = Find(text, ContentEnd(text) + 1, Hash)
        BY <2>4 DEF QueryEnd, Hash
      <3>3. QueryEnd(text) = Len(k) + Len(q) + 1
        BY <2>3, <2>5, <3>1, <3>2
      <3> HIDE DEF e
      <3>4. QED  BY <2>1, <3>3
    <2>7. Query(text) = q
      <3>1. SubSeq(k \o q \o m, Len(k) + 1, Len(k) + Len(q)) = q
        BY <1>1, <2>1, Cut, Z3
      <3>2. (Len(e) + 1) - 1 = Len(k) + Len(q) /\ ContentEnd(text) + 1 = Len(k) + 1
        <4> HIDE DEF e
        <4>1. QED  BY <2>1
      <3>3. QED  BY <2>3, <2>6, <3>1, <3>2 DEF Query
    <2>8. Fragment(text) = f
      <3> HIDE DEF e
      <3>1. From(e \o m, Len(e) + 2) = f
        BY <2>1, BehindMark, MarksAreChars DEF m
      <3>2. Len(e) + 1 + 1 = Len(e) + 2
        BY <2>1
      <3>3. QED  BY <2>3, <2>6, <3>1, <3>2 DEF Fragment
    <2>9. QED  BY <2>7, <2>8
  <1>7. QED  BY <1>5, <1>6

(* The content, between the colon and the first mark. *)
Outline(s, b, t) == ((s \o <<":">>) \o b) \o t

(* The parser finds the content and where it ends. *)
LEMMA ContentRead ==
  ASSUME NEW s \in Seq(Char), NEW b \in Seq(Char), Free(b, Marks),
         NEW t \in Seq(Char), Meets(t, Marks),
         Find(Outline(s, b, t), 1, {":"}) = Len(s) + 1
  PROVE  /\ Content(Outline(s, b, t)) = b
         /\ ContentEnd(Outline(s, b, t)) = Len((s \o <<":">>) \o b) + 1
  <1> DEFINE a == s \o <<":">>
             text == Outline(s, b, t)
  <1>1. a \in Seq(Char) /\ Len(a) = Len(s) + 1 /\ Len(a) \in Nat /\ Len(s) \in Nat /\ Len(b) \in Nat
    <2>1. <<":">> \in Seq(Char) /\ Len(<<":">>) = 1
      BY MarksAreChars, One
    <2>2. QED  BY <2>1, Glued
  <1>2. Len(a \o b) = Len(a) + Len(b)
    <2> HIDE DEF a
    <2>1. QED  BY <1>1, Glued
  <1>3. ContentStart(text) = Len(a) + 1
    <2> HIDE DEF a
    <2>1. QED  BY <1>1 DEF ContentStart
  <1>4. text = a \o b \o t
    BY DEF Outline
  <1>5. a \in Seq(Char)
    BY <1>1
  <1> HIDE DEF a, text
  <1>6. Find(a \o b \o t, Len(a) + 1, Marks) = Len(a) + Len(b) + 1
    BY <1>5, Across, Z3
  <1>7. SubSeq(a \o b \o t, Len(a) + 1, Len(a) + Len(b)) = b
    BY <1>5, Cut, Z3
  <1>8. ContentEnd(text) = Len(a) + Len(b) + 1
    BY <1>3, <1>4, <1>6 DEF ContentEnd, Marks
  <1>9. (Len(a) + Len(b) + 1) - 1 = Len(a) + Len(b)
    BY <1>1
  <1>10. Content(text) = b
    BY <1>3, <1>4, <1>7, <1>8, <1>9 DEF Content
  <1>11. QED  BY <1>2, <1>8, <1>10 DEF a, text

(* All of a text. *)
Outlined(text, s, b, q, f) ==
  /\ s \in Seq(SchemeChars) /\ s # <<>> /\ b \in Seq(Char) /\ Free(b, Marks)
  /\ q \in Seq(Char) /\ Free(q, Hash) /\ f \in Seq(Char)
  /\ text = ((s \o <<":">>) \o b) \o (Marked("?", q) \o Marked("#", f))

(* The parser finds the scheme, the content, the query and the fragment. *)
LEMMA SetupRead ==
  ASSUME NEW text, NEW s, NEW b, NEW q, NEW f, Outlined(text, s, b, q, f)
  PROVE  /\ ~SchemeThrows(text) /\ Scheme(text) = InLowerCase(s)
         /\ Content(text) = b /\ Query(text) = q /\ Fragment(text) = f
  <1> DEFINE a == s \o <<":">>
             t == Marked("?", q) \o Marked("#", f)
             h == a \o b
  <1>0. /\ s \in Seq(SchemeChars) /\ s # <<>> /\ b \in Seq(Char) /\ Free(b, Marks)
        /\ q \in Seq(Char) /\ Free(q, Hash) /\ f \in Seq(Char)
        /\ text = ((s \o <<":">>) \o b) \o (Marked("?", q) \o Marked("#", f))
    BY DEF Outlined
  <1> USE <1>0
  <1>1. s \in Seq(Char) /\ a \in Seq(Char) /\ h \in Seq(Char)
    <2>1. s \in Seq(Char) /\ <<":">> \in Seq(Char)
      BY MarksAreChars, SeqMonotonic, One
    <2>2. a \in Seq(Char)
      BY <2>1, Glued
    <2> HIDE DEF a
    <2>3. QED  BY <2>1, <2>2, Glued
  <1>2. t \in Seq(Char) /\ Meets(t, Marks)
    <2> DEFINE m == Marked("?", q)
               n == Marked("#", f)
    <2>1. "?" \in Marks /\ "#" \in Marks
      BY DEF Marks
    <2>2. m \in Seq(Char) /\ n \in Seq(Char) /\ Meets(m, Marks) /\ Meets(n, Marks)
      BY <2>1, MarkedText, MarkedMeets, MarksAreChars
    <2> HIDE DEF m, n
    <2>3. m \o n \in Seq(Char) /\ Meets(m \o n, Marks)
      BY <2>2, Glued, MeetsConcat
    <2>4. QED  BY <2>3 DEF m, n
  <1> HIDE DEF t
  <1>3. ~SchemeThrows(text) /\ Scheme(text) = InLowerCase(s) /\ Find(text, 1, {":"}) = Len(s) + 1
    <2> DEFINE r == b \o t
    <2> HIDE DEF a
    <2>1. r \in Seq(Char)
      BY <1>2, Glued
    <2>2. (a \o b) \o t = a \o (b \o t)
      <3>1. a \in Seq(Char) /\ t \in Seq(Char)
        BY <1>1, <1>2
      <3>2. QED  BY <3>1, Assoc, Zenon
    <2>3. text = (s \o <<":">>) \o r
      BY <2>2 DEF a, t
    <2> HIDE DEF r
    <2>4. QED  BY <2>1, <2>3, SchemeRead
  <1>4. Content(text) = b /\ ContentEnd(text) = Len(h) + 1
    <2>1. text = Outline(s, b, t)
      BY DEF t, Outline
    <2>2. Find(text, 1, {":"}) = Len(s) + 1 /\ s \in Seq(Char)
      BY <1>1, <1>3
    <2>3. Content(text) = b /\ ContentEnd(text) = Len((s \o <<":">>) \o b) + 1
      <3> HIDE DEF a, h
      <3>1. t \in Seq(Char) /\ Meets(t, Marks)
        BY <1>2
      <3>2. \A x, y \in Seq(Char) :
              Free(x, Marks) /\ Meets(y, Marks) /\ Find(Outline(s, x, y), 1, {":"}) = Len(s) + 1 =>
                /\ Content(Outline(s, x, y)) = x
                /\ ContentEnd(Outline(s, x, y)) = Len((s \o <<":">>) \o x) + 1
        BY <2>2, ContentRead, Zenon
      <3>3. QED  BY <2>1, <2>2, <3>1, <3>2, Zenon
    <2>4. QED  BY <2>3
  <1>5. Query(text) = q /\ Fragment(text) = f
    <2>1. text = h \o (Marked("?", q) \o Marked("#", f))
      OBVIOUS
    <2> HIDE DEF h
    <2>2. QED  BY <1>1, <1>4, <2>1, QueryRead
  <1>6. QED  BY <1>3, <1>4, <1>5

-----------------------------------------------------------------------------
(* The content: authority and path.                                        *)

UserStops == {":", "@"}
AtSign    == {"@"}
HostStops == {"[", ":", "/"}
Closing   == {"]"}
Slash     == {"/"}

(* The first piece of a text and what stops there. *)
LEMMA Led ==
  ASSUME NEW c \in Char, NEW r \in Seq(Char)
  PROVE  <<c>> \o r \in Seq(Char) /\ <<c>> \o r # <<>> /\ (<<c>> \o r)[1] = c
  OBVIOUS

(* User and password between the slashes and the host, grouped anew. *)
UserGroup(d, u, c, w, a) == d \o (((u \o c) \o w) \o a)

(* The same text in the two groupings. *)
LEMMA UserGroups ==
  ASSUME NEW d \in Seq(Char), NEW u \in Seq(Char), NEW c \in Seq(Char),
         NEW w \in Seq(Char), NEW a \in Seq(Char)
  PROVE  UserGroup(d, u, c, w, a) = (((d \o u) \o c) \o w) \o a
  <1> DEFINE x == u \o c
             y == x \o w
  <1>1. x \in Seq(Char)
    BY Glued
  <1>2. d \o x = (d \o u) \o c
    BY Assoc, Zenon
  <1> HIDE DEF x
  <1>3. y \in Seq(Char)
    BY <1>1, Glued
  <1>0. \A s, t \in Seq(Char) : (d \o s) \o t = d \o (s \o t)
    BY Assoc, Zenon
  <1>4. d \o y = (d \o x) \o w
    BY <1>0, <1>1, Zenon
  <1> HIDE DEF y
  <1>5. d \o (y \o a) = (d \o y) \o a
    BY <1>0, <1>3, Zenon
  <1>6. QED  BY <1>2, <1>4, <1>5 DEF UserGroup, x, y

(* A text with an "@" in it has a user, one without has none. *)
LEMMA UserOrNot ==
  ASSUME NEW text
  PROVE  /\ Free(text, AtSign) <=> ~HasUser(text)
         /\ \A i : IsAt(text, i, "@") => HasUser(text)
  BY DEF Free, AtSign, HasUser, IsAt

(* Two slashes make an authority. *)
LEMMA Slashes ==
  ASSUME NEW r \in Seq(Char)
  PROVE  HasAuthority(<<"/", "/">> \o r) /\ <<"/", "/">> \in Seq(Char) /\ Len(<<"/", "/">>) = 2
  <1> DEFINE d == <<"/", "/">>
  <1>1. d \in Seq(Char) /\ Len(d) = 2 /\ Len(<<>>) = 0 /\ <<>> \in Seq(Char)
    BY MarksAreChars
  <1> HIDE DEF d
  <1>2. SubSeq(<<>> \o d \o r, Len(<<>>) + 1, Len(<<>>) + Len(d)) = d
    BY <1>1, Cut, Z3
  <1>3. <<>> \o d = d /\ Len(<<>>) + 1 = 1 /\ Len(<<>>) + Len(d) = 2
    BY <1>1, ConcatEmptySeq
  <1>4. SubSeq(d \o r, 1, 2) = d
    BY <1>2, <1>3
  <1>5. Len(d) <= Len(d \o r)
    <2>1. Len(d \o r) = 2 + Len(r) /\ Len(r) \in Nat
      BY <1>1, Glued
    <2>2. QED  BY <1>1, <2>1
  <1>6. SubSeq(d, 1, 2) = d
    BY <1>1, SubSeqFull
  <1>7. IsPrefix(d, d \o r)
    BY <1>1, <1>4, <1>5, <1>6 DEF IsPrefix
  <1>8. QED  BY <1>1, <1>7 DEF HasAuthority, d

(* What the parser finds of user and password. *)
UserRead(text, u, w, k) ==
  /\ HostStart(text) = k
  /\ ~(HasUser(text) /\ IsAt(text, UsernameEnd(text), "@"))
  /\ u = IF HasUser(text) THEN SubSeq(text, 3, UsernameEnd(text) - 1) ELSE <<>>
  /\ w = IF HasUser(text) THEN SubSeq(text, UsernameEnd(text) + 1, PasswordEnd(text) - 1)
         ELSE <<>>

(* Nobody. *)
LEMMA NoUserRead ==
  ASSUME NEW r \in Seq(Char), Free(r, AtSign)
  PROVE  UserRead(<<"/", "/">> \o r, <<>>, <<>>, 3)
  <1> DEFINE d == <<"/", "/">>
  <1>1. d \in Seq(Char) /\ Free(d, AtSign)
    <2>1. d \in Seq(Char)
      BY MarksAreChars
    <2>2. Free(d, AtSign)
      <3>1. \A i \in 1..2 : d[i] = "/"
        OBVIOUS
      <3>2. Len(d) = 2
        OBVIOUS
      <3> HIDE DEF d
      <3>3. QED  BY <3>1, <3>2 DEF Free, AtSign
    <2>3. QED  BY <2>1, <2>2
  <1> HIDE DEF d
  <1>2. Free(d \o r, AtSign)
    BY <1>1, FreeConcat
  <1>3. ~HasUser(d \o r)
    BY <1>2, UserOrNot
  <1>4. QED  BY <1>3 DEF UserRead, HostStart, d

(* Somebody. *)
LEMMA SomebodyRead ==
  ASSUME NEW u \in Seq(Char), Free(u, UserStops), NEW w \in Seq(Char), Free(w, AtSign),
         NEW r \in Seq(Char)
  PROVE  LET head == UserGroup(<<"/", "/">>, u, <<":">>, w, <<"@">>)
         IN  UserRead(head \o r, u, w, Len(head) + 1)
  <1> DEFINE d == <<"/", "/">>
             c == <<":">>
             a == <<"@">>
             n == d \o u
             k == n \o c
             m == k \o w
             e == a \o r
             f == w \o e
             g == c \o f
             head == UserGroup(d, u, c, w, a)
             text == head \o r
  <1>1. /\ d \in Seq(Char) /\ c \in Seq(Char) /\ a \in Seq(Char)
        /\ Len(d) = 2 /\ Len(c) = 1 /\ Len(a) = 1 /\ Len(u) \in Nat /\ Len(w) \in Nat
    <2>1. d \in Seq(Char) /\ Len(d) = 2
      BY MarksAreChars
    <2>2. c \in Seq(Char) /\ Len(c) = 1
      BY MarksAreChars
    <2>3. a \in Seq(Char) /\ Len(a) = 1
      BY MarksAreChars
    <2>4. QED  BY <2>1, <2>2, <2>3
  <1>2. e \in Seq(Char) /\ Meets(e, AtSign)
    <2>1. e \in Seq(Char) /\ e # <<>> /\ e[1] = "@"
      BY MarksAreChars, Led
    <2>2. QED  BY <2>1 DEF Meets, AtSign
  <1>3. g \in Seq(Char) /\ g # <<>> /\ g[1] = ":" /\ Meets(g, UserStops) /\ f \in Seq(Char)
    <2> HIDE DEF e
    <2>1. f \in Seq(Char)
      BY <1>2, Glued
    <2> HIDE DEF f
    <2>2. g \in Seq(Char) /\ g # <<>> /\ g[1] = ":"
      BY <2>1, MarksAreChars, Led
    <2>3. QED  BY <2>1, <2>2 DEF Meets, UserStops
  <1>4. head = m \o a
    <2> HIDE DEF d, c, a
    <2>1. d \in Seq(Char) /\ c \in Seq(Char) /\ a \in Seq(Char)
      BY <1>1
    <2>2. \A x, y, z, t \in Seq(Char) : UserGroup(d, x, y, z, t) = (((d \o x) \o y) \o z) \o t
      BY <2>1, UserGroups, Zenon
    <2>3. \A y, z, t \in Seq(Char) : UserGroup(d, u, y, z, t) = (((d \o u) \o y) \o z) \o t
      BY <2>2, Zenon
    <2>4. \A z, t \in Seq(Char) : UserGroup(d, u, c, z, t) = (((d \o u) \o c) \o z) \o t
      BY <2>1, <2>3, Zenon
    <2>5. QED  BY <2>1, <2>4, Zenon
  <1> HIDE DEF d, c, a
  <1>5. n \in Seq(Char) /\ Len(n) = 2 + Len(u)
    <2>1. d \in Seq(Char) /\ Len(d) = 2
      BY <1>1
    <2>2. d \o u \in Seq(Char) /\ Len(d \o u) = Len(d) + Len(u)
      BY <2>1, Glued
    <2>3. QED  BY <2>1, <2>2
  <1> HIDE DEF n
  <1>6. k \in Seq(Char) /\ Len(k) = 2 + Len(u) + 1
    BY <1>1, <1>5, Glued
  <1> HIDE DEF k
  <1>7. m \in Seq(Char) /\ Len(m) = Len(k) + Len(w)
    BY <1>6, Glued
  <1> HIDE DEF m
  <1>8. head \in Seq(Char) /\ Len(head) = Len(m) + 1
    BY <1>1, <1>4, <1>7, Glued
  <1>9. text = m \o e
    <2> HIDE DEF head
    <2>1. (m \o a) \o r = m \o (a \o r)
      BY <1>1, <1>7, Assoc, Zenon
    <2>2. QED  BY <1>4, <2>1
  <1> HIDE DEF e, head
  <1>10. text = k \o f
    <2>1. (k \o w) \o e = k \o (w \o e)
      BY <1>2, <1>6, Assoc, Zenon
    <2>2. QED  BY <1>9, <2>1 DEF m
  <1> HIDE DEF f, text
  <1>11. text = n \o g
    <2>1. (n \o c) \o f = n \o (c \o f)
      BY <1>1, <1>3, <1>5, Assoc, Zenon
    <2>2. QED  BY <1>10, <2>1 DEF k
  <1> HIDE DEF g
  <1>12. UsernameEnd(text) = Len(n) + 1
    <2>1. Find(d \o u \o g, Len(d) + 1, UserStops) = Len(d) + Len(u) + 1
      <3>1. d \in Seq(Char) /\ g \in Seq(Char) /\ Meets(g, UserStops)
        BY <1>1, <1>3
      <3>2. \A y, z \in Seq(Char) : Free(y, UserStops) /\ Meets(z, UserStops) =>
              Find(d \o y \o z, Len(d) + 1, UserStops) = Len(d) + Len(y) + 1
        BY <3>1, Across, Z3
      <3>3. QED  BY <3>1, <3>2, Zenon
    <2>2. Len(d) + 1 = 3 /\ Len(d) + Len(u) + 1 = Len(n) + 1
      BY <1>1, <1>5
    <2>3. QED  BY <1>11, <2>1, <2>2 DEF n, UsernameEnd, UserStops
  <1>13. PasswordEnd(text) = Len(m) + 1
    <2>1. Find(k \o w \o e, Len(k) + 1, AtSign) = Len(k) + Len(w) + 1
      <3>1. k \in Seq(Char) /\ e \in Seq(Char) /\ Meets(e, AtSign)
        BY <1>2, <1>6
      <3>2. \A y, z \in Seq(Char) : Free(y, AtSign) /\ Meets(z, AtSign) =>
              Find(k \o y \o z, Len(k) + 1, AtSign) = Len(k) + Len(y) + 1
        BY <3>1, Across, Z3
      <3>3. QED  BY <3>1, <3>2, Zenon
    <2>2. UsernameEnd(text) + 1 = Len(k) + 1 /\ Len(k) + Len(w) + 1 = Len(m) + 1
      BY <1>1, <1>5, <1>6, <1>7, <1>12
    <2>3. QED  BY <1>9, <2>1, <2>2 DEF m, PasswordEnd, AtSign
  <1>14. HasUser(text)
    <2>1. e # <<>> /\ e[1] = "@"
      BY MarksAreChars, Led DEF e, a
    <2>2. IsAt(text, Len(m) + 1, "@")
      BY <1>2, <1>7, <1>9, <2>1, Behind
    <2>3. QED  BY <2>2, UserOrNot
  <1>15. ~IsAt(text, UsernameEnd(text), "@")
    <2>1. IsAt(text, Len(n) + 1, "@") <=> g # <<>> /\ g[1] = "@"
      BY <1>3, <1>5, <1>11, Behind
    <2>2. QED  BY <1>3, <1>12, <2>1
  <1>16. SubSeq(text, 3, UsernameEnd(text) - 1) = u
    <2>1. SubSeq(d \o u \o g, Len(d) + 1, Len(d) + Len(u)) = u
      BY <1>1, <1>3, Cut
    <2>2. Len(d) + 1 = 3 /\ Len(d) + Len(u) = (Len(n) + 1) - 1
      BY <1>1, <1>5
    <2>3. QED  BY <1>11, <1>12, <2>1, <2>2 DEF n
  <1>17. SubSeq(text, UsernameEnd(text) + 1, PasswordEnd(text) - 1) = w
    <2>1. SubSeq(k \o w \o e, Len(k) + 1, Len(k) + Len(w)) = w
      BY <1>2, <1>6, Cut
    <2>2. Len(k) + 1 = (Len(n) + 1) + 1 /\ Len(k) + Len(w) = (Len(m) + 1) - 1
      BY <1>1, <1>5, <1>6, <1>7
    <2>3. QED  BY <1>9, <1>12, <1>13, <2>1, <2>2 DEF m
  <1>18. HostStart(text) = Len(head) + 1
    BY <1>8, <1>13, <1>14 DEF HostStart
  <1>19. UserRead(text, u, w, Len(head) + 1)
    BY <1>14, <1>15, <1>16, <1>17, <1>18 DEF UserRead
  <1>20. QED  BY <1>19 DEF text, head, d, c, a

(* A host, as such or in brackets. *)
HostText(literal, d) == IF literal THEN (<<"[">> \o d) \o <<"]">> ELSE d

(* A host between what it follows and the port or the path. *)
HostAt(text, h, literal, d, t) ==
  /\ h \in Seq(Char) /\ d \in Seq(Char) /\ t \in Seq(Char) /\ literal \in BOOLEAN
  /\ IF literal THEN Free(d, Closing) ELSE Free(d, HostStops)
  /\ t = <<>> \/ t[1] \in {":", "/"}
  /\ text = (h \o HostText(literal, d)) \o t
  /\ HostStart(text) = Len(h) + 1

(* The host ends where the port or the path begins, also behind a bracket. *)
LEMMA PlainHostRead ==
  ASSUME NEW text, NEW h, NEW d, NEW t, HostAt(text, h, FALSE, d, t)
  PROVE  HostEnd(text) = Len(h \o d) + 1
  <1>0. /\ h \in Seq(Char) /\ d \in Seq(Char) /\ t \in Seq(Char)
        /\ Free(d, HostStops) /\ (t = <<>> \/ t[1] \in {":", "/"})
        /\ text = (h \o d) \o t /\ HostStart(text) = Len(h) + 1
    BY DEF HostAt, HostText
  <1>1. Meets(t, HostStops) /\ ~(t # <<>> /\ t[1] = "[")
    BY <1>0 DEF Meets, HostStops
  <1>2. Find(text, Len(h) + 1, HostStops) = Len(h) + Len(d) + 1
    BY <1>0, <1>1, Across, Z3
  <1>3. h \o d \in Seq(Char) /\ Len(h) + Len(d) + 1 = Len(h \o d) + 1
    BY <1>0, Glued
  <1>4. ~IsAt(text, Len(h \o d) + 1, "[")
    <2> DEFINE x == h \o d
    <2>1. x \in Seq(Char) /\ text = x \o t /\ t \in Seq(Char)
      BY <1>0, <1>3
    <2> HIDE DEF x
    <2>2. ~IsAt(text, Len(x) + 1, "[")
      BY <1>1, <2>1, Behind
    <2>3. QED  BY <2>2 DEF x
  <1>5. Find(text, HostStart(text), {"[", ":", "/"}) = Len(h \o d) + 1
    BY <1>0, <1>2, <1>3 DEF HostStops
  <1>6. QED  BY <1>4, <1>5 DEF HostEnd

(* An IP literal ends behind its bracket, whatever colons it has. *)
LEMMA LiteralHostRead ==
  ASSUME NEW text, NEW h, NEW d, NEW t, HostAt(text, h, TRUE, d, t)
  PROVE  HostEnd(text) = Len(h \o ((<<"[">> \o d) \o <<"]">>)) + 1
  <1>0. /\ h \in Seq(Char) /\ d \in Seq(Char) /\ t \in Seq(Char) /\ Free(d, Closing)
        /\ text = (h \o ((<<"[">> \o d) \o <<"]">>)) \o t /\ HostStart(text) = Len(h) + 1
    BY DEF HostAt, HostText
  <1> USE <1>0
  <1> DEFINE o == <<"[">>
             c == <<"]">>
             b == o \o d
             e == b \o c
             g == e \o t
             f == c \o t
             k == h \o b
  <1>1. /\ o \in Seq(Char) /\ c \in Seq(Char) /\ Len(o) = 1 /\ Len(c) = 1
        /\ Len(h) \in Nat /\ Len(d) \in Nat /\ <<>> \in Seq(Char) /\ Len(<<>>) = 0
    <2>1. o \in Seq(Char) /\ Len(o) = 1
      BY MarksAreChars, One
    <2>2. c \in Seq(Char) /\ Len(c) = 1
      BY MarksAreChars, One
    <2>3. QED  BY <2>1, <2>2
  <1>2. f \in Seq(Char) /\ Meets(f, Closing)
    <2>1. f \in Seq(Char) /\ f # <<>> /\ f[1] = "]"
      BY MarksAreChars, Led
    <2>2. QED  BY <2>1 DEF Meets, Closing
  <1>3. b \in Seq(Char) /\ b # <<>> /\ b[1] = "["
    BY MarksAreChars, Led
  <1>4. Free(b, Closing)
    <2>1. Free(o, Closing)
      <3>1. "[" \notin Closing
        BY DEF Closing
      <3>2. QED  BY <3>1, One
    <2> HIDE DEF o
    <2>2. QED  BY <1>1, <2>1, FreeConcat
  <1>5. text = (h \o e) \o t
    OBVIOUS
  <1> HIDE DEF o, c, b
  <1>6. e \in Seq(Char) /\ e # <<>> /\ e[1] = "[" /\ Len(e) = Len(b) + 1 /\ Len(b) \in Nat
    <2>1. e \in Seq(Char) /\ Len(e) = Len(b) + Len(c)
      BY <1>1, <1>3, Glued
    <2>2. e # <<>> /\ e[1] = "["
      BY <1>1, <1>3
    <2>3. Len(b) \in Nat
      BY <1>3
    <2>4. QED  BY <1>1, <2>1, <2>2, <2>3
  <1>7. k \in Seq(Char) /\ Len(k) = Len(h) + Len(b)
    BY <1>3, Glued
  <1> HIDE DEF k
  <1>8. Len(h \o e) = Len(k) + 1
    <2> HIDE DEF e
    <2>1. Len(h \o e) = Len(h) + Len(e)
      BY <1>6, Glued
    <2>2. QED  BY <1>1, <1>6, <1>7, <2>1
  <1>9. text = h \o g
    <2> HIDE DEF e
    <2>1. (h \o e) \o t = h \o (e \o t)
      BY <1>6, Assoc, Zenon
    <2>2. QED  BY <1>5, <2>1
  <1>10. g \in Seq(Char) /\ g # <<>> /\ g[1] = "["
    <2> HIDE DEF e
    <2>1. QED  BY <1>6
  <1> HIDE DEF g
  <1>11. text = (h \o b) \o f
    <2>0. b \in Seq(Char) /\ c \in Seq(Char)
      BY <1>1, <1>3
    <2>5. \A y, z \in Seq(Char) : (h \o y) \o z = h \o (y \o z)
      BY Assoc, Zenon
    <2>2. h \o (b \o c) = (h \o b) \o c
      BY <2>0, <2>5, Zenon
    <2> DEFINE x == h \o b
    <2>1. x \in Seq(Char)
      BY <1>3, Glued
    <2> HIDE DEF x
    <2>3. (x \o c) \o t = x \o (c \o t)
      BY <1>1, <2>1, Assoc, Zenon
    <2>4. QED  BY <1>5, <2>2, <2>3 DEF x
  <1> HIDE DEF f, e
  <1>12. Find(text, Len(h) + 1, HostStops) = Len(h) + 1
    <2>1. Meets(g, HostStops) /\ Free(<<>>, HostStops)
      BY <1>10 DEF Meets, Free, HostStops
    <2>2. Find(h \o <<>> \o g, Len(h) + 1, HostStops) = Len(h) + Len(<<>>) + 1
      <3> DEFINE nil == <<>>
      <3>1. g \in Seq(Char) /\ nil \in Seq(Char) /\ Free(nil, HostStops)
        BY <1>1, <1>10, <2>1
      <3> HIDE DEF nil
      <3>2. Find(h \o nil \o g, Len(h) + 1, HostStops) = Len(h) + Len(nil) + 1
        BY <2>1, <3>1, Across, Z3
      <3>3. QED  BY <3>2 DEF nil
    <2>3. h \o <<>> = h /\ Len(h) + Len(<<>>) + 1 = Len(h) + 1
      BY <1>1, ConcatEmptySeq
    <2>4. QED  BY <1>9, <2>2, <2>3
  <1>13. IsAt(text, Len(h) + 1, "[")
    BY <1>9, <1>10, Behind
  <1>14. Find(text, Len(h) + 1, Closing) = Len(k) + 1
    <2>1. Find(h \o b \o f, Len(h) + 1, Closing) = Len(h) + Len(b) + 1
      BY <1>2, <1>3, <1>4, Across
    <2>2. Len(h) + Len(b) + 1 = Len(k) + 1
      BY <1>7
    <2>3. QED  BY <1>11, <2>1, <2>2
  <1>15. HostEnd(text) = Len(k) + 1 + 1
    BY <1>12, <1>13, <1>14 DEF HostEnd, HostStops, Closing
  <1>16. HostEnd(text) = Len(h \o e) + 1
    BY <1>8, <1>15
  <1>17. QED  BY <1>16 DEF e, b, o, c

(* What the parser finds of the host. *)
LEMMA HostRead ==
  ASSUME NEW text, NEW h, NEW literal, NEW d, NEW t, HostAt(text, h, literal, d, t)
  PROVE  /\ HostText(literal, d) \in Seq(Char)
         /\ HostEnd(text) = Len(h \o HostText(literal, d)) + 1
         /\ HostEnd(text) <= Len(text) + 1
         /\ SubSeq(text, HostStart(text), HostEnd(text) - 1) = HostText(literal, d)
  <1> DEFINE b == HostText(literal, d)
  <1>0. /\ h \in Seq(Char) /\ d \in Seq(Char) /\ t \in Seq(Char) /\ literal \in BOOLEAN
        /\ text = (h \o b) \o t /\ HostStart(text) = Len(h) + 1
    BY DEF HostAt
  <1> USE <1>0
  <1>1. b \in Seq(Char)
    <2>1. <<"[">> \in Seq(Char) /\ <<"]">> \in Seq(Char)
      BY MarksAreChars
    <2>2. (<<"[">> \o d) \o <<"]">> \in Seq(Char)
      BY <2>1, Glued
    <2>3. QED  BY <2>2 DEF HostText
  <1>2. HostEnd(text) = Len(h \o b) + 1
    <2>1. CASE literal
      <3>1. b = (<<"[">> \o d) \o <<"]">>
        BY <2>1 DEF HostText
      <3>2. HostAt(text, h, TRUE, d, t)
        BY <2>1
      <3>3. QED  BY <3>1, <3>2, LiteralHostRead, Zenon
    <2>2. CASE ~literal
      <3>1. b = d
        BY <2>2 DEF HostText
      <3>2. HostAt(text, h, FALSE, d, t)
        BY <2>2
      <3>3. QED  BY <3>1, <3>2, PlainHostRead, Zenon
    <2>3. QED  BY <2>1, <2>2
  <1> HIDE DEF b
  <1>3. text = (h \o b) \o t
    OBVIOUS
  <1>4. /\ h \o b \in Seq(Char) /\ Len(h \o b) = Len(h) + Len(b)
        /\ Len(h) \in Nat /\ Len(b) \in Nat /\ Len(t) \in Nat
    BY <1>1, Glued
  <1>5. Len(text) = Len(h \o b) + Len(t)
    <2> DEFINE x == h \o b
    <2>1. x \in Seq(Char)
      BY <1>4
    <2> HIDE DEF x
    <2>2. Len(x \o t) = Len(x) + Len(t)
      BY <2>1, Glued
    <2>3. QED  BY <1>3, <2>2 DEF x
  <1>6. HostEnd(text) <= Len(text) + 1
    BY <1>2, <1>4, <1>5
  <1>7. SubSeq(text, HostStart(text), HostEnd(text) - 1) = b
    <2>1. SubSeq(h \o b \o t, Len(h) + 1, Len(h) + Len(b)) = b
      BY <1>1, Cut, Z3
    <2>2. HostEnd(text) - 1 = Len(h) + Len(b)
      BY <1>2, <1>4
    <2>3. QED  BY <1>3, <2>1, <2>2
  <1>8. QED  BY <1>1, <1>2, <1>6, <1>7 DEF b

(* What the parser finds of the port. *)
PortAt(text, h, d, r) ==
  /\ h \in Seq(Char) /\ d \in Seq(Char) /\ r \in Seq(Char) /\ Free(d, Slash) /\ Meets(r, Slash)
  /\ text = (h \o Marked(":", d)) \o r /\ HostEnd(text) = Len(h) + 1

(* The parser finds the port, and where it ends. *)
LEMMA PortRead ==
  ASSUME NEW text, NEW h, NEW d, NEW r, PortAt(text, h, d, r)
  PROVE  /\ HasPort(text) <=> d # <<>>
         /\ d # <<>> => PortText(text) = d
         /\ PortEnd(text) = Len(h \o Marked(":", d)) + 1
  <1>0. /\ h \in Seq(Char) /\ d \in Seq(Char) /\ r \in Seq(Char)
        /\ Free(d, Slash) /\ Meets(r, Slash)
        /\ text = (h \o Marked(":", d)) \o r /\ HostEnd(text) = Len(h) + 1
    BY DEF PortAt
  <1> USE <1>0
  <1>1. CASE d = <<>>
    <2>1. Marked(":", d) = <<>>
      BY <1>1 DEF Marked
    <2>2. h \o <<>> = h
      BY ConcatEmptySeq
    <2>3. text = h \o r
      BY <2>1, <2>2
    <2>4. ~(r # <<>> /\ r[1] = ":")
      BY DEF Meets, Slash
    <2>5. ~HasPort(text)
      BY <2>3, <2>4, Behind DEF HasPort
    <2>6. QED  BY <1>1, <2>1, <2>2, <2>5 DEF PortEnd
  <1>2. CASE d # <<>>
    <2> DEFINE c == <<":">>
               e == c \o d
               k == h \o c
               f == d \o r
               g == c \o f
    <2>1. c \in Seq(Char) /\ Len(c) = 1
      BY MarksAreChars, One
    <2>2. Marked(":", d) = e
      BY <1>2 DEF Marked
    <2>3. f \in Seq(Char)
      BY Glued
    <2>4. g \in Seq(Char) /\ g # <<>> /\ g[1] = ":"
      <3> HIDE DEF f
      <3>1. QED  BY <2>3, MarksAreChars, Led
    <2>5. k \in Seq(Char) /\ Len(k) = Len(h) + 1 /\ Len(h) \in Nat /\ Len(d) \in Nat
      BY <2>1, Glued
    <2> HIDE DEF c
    <2>6. h \o e = k \o d
      BY <2>1, Assoc, Zenon
    <2>7. text = (h \o e) \o r
      BY <2>2
    <2> HIDE DEF k
    <2>8. text = k \o d \o r
      BY <2>6, <2>7
    <2>9. text = h \o g
      <3>1. (k \o d) \o r = k \o (d \o r)
        BY <2>5, Assoc, Zenon
      <3> HIDE DEF f
      <3>2. (h \o c) \o f = h \o (c \o f)
        BY <2>1, <2>3, Assoc, Zenon
      <3>3. QED  BY <2>8, <3>1, <3>2 DEF f, k
    <2> HIDE DEF g, f
    <2>10. HasPort(text)
      BY <2>4, <2>9, Behind DEF HasPort
    <2>11. Find(k \o d \o r, Len(k) + 1, Slash) = Len(k) + Len(d) + 1
      <3>1. k \in Seq(Char)
        BY <2>5
      <3>2. QED  BY <3>1, Across, Z3
    <2>12. PortEnd(text) = Len(k) + Len(d) + 1
      <3>1. HostEnd(text) + 1 = Len(k) + 1
        BY <2>5
      <3>2. QED  BY <2>8, <2>10, <2>11, <3>1 DEF PortEnd, Slash
    <2>13. PortText(text) = d
      <3>1. k \in Seq(Char)
        BY <2>5
      <3>2. SubSeq(k \o d \o r, Len(k) + 1, Len(k) + Len(d)) = d
        BY <3>1, Cut, Z3
      <3>3. HostEnd(text) + 1 = Len(k) + 1 /\ (Len(k) + Len(d) + 1) - 1 = Len(k) + Len(d)
        BY <2>5
      <3>4. QED  BY <2>8, <2>12, <3>2, <3>3 DEF PortText
    <2>14. Len(h \o e) = Len(k) + Len(d)
      <3>1. k \in Seq(Char)
        BY <2>5
      <3>2. Len(k \o d) = Len(k) + Len(d)
        BY <3>1, Glued
      <3>3. QED  BY <2>6, <3>2
    <2>15. QED  BY <1>2, <2>2, <2>10, <2>12, <2>13, <2>14
  <1>3. QED  BY <1>1, <1>2

(* The path behind an authority. *)
RootText(rooted) == IF rooted THEN <<"/">> ELSE <<>>

PathAt(text, h, rooted, d) ==
  /\ h \in Seq(Char) /\ d \in Seq(Char) /\ rooted \in BOOLEAN /\ (rooted \/ d = <<>>)
  /\ text = (h \o RootText(rooted)) \o d
  /\ HasAuthority(text) /\ PortEnd(text) = Len(h) + 1

(* The parser finds the path, with or without its slash. *)
LEMMA PathRead ==
  ASSUME NEW text, NEW h, NEW rooted, NEW d, PathAt(text, h, rooted, d)
  PROVE  IsRooted(text) = rooted /\ From(text, PathStart(text)) = d
  <1>0. /\ h \in Seq(Char) /\ d \in Seq(Char) /\ rooted \in BOOLEAN /\ (rooted \/ d = <<>>)
        /\ text = (h \o RootText(rooted)) \o d
        /\ HasAuthority(text) /\ PortEnd(text) = Len(h) + 1
    BY DEF PathAt
  <1> USE <1>0
  <1>1. CASE rooted
    <2> DEFINE c == <<"/">>
               k == h \o c
               g == c \o d
    <2>1. c \in Seq(Char) /\ Len(c) = 1
      BY MarksAreChars, One
    <2>2. g \in Seq(Char) /\ g # <<>> /\ g[1] = "/"
      BY MarksAreChars, Led
    <2>3. text = (h \o c) \o d
      BY <1>1 DEF RootText
    <2> HIDE DEF c
    <2>4. k \in Seq(Char) /\ Len(k) = Len(h) + 1
      <3>1. h \o c \in Seq(Char) /\ Len(h \o c) = Len(h) + Len(c)
        BY <2>1, Glued
      <3>2. QED  BY <2>1, <3>1
    <2>5. text = h \o g
      <3>1. (h \o c) \o d = h \o (c \o d)
        BY <2>1, Assoc, Zenon
      <3>2. QED  BY <2>3, <3>1
    <2> HIDE DEF k, g
    <2>6. IsAt(text, PortEnd(text), "/")
      BY <2>2, <2>5, Behind
    <2>7. PathStart(text) = Len(k) + 1
      BY <2>4, <2>6 DEF PathStart
    <2>8. From(text, Len(k) + 1) = d
      BY <2>3, <2>4, Rest DEF k
    <2>9. IsRooted(text) = TRUE
      BY <2>6 DEF IsRooted
    <2>10. QED  BY <1>1, <2>7, <2>8, <2>9
  <1>2. CASE ~rooted
    <2>1. text = h /\ d = <<>> /\ Len(h) \in Nat
      <3>1. (h \o <<>>) \o <<>> = h
        BY ConcatEmptySeq
      <3>2. QED  BY <1>2, <3>1 DEF RootText
    <2>2. ~IsAt(text, PortEnd(text), "/")
      BY <2>1 DEF IsAt
    <2>3. PathStart(text) = Len(h) + 1
      BY <2>1, <2>2 DEF PathStart
    <2>4. SubSeq(h, Len(h) + 1, Len(h)) = <<>>
      BY <2>1, SubSeqEmpty
    <2>5. IsRooted(text) = FALSE
      BY <2>2 DEF IsRooted
    <2>6. QED  BY <1>2, <2>1, <2>3, <2>4, <2>5 DEF From
  <1>3. QED  BY <1>1, <1>2

(* The path alone. *)
LEMMA BarePathRead ==
  ASSUME NEW rooted \in BOOLEAN, NEW d \in Seq(Char), ~IsAt(d, 1, "/"),
         NEW text, text = RootText(rooted) \o d
  PROVE  ~HasAuthority(text) /\ IsRooted(text) = rooted /\ From(text, PathStart(text)) = d
  <1>1. /\ Len(d) \in Nat /\ ~(Len(d) > 0 /\ d[1] = "/")
    BY DEF IsAt
  <1>2. CASE rooted
    <2> DEFINE c == <<"/">>
    <2>1. c \in Seq(Char) /\ Len(c) = 1 /\ c[1] = "/"
      BY MarksAreChars, One
    <2>2. text = c \o d
      BY <1>2 DEF RootText
    <2> HIDE DEF c
    <2>3. /\ Len(text) = 1 + Len(d) /\ text[1] = "/"
          /\ ~IsAt(text, 2, "/")
      <3>1. Len(c \o d) = Len(c) + Len(d)
        BY <2>1, Glued
      <3>2. (<<"/">> \o d)[1] = "/"
        BY MarksAreChars, Led
      <3>3. IsAt(c \o d, Len(c) + 1, "/") <=> d # <<>> /\ d[1] = "/"
        BY <2>1, Behind
      <3>4. Len(c) + 1 = 2 /\ Len(c) + Len(d) = 1 + Len(d) /\ (d # <<>> => Len(d) > 0)
        BY <1>1, <2>1
      <3>5. QED  BY <1>1, <2>2, <3>1, <3>2, <3>3, <3>4 DEF c
    <2>4. ~HasAuthority(text)
      <3>1. SUFFICES ASSUME HasAuthority(text) PROVE FALSE
        OBVIOUS
      <3>2. 2 <= Len(text) /\ SubSeq(<<"/", "/">>, 1, 2) = SubSeq(text, 1, 2)
        BY <3>1 DEF HasAuthority, IsPrefix
      <3>3. text[2] # "/"
        BY <1>1, <2>3, <3>2 DEF IsAt
      <3>4. SubSeq(<<"/", "/">>, 1, 2)[2] = "/" /\ SubSeq(text, 1, 2)[2] = text[2]
        <4>1. text \in Seq(Char)
          BY <2>1, <2>2, Glued
        <4>2. SubSeq(text, 1, 2)[2] = text[2]
          BY <3>2, <4>1
        <4>3. SubSeq(<<"/", "/">>, 1, 2)[2] = "/"
          OBVIOUS
        <4>4. QED  BY <4>2, <4>3
      <3>5. QED  BY <3>2, <3>3, <3>4
    <2>5. IsAt(text, 1, "/")
      BY <1>1, <2>3 DEF IsAt
    <2>6. PathStart(text) = Len(c) + 1
      BY <2>1, <2>4, <2>5 DEF PathStart
    <2>7. From(text, Len(c) + 1) = d
      BY <2>1, <2>2, Rest
    <2>8. IsRooted(text) = TRUE
      BY <2>4, <2>5 DEF IsRooted
    <2>9. QED  BY <1>2, <2>4, <2>6, <2>7, <2>8
  <1>3. CASE ~rooted
    <2>1. text = d
      BY <1>3, ConcatEmptySeq DEF RootText
    <2>2. ~HasAuthority(text)
      <3>1. SUFFICES ASSUME HasAuthority(text) PROVE FALSE
        OBVIOUS
      <3>2. 2 <= Len(text) /\ SubSeq(<<"/", "/">>, 1, 2) = SubSeq(text, 1, 2)
        BY <3>1 DEF HasAuthority, IsPrefix
      <3>3. SubSeq(<<"/", "/">>, 1, 2)[1] = "/" /\ SubSeq(text, 1, 2)[1] = text[1]
        BY <2>1, <3>2
      <3>4. QED  BY <1>1, <2>1, <3>2, <3>3
    <2>3. PathStart(text) = 1 /\ IsRooted(text) = FALSE
      BY <2>1, <2>2 DEF PathStart, IsRooted
    <2>4. SubSeq(d, 1, Len(d)) = d
      BY SubSeqFull
    <2>5. QED  BY <1>3, <2>1, <2>2, <2>3, <2>4 DEF From
  <1>4. QED  BY <1>2, <1>3

-----------------------------------------------------------------------------
(* The text of some parts, as its outline.                                 *)
UserText(p) == IF p.user = <<>> THEN <<>> ELSE p.user \o <<":">> \o p.password \o <<"@">>

AuthorityText(p) ==
  IF ~p.authority THEN <<>>
  ELSE <<"/", "/">> \o UserText(p) \o Domain(p) \o Marked(":", p.port)

Body(p) == AuthorityText(p) \o RootText(p.rooted) \o p.path

(* Texts one behind the other, grouped in the ways the parser reads them. *)
AreTexts(a, b, c, d, e) ==
  a \in Seq(Char) /\ b \in Seq(Char) /\ c \in Seq(Char) /\ d \in Seq(Char) /\ e \in Seq(Char)

AreThree(a, b, c) == a \in Seq(Char) /\ b \in Seq(Char) /\ c \in Seq(Char)

(* Of three texts the grouping does not matter. *)
LEMMA AssocThree ==
  ASSUME NEW a, NEW b, NEW c, AreThree(a, b, c)
  PROVE  (a \o b) \o c = a \o (b \o c)
  BY Assoc DEF AreThree

Grouped(a, b, c, d, e) ==
  /\ (((a \o b) \o c) \o d) \o e = ((a \o b) \o c) \o (d \o e)
  /\ (((a \o b) \o c) \o d) \o e = (a \o b) \o (c \o (d \o e))
  /\ (((a \o b) \o c) \o d) \o e = a \o (b \o (c \o (d \o e)))

(* Five texts read from the first one. *)
LEMMA FirstOfFive ==
  ASSUME NEW a, NEW b, NEW c, NEW d, NEW e, AreTexts(a, b, c, d, e)
  PROVE  Grouped(a, b, c, d, e)
  <1>0. /\ a \in Seq(Char) /\ b \in Seq(Char) /\ c \in Seq(Char)
        /\ d \in Seq(Char) /\ e \in Seq(Char)
    BY DEF AreTexts
  <1> DEFINE x == a \o b
             y == x \o c
             r == d \o e
             t == c \o r
  <1>1. x \in Seq(Char) /\ r \in Seq(Char)
    BY <1>0, Glued
  <1> HIDE DEF r, x
  <1>2. y \in Seq(Char) /\ t \in Seq(Char)
    BY <1>0, <1>1, Glued
  <1> HIDE DEF y
  <1> HIDE DEF t
  <1>7. AreThree(y, d, e) /\ AreThree(x, c, r) /\ AreThree(a, b, t)
    BY <1>0, <1>1, <1>2 DEF AreThree
  <1>8. \A i, j, k : AreThree(i, j, k) => (i \o j) \o k = i \o (j \o k)
    BY AssocThree
  <1>3. (y \o d) \o e = y \o (d \o e)
    BY <1>7, <1>8
  <1>4. (x \o c) \o r = x \o (c \o r)
    BY <1>7, <1>8
  <1>5. (a \o b) \o t = a \o (b \o t)
    BY <1>7, <1>8
  <1>6. QED  BY <1>3, <1>4, <1>5 DEF x, y, r, t, Grouped

GroupedInTheMiddle(a, b, c, d, e, f) ==
  ((((a \o b) \o c) \o d) \o e) \o f = (a \o ((b \o c) \o d)) \o (e \o f)

(* Six texts with the three in the middle taken together. *)
LEMMA MiddleOfSix ==
  ASSUME NEW a, NEW b, NEW c, NEW d, NEW e, NEW f \in Seq(Char), AreTexts(a, b, c, d, e)
  PROVE  GroupedInTheMiddle(a, b, c, d, e, f)
  <1>0. /\ a \in Seq(Char) /\ b \in Seq(Char) /\ c \in Seq(Char)
        /\ d \in Seq(Char) /\ e \in Seq(Char)
    BY DEF AreTexts
  <1> DEFINE x == b \o c
             y == x \o d
             h == a \o y
  <1>1. x \in Seq(Char)
    BY <1>0, Glued
  <1> HIDE DEF x
  <1>2. y \in Seq(Char)
    BY <1>0, <1>1, Glued
  <1> HIDE DEF y
  <1>5. h \in Seq(Char)
    BY <1>0, <1>2, Glued
  <1> HIDE DEF h
  <1>8. AreThree(a, b, c) /\ AreThree(a, x, d) /\ AreThree(h, e, f)
    BY <1>0, <1>1, <1>5 DEF AreThree
  <1>9. \A i, j, k : AreThree(i, j, k) => (i \o j) \o k = i \o (j \o k)
    BY AssocThree
  <1>3. (a \o b) \o c = a \o (b \o c)
    BY <1>8, <1>9
  <1>4. (a \o x) \o d = a \o (x \o d)
    BY <1>8, <1>9
  <1>6. (h \o e) \o f = h \o (e \o f)
    BY <1>8, <1>9
  <1>7. QED  BY <1>3, <1>4, <1>6 DEF x, y, h, GroupedInTheMiddle

(* A text without some characters stays without them in brackets or behind *)
(* a mark that is none of them.                                            *)
LEMMA WrappedFree ==
  ASSUME NEW X, "[" \notin X, "]" \notin X, "/" \notin X, ":" \notin X,
         NEW d \in Seq(Char), Free(d, X), NEW literal \in BOOLEAN, NEW rooted \in BOOLEAN
  PROVE  /\ HostText(literal, d) \in Seq(Char) /\ Free(HostText(literal, d), X)
         /\ Marked(":", d) \in Seq(Char) /\ Free(Marked(":", d), X)
         /\ RootText(rooted) \in Seq(Char) /\ Free(RootText(rooted), X)
  <1> DEFINE o == <<"[">>
             c == <<"]">>
             k == <<":">>
             s == <<"/">>
             nil == <<>>
  <1>1. o \in Seq(Char) /\ Free(o, X) /\ c \in Seq(Char) /\ Free(c, X)
    BY MarksAreChars, One
  <1>2. k \in Seq(Char) /\ Free(k, X) /\ s \in Seq(Char) /\ Free(s, X)
    BY MarksAreChars, One
  <1>3. nil \in Seq(Char) /\ Free(nil, X)
    BY DEF Free
  <1>4. HostText(literal, d) = (IF literal THEN (o \o d) \o c ELSE d)
    BY DEF HostText
  <1>5. Marked(":", d) = (IF d = <<>> THEN nil ELSE k \o d)
    BY DEF Marked
  <1>6. RootText(rooted) = (IF rooted THEN s ELSE nil)
    BY DEF RootText
  <1> HIDE DEF o, c, k, s, nil
  <1> DEFINE b == o \o d
  <1>7. b \in Seq(Char) /\ Free(b, X)
    BY <1>1, FreeConcat, Glued
  <1> HIDE DEF b
  <1>8. b \o c \in Seq(Char) /\ Free(b \o c, X)
    BY <1>1, <1>7, FreeConcat, Glued
  <1>9. k \o d \in Seq(Char) /\ Free(k \o d, X)
    BY <1>2, FreeConcat, Glued
  <1>10. QED  BY <1>2, <1>3, <1>4, <1>5, <1>6, <1>8, <1>9 DEF b

(* A domain is a host. *)
LEMMA DomainIsHost ==
  ASSUME NEW p
  PROVE  Domain(p) = HostText(p.literal, p.domain)
  BY DEF Domain, HostText

(* The pieces of a body, without the characters that end it.               *)
LEMMA Pieces ==
  ASSUME NEW p \in Parts, NEW X, X \in {AtSign, Marks}
  PROVE  /\ Domain(p) \in Seq(Char) /\ Free(Domain(p), X)
         /\ Marked(":", p.port) \in Seq(Char) /\ Free(Marked(":", p.port), X)
         /\ RootText(p.rooted) \in Seq(Char) /\ Free(RootText(p.rooted), X)
         /\ p.path \in Seq(Char) /\ Free(p.path, X)
  <1>1. /\ X \subseteq {"@", "?", "#"}
        /\ "[" \notin X /\ "]" \notin X /\ "/" \notin X /\ ":" \notin X
    BY DEF AtSign, Marks
  <1>2. p.literal \in BOOLEAN /\ p.rooted \in BOOLEAN
    BY DEF Parts
  <1>3. /\ p.domain \in Seq(Char) /\ Free(p.domain, {"[", "]", "/", "@", "?", "#"})
        /\ p.port \in Seq(Char) /\ Free(p.port, {"/", "@", "?", "#"})
        /\ p.path \in Seq(Char) /\ Free(p.path, {"@", "?", "#"})
    BY PartTexts
  <1>4. Free(p.domain, X) /\ Free(p.port, X) /\ Free(p.path, X)
    BY <1>1, <1>3 DEF Free
  <1>5. HostText(p.literal, p.domain) \in Seq(Char) /\ Free(HostText(p.literal, p.domain), X)
    BY <1>1, <1>2, <1>3, <1>4, WrappedFree, Zenon
  <1>6. Marked(":", p.port) \in Seq(Char) /\ Free(Marked(":", p.port), X)
    BY <1>1, <1>2, <1>3, <1>4, WrappedFree, Zenon
  <1>7. RootText(p.rooted) \in Seq(Char) /\ Free(RootText(p.rooted), X)
    BY <1>1, <1>2, <1>3, <1>4, WrappedFree, Zenon
  <1>8. QED  BY <1>3, <1>4, <1>5, <1>6, <1>7, DomainIsHost

(* User and password behind the slashes. *)
LEMMA HeadText ==
  ASSUME NEW p \in Parts
  PROVE  /\ p.user # <<>> => <<"/", "/">> \o UserText(p) =
                               UserGroup(<<"/", "/">>, p.user, <<":">>, p.password, <<"@">>)
         /\ p.user = <<>> => <<"/", "/">> \o UserText(p) = <<"/", "/">>
         /\ UserText(p) \in Seq(Char) /\ Free(UserText(p), Marks)
         /\ <<"/", "/">> \o UserText(p) \in Seq(Char) /\ Free(<<"/", "/">> \o UserText(p), Marks)
  <1> DEFINE d == <<"/", "/">>
             c == <<":">>
             a == <<"@">>
             nil == <<>>
             u == p.user
             w == p.password
  <1>1. /\ c \in Seq(Char) /\ Free(c, Marks) /\ a \in Seq(Char) /\ Free(a, Marks)
    <2>1. ":" \notin Marks /\ "@" \notin Marks
      BY DEF Marks
    <2>2. QED  BY <2>1, MarksAreChars, One
  <1>2. d \in Seq(Char) /\ Free(d, Marks)
    <2>1. d \in Seq(Char)
      BY MarksAreChars
    <2>2. (\A i \in 1..2 : d[i] = "/") /\ Len(d) = 2
      OBVIOUS
    <2> HIDE DEF d
    <2>3. QED  BY <2>1, <2>2 DEF Free, Marks
  <1>3. /\ u \in Seq(Char) /\ Free(u, Marks) /\ w \in Seq(Char) /\ Free(w, Marks)
    <2>1. /\ p.user \in Seq(Char) /\ Free(p.user, {":", "@", "?", "#"})
          /\ p.password \in Seq(Char) /\ Free(p.password, {"@", "?", "#"})
      BY PartTexts
    <2>2. QED  BY <2>1 DEF Free, Marks
  <1>4. UserText(p) = IF u = nil THEN nil ELSE ((u \o c) \o w) \o a
    BY DEF UserText
  <1>5. nil \in Seq(Char) /\ Free(nil, Marks) /\ d \o nil = d
    BY <1>2, ConcatEmptySeq DEF Free
  <1> HIDE DEF d, c, a, nil, u, w
  <1> DEFINE x == u \o c
             y == x \o w
             z == y \o a
  <1>6. x \in Seq(Char) /\ Free(x, Marks)
    BY <1>1, <1>3, FreeConcat, Glued
  <1> HIDE DEF x
  <1>7. y \in Seq(Char) /\ Free(y, Marks)
    BY <1>3, <1>6, FreeConcat, Glued
  <1> HIDE DEF y
  <1>8. z \in Seq(Char) /\ Free(z, Marks)
    BY <1>1, <1>7, FreeConcat, Glued
  <1>9. UserText(p) = IF u = nil THEN nil ELSE z
    BY <1>4 DEF x, y
  <1>10. d \o z = UserGroup(d, u, c, w, a)
    BY DEF UserGroup, x, y
  <1> HIDE DEF z
  <1>11. UserText(p) \in Seq(Char) /\ Free(UserText(p), Marks)
    BY <1>5, <1>8, <1>9
  <1>12. d \o UserText(p) \in Seq(Char) /\ Free(d \o UserText(p), Marks)
    BY <1>2, <1>11, FreeConcat, Glued
  <1>13. u # nil => d \o UserText(p) = UserGroup(d, u, c, w, a)
    BY <1>9, <1>10
  <1>14. u = nil => d \o UserText(p) = d
    BY <1>5, <1>9
  <1>15. QED  BY <1>11, <1>12, <1>13, <1>14 DEF d, c, a, nil, u, w

(* An authority, for all the parser finds in it, and the path behind it. *)
AuthorityRead(text, p) ==
  /\ HasAuthority(text) /\ ~(HostEnd(text) > Len(text) + 1)
  /\ UserRead(text, p.user, p.password, HostStart(text))
  /\ SubSeq(text, HostStart(text), HostEnd(text) - 1) = Domain(p)
  /\ HasPort(text) <=> p.port # <<>>
  /\ p.port # <<>> => PortText(text) = p.port
  /\ IsRooted(text) = p.rooted /\ From(text, PathStart(text)) = p.path

(* What follows the scheme is read back as the parts it was written from, *)
(* when it has an authority.                                              *)
LEMMA BodyWithAuthority ==
  ASSUME NEW p \in Parts, p.authority, p.category = Hierarchical, WellFormed(p)
  PROVE  AuthorityRead(Body(p), p)
  <1> DEFINE h == <<"/", "/">> \o UserText(p)
             b == Domain(p)
             m == Marked(":", p.port)
             e == RootText(p.rooted)
             d == p.path
             r == e \o d
             t == m \o r
             text == (((h \o b) \o m) \o e) \o d
  <1>1. Body(p) = text
    BY DEF Body, AuthorityText
  <1>2. /\ h \in Seq(Char) /\ b \in Seq(Char) /\ m \in Seq(Char) /\ e \in Seq(Char)
        /\ d \in Seq(Char)
        /\ Free(b, AtSign) /\ Free(m, AtSign) /\ Free(e, AtSign) /\ Free(d, AtSign)
    BY HeadText, Pieces
  <1>3. r \in Seq(Char) /\ Free(r, AtSign) /\ Meets(r, Slash)
    <2>1. r \in Seq(Char) /\ Free(r, AtSign)
      <3> HIDE DEF e, d
      <3>1. QED  BY <1>2, FreeConcat, Glued
    <2>2. CASE p.rooted
      <3>1. e = <<"/">>
        BY <2>2 DEF RootText
      <3>2. r # <<>> /\ r[1] = "/"
        <4> HIDE DEF d
        <4>1. QED  BY <1>2, <3>1, MarksAreChars, Led
      <3>3. QED  BY <2>1, <3>2 DEF Meets, Slash
    <2>3. CASE ~p.rooted
      <3>1. e = <<>> /\ d = <<>>
        BY <2>3 DEF RootText, WellFormed
      <3>2. r = <<>>
        BY <3>1, ConcatEmptySeq
      <3>3. QED  BY <2>1, <3>2 DEF Meets
    <2>4. QED  BY <2>2, <2>3
  <1>4. t \in Seq(Char) /\ Free(t, AtSign) /\ (t = <<>> \/ t[1] \in {":", "/"})
    <2> HIDE DEF r
    <2>1. t \in Seq(Char) /\ Free(t, AtSign)
      <3> HIDE DEF m
      <3>1. QED  BY <1>2, <1>3, FreeConcat, Glued
    <2>2. CASE p.port = <<>>
      <3>1. m = <<>>
        BY <2>2 DEF Marked
      <3>2. t = r
        BY <1>3, <3>1, ConcatEmptySeq
      <3>3. QED  BY <1>3, <2>1, <3>2 DEF Meets, Slash
    <2>3. CASE p.port # <<>>
      <3>1. m # <<>> /\ m[1] = ":"
        BY <2>3, PartTexts, MarksAreChars, MarkedText
      <3> HIDE DEF m
      <3>2. t # <<>> /\ t[1] = ":"
        BY <1>2, <1>3, <3>1
      <3>3. QED  BY <2>1, <3>2
    <2>4. QED  BY <2>2, <2>3
  <1>5. /\ text = ((h \o b) \o m) \o r
        /\ text = (h \o b) \o t
        /\ text = h \o (b \o t)
    <2> HIDE DEF h, b, m, e, d
    <2>1. AreTexts(h, b, m, e, d)
      BY <1>2 DEF AreTexts
    <2>2. Grouped(h, b, m, e, d)
      BY <2>1, FirstOfFive, Zenon
    <2>3. QED  BY <2>2 DEF Grouped
  <1>6. b \o t \in Seq(Char) /\ Free(b \o t, AtSign)
    <2> HIDE DEF b, t
    <2>1. QED  BY <1>2, <1>4, FreeConcat, Glued
  <1>7. UserRead(text, p.user, p.password, Len(h) + 1) /\ HasAuthority(text)
    <2> DEFINE g == b \o t
    <2>1. g \in Seq(Char) /\ Free(g, AtSign) /\ text = h \o g
      BY <1>5, <1>6
    <2> HIDE DEF g, text
    <2>2. CASE p.user = <<>>
      <3>1. p.password = <<>> /\ h = <<"/", "/">>
        BY <2>2, HeadText DEF WellFormed
      <3>2. HasAuthority(<<"/", "/">> \o g) /\ Len(<<"/", "/">>) = 2
        BY <2>1, Slashes
      <3>3. UserRead(<<"/", "/">> \o g, <<>>, <<>>, 3)
        BY <2>1, NoUserRead
      <3>4. Len(<<"/", "/">>) + 1 = 3
        BY <3>2
      <3> HIDE DEF h
      <3>5. QED  BY <2>1, <2>2, <3>1, <3>2, <3>3, <3>4
    <2>3. CASE p.user # <<>>
      <3>1. h = UserGroup(<<"/", "/">>, p.user, <<":">>, p.password, <<"@">>)
        BY <2>3, HeadText
      <3>2. /\ p.user \in Seq(Char) /\ Free(p.user, UserStops)
            /\ p.password \in Seq(Char) /\ Free(p.password, AtSign)
        BY PartTexts DEF Free, UserStops, AtSign
      <3>3. UserRead(h \o g, p.user, p.password, Len(h) + 1)
        <4> HIDE DEF h
        <4>1. QED  BY <2>1, <3>1, <3>2, SomebodyRead, Zenon
      <3>4. HasAuthority(text)
        <4> DEFINE y == UserText(p)
                   k == <<"/", "/">>
        <4>1. y \in Seq(Char) /\ k \in Seq(Char)
          BY HeadText, MarksAreChars
        <4> HIDE DEF y, k
        <4>2. (k \o y) \o g = k \o (y \o g)
          BY <2>1, <4>1, Assoc, Zenon
        <4>3. y \o g \in Seq(Char)
          BY <2>1, <4>1, Glued
        <4>4. HasAuthority(<<"/", "/">> \o (y \o g))
          BY <4>3, Slashes
        <4>5. text = k \o (y \o g)
          BY <2>1, <4>2 DEF y, k
        <4>6. QED  BY <4>4, <4>5 DEF k
      <3>5. QED  BY <2>1, <3>3, <3>4
    <2>4. QED  BY <2>2, <2>3
  <1>8. HostStart(text) = Len(h) + 1
    BY <1>7 DEF UserRead
  <1>9. HostAt(text, h, p.literal, p.domain, t)
    <2>1. b = HostText(p.literal, p.domain)
      BY DomainIsHost
    <2>2. p.literal \in BOOLEAN /\ p.domain \in Seq(Char)
      BY PartTexts DEF Parts
    <2>3. IF p.literal THEN Free(p.domain, Closing) ELSE Free(p.domain, HostStops)
      <3>1. Free(p.domain, {"[", "]", "/", "@", "?", "#"})
        BY PartTexts
      <3>2. ~p.literal => \A i \in 1..Len(p.domain) : p.domain[i] # ":"
        BY DEF WellFormed
      <3>3. QED  BY <3>1, <3>2 DEF Free, Closing, HostStops
    <2> HIDE DEF h, t, b, text
    <2>4. QED  BY <1>2, <1>4, <1>5, <1>8, <2>1, <2>2, <2>3 DEF HostAt
  <1>10. /\ HostEnd(text) = Len(h \o b) + 1
         /\ ~(HostEnd(text) > Len(text) + 1)
         /\ SubSeq(text, HostStart(text), HostEnd(text) - 1) = b
    <2>1. b = HostText(p.literal, p.domain)
      BY DomainIsHost
    <2>0. h \o b \in Seq(Char) /\ text \in Seq(Char)
      <3>1. text = h \o (b \o t)
        BY <1>5
      <3> HIDE DEF h, b, t, text
      <3>2. QED  BY <1>2, <1>6, <3>1, Glued
    <2>3. Len(h \o b) \in Nat /\ Len(text) \in Nat
      <3> DEFINE x == h \o b
      <3>1. x \in Seq(Char)
        BY <2>0
      <3> HIDE DEF x, text
      <3>2. QED  BY <2>0, <3>1 DEF x
    <2> HIDE DEF h, t, b, text
    <2>2. /\ HostEnd(text) = Len(h \o b) + 1
          /\ HostEnd(text) <= Len(text) + 1
          /\ SubSeq(text, HostStart(text), HostEnd(text) - 1) = b
      BY <1>9, <2>1, HostRead, Zenon
    <2>4. ~(HostEnd(text) > Len(text) + 1)
      BY <2>2, <2>3
    <2>5. QED  BY <2>2, <2>4
  <1> DEFINE k == h \o b
  <1>11. k \in Seq(Char)
    BY <1>2, Glued
  <1>12. PortAt(text, k, p.port, r)
    <2>1. p.port \in Seq(Char) /\ Free(p.port, Slash)
      BY PartTexts DEF Free, Slash
    <2>2. text = (k \o Marked(":", p.port)) \o r
      BY <1>5
    <2>3. HostEnd(text) = Len(k) + 1
      BY <1>10
    <2> HIDE DEF k, r, text
    <2>4. QED  BY <1>3, <1>11, <2>1, <2>2, <2>3 DEF PortAt
  <1>13. /\ HasPort(text) <=> p.port # <<>>
         /\ p.port # <<>> => PortText(text) = p.port
         /\ PortEnd(text) = Len(k \o m) + 1
    <2> HIDE DEF k, r, text
    <2>1. QED  BY <1>12, PortRead, Zenon
  <1>14. PathAt(text, k \o m, p.rooted, d)
    <2>1. k \o m \in Seq(Char)
      <3> HIDE DEF k, m
      <3>1. QED  BY <1>2, <1>11, Glued
    <2>2. p.rooted \in BOOLEAN /\ (p.rooted \/ d = <<>>)
      BY DEF WellFormed, Parts
    <2>3. text = ((k \o m) \o RootText(p.rooted)) \o d
      OBVIOUS
    <2> HIDE DEF k, m, d, text
    <2>4. QED  BY <1>2, <1>7, <1>13, <2>1, <2>2, <2>3 DEF PathAt
  <1>15. IsRooted(text) = p.rooted /\ From(text, PathStart(text)) = d
    <2> HIDE DEF k, m, d, text
    <2>1. QED  BY <1>14, PathRead, Zenon
  <1>16. AuthorityRead(text, p)
    <2> HIDE DEF k, m, h, r, t, e, text
    <2>1. QED  BY <1>7, <1>8, <1>10, <1>13, <1>15 DEF AuthorityRead
  <1>17. QED  BY <1>1, <1>16

(* The body of a hierarchical URI without an authority. *)
LEMMA BodyWithoutAuthority ==
  ASSUME NEW p \in Parts, ~p.authority, p.category = Hierarchical, WellFormed(p)
  PROVE  /\ ~HasAuthority(Body(p)) /\ IsRooted(Body(p)) = p.rooted
         /\ From(Body(p), PathStart(Body(p))) = p.path
         /\ Domain(p) = <<>> /\ p.user = <<>> /\ p.password = <<>> /\ p.port = <<>>
  <1>1. RootText(p.rooted) \in Seq(Char) /\ p.path \in Seq(Char) /\ p.rooted \in BOOLEAN
    BY Pieces DEF Parts
  <1>2. Body(p) = RootText(p.rooted) \o p.path
    BY <1>1, ConcatEmptySeq DEF Body, AuthorityText
  <1>3. ~IsAt(p.path, 1, "/")
    BY DEF WellFormed
  <1>4. Domain(p) = <<>> /\ p.user = <<>> /\ p.password = <<>> /\ p.port = <<>>
    BY DEF WellFormed, Domain
  <1>5. QED  BY <1>1, <1>2, <1>3, <1>4, BarePathRead

(* The body of another URI is its path. *)
LEMMA BodyNonHierarchical ==
  ASSUME NEW p \in Parts, p.category = NonHierarchical, WellFormed(p)
  PROVE  /\ Body(p) = p.path /\ p.rooted = FALSE
         /\ Domain(p) = <<>> /\ p.user = <<>> /\ p.password = <<>> /\ p.port = <<>>
  <1>1. ~p.authority /\ ~p.rooted
    BY DEF WellFormed
  <1>2. p.path \in Seq(Char) /\ p.rooted \in BOOLEAN
    BY PartTexts DEF Parts
  <1>3. Body(p) = p.path
    BY <1>1, <1>2, ConcatEmptySeq DEF Body, AuthorityText, RootText
  <1>4. Domain(p) = <<>> /\ p.user = <<>> /\ p.password = <<>> /\ p.port = <<>>
    BY <1>1 DEF WellFormed, Domain
  <1>5. QED  BY <1>1, <1>2, <1>3, <1>4

(* The text of some parts in the outline the parser reads. *)
LEMMA ComposeOutline ==
  ASSUME NEW p \in Parts
  PROVE  /\ Compose(p) = ((p.scheme \o <<":">>) \o Body(p))
                           \o (Marked("?", QueryOf(p)) \o Marked("#", p.fragment))
         /\ Body(p) \in Seq(Char) /\ Free(Body(p), Marks)
         /\ AuthorityText(p) \in Seq(Char)
  <1> DEFINE a == p.scheme \o <<":">>
             b == AuthorityText(p)
             c == RootText(p.rooted)
             d == p.path
             e == Marked("?", QueryOf(p))
             f == Marked("#", p.fragment)
             x == b \o c
  <1>1. a \in Seq(Char)
    <2>1. p.scheme \in Seq(Char) /\ <<":">> \in Seq(Char)
      BY PartTexts, MarksAreChars
    <2>2. QED  BY <2>1, Glued
  <1>2. c \in Seq(Char) /\ Free(c, Marks) /\ d \in Seq(Char) /\ Free(d, Marks)
    BY Pieces
  <1>3. e \in Seq(Char) /\ f \in Seq(Char)
    BY PartTexts, QueryText, MarksAreChars, MarkedText
  <1>4. b \in Seq(Char) /\ Free(b, Marks)
    <2> DEFINE h == <<"/", "/">> \o UserText(p)
               k == Domain(p)
               m == Marked(":", p.port)
               y == h \o k
    <2>1. /\ h \in Seq(Char) /\ Free(h, Marks) /\ k \in Seq(Char) /\ Free(k, Marks)
          /\ m \in Seq(Char) /\ Free(m, Marks)
      BY HeadText, Pieces
    <2>2. b = IF ~p.authority THEN <<>> ELSE (h \o k) \o m
      BY DEF AuthorityText
    <2> HIDE DEF h, k, m
    <2>3. y \in Seq(Char) /\ Free(y, Marks)
      BY <2>1, FreeConcat, Glued
    <2> HIDE DEF y
    <2>4. y \o m \in Seq(Char) /\ Free(y \o m, Marks)
      BY <2>1, <2>3, FreeConcat, Glued
    <2>5. <<>> \in Seq(Char) /\ Free(<<>>, Marks)
      BY DEF Free
    <2>6. QED  BY <2>2, <2>4, <2>5 DEF y
  <1>5. Compose(p) = ((((a \o b) \o c) \o d) \o e) \o f
    BY DEF Compose, AuthorityText, RootText, UserText
  <1>6. Body(p) = x \o d
    BY DEF Body
  <1> HIDE DEF a, b, c, d, e, f
  <1>7. x \in Seq(Char) /\ Free(x, Marks)
    BY <1>2, <1>4, FreeConcat, Glued
  <1>8. GroupedInTheMiddle(a, b, c, d, e, f)
    <2>1. AreTexts(a, b, c, d, e)
      BY <1>1, <1>2, <1>3, <1>4 DEF AreTexts
    <2>2. QED  BY <1>3, <2>1, MiddleOfSix, Zenon
  <1>9. ((((a \o b) \o c) \o d) \o e) \o f = (a \o ((b \o c) \o d)) \o (e \o f)
    BY <1>8 DEF GroupedInTheMiddle
  <1>10. Compose(p) = (a \o Body(p)) \o (e \o f)
    BY <1>5, <1>6, <1>9
  <1> HIDE DEF x
  <1>11. Body(p) \in Seq(Char) /\ Free(Body(p), Marks)
    BY <1>2, <1>6, <1>7, FreeConcat, Glued
  <1>12. QED  BY <1>4, <1>10, <1>11 DEF a, b, e, f

-----------------------------------------------------------------------------
(* What the constructors make of a text of the format.                     *)

(* Among digits there is nothing to pass over and nowhere to stop. *)
LEMMA PastIs ==
  ASSUME NEW s \in Seq(Digits), NEW chars
  PROVE  /\ (\A i \in 1..Len(s) : s[i] \in chars) => Past(s, 1, chars) = Len(s) + 1
         /\ (\A i \in 1..Len(s) : s[i] \notin chars) => Past(s, 1, chars) = 1
  <1> DEFINE T == {j \in 1..Len(s) : s[j] \notin chars} \union {Len(s) + 1}
  <1>0. Len(s) \in Nat
    OBVIOUS
  <1>1. Past(s, 1, chars) = CHOOSE x \in T : \A y \in T : x <= y
    BY DEF Past, Min
  <1>2. ASSUME \A i \in 1..Len(s) : s[i] \in chars
        PROVE  Past(s, 1, chars) = Len(s) + 1
    <2>1. T = {Len(s) + 1}
      BY <1>2
    <2> HIDE DEF T
    <2>2. \A x \in T : x <= x /\ x = Len(s) + 1
      BY <1>0, <2>1
    <2>3. QED  BY <1>1, <2>1, <2>2
  <1>3. ASSUME \A i \in 1..Len(s) : s[i] \notin chars
        PROVE  Past(s, 1, chars) = 1
    <2>1. T = 1..(Len(s) + 1)
      BY <1>0, <1>3
    <2>2. 1 \in T /\ \A y \in T : 1 <= y /\ y \in Nat
      BY <1>0, <2>1
    <2> HIDE DEF T
    <2>3. \A x \in T : (\A y \in T : x <= y) => x = 1
      BY <2>2
    <2>4. QED  BY <1>1, <2>2, <2>3
  <1>4. QED  BY <1>2, <1>3

(* std::stoul reads all of a text of digits. *)
LEMMA DigitsRead ==
  ASSUME NEW s \in Seq(Digits)
  PROVE  NumberIn(s) = s /\ Unsigned(s) = Number(s)
  <1>1. /\ Len(s) \in Nat /\ \A i \in 1..Len(s) : s[i] \in Digits
        /\ \A i \in 1..Len(s) : s[i] \notin Blanks /\ s[i] # "+" /\ s[i] # "-"
    BY UriAssumption DEF Digits
  <1>2. SignAt(s) = 1
    BY <1>1, PastIs DEF SignAt
  <1>3. ~IsAt(s, 1, "+") /\ ~IsAt(s, 1, "-")
    BY <1>1 DEF IsAt
  <1>4. NumberAt(s) = 1
    BY <1>2, <1>3 DEF NumberAt
  <1>5. Past(s, 1, Digits) = Len(s) + 1
    BY <1>1, PastIs
  <1>6. NumberIn(s) = s
    <2>1. (Len(s) + 1) - 1 = Len(s) /\ SubSeq(s, 1, Len(s)) = s
      BY <1>1
    <2>2. QED  BY <1>4, <1>5, <2>1 DEF NumberIn
  <1>7. QED  BY <1>2, <1>3, <1>6 DEF Unsigned

(* A port is a number, in range or not. *)
LEMMA PortRange ==
  ASSUME NEW s \in Seq(Digits)
  PROVE  /\ Number(s) \in Nat /\ Unsigned(s) = Number(s)
         /\ s = <<>> => Number(s) = 0
         /\ s # <<>> => (Stoul(s) = {} <=> Number(s) > UlongMax)
  <1>1. PICK v : Reads(v, s) /\ Number(s) = v[Len(s)]
    BY NumberReads
  <1>2. Len(s) \in 0..Len(s) /\ \A i \in 1..Len(s) : s[i] \in Digits
    OBVIOUS
  <1>3. Number(s) \in Nat /\ v[0] = 0
    BY <1>1, <1>2 DEF Reads
  <1>4. s = <<>> => Len(s) = 0
    OBVIOUS
  <1>5. s = <<>> => Number(s) = 0
    BY <1>1, <1>3, <1>4
  <1>6. NumberIn(s) = s /\ Unsigned(s) = Number(s)
    BY DigitsRead
  <1>7. UlongMax \in Nat
    BY UriAssumption
  <1>8. QED  BY <1>3, <1>5, <1>6, <1>7 DEF Stoul

(* The members of the class, and what they are in an object that stands    *)
(* for some parts.  How its scheme is written, its content and its         *)
(* dictionary depend on where it comes from.                               *)
Members ==
  {"category", "separator", "scheme", "content", "username", "password", "host", "port",
   "path", "rooted", "query", "dict", "fragment"}

ContentStands(u, p) ==
  /\ DOMAIN u = Members /\ u.category = p.category /\ u.separator = p.separator
  /\ u.username = p.user /\ u.password = p.password
  /\ u.host = Domain(p) /\ u.port = Number(p.port)
  /\ u.path = (IF p.category = Hierarchical THEN p.path ELSE <<>>) /\ u.rooted = p.rooted

Stands(u, p, scheme, content, dict) ==
  /\ ContentStands(u, p)
  /\ u.scheme = scheme /\ u.content = content /\ u.dict = dict
  /\ u.query = QueryOf(p) /\ u.fragment = p.fragment

StanzasOf(p) == {<<p.stanzas[i].key, p.stanzas[i].value>> : i \in 1..Len(p.stanzas)}

(* The members of a new object, and of one with an authority or a path. *)
LEMMA BlankMembers ==
  ASSUME NEW category, NEW separator
  PROVE  LET u == Blank(category, separator)
         IN  /\ DOMAIN u = Members /\ u.category = category /\ u.separator = separator
             /\ u.scheme = <<>> /\ u.content = <<>> /\ u.username = <<>>
             /\ u.password = <<>> /\ u.host = <<>> /\ u.port = 0 /\ u.path = <<>>
             /\ u.rooted = FALSE /\ u.query = <<>> /\ u.dict = {} /\ u.fragment = <<>>
  BY DEF Blank, Members

(* The members an authority sets. *)
LEMMA AuthorityMembers ==
  ASSUME NEW u, DOMAIN u = Members, NEW text
  PROVE  LET v == WithAuthority(u, text)
         IN  /\ DOMAIN v = Members /\ v.category = u.category /\ v.separator = u.separator
             /\ v.content = u.content
             /\ v.username = (IF HasUser(text) THEN SubSeq(text, 3, UsernameEnd(text) - 1)
                              ELSE <<>>)
             /\ v.password = (IF HasUser(text)
                              THEN SubSeq(text, UsernameEnd(text) + 1, PasswordEnd(text) - 1)
                              ELSE <<>>)
             /\ v.host = SubSeq(text, HostStart(text), HostEnd(text) - 1)
             /\ v.port = (IF HasPort(text) THEN Unsigned(PortText(text)) ELSE 0)
  BY DEF WithAuthority, Members

(* The members a path sets. *)
LEMMA PathMembers ==
  ASSUME NEW u, DOMAIN u = Members, NEW text
  PROVE  LET v == WithPath(u, text)
         IN  /\ DOMAIN v = Members /\ v.category = u.category /\ v.separator = u.separator
             /\ v.content = u.content /\ v.username = u.username /\ v.password = u.password
             /\ v.host = u.host /\ v.port = u.port
             /\ v.rooted = IsRooted(text) /\ v.path = From(text, PathStart(text))
  BY DEF WithPath, Members

(* The member a content sets. *)
LEMMA ContentMembers ==
  ASSUME NEW u, DOMAIN u = Members, NEW text
  PROVE  LET v == [u EXCEPT !.content = text]
         IN  /\ DOMAIN v = Members /\ v.category = u.category /\ v.separator = u.separator
             /\ v.content = text /\ v.username = u.username /\ v.password = u.password
             /\ v.host = u.host /\ v.port = u.port /\ v.path = u.path /\ v.rooted = u.rooted
  BY DEF Members

(* The members that are set last. *)
LEMMA LastMembers ==
  ASSUME NEW u, DOMAIN u = Members, NEW scheme, NEW query, NEW fragment, NEW dict
  PROVE  LET v == [u EXCEPT !.scheme = scheme, !.query = query, !.fragment = fragment,
                            !.dict = dict]
         IN  /\ DOMAIN v = Members /\ v.category = u.category /\ v.separator = u.separator
             /\ v.content = u.content /\ v.username = u.username /\ v.password = u.password
             /\ v.host = u.host /\ v.port = u.port /\ v.path = u.path /\ v.rooted = u.rooted
             /\ v.scheme = scheme /\ v.query = query /\ v.fragment = fragment
             /\ v.dict = dict
  BY DEF Members

(* The content, in the members.                                            *)
LEMMA ContentStored ==
  ASSUME NEW p \in Parts, WellFormed(p)
  PROVE  LET u == WithContent(Blank(p.category, p.separator), Body(p))
         IN  ContentStands(u, p) /\ u.content = Body(p)
  <1> DEFINE c == Body(p)
             b == Blank(p.category, p.separator)
             e == [b EXCEPT !.content = c]
  <1>1. p.category \in {Hierarchical, NonHierarchical} /\ p.authority \in BOOLEAN
    BY DEF Parts
  <1>2. p.port \in Seq(Digits)
    BY PartTexts
  <1>3. /\ DOMAIN b = Members /\ b.category = p.category /\ b.separator = p.separator
        /\ b.username = <<>> /\ b.password = <<>> /\ b.host = <<>> /\ b.port = 0
        /\ b.path = <<>> /\ b.rooted = FALSE
    <2> DEFINE x == p.category
               y == p.separator
    <2>1. b = Blank(x, y)
      OBVIOUS
    <2> HIDE DEF x, y, b
    <2>2. /\ DOMAIN b = Members /\ b.category = x /\ b.separator = y
          /\ b.username = <<>> /\ b.password = <<>> /\ b.host = <<>> /\ b.port = 0
          /\ b.path = <<>> /\ b.rooted = FALSE
      BY <2>1 DEF Blank, Members
    <2>3. QED  BY <2>2 DEF x, y
  <1> HIDE DEF b
  <1>4. /\ DOMAIN e = Members /\ e.category = p.category /\ e.separator = p.separator
        /\ e.username = <<>> /\ e.password = <<>> /\ e.host = <<>> /\ e.port = 0
        /\ e.path = <<>> /\ e.rooted = FALSE /\ e.content = c
    BY <1>3, ContentMembers
  <1>5. WithContent(b, c) = IF b.category # Hierarchical THEN e
                            ELSE IF HasAuthority(c) THEN WithPath(WithAuthority(e, c), c)
                            ELSE WithPath(e, c)
    BY DEF WithContent
  <1> HIDE DEF e, c
  <1>6. CASE p.category = Hierarchical /\ p.authority
    <2>1. AuthorityRead(c, p)
      BY <1>6, BodyWithAuthority DEF c
    <2>2. (IF HasPort(c) THEN Unsigned(PortText(c)) ELSE 0) = Number(p.port)
      BY <2>1, <1>2, PortRange DEF AuthorityRead
    <2> DEFINE v == WithAuthority(e, c)
               w == WithPath(v, c)
    <2>3. /\ DOMAIN v = Members /\ v.category = p.category /\ v.separator = p.separator
          /\ v.content = c /\ v.username = p.user /\ v.password = p.password
          /\ v.host = Domain(p) /\ v.port = Number(p.port)
      <3>1. DOMAIN e = Members
        BY <1>4
      <3>2. /\ DOMAIN v = Members /\ v.category = e.category /\ v.separator = e.separator
            /\ v.content = e.content
            /\ v.username = (IF HasUser(c) THEN SubSeq(c, 3, UsernameEnd(c) - 1) ELSE <<>>)
            /\ v.password = (IF HasUser(c)
                             THEN SubSeq(c, UsernameEnd(c) + 1, PasswordEnd(c) - 1) ELSE <<>>)
            /\ v.host = SubSeq(c, HostStart(c), HostEnd(c) - 1)
            /\ v.port = (IF HasPort(c) THEN Unsigned(PortText(c)) ELSE 0)
        BY <3>1, AuthorityMembers, Zenon
      <3> HIDE DEF v
      <3>3. /\ p.user = (IF HasUser(c) THEN SubSeq(c, 3, UsernameEnd(c) - 1) ELSE <<>>)
            /\ p.password = (IF HasUser(c)
                             THEN SubSeq(c, UsernameEnd(c) + 1, PasswordEnd(c) - 1) ELSE <<>>)
            /\ SubSeq(c, HostStart(c), HostEnd(c) - 1) = Domain(p)
        BY <2>1, Zenon DEF AuthorityRead, UserRead
      <3>4. v.username = p.user /\ v.password = p.password /\ v.host = Domain(p)
        BY <3>2, <3>3, Zenon
      <3>5. QED  BY <1>4, <2>2, <3>2, <3>4
    <2> HIDE DEF v
    <2>4. /\ DOMAIN w = Members /\ w.category = v.category /\ w.separator = v.separator
          /\ w.content = v.content /\ w.username = v.username /\ w.password = v.password
          /\ w.host = v.host /\ w.port = v.port
          /\ w.rooted = IsRooted(c) /\ w.path = From(c, PathStart(c))
      BY <2>3, PathMembers
    <2>5. WithContent(b, c) = w
      BY <1>3, <1>5, <1>6, <2>1 DEF AuthorityRead, v
    <2> HIDE DEF w
    <2>6. ContentStands(w, p) /\ w.content = c
      BY <1>6, <2>1, <2>3, <2>4 DEF ContentStands, AuthorityRead
    <2>7. QED  BY <2>5, <2>6 DEF b, c
  <1>7. CASE p.category = Hierarchical /\ ~p.authority
    <2>1. /\ ~HasAuthority(c) /\ IsRooted(c) = p.rooted
          /\ From(c, PathStart(c)) = p.path
          /\ Domain(p) = <<>> /\ p.user = <<>> /\ p.password = <<>> /\ p.port = <<>>
      BY <1>7, BodyWithoutAuthority DEF c
    <2>2. Number(p.port) = 0
      BY <1>2, <2>1, PortRange
    <2> DEFINE w == WithPath(e, c)
    <2>3. /\ DOMAIN w = Members /\ w.category = p.category /\ w.separator = p.separator
          /\ w.content = c /\ w.username = <<>> /\ w.password = <<>>
          /\ w.host = <<>> /\ w.port = 0
          /\ w.rooted = IsRooted(c) /\ w.path = From(c, PathStart(c))
      BY <1>4, PathMembers
    <2>4. WithContent(b, c) = w
      BY <1>3, <1>5, <1>7, <2>1
    <2> HIDE DEF w
    <2>5. ContentStands(w, p) /\ w.content = c
      BY <1>7, <2>1, <2>2, <2>3 DEF ContentStands
    <2>6. QED  BY <2>4, <2>5 DEF b, c
  <1>8. CASE p.category = NonHierarchical
    <2>1. /\ p.rooted = FALSE /\ Domain(p) = <<>> /\ p.user = <<>> /\ p.password = <<>>
          /\ p.port = <<>>
      BY <1>8, BodyNonHierarchical
    <2>2. Number(p.port) = 0
      BY <1>2, <2>1, PortRange
    <2>3. WithContent(b, c) = e
      BY <1>3, <1>5, <1>8 DEF Hierarchical, NonHierarchical
    <2>4. ContentStands(e, p) /\ e.content = c
      BY <1>4, <1>8, <2>1, <2>2 DEF ContentStands, Hierarchical, NonHierarchical
    <2>5. QED  BY <2>3, <2>4 DEF b, c
  <1>9. QED  BY <1>1, <1>6, <1>7, <1>8

(* A text of the format is refused for its port or a duplicate key, and    *)
(* read into the object that stands for its parts otherwise.               *)
LEMMA ParseRead ==
  ASSUME NEW p \in Parts, p.scheme # <<>>, WellFormed(p)
  PROVE  /\ PortTooLarge(p) \/ HasDuplicates(p) =>
              Parse(Compose(p), p.category, p.separator) = {}
         /\ ~(PortTooLarge(p) \/ HasDuplicates(p)) =>
              \E u : /\ Parse(Compose(p), p.category, p.separator) = {u}
                    /\ Stands(u, p, InLowerCase(p.scheme), Body(p), StanzasOf(p))
  <1> DEFINE text == Compose(p)
             c == Body(p)
  <1>1. /\ ~SchemeThrows(text) /\ Scheme(text) = InLowerCase(p.scheme)
        /\ Content(text) = c /\ Query(text) = QueryOf(p) /\ Fragment(text) = p.fragment
    <2>1. /\ p.scheme \in Seq(SchemeChars) /\ p.fragment \in Seq(Char)
          /\ QueryOf(p) \in Seq(Char) /\ Free(QueryOf(p), Hash)
      BY PartTexts, QueryText DEF Hash
    <2>2. /\ text = ((p.scheme \o <<":">>) \o c)
                    \o (Marked("?", QueryOf(p)) \o Marked("#", p.fragment))
          /\ c \in Seq(Char) /\ Free(c, Marks)
      BY ComposeOutline
    <2> DEFINE s == p.scheme
               q == QueryOf(p)
               f == p.fragment
    <2>4. s \in Seq(SchemeChars) /\ s # <<>>
      BY <2>1
    <2>5. q \in Seq(Char) /\ Free(q, Hash) /\ f \in Seq(Char)
      BY <2>1
    <2>6. text = ((s \o <<":">>) \o c) \o (Marked("?", q) \o Marked("#", f))
      BY <2>2
    <2> HIDE DEF text, c, s, q, f
    <2>7. Outlined(text, s, c, q, f)
      BY <2>2, <2>4, <2>5, <2>6 DEF Outlined
    <2>8. /\ ~SchemeThrows(text) /\ Scheme(text) = InLowerCase(s)
          /\ Content(text) = c /\ Query(text) = q /\ Fragment(text) = f
      BY <2>7, SetupRead, Zenon
    <2>3. QED  BY <2>8 DEF s, q, f
  <1>2. p.category = Hierarchical /\ HasAuthority(c) /\ AuthorityThrows(c) <=> PortTooLarge(p)
    <2>1. p.port \in Seq(Digits)
      BY PartTexts
    <2>2. CASE p.category = Hierarchical /\ p.authority
      <3>1. AuthorityRead(c, p)
        BY <2>2, BodyWithAuthority
      <3>2. AuthorityThrows(c) <=> HasPort(c) /\ Stoul(PortText(c)) = {}
        <4>1. HasPort(c) => \A i \in 1..Len(PortText(c)) : PortText(c)[i] \in Digits
          BY <2>1, <3>1 DEF AuthorityRead
        <4>2. QED  BY <3>1, <4>1 DEF AuthorityThrows, AuthorityRead, UserRead
      <3>3. AuthorityThrows(c) <=> p.port # <<>> /\ Stoul(p.port) = {}
        BY <3>1, <3>2 DEF AuthorityRead
      <3>4. QED  BY <2>1, <2>2, <3>1, <3>3, PortRange DEF AuthorityRead, PortTooLarge
    <2>3. CASE p.category = Hierarchical /\ ~p.authority
      BY <2>3, BodyWithoutAuthority DEF PortTooLarge
    <2>4. CASE p.category = NonHierarchical
      BY <2>4, BodyNonHierarchical DEF PortTooLarge, Hierarchical, NonHierarchical
    <2>5. p.category \in {Hierarchical, NonHierarchical} /\ p.authority \in BOOLEAN
      BY DEF Parts
    <2>6. QED  BY <2>2, <2>3, <2>4, <2>5
  <1>3. /\ QueryThrows(Query(text), SepOf(p)) <=> HasDuplicates(p)
        /\ Dictionary(Query(text), SepOf(p)) = StanzasOf(p)
    <2>1. p.stanzas # <<>> => QueryOf(p) # <<>>
      BY DEF WellFormed
    <2>2. QED  BY <1>1, <2>1, DictionaryRead DEF StanzasOf
  <1>4. SetupThrows(text, p.category, SepOf(p)) <=> PortTooLarge(p) \/ HasDuplicates(p)
    BY <1>1, <1>2, <1>3 DEF SetupThrows
  <1> DEFINE b == WithContent(Blank(p.category, p.separator), c)
             u == [b EXCEPT !.scheme = Scheme(text), !.query = Query(text),
                            !.fragment = Fragment(text),
                            !.dict = Dictionary(Query(text), SepOf(p))]
  <1>5. ContentStands(b, p) /\ b.content = c
    BY ContentStored
  <1> HIDE DEF b, c, text
  <1>6. Stands(u, p, InLowerCase(p.scheme), c, StanzasOf(p))
    <2>1. DOMAIN b = Members
      BY <1>5 DEF ContentStands
    <2>2. /\ DOMAIN u = Members /\ u.category = b.category /\ u.separator = b.separator
          /\ u.content = b.content /\ u.username = b.username /\ u.password = b.password
          /\ u.host = b.host /\ u.port = b.port /\ u.path = b.path /\ u.rooted = b.rooted
          /\ u.scheme = Scheme(text) /\ u.query = Query(text) /\ u.fragment = Fragment(text)
          /\ u.dict = Dictionary(Query(text), SepOf(p))
      BY <2>1, LastMembers
    <2> HIDE DEF u
    <2>3. QED  BY <1>1, <1>3, <1>5, <2>2 DEF Stands, ContentStands
  <1>7. Parse(text, p.category, p.separator) =
          IF SetupThrows(text, p.category, SepOf(p)) THEN {} ELSE {u}
    BY <1>1 DEF Parse, SepOf, b
  <1> HIDE DEF u
  <1>8. QED  BY <1>4, <1>6, <1>7 DEF text, c

-----------------------------------------------------------------------------
(* What the constructors make of components.                               *)

(* The map of components the format gives. *)
LEMMA GivenComponents ==
  ASSUME NEW p \in Parts
  PROVE  LET c == Components(p)
         IN  /\ DOMAIN c \subseteq ComponentNames /\ "Scheme" \in DOMAIN c
             /\ "Query" \in DOMAIN c /\ "Fragment" \in DOMAIN c
             /\ p.category = Hierarchical =>
                  /\ "Content" \notin DOMAIN c /\ "Path" \in DOMAIN c
                  /\ "Username" \in DOMAIN c /\ "Password" \in DOMAIN c
                  /\ "Host" \in DOMAIN c /\ ("Port" \in DOMAIN c <=> p.port # <<>>)
             /\ p.category = NonHierarchical =>
                  /\ "Content" \in DOMAIN c /\ "Path" \notin DOMAIN c
                  /\ "Username" \notin DOMAIN c /\ "Password" \notin DOMAIN c
                  /\ "Host" \notin DOMAIN c /\ "Port" \notin DOMAIN c
             /\ \A name \in DOMAIN c : c[name] = Component(p)[name]
  <1>1. p.category \in {Hierarchical, NonHierarchical}
    BY DEF Parts
  <1>2. CASE p.category = Hierarchical
    BY <1>2 DEF Components, ComponentNames, Hierarchical, NonHierarchical
  <1>3. CASE p.category = NonHierarchical
    BY <1>3 DEF Components, ComponentNames, Hierarchical, NonHierarchical
  <1>4. QED  BY <1>1, <1>2, <1>3

(* The components, one by one. *)
LEMMA ComponentIs ==
  ASSUME NEW p
  PROVE  /\ Component(p)["Scheme"] = p.scheme /\ Component(p)["Content"] = p.path
         /\ Component(p)["Username"] = p.user /\ Component(p)["Password"] = p.password
         /\ Component(p)["Host"] = Domain(p) /\ Component(p)["Port"] = p.port
         /\ Component(p)["Path"] = p.path /\ Component(p)["Query"] = QueryOf(p)
         /\ Component(p)["Fragment"] = p.fragment
  BY DEF Component

(* The members of a URI with some of them replaced. *)
LEMMA OverlayMembers ==
  ASSUME NEW u, DOMAIN u = Members, NEW c
  PROVE  LET v == Overlay(u, c)
         IN  /\ DOMAIN v = Members /\ v.category = u.category /\ v.separator = u.separator
             /\ v.rooted = u.rooted /\ v.dict = u.dict
             /\ v.scheme = Given(c, "Scheme", u.scheme)
             /\ v.content = Given(c, "Content", u.content)
             /\ v.username = Given(c, "Username", u.username)
             /\ v.password = Given(c, "Password", u.password)
             /\ v.host = Given(c, "Host", u.host) /\ v.port = PortOf(c, u.port)
             /\ v.path = Given(c, "Path", u.path) /\ v.query = Given(c, "Query", u.query)
             /\ v.fragment = Given(c, "Fragment", u.fragment)
  BY DEF Overlay, Members

(* A blank URI with a root or without one. *)
LEMMA RootedMembers ==
  ASSUME NEW category, NEW separator, NEW rooted
  PROVE  LET u == [Blank(category, separator) EXCEPT !.rooted = rooted]
         IN  /\ DOMAIN u = Members /\ u.category = category /\ u.separator = separator
             /\ u.scheme = <<>> /\ u.content = <<>> /\ u.username = <<>>
             /\ u.password = <<>> /\ u.host = <<>> /\ u.port = 0 /\ u.path = <<>>
             /\ u.rooted = rooted /\ u.query = <<>> /\ u.dict = {} /\ u.fragment = <<>>
  BY DEF Blank, Members

(* Components of the format are refused for their port, and make the       *)
(* object that stands for the parts otherwise.                             *)
LEMMA ComponentsRead ==
  ASSUME NEW p \in Parts, p.scheme # <<>>, WellFormed(p)
  PROVE  LET made == FromComponents(Components(p), p.category, p.rooted, p.separator)
         IN  /\ PortTooLarge(p) => made = {}
             /\ ~PortTooLarge(p) =>
                  \E u : /\ made = {u}
                         /\ Stands(u, p, p.scheme,
                                   IF p.category = Hierarchical THEN <<>> ELSE p.path, {})
  <1> DEFINE c == Components(p)
             x == p.category
             y == p.separator
             z == p.rooted
             b == [Blank(x, y) EXCEPT !.rooted = z]
             u == Overlay(b, c)
             made == FromComponents(c, x, z, y)
  <1>1. /\ x \in {Hierarchical, NonHierarchical} /\ p.port \in Seq(Digits)
        /\ Hierarchical # NonHierarchical
    BY PartTexts DEF Parts, Hierarchical, NonHierarchical
  <1>2. /\ DOMAIN c \subseteq ComponentNames /\ "Scheme" \in DOMAIN c
        /\ "Query" \in DOMAIN c /\ "Fragment" \in DOMAIN c
        /\ x = Hierarchical =>
             /\ "Content" \notin DOMAIN c /\ "Path" \in DOMAIN c
             /\ "Username" \in DOMAIN c /\ "Password" \in DOMAIN c
             /\ "Host" \in DOMAIN c /\ ("Port" \in DOMAIN c <=> p.port # <<>>)
        /\ x = NonHierarchical =>
             /\ "Content" \in DOMAIN c /\ "Path" \notin DOMAIN c
             /\ "Username" \notin DOMAIN c /\ "Password" \notin DOMAIN c
             /\ "Host" \notin DOMAIN c /\ "Port" \notin DOMAIN c
        /\ \A name \in DOMAIN c : c[name] = Component(p)[name]
    BY GivenComponents, Zenon
  <1>3. /\ DOMAIN b = Members /\ b.category = x /\ b.separator = y
        /\ b.scheme = <<>> /\ b.content = <<>> /\ b.username = <<>>
        /\ b.password = <<>> /\ b.host = <<>> /\ b.port = 0 /\ b.path = <<>>
        /\ b.rooted = z /\ b.query = <<>> /\ b.dict = {} /\ b.fragment = <<>>
    <2> HIDE DEF x, y, z
    <2>1. QED  BY DEF Blank, Members
  <1>4. made = IF ComponentsThrow(c, x) THEN {} ELSE {u}
    BY DEF FromComponents
  <1>5. x = NonHierarchical =>
          /\ p.rooted = FALSE /\ Domain(p) = <<>> /\ p.user = <<>> /\ p.password = <<>>
          /\ p.port = <<>>
    BY BodyNonHierarchical
  <1>0. /\ Component(p)["Scheme"] = p.scheme /\ Component(p)["Content"] = p.path
        /\ Component(p)["Username"] = p.user /\ Component(p)["Password"] = p.password
        /\ Component(p)["Host"] = Domain(p) /\ Component(p)["Port"] = p.port
        /\ Component(p)["Path"] = p.path /\ Component(p)["Query"] = QueryOf(p)
        /\ Component(p)["Fragment"] = p.fragment
    BY ComponentIs
  <1> HIDE DEF b, c
  <1>6. ComponentsThrow(c, x) <=> PortTooLarge(p)
    <2>1. c["Scheme"] # <<>> /\ ("Port" \in DOMAIN c => c["Port"] = p.port)
      BY <1>0, <1>2
    <2>2. CASE x = Hierarchical
      <3>1. ComponentsThrow(c, x) <=> "Port" \in DOMAIN c /\ Stoul(c["Port"]) = {}
        BY <1>2, <2>1, <2>2 DEF ComponentsThrow
      <3>2. ComponentsThrow(c, x) <=> p.port # <<>> /\ Stoul(p.port) = {}
        BY <1>2, <2>1, <2>2, <3>1
      <3>3. QED  BY <1>1, <3>2, PortRange DEF PortTooLarge
    <2>3. CASE x = NonHierarchical
      <3>1. DOMAIN c \cap {"Username", "Password", "Host", "Port", "Path"} = {}
        BY <1>2, <2>3
      <3>2. ~ComponentsThrow(c, x)
        BY <1>1, <1>2, <2>1, <2>3, <3>1 DEF ComponentsThrow
      <3>3. QED  BY <1>5, <2>3, <3>2 DEF PortTooLarge
    <2>4. QED  BY <1>1, <2>2, <2>3
  <1>7. /\ DOMAIN u = Members /\ u.category = b.category /\ u.separator = b.separator
        /\ u.rooted = b.rooted /\ u.dict = b.dict
        /\ u.scheme = Given(c, "Scheme", b.scheme)
        /\ u.content = Given(c, "Content", b.content)
        /\ u.username = Given(c, "Username", b.username)
        /\ u.password = Given(c, "Password", b.password)
        /\ u.host = Given(c, "Host", b.host) /\ u.port = PortOf(c, b.port)
        /\ u.path = Given(c, "Path", b.path) /\ u.query = Given(c, "Query", b.query)
        /\ u.fragment = Given(c, "Fragment", b.fragment)
    BY <1>3, OverlayMembers
  <1> HIDE DEF u, made
  <1>8. Stands(u, p, p.scheme, IF x = Hierarchical THEN <<>> ELSE p.path, {})
    <2>1. /\ u.category = p.category /\ u.separator = p.separator /\ u.rooted = p.rooted
          /\ u.dict = {} /\ u.scheme = p.scheme /\ u.query = QueryOf(p)
          /\ u.fragment = p.fragment
      BY <1>0, <1>2, <1>3, <1>7 DEF Given
    <2>2. /\ u.content = (IF x = Hierarchical THEN <<>> ELSE p.path)
          /\ u.path = (IF x = Hierarchical THEN p.path ELSE <<>>)
      BY <1>0, <1>1, <1>2, <1>3, <1>7 DEF Given
    <2>3. u.username = p.user /\ u.password = p.password /\ u.host = Domain(p)
      BY <1>0, <1>1, <1>2, <1>3, <1>5, <1>7 DEF Given
    <2>4. u.port = Number(p.port)
      <3>1. p.port = <<>> => Number(p.port) = 0
        BY <1>1, PortRange
      <3>2. "Port" \in DOMAIN c => c["Port"] = p.port
        BY <1>0, <1>2
      <3>3. p.port = <<>> <=> "Port" \notin DOMAIN c
        BY <1>1, <1>2, <1>5
      <3>4. Unsigned(p.port) = Number(p.port)
        BY <1>1, PortRange
      <3>5. QED  BY <1>3, <1>7, <3>1, <3>2, <3>3, <3>4 DEF PortOf
    <2>5. QED  BY <1>7, <2>1, <2>2, <2>3, <2>4 DEF Stands, ContentStands
  <1>9. QED  BY <1>4, <1>6, <1>8 DEF c, made

-----------------------------------------------------------------------------
(* What to_string writes.                                                  *)
GroupedAtTheEnd(a, b, c, d, e) ==
  a \o (((b \o c) \o d) \o e) = (((a \o b) \o c) \o d) \o e

(* Five texts, the last four of them grouped. *)
LEMMA LastOfFive ==
  ASSUME NEW a, NEW b, NEW c, NEW d, NEW e, AreTexts(a, b, c, d, e)
  PROVE  GroupedAtTheEnd(a, b, c, d, e)
  <1>0. /\ a \in Seq(Char) /\ b \in Seq(Char) /\ c \in Seq(Char)
        /\ d \in Seq(Char) /\ e \in Seq(Char)
    BY DEF AreTexts
  <1> DEFINE x == b \o c
             y == x \o d
  <1>1. x \in Seq(Char)
    BY <1>0, Glued
  <1> HIDE DEF x
  <1>2. y \in Seq(Char)
    BY <1>0, <1>1, Glued
  <1> HIDE DEF y
  <1>3. AreThree(a, b, c) /\ AreThree(a, x, d) /\ AreThree(a, y, e)
    BY <1>0, <1>1, <1>2 DEF AreThree
  <1>4. \A i, j, k : AreThree(i, j, k) => (i \o j) \o k = i \o (j \o k)
    BY AssocThree
  <1>5. (a \o b) \o c = a \o (b \o c)
    BY <1>3, <1>4
  <1>6. (a \o x) \o d = a \o (x \o d)
    BY <1>3, <1>4
  <1>7. (a \o y) \o e = a \o (y \o e)
    BY <1>3, <1>4
  <1>8. QED  BY <1>5, <1>6, <1>7 DEF x, y, GroupedAtTheEnd

(* The text of an object that stands for some parts is their text. *)
LEMMA TextWritten ==
  ASSUME NEW p \in Parts, WellFormed(p), Writable(p), NEW u, NEW dict,
         Stands(u, p, p.scheme, u.content, dict),
         p.category = NonHierarchical => u.content = p.path
  PROVE  AsText(u) = Compose(p)
  <1> DEFINE a == p.scheme \o <<":">>
             q == Marked("?", QueryOf(p))
             f == Marked("#", p.fragment)
             r == RootText(p.rooted)
             d == p.path
  <1>1. /\ a \in Seq(Char) /\ q \in Seq(Char) /\ f \in Seq(Char) /\ r \in Seq(Char)
        /\ d \in Seq(Char)
    <2>1. p.scheme \in Seq(Char) /\ <<":">> \in Seq(Char)
      BY PartTexts, MarksAreChars
    <2>2. a \in Seq(Char)
      BY <2>1, Glued
    <2>3. q \in Seq(Char) /\ f \in Seq(Char)
      BY PartTexts, QueryText, MarksAreChars, MarkedText
    <2>4. QED  BY <2>2, <2>3, Pieces
  <1>2. /\ u.category = p.category /\ u.scheme = p.scheme /\ u.username = p.user
        /\ u.password = p.password /\ u.host = Domain(p) /\ u.port = Number(p.port)
        /\ u.path = (IF p.category = Hierarchical THEN d ELSE <<>>) /\ u.rooted = p.rooted
        /\ u.query = QueryOf(p) /\ u.fragment = p.fragment
    BY DEF Stands, ContentStands
  <1>3. p.category \in {Hierarchical, NonHierarchical} /\ Hierarchical # NonHierarchical
    BY DEF Parts, Hierarchical, NonHierarchical
  <1>4. GetResource(u) = ((r \o u.path) \o q) \o f
    BY <1>2 DEF GetResource, RootText, Marked
  <1>5. CASE p.category = Hierarchical
    <2>1. p.authority
      BY <1>3, <1>5 DEF Writable
    <2> DEFINE b == AuthorityText(p)
               h == a \o b
    <2>2. b \in Seq(Char)
      BY ComposeOutline
    <2>3. (IF u.username = <<>> \/ u.password = <<>> THEN <<>>
           ELSE u.username \o <<":">> \o u.password \o <<"@">>) = UserText(p)
      <3>1. p.user = <<>> <=> p.password = <<>>
        BY DEF WellFormed
      <3>2. QED  BY <1>2, <3>1 DEF UserText
    <2>4. (IF u.port = 0 THEN <<>> ELSE <<":">> \o Numeral(u.port)) = Marked(":", p.port)
      <3>1. p.port \in Seq(Digits)
        BY PartTexts
      <3>2. p.port = <<>> => u.port = 0
        BY <1>2, <3>1, PortRange
      <3>3. p.port # <<>> => Numeral(u.port) = p.port /\ u.port # 0
        <4>1. p.port # <<>> => DigitOf[p.port[1]] # 0
          BY DEF WellFormed
        <4>2. QED  BY <1>2, <3>1, <4>1, NumeralOfNumber
      <3>4. QED  BY <3>2, <3>3 DEF Marked
    <2>5. AsText(u) = h \o GetResource(u)
      <3>1. b = <<"/", "/">> \o UserText(p) \o u.host \o Marked(":", p.port)
        BY <1>2, <2>1 DEF AuthorityText
      <3>2. u.category = Hierarchical /\ a = u.scheme \o <<":">>
        BY <1>2, <1>5
      <3> HIDE DEF a, b
      <3>3. QED  BY <2>3, <2>4, <3>1, <3>2 DEF AsText
    <2>6. GetResource(u) = ((r \o d) \o q) \o f
      BY <1>2, <1>4, <1>5
    <2>7. Compose(p) = (((h \o r) \o d) \o q) \o f
      BY DEF Compose, AuthorityText, RootText, UserText
    <2> HIDE DEF a, b, q, f, r, d
    <2>8. h \in Seq(Char)
      BY <1>1, <2>2, Glued
    <2> HIDE DEF h
    <2>9. GroupedAtTheEnd(h, r, d, q, f)
      <3>1. AreTexts(h, r, d, q, f)
        BY <1>1, <2>8 DEF AreTexts
      <3>2. QED  BY <3>1, LastOfFive, Zenon
    <2>10. h \o (((r \o d) \o q) \o f) = (((h \o r) \o d) \o q) \o f
      BY <2>9 DEF GroupedAtTheEnd
    <2>11. QED  BY <2>5, <2>6, <2>7, <2>10
  <1>6. CASE p.category = NonHierarchical
    <2>1. Body(p) = d /\ p.rooted = FALSE
      BY <1>6, BodyNonHierarchical
    <2>2. GetResource(u) = q \o f
      <3>1. r = <<>> /\ u.path = <<>>
        BY <1>2, <1>3, <1>6, <2>1 DEF RootText
      <3>2. (<<>> \o <<>>) \o q = q
        BY <1>1, ConcatEmptySeq
      <3>3. QED  BY <1>4, <3>1, <3>2
    <2>3. u.content = d
      BY <1>6
    <2>4. AsText(u) = (a \o d) \o (q \o f)
      <3>1. u.category # Hierarchical /\ a = u.scheme \o <<":">>
        BY <1>2, <1>3, <1>6
      <3> HIDE DEF a, d
      <3>2. QED  BY <2>2, <2>3, <3>1 DEF AsText
    <2>5. Compose(p) = (a \o d) \o (q \o f)
      BY <2>1, ComposeOutline
    <2>6. QED  BY <2>4, <2>5
  <1>7. QED  BY <1>3, <1>5, <1>6

-----------------------------------------------------------------------------
(* Replacing one component.                                                *)

(* Parts that differ in one text. *)
LEMMA OnePartChanged ==
  ASSUME NEW p \in Parts, NEW text \in Texts, NEW value \in Seq(Alphabet[text])
  PROVE  [p EXCEPT ![text] = value] \in Parts
  <1>1. /\ Alphabet.scheme \subseteq SchemeChars
    BY FormatAssumption
  <1>2. text = "scheme" => value \in Seq(SchemeChars)
    BY <1>1, SeqMonotonic
  <1>3. QED  BY <1>2 DEF Parts, Texts

(* The other texts, the query and the form stay. *)
ChangedIn(p, q, text, value) ==
  p \in Parts /\ text \in Texts /\ q = [p EXCEPT ![text] = value]

KeptBut(p, q, text, value) ==
  /\ q[text] = value
  /\ \A other \in Texts : other # text => q[other] = p[other]
  /\ q.category = p.category /\ q.separator = p.separator
  /\ q.authority = p.authority /\ q.literal = p.literal /\ q.rooted = p.rooted
  /\ q.stanzas = p.stanzas /\ QueryOf(q) = QueryOf(p)
  /\ (HasDuplicates(q) <=> HasDuplicates(p)) /\ StanzasOf(q) = StanzasOf(p)

(* Changing the text of one part leaves the other parts, the query too. *)
LEMMA OtherPartsKept ==
  ASSUME NEW p, NEW q, NEW text, NEW value, ChangedIn(p, q, text, value)
  PROVE  KeptBut(p, q, text, value)
  <1>0. p \in Parts /\ text \in Texts /\ q = [p EXCEPT ![text] = value]
    BY DEF ChangedIn
  <1>1. /\ q[text] = value
        /\ \A other \in Texts : other # text => q[other] = p[other]
        /\ q.category = p.category /\ q.separator = p.separator
        /\ q.authority = p.authority /\ q.literal = p.literal /\ q.rooted = p.rooted
        /\ q.stanzas = p.stanzas
    BY <1>0 DEF Parts, Texts
  <1>2. QueryOf(q) = QueryOf(p)
    BY <1>1 DEF QueryOf
  <1>3. HasDuplicates(q) <=> HasDuplicates(p)
    BY <1>1 DEF HasDuplicates
  <1>4. StanzasOf(q) = StanzasOf(p)
    BY <1>1 DEF StanzasOf
  <1>5. QED  BY <1>1, <1>2, <1>3, <1>4 DEF KeptBut

(* Which part a component replaces. *)
LEMMA PartReplaced ==
  ASSUME NEW name \in DOMAIN PartOf
  PROVE  /\ PartOf[name] \in Texts
         /\ name = "Scheme" <=> PartOf[name] = "scheme"
         /\ name = "Username" <=> PartOf[name] = "user"
         /\ name = "Password" <=> PartOf[name] = "password"
         /\ name = "Host" <=> PartOf[name] = "domain"
         /\ name = "Port" <=> PartOf[name] = "port"
         /\ name \in {"Path", "Content"} <=> PartOf[name] = "path"
         /\ name = "Fragment" <=> PartOf[name] = "fragment"
         /\ name # "Query"
  BY DEF PartOf, Texts

(* A replacement is refused for its port, and makes the object that stands *)
(* for the parts with the one replaced otherwise.                          *)
Replacing(p, name, value, u, q) ==
  /\ p \in Parts /\ name \in Replaceable(p) /\ value \in Seq(Alphabet[PartOf[name]])
  /\ Stands(u, p, u.scheme, u.content, u.dict)
  /\ q = [p EXCEPT ![PartOf[name]] = value]

Made(made, name, value, u, q) ==
  /\ name = "Port" /\ Stoul(value) = {} => made = {}
  /\ ~(name = "Port" /\ Stoul(value) = {}) =>
       \E v : /\ made = {v}
             /\ Stands(v, q, IF name = "Scheme" THEN value ELSE u.scheme,
                       IF name = "Content" THEN value ELSE u.content, {})

(* Replacing a component makes an object for the changed parts, or throws. *)
LEMMA Replaced ==
  ASSUME NEW p, NEW name, NEW value, NEW u, NEW q, Replacing(p, name, value, u, q)
  PROVE  Made(Replace(u, [n \in {name} |-> Component(q)[n]]), name, value, u, q)
  <1> DEFINE c == [n \in {name} |-> Component(q)[n]]
             b == [u EXCEPT !.dict = {}]
             v == Overlay(b, c)
             made == Replace(u, c)
  <1>0. /\ p \in Parts /\ name \in Replaceable(p) /\ value \in Seq(Alphabet[PartOf[name]])
        /\ Stands(u, p, u.scheme, u.content, u.dict)
        /\ q = [p EXCEPT ![PartOf[name]] = value]
    BY DEF Replacing
  <1>1. /\ name \in DOMAIN PartOf
        /\ p.category \in {Hierarchical, NonHierarchical} /\ Hierarchical # NonHierarchical
        /\ p.category = Hierarchical => name # "Content"
        /\ p.category = NonHierarchical => name # "Path"
    BY <1>0 DEF Replaceable, Parts, Hierarchical, NonHierarchical
  <1>2. /\ PartOf[name] \in Texts
        /\ name = "Scheme" <=> PartOf[name] = "scheme"
        /\ name = "Username" <=> PartOf[name] = "user"
        /\ name = "Password" <=> PartOf[name] = "password"
        /\ name = "Host" <=> PartOf[name] = "domain"
        /\ name = "Port" <=> PartOf[name] = "port"
        /\ name \in {"Path", "Content"} <=> PartOf[name] = "path"
        /\ name = "Fragment" <=> PartOf[name] = "fragment"
        /\ name # "Query"
    BY <1>1, PartReplaced
  <1>3. /\ q[PartOf[name]] = value
        /\ \A other \in Texts : other # PartOf[name] => q[other] = p[other]
        /\ q.category = p.category /\ q.separator = p.separator
        /\ q.authority = p.authority /\ q.literal = p.literal /\ q.rooted = p.rooted
        /\ q.stanzas = p.stanzas /\ QueryOf(q) = QueryOf(p)
    <2>1. ChangedIn(p, q, PartOf[name], value)
      BY <1>0, <1>2 DEF ChangedIn
    <2>2. KeptBut(p, q, PartOf[name], value)
      BY <2>1, OtherPartsKept, Zenon
    <2>3. QED  BY <2>2 DEF KeptBut
  <1>4. /\ q.scheme = (IF name = "Scheme" THEN value ELSE p.scheme)
        /\ q.user = (IF name = "Username" THEN value ELSE p.user)
        /\ q.password = (IF name = "Password" THEN value ELSE p.password)
        /\ q.domain = (IF name = "Host" THEN value ELSE p.domain)
        /\ q.port = (IF name = "Port" THEN value ELSE p.port)
        /\ q.path = (IF name \in {"Path", "Content"} THEN value ELSE p.path)
        /\ q.fragment = (IF name = "Fragment" THEN value ELSE p.fragment)
    BY <1>2, <1>3 DEF Texts
  <1>5. /\ Component(q)["Scheme"] = q.scheme /\ Component(q)["Content"] = q.path
        /\ Component(q)["Username"] = q.user /\ Component(q)["Password"] = q.password
        /\ Component(q)["Host"] = Domain(q) /\ Component(q)["Port"] = q.port
        /\ Component(q)["Path"] = q.path /\ Component(q)["Query"] = QueryOf(q)
        /\ Component(q)["Fragment"] = q.fragment
    BY ComponentIs
  <1>6. DOMAIN c = {name} /\ c[name] = Component(q)[name]
    OBVIOUS
  <1>7. DOMAIN u = Members
    BY <1>0 DEF Stands, ContentStands
  <1>8. /\ DOMAIN b = Members /\ b.category = u.category /\ b.separator = u.separator
        /\ b.scheme = u.scheme /\ b.content = u.content /\ b.username = u.username
        /\ b.password = u.password /\ b.host = u.host /\ b.port = u.port /\ b.path = u.path
        /\ b.rooted = u.rooted /\ b.query = u.query /\ b.dict = {} /\ b.fragment = u.fragment
    BY <1>7 DEF Members
  <1>9. made = IF "Port" \in DOMAIN c /\ Stoul(c["Port"]) = {} THEN {} ELSE {v}
    BY DEF Replace
  <1> HIDE DEF c, b
  <1>10. /\ DOMAIN v = Members /\ v.category = b.category /\ v.separator = b.separator
         /\ v.rooted = b.rooted /\ v.dict = b.dict
         /\ v.scheme = Given(c, "Scheme", b.scheme)
         /\ v.content = Given(c, "Content", b.content)
         /\ v.username = Given(c, "Username", b.username)
         /\ v.password = Given(c, "Password", b.password)
         /\ v.host = Given(c, "Host", b.host) /\ v.port = PortOf(c, b.port)
         /\ v.path = Given(c, "Path", b.path) /\ v.query = Given(c, "Query", b.query)
         /\ v.fragment = Given(c, "Fragment", b.fragment)
    BY <1>8, OverlayMembers
  <1>11. /\ u.category = p.category /\ u.separator = p.separator
         /\ u.username = p.user /\ u.password = p.password
         /\ u.host = Domain(p) /\ u.port = Number(p.port)
         /\ u.path = (IF p.category = Hierarchical THEN p.path ELSE <<>>)
         /\ u.rooted = p.rooted /\ u.query = QueryOf(p) /\ u.fragment = p.fragment
    BY <1>0 DEF Stands, ContentStands
  <1> HIDE DEF v, made
  <1>12. /\ v.scheme = (IF name = "Scheme" THEN value ELSE u.scheme)
         /\ v.content = (IF name = "Content" THEN value ELSE u.content)
    BY <1>4, <1>5, <1>6, <1>8, <1>10 DEF Given
  <1>13. v.username = q.user /\ v.password = q.password /\ v.fragment = q.fragment
    BY <1>4, <1>5, <1>6, <1>8, <1>10, <1>11 DEF Given
  <1>14. v.query = QueryOf(q) /\ v.dict = {}
    BY <1>2, <1>3, <1>6, <1>8, <1>10, <1>11 DEF Given
  <1>15. v.host = Domain(q)
    <2>1. name # "Host" => Domain(q) = Domain(p)
      BY <1>3, <1>4 DEF Domain
    <2>2. QED  BY <1>5, <1>6, <1>8, <1>10, <1>11, <2>1 DEF Given
  <1>16. v.port = Number(q.port)
    <2>1. name = "Port" => Unsigned(value) = Number(value)
      <3>1. name = "Port" => value \in Seq(Digits)
        <4>1. Alphabet.port \subseteq Digits
          BY FormatAssumption
        <4>2. name = "Port" => value \in Seq(Alphabet.port)
          BY <1>0, <1>2
        <4>3. QED  BY <4>1, <4>2
      <3>2. QED  BY <3>1, PortRange
    <2>2. QED  BY <1>4, <1>5, <1>6, <1>8, <1>10, <1>11, <2>1 DEF PortOf
  <1>17. v.path = (IF q.category = Hierarchical THEN q.path ELSE <<>>)
    BY <1>1, <1>3, <1>4, <1>5, <1>6, <1>8, <1>10, <1>11 DEF Given
  <1>18. v.category = q.category /\ v.separator = q.separator /\ v.rooted = q.rooted
    BY <1>3, <1>8, <1>10, <1>11
  <1>19. Stands(v, q, IF name = "Scheme" THEN value ELSE u.scheme,
                IF name = "Content" THEN value ELSE u.content, {})
    BY <1>10, <1>12, <1>13, <1>14, <1>15, <1>16, <1>17, <1>18 DEF Stands, ContentStands
  <1>20. "Port" \in DOMAIN c /\ Stoul(c["Port"]) = {} <=> name = "Port" /\ Stoul(value) = {}
    BY <1>4, <1>5, <1>6
  <1>21. QED  BY <1>9, <1>19, <1>20 DEF made, c, Made

-----------------------------------------------------------------------------
(* The machine.                                                            *)

(* Lower case of lower case. *)
LEMMA LowerTwice ==
  ASSUME NEW s \in Seq(SchemeChars)
  PROVE  /\ InLowerCase(s) \in Seq(SchemeChars)
         /\ s # <<>> => InLowerCase(s) # <<>>
         /\ InLowerCase(InLowerCase(s)) = InLowerCase(s)
  <1> DEFINE t == InLowerCase(s)
  <1>1. /\ Len(s) \in Nat /\ \A i \in 1..Len(s) : s[i] \in SchemeChars
        /\ s # <<>> => Len(s) # 0
    OBVIOUS
  <1>2. \A i \in 1..Len(s) : Lower[s[i]] \in SchemeChars /\ Lower[Lower[s[i]]] = Lower[s[i]]
    BY <1>1, UriAssumption
  <1>3. t = [i \in 1..Len(s) |-> Lower[s[i]]]
    BY DEF InLowerCase
  <1>4. t \in Seq(SchemeChars) /\ Len(t) = Len(s) /\ \A i \in 1..Len(s) : t[i] = Lower[s[i]]
    BY <1>1, <1>2, <1>3
  <1> HIDE DEF t
  <1>5. InLowerCase(t) = [i \in 1..Len(s) |-> Lower[t[i]]]
    BY <1>4 DEF InLowerCase
  <1>6. \A i \in 1..Len(s) : Lower[t[i]] = Lower[s[i]]
    BY <1>2, <1>4
  <1>7. InLowerCase(t) = t
    BY <1>3, <1>5, <1>6
  <1>8. s # <<>> => t # <<>>
    BY <1>1, <1>4
  <1>9. QED  BY <1>4, <1>7, <1>8 DEF t

(* What an object says of the parts: all of the format, the scheme as      *)
(* given or in lower case, and the dictionary when it was read from a text. *)
Denotes(u, p, from) ==
  /\ Stands(u, p, u.scheme, u.content, u.dict)
  /\ u.scheme \in Seq(SchemeChars) /\ u.scheme # <<>>
  /\ u.scheme \in {p.scheme, InLowerCase(p.scheme)}
  /\ from = "text" => u.scheme = InLowerCase(p.scheme)
  /\ p.category = NonHierarchical => u.content = p.path
  /\ u.dict = IF from = "text" THEN StanzasOf(p) ELSE {}

(* The inductive invariant: there is an object only after a constructor,   *)
(* which was called on parts of the format, and it denotes them.           *)
Sound ==
  /\ parts \in Parts /\ parts.scheme # <<>>
  /\ origin \in {"none", "text", "components"}
  /\ origin = "none" => object = {}
  /\ origin # "none" => WellFormed(parts)
  /\ \A u \in object : Denotes(u, parts, origin)
  /\ ThrowsWhenInvalid

(* Before the first constructor. *)
LEMMA SoundInit == Init => Sound
  <1> SUFFICES ASSUME Init PROVE Sound
    OBVIOUS
  <1>1. PICK c \in Alphabet.scheme, f \in Forms, sep \in DOMAIN SeparatorChar :
          parts = [scheme |-> <<c>>, category |-> f.category, separator |-> sep,
                   authority |-> f.authority, literal |-> f.literal, rooted |-> f.rooted,
                   user |-> <<>>, password |-> <<>>, domain |-> <<>>, port |-> <<>>,
                   path |-> <<>>, stanzas |-> <<>>, fragment |-> <<>>]
    BY DEF Init
  <1>2. /\ c \in SchemeChars /\ sep \in {"ampersand", "semicolon"}
        /\ f.category \in {Hierarchical, NonHierarchical} /\ f.authority \in BOOLEAN
        /\ f.literal \in BOOLEAN /\ f.rooted \in BOOLEAN
    BY FormatAssumption DEF Forms, SeparatorChar
  <1>3. <<c>> \in Seq(SchemeChars) /\ <<c>> # <<>>
    BY <1>2
  <1>4. parts \in Parts /\ parts.scheme # <<>>
    BY <1>1, <1>2, <1>3 DEF Parts
  <1>5. object = {} /\ origin = "none"
    BY DEF Init
  <1>6. QED  BY <1>4, <1>5 DEF Sound, ThrowsWhenInvalid

(* A text with one more character. *)
LEMMA Appended ==
  ASSUME NEW S, NEW s \in Seq(S), NEW c \in S
  PROVE  Append(s, c) \in Seq(S) /\ Append(s, c) # <<>>
  BY AppendProperties

(* Picking one more character or stanza. *)
LEMMA GrowSound ==
  ASSUME Sound, NEW text \in Texts, Grow(text)
  PROVE  Sound'
  <1>1. PICK c \in Alphabet[text] : parts' = [parts EXCEPT ![text] = Append(@, c)]
    BY DEF Grow
  <1>2. parts \in Parts /\ parts.scheme # <<>>
    BY DEF Sound
  <1>3. parts' = [parts EXCEPT ![text] = Append(parts[text], c)]
    BY <1>1
  <1>4. /\ text = "scheme" => c \in SchemeChars /\ parts[text] \in Seq(SchemeChars)
        /\ text # "scheme" => parts[text] \in Seq(Alphabet[text])
    BY <1>2, FormatAssumption DEF Parts, Texts
  <1>5. parts' \in Parts /\ parts'.scheme # <<>>
    <2>1. CASE text = "scheme"
      <3>1. Append(parts.scheme, c) \in Seq(SchemeChars) /\ Append(parts.scheme, c) # <<>>
        BY <1>4, <2>1
      <3>2. parts' = [parts EXCEPT !.scheme = Append(parts.scheme, c)]
        BY <1>3, <2>1
      <3>3. QED  BY <1>2, <3>1, <3>2 DEF Parts
    <2>2. CASE text # "scheme"
      <3>1. Append(parts[text], c) \in Seq(Alphabet[text])
        BY <1>4, <2>2, Appended
      <3>2. parts' \in Parts
        BY <1>2, <1>3, <3>1, OnePartChanged
      <3>3. ChangedIn(parts, parts', text, Append(parts[text], c))
        BY <1>2, <1>3 DEF ChangedIn
      <3>4. KeptBut(parts, parts', text, Append(parts[text], c))
        BY <3>3, OtherPartsKept
      <3>5. QED  BY <1>2, <2>2, <3>2, <3>4 DEF KeptBut, Texts
    <2>3. QED  BY <2>1, <2>2
  <1>6. object' = {} /\ origin' = "none"
    BY DEF Grow, Sound
  <1>7. QED  BY <1>5, <1>6 DEF Sound, ThrowsWhenInvalid

(* Picking one more stanza. *)
LEMMA GrowQuerySound ==
  ASSUME Sound, GrowQuery
  PROVE  Sound'
  <1>1. PICK stanza \in Stanzas : parts' = [parts EXCEPT !.stanzas = Append(@, stanza)]
    BY DEF GrowQuery
  <1>2. parts \in Parts /\ parts.scheme # <<>>
    BY DEF Sound
  <1>3. parts' \in Parts /\ parts'.scheme # <<>>
    <2>1. parts.stanzas \in Seq(Stanzas)
      BY <1>2 DEF Parts
    <2>2. Append(parts.stanzas, stanza) \in Seq(Stanzas)
      BY <2>1, Appended
    <2>3. parts' = [parts EXCEPT !.stanzas = Append(parts.stanzas, stanza)]
      BY <1>1
    <2>4. QED  BY <1>2, <2>2, <2>3 DEF Parts
  <1>4. object' = {} /\ origin' = "none"
    BY DEF GrowQuery, Sound
  <1>5. QED  BY <1>3, <1>4 DEF Sound, ThrowsWhenInvalid

(* Constructing from the text. *)
LEMMA ConstructFromTextSound ==
  ASSUME Sound, ConstructFromText
  PROVE  Sound'
  <1> DEFINE p == parts
             bad == PortTooLarge(p) \/ HasDuplicates(p)
  <1>1. p \in Parts /\ p.scheme # <<>> /\ WellFormed(p)
    BY DEF Sound, ConstructFromText
  <1>2. parts' = p /\ origin' = "text" /\ object' = Parse(Compose(p), p.category, p.separator)
    BY DEF ConstructFromText
  <1> HIDE DEF p
  <1>3. /\ bad => object' = {}
        /\ ~bad => \E u : /\ object' = {u}
                          /\ Stands(u, p, InLowerCase(p.scheme), Body(p), StanzasOf(p))
    BY <1>1, <1>2, ParseRead
  <1>4. \A u \in object' : Denotes(u, p, "text")
    <2>1. /\ InLowerCase(p.scheme) \in Seq(SchemeChars) /\ InLowerCase(p.scheme) # <<>>
          /\ InLowerCase(InLowerCase(p.scheme)) = InLowerCase(p.scheme)
      <3>1. p.scheme \in Seq(SchemeChars)
        BY <1>1, PartTexts
      <3>2. QED  BY <1>1, <3>1, LowerTwice
    <2>2. p.category = NonHierarchical => Body(p) = p.path
      BY <1>1, BodyNonHierarchical
    <2>3. ASSUME NEW u \in object' PROVE Denotes(u, p, "text")
      <3>1. Stands(u, p, InLowerCase(p.scheme), Body(p), StanzasOf(p))
        BY <1>3, <2>3
      <3>2. QED  BY <2>1, <2>2, <3>1 DEF Denotes, Stands
    <2>4. QED  BY <2>3
  <1>5. object' = {} <=> bad
    BY <1>3
  <1>6. QED  BY <1>1, <1>2, <1>4, <1>5 DEF Sound, ThrowsWhenInvalid

(* Constructing from the components. *)
LEMMA ConstructFromComponentsSound ==
  ASSUME Sound, ConstructFromComponents
  PROVE  Sound'
  <1> DEFINE p == parts
             content == IF p.category = Hierarchical THEN <<>> ELSE p.path
  <1>1. p \in Parts /\ p.scheme # <<>> /\ WellFormed(p)
    BY DEF Sound, ConstructFromComponents
  <1>2. /\ parts' = p /\ origin' = "components"
        /\ object' = FromComponents(Components(p), p.category, p.rooted, p.separator)
    BY DEF ConstructFromComponents
  <1> HIDE DEF p
  <1>3. /\ PortTooLarge(p) => object' = {}
        /\ ~PortTooLarge(p) => \E u : object' = {u} /\ Stands(u, p, p.scheme, content, {})
    BY <1>1, <1>2, ComponentsRead
  <1>4. \A u \in object' : Denotes(u, p, "components")
    <2>1. p.scheme \in Seq(SchemeChars)
      BY <1>1, PartTexts
    <2>2. p.category = NonHierarchical => content = p.path
      BY DEF Hierarchical, NonHierarchical
    <2>3. ASSUME NEW u \in object' PROVE Denotes(u, p, "components")
      <3>1. Stands(u, p, p.scheme, content, {})
        BY <1>3, <2>3
      <3> HIDE DEF content
      <3>2. QED  BY <1>1, <2>1, <2>2, <3>1 DEF Denotes, Stands
    <2>4. QED  BY <2>3
  <1>5. object' = {} <=> PortTooLarge(p)
    BY <1>3
  <1>6. QED  BY <1>1, <1>2, <1>4, <1>5 DEF Sound, ThrowsWhenInvalid

(* Replacing a component. *)
LEMMA ReplaceComponentSound ==
  ASSUME Sound, NEW name \in Replaceable(parts), ReplaceComponent(name)
  PROVE  Sound'
  <1> DEFINE p == parts
             q == parts'
             text == PartOf[name]
  <1>1. PICK u \in object, value \in Values :
          /\ \A i \in 1..Len(value) : value[i] \in Alphabet[text]
          /\ name \in {"Scheme", "Port"} => value # <<>>
          /\ q = [p EXCEPT ![text] = value]
          /\ WellFormed(q)
          /\ object' = Replace(u, [n \in {name} |-> Component(q)[n]])
    BY DEF ReplaceComponent
  <1>2. origin' = "components"
    BY DEF ReplaceComponent
  <1>3. /\ p \in Parts /\ p.scheme # <<>> /\ Denotes(u, p, origin) /\ object # {}
        /\ origin # "none" /\ ~PortTooLarge(p)
    BY DEF Sound, ThrowsWhenInvalid
  <1>4. /\ name \in DOMAIN PartOf /\ text \in Texts
        /\ (name = "Scheme" <=> text = "scheme") /\ (name = "Port" <=> text = "port")
        /\ name \in {"Path", "Content"} <=> text = "path"
        /\ (p.category = NonHierarchical => name # "Path")
        /\ (p.category = Hierarchical => name # "Content")
    BY PartReplaced DEF Replaceable, Hierarchical, NonHierarchical
  <1>5. value \in Seq(Alphabet[text])
    <2>1. value \in Seq(UNION {Alphabet[other] : other \in Texts})
      BY FormatAssumption
    <2>2. QED  BY <1>1, <2>1
  <1>6. q \in Parts
    BY <1>1, <1>3, <1>4, <1>5, OnePartChanged
  <1>7. KeptBut(p, q, text, value)
    <2>1. ChangedIn(p, q, text, value)
      BY <1>1, <1>3, <1>4 DEF ChangedIn
    <2>2. QED  BY <2>1, OtherPartsKept
  <1> DEFINE scheme == IF name = "Scheme" THEN value ELSE u.scheme
             content == IF name = "Content" THEN value ELSE u.content
             bad == name = "Port" /\ Stoul(value) = {}
  <1>8. /\ bad => object' = {}
        /\ ~bad => \E v : object' = {v} /\ Stands(v, q, scheme, content, {})
    <2>1. Stands(u, p, u.scheme, u.content, u.dict)
      BY <1>3 DEF Denotes
    <2>2. Replacing(p, name, value, u, q)
      BY <1>1, <1>3, <1>5, <2>1 DEF Replacing
    <2>3. Made(Replace(u, [n \in {name} |-> Component(q)[n]]), name, value, u, q)
      <3> HIDE DEF p, q
      <3>1. QED  BY <2>2, Replaced, Zenon
    <2>4. Made(object', name, value, u, q)
      BY <1>1, <2>3
    <2>5. QED  BY <2>4 DEF Made
  <1>9. q.scheme = IF name = "Scheme" THEN value ELSE p.scheme
    BY <1>4, <1>7 DEF KeptBut, Texts
  <1>10. scheme \in Seq(SchemeChars) /\ scheme # <<>> /\ q.scheme # <<>>
         /\ scheme \in {q.scheme, InLowerCase(q.scheme)}
    <2>1. CASE name = "Scheme"
      <3>1. q.scheme \in Seq(SchemeChars)
        BY <1>6, PartTexts
      <3>2. QED  BY <1>1, <1>9, <2>1, <3>1
    <2>2. CASE name # "Scheme"
      BY <1>3, <1>9, <2>2 DEF Denotes
    <2>3. QED  BY <2>1, <2>2
  <1>11. q.category = NonHierarchical => content = q.path
    <2>1. q.path = IF name \in {"Path", "Content"} THEN value ELSE p.path
      BY <1>4, <1>7 DEF KeptBut, Texts
    <2>2. q.category = p.category
      BY <1>7 DEF KeptBut
    <2>3. p.category = NonHierarchical => u.content = p.path
      BY <1>3 DEF Denotes
    <2>4. QED  BY <1>4, <2>1, <2>2, <2>3
  <1>12. \A v \in object' : Denotes(v, q, "components")
    <2>1. ASSUME NEW v \in object' PROVE Denotes(v, q, "components")
      <3>1. Stands(v, q, scheme, content, {})
        BY <1>8, <2>1
      <3> HIDE DEF scheme, content, q
      <3>2. QED  BY <1>10, <1>11, <3>1 DEF Denotes, Stands
    <2>2. QED  BY <2>1
  <1>13. object' = {} <=> PortTooLarge(q)
    <2>1. object' = {} <=> bad
      BY <1>8
    <2>2. q.port = IF name = "Port" THEN value ELSE p.port
      BY <1>4, <1>7 DEF KeptBut, Texts
    <2>3. CASE name = "Port"
      <3>1. q.port \in Seq(Digits) /\ q.port = value /\ value # <<>>
        BY <1>1, <1>6, <2>2, <2>3, PartTexts
      <3>2. Stoul(value) = {} <=> Number(value) > UlongMax
        BY <3>1, PortRange
      <3>3. QED  BY <2>1, <2>3, <3>1, <3>2 DEF PortTooLarge
    <2>4. CASE name # "Port"
      BY <1>3, <2>1, <2>2, <2>4 DEF PortTooLarge
    <2>5. QED  BY <2>3, <2>4
  <1>14. QED  BY <1>1, <1>2, <1>6, <1>10, <1>12, <1>13 DEF Sound, ThrowsWhenInvalid

(* Parts with the scheme written otherwise are as well formed. *)
LEMMA SchemeRewritten ==
  ASSUME NEW p \in Parts, NEW scheme \in Seq(SchemeChars), NEW q,
         q = [p EXCEPT !.scheme = scheme]
  PROVE  /\ q \in Parts /\ q.scheme = scheme /\ q.path = p.path
         /\ (WellFormed(q) <=> WellFormed(p)) /\ (Writable(q) <=> Writable(p))
         /\ (PortTooLarge(q) <=> PortTooLarge(p)) /\ (HasDuplicates(q) <=> HasDuplicates(p))
         /\ q.category = p.category /\ q.separator = p.separator
         /\ StanzasOf(q) = StanzasOf(p)
         /\ \A u, content, dict, s :
              Stands(u, q, s, content, dict) <=> Stands(u, p, s, content, dict)
  <1>1. q \in Parts
    BY DEF Parts
  <1>2. ChangedIn(p, q, "scheme", scheme)
    BY DEF ChangedIn, Texts
  <1>3. KeptBut(p, q, "scheme", scheme)
    BY <1>2, OtherPartsKept
  <1>4. /\ q.scheme = scheme /\ q.category = p.category /\ q.separator = p.separator
        /\ q.authority = p.authority /\ q.literal = p.literal /\ q.rooted = p.rooted
        /\ q.stanzas = p.stanzas /\ QueryOf(q) = QueryOf(p)
        /\ (HasDuplicates(q) <=> HasDuplicates(p)) /\ StanzasOf(q) = StanzasOf(p)
    BY <1>3 DEF KeptBut
  <1>5. /\ q.user = p.user /\ q.password = p.password /\ q.domain = p.domain
        /\ q.port = p.port /\ q.path = p.path /\ q.fragment = p.fragment
    BY <1>3 DEF KeptBut, Texts
  <1>6. Domain(q) = Domain(p)
    BY <1>4, <1>5 DEF Domain
  <1>7. WellFormed(q) <=> WellFormed(p)
    BY <1>4, <1>5 DEF WellFormed
  <1>8. (PortTooLarge(q) <=> PortTooLarge(p)) /\ (Writable(q) <=> Writable(p))
    BY <1>4, <1>5 DEF PortTooLarge, Writable
  <1>9. \A u, content, dict, s : Stands(u, q, s, content, dict) <=> Stands(u, p, s, content, dict)
    BY <1>4, <1>5, <1>6 DEF Stands, ContentStands
  <1>10. QED  BY <1>1, <1>4, <1>5, <1>7, <1>8, <1>9

(* The text an object writes, and the parts it is the text of. *)
LEMMA WritesParts ==
  ASSUME Sound, NEW u \in object, Writable(parts)
  PROVE  AsText(u) = Compose([parts EXCEPT !.scheme = u.scheme])
  <1> DEFINE p == parts
             q == [p EXCEPT !.scheme = u.scheme]
  <1>1. p \in Parts /\ WellFormed(p) /\ Denotes(u, p, origin)
    BY DEF Sound
  <1>2. /\ Stands(u, p, u.scheme, u.content, u.dict) /\ u.scheme \in Seq(SchemeChars)
        /\ p.category = NonHierarchical => u.content = p.path
    BY <1>1 DEF Denotes
  <1> HIDE DEF p
  <1>3. /\ q \in Parts /\ q.scheme = u.scheme /\ q.path = p.path /\ q.category = p.category
        /\ (WellFormed(q) <=> WellFormed(p)) /\ (Writable(q) <=> Writable(p))
        /\ Stands(u, q, u.scheme, u.content, u.dict) <=> Stands(u, p, u.scheme, u.content, u.dict)
    BY <1>1, <1>2, SchemeRewritten
  <1>4. Writable(q) /\ WellFormed(q)
    BY <1>1, <1>3 DEF p
  <1>5. /\ Stands(u, q, q.scheme, u.content, u.dict)
        /\ q.category = NonHierarchical => u.content = q.path
    BY <1>2, <1>3
  <1>6. q \in Parts
    BY <1>3
  <1> HIDE DEF q
  <1>7. AsText(u) = Compose(q)
    BY <1>4, <1>5, <1>6, TextWritten
  <1>8. QED  BY <1>7 DEF q, p

(* Reading the text an object writes. *)
LEMMA ReadAndConstructSound ==
  ASSUME Sound, ReadAndConstruct
  PROVE  Sound'
  <1> DEFINE p == parts
  <1>1. PICK u \in object : object' = Parse(AsText(u), u.category, u.separator)
    BY DEF ReadAndConstruct
  <1>2. parts' = p /\ origin' = "text" /\ Writable(p)
    BY DEF ReadAndConstruct
  <1>3. p \in Parts /\ p.scheme # <<>> /\ WellFormed(p) /\ Denotes(u, p, origin)
    BY DEF Sound
  <1> DEFINE q == [p EXCEPT !.scheme = u.scheme]
             s == u.scheme
             bad == PortTooLarge(p) \/ HasDuplicates(p)
  <1>4. AsText(u) = Compose(q)
    BY <1>2, WritesParts
  <1>5. /\ s \in Seq(SchemeChars) /\ s # <<>> /\ InLowerCase(s) = InLowerCase(p.scheme)
        /\ u.category = p.category /\ u.separator = p.separator
    <2>1. p.scheme \in Seq(SchemeChars)
      BY <1>3, PartTexts
    <2>2. InLowerCase(InLowerCase(p.scheme)) = InLowerCase(p.scheme)
      BY <2>1, LowerTwice
    <2>3. QED  BY <1>3, <2>2 DEF Denotes, Stands, ContentStands
  <1> HIDE DEF p
  <1>6. /\ q \in Parts /\ q.scheme = s /\ q.path = p.path
        /\ (WellFormed(q) <=> WellFormed(p))
        /\ (PortTooLarge(q) <=> PortTooLarge(p)) /\ (HasDuplicates(q) <=> HasDuplicates(p))
        /\ q.category = p.category /\ q.separator = p.separator
        /\ StanzasOf(q) = StanzasOf(p)
        /\ \A v, content, dict, t :
             Stands(v, q, t, content, dict) <=> Stands(v, p, t, content, dict)
    BY <1>3, <1>5, SchemeRewritten
  <1> HIDE DEF q, s
  <1>7. q.scheme # <<>> /\ WellFormed(q)
    BY <1>3, <1>5, <1>6
  <1>8. object' = Parse(Compose(q), q.category, q.separator)
    BY <1>1, <1>4, <1>5, <1>6
  <1>9. /\ PortTooLarge(q) \/ HasDuplicates(q) => object' = {}
        /\ ~(PortTooLarge(q) \/ HasDuplicates(q)) =>
              \E v : object' = {v} /\ Stands(v, q, InLowerCase(q.scheme), Body(q), StanzasOf(q))
    BY <1>6, <1>7, <1>8, ParseRead
  <1>10. object' = {} <=> bad
    BY <1>6, <1>9
  <1>11. \A v \in object' : Denotes(v, p, "text")
    <2>1. /\ InLowerCase(s) \in Seq(SchemeChars) /\ InLowerCase(s) # <<>>
      BY <1>5, LowerTwice
    <2>2. p.category = NonHierarchical => Body(q) = p.path
      BY <1>6, <1>7, BodyNonHierarchical
    <2>3. ASSUME NEW v \in object' PROVE Denotes(v, p, "text")
      <3>1. Stands(v, q, InLowerCase(q.scheme), Body(q), StanzasOf(q))
        BY <1>9, <2>3
      <3>2. Stands(v, p, InLowerCase(s), Body(q), StanzasOf(p))
        BY <1>6, <3>1
      <3>3. QED  BY <1>5, <2>1, <2>2, <3>2 DEF Denotes, Stands
    <2>4. QED  BY <2>3
  <1>12. QED  BY <1>2, <1>3, <1>10, <1>11 DEF Sound, ThrowsWhenInvalid, p

(* Every reachable state is sound. *)
LEMMA SoundAlways == Spec => []Sound
  <1>1. Init => Sound
    BY SoundInit
  <1>2. Sound /\ [Next]_vars => Sound'
    <2> SUFFICES ASSUME Sound, [Next]_vars PROVE Sound'
      OBVIOUS
    <2>1. CASE \E text \in Texts : Grow(text)
      BY <2>1, GrowSound
    <2>2. CASE GrowQuery
      BY <2>2, GrowQuerySound
    <2>3. CASE ConstructFromText
      BY <2>3, ConstructFromTextSound
    <2>4. CASE ConstructFromComponents
      BY <2>4, ConstructFromComponentsSound
    <2>5. CASE \E name \in Replaceable(parts) : ReplaceComponent(name)
      BY <2>5, ReplaceComponentSound
    <2>6. CASE ReadAndConstruct
      BY <2>6, ReadAndConstructSound
    <2>7. CASE UNCHANGED vars
      BY <2>7 DEF vars, Sound, ThrowsWhenInvalid
    <2>8. QED  BY <2>1, <2>2, <2>3, <2>4, <2>5, <2>6, <2>7 DEF Next
  <1>3. QED  BY <1>1, <1>2, PTL DEF Spec

(* The members give back the parts of the format, whether the object came  *)
(* from a text, from components or from another object: the parser and the *)
(* two constructors of the class Uri, for texts of any length.  The scheme *)
(* is in lower case and the dictionary filled when a text was read.        *)
THEOREM PartsAreDenoted == Spec => []DenotesParts
  <1>1. Sound => DenotesParts
    <2> SUFFICES ASSUME Sound, NEW u \in object
                 PROVE  /\ parts.category = NonHierarchical => u.content = parts.path
                        /\ parts.category = Hierarchical =>
                             /\ u.username = parts.user /\ u.password = parts.password
                             /\ u.host = Domain(parts) /\ u.port = Number(parts.port)
                             /\ u.path = parts.path /\ u.rooted = parts.rooted
                        /\ u.query = QueryOf(parts) /\ u.fragment = parts.fragment
                        /\ SchemeIsKept /\ DictionaryIsQuery
      BY DEF DenotesParts
    <2>1. Denotes(u, parts, origin)
      BY DEF Sound
    <2>2. DictionaryIsQuery
      BY DEF DictionaryIsQuery, Sound, Denotes, StanzasOf
    <2>3. SchemeIsKept
      BY DEF SchemeIsKept, Sound, Denotes
    <2>4. QED  BY <2>1, <2>2, <2>3 DEF Denotes, Stands, ContentStands
  <1>2. QED  BY <1>1, SoundAlways, PTL

(* A constructor throws for a port out of range and for a key that occurs  *)
(* twice in a text, and for no other URI of the format: parse_content,     *)
(* init_query_dictionary and the checks of the components.                 *)
THEOREM ThrowsOnlyWhenInvalid == Spec => []ThrowsWhenInvalid
  <1>1. Sound => ThrowsWhenInvalid
    BY DEF Sound
  <1>2. QED  BY <1>1, SoundAlways, PTL

(* to_string writes the text of the format that stands for the parts, so   *)
(* the text of an object reads as the same object again.                   *)
THEOREM TheFormatIsWritten == Spec => []WritesFormat
  <1>1. Sound => WritesFormat
    BY WritesParts DEF WritesFormat
  <1>2. QED  BY <1>1, SoundAlways, PTL
=============================================================================
