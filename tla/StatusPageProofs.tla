-------------------------- MODULE StatusPageProofs --------------------------
(***************************************************************************)
(* The loops that the modules write as functions, the parsing of lines and *)
(* numbers, and what StatusPage reads from any text and from a status page *)
(* that may break off anywhere.                                            *)
(***************************************************************************)
EXTENDS StatusPage, SequenceTheorems, WellFoundedInduction, TLAPS

(* Loops                                                                   *)

LEMMA NatLeast ==
    ASSUME NEW T, T \subseteq Nat, T # {}
    PROVE  \E x \in T : \A y \in T : x <= y
<1> DEFINE R == {ss \in Nat \X Nat : ss[1] < ss[2]}
<1>1. IsWellFoundedOn(R, Nat)
      BY NatLessThanWellFounded DEF OpToRel
<1>2. PICK x \in T : \A y \in T : ~ (<<y, x>> \in R)
      BY <1>1, WFMin
<1>3. \A y \in T : ~(y < x)
  <2> SUFFICES ASSUME NEW y \in T, y < x PROVE FALSE
      OBVIOUS
  <2>1. <<y, x>> \in Nat \X Nat
        OBVIOUS
  <2>2. <<y, x>> \in R
        BY <2>1
  <2> QED
      BY <1>2, <2>2
<1>4. x \in Nat /\ \A y \in T : y \in Nat
      OBVIOUS
<1> QED
    BY <1>3, <1>4

\* A loop from low to high whose states are, each in its place, in X; and its states.
Stays(low, high, X, base, step) ==
    /\ base \in X[low]
    /\ \A i \in low .. high : i # low => \A x \in X[i - 1] : step[i][x] \in X[i]

States(low, high, X, base, step) ==
    \E f : \A i \in low .. high : /\ f[i] = IF i = low THEN base ELSE step[i][f[i - 1]]
                                /\ f[i] \in X[i]

LEMMA Loop ==
    ASSUME NEW low \in Int, NEW high \in Int, NEW X, NEW base, NEW step,
           Stays(low, high, X, base, step)
    PROVE  States(low, high, X, base, step)
<1> USE DEF Stays, States
<1> DEFINE Is(f, k) == \A i \in low .. k : /\ f[i] = IF i = low THEN base ELSE step[i][f[i - 1]]
                                           /\ f[i] \in X[i]
           Missing == {n \in Nat : low + n <= high /\ \A f : ~Is(f, low + n)}
<1>1. ASSUME NEW k \in low .. high, k + 1 <= high, NEW f, Is(f, k) PROVE \E g : Is(g, k + 1)
  <2> DEFINE g == [i \in low .. k + 1 |-> IF i = k + 1 THEN step[k + 1][f[k]] ELSE f[i]]
  <2>1. \A i \in low .. k : /\ f[i] = IF i = low THEN base ELSE step[i][f[i - 1]]
                            /\ f[i] \in X[i]
        BY <1>1
  <2>2. k + 1 \in low .. high /\ k + 1 # low /\ (k + 1) - 1 = k /\ k \in low .. k
        BY <1>1
  <2>3. f[k] \in X[k]
        BY <2>1, <2>2
  <2>4. step[k + 1][f[k]] \in X[k + 1]
        BY <2>2, <2>3
  <2>5. ASSUME NEW i \in low .. k + 1
        PROVE  g[i] = (IF i = low THEN base ELSE step[i][g[i - 1]]) /\ g[i] \in X[i]
    <3>1. CASE i = k + 1
          BY <2>2, <2>4, <3>1
    <3>2. CASE i # k + 1
      <4>1. i \in low .. k /\ (i # low => i - 1 \in low .. k)
            BY <3>2
      <4>2. g[i] = f[i] /\ (i # low => g[i - 1] = f[i - 1])
            BY <4>1
      <4> HIDE DEF g
      <4> QED
          BY <2>1, <4>1, <4>2
    <3> QED
        BY <3>1, <3>2
  <2> HIDE DEF g
  <2>6. Is(g, k + 1)
        BY <2>5
  <2> HIDE DEF Is
  <2> QED
      BY <2>6
<1>2. ASSUME low <= high PROVE \E f : Is(f, low)
  <2>1. Is([i \in low .. low |-> base], low)
        BY <1>2
  <2> QED
      BY <2>1
<1>3. Missing = {}
  <2> SUFFICES ASSUME Missing # {} PROVE FALSE
      OBVIOUS
  <2> HIDE DEF Is
  <2>1. PICK n \in Missing : \A m \in Missing : n <= m
        BY NatLeast
  <2>2. n \in Nat /\ low + n <= high /\ \A f : ~Is(f, low + n)
        OBVIOUS
  <2>3. CASE n = 0
        BY <1>2, <2>2, <2>3
  <2>4. CASE n > 0
    <3>1. n - 1 \notin Missing
      <4> HIDE DEF Missing
      <4> QED
          BY <2>1, <2>2, <2>4
    <3>2. PICK f : Is(f, low + (n - 1))
          BY <2>2, <2>4, <3>1
    <3>3. low + (n - 1) \in low .. high /\ (low + (n - 1)) + 1 = low + n
          BY <2>2, <2>4
    <3> QED
        BY <1>1, <2>2, <3>2, <3>3
  <2> QED
      BY <2>2, <2>3, <2>4
<1>4. CASE low <= high
  <2>1. high - low \in Nat /\ low + (high - low) = high
        BY <1>4
  <2>2. high - low \notin Missing
        BY <1>3
  <2> HIDE DEF Is
  <2>3. PICK f : Is(f, high)
        BY <2>1, <2>2
  <2> USE DEF Is
  <2> QED
      BY <2>3
<1>5. CASE low > high
      BY <1>5
<1> QED
    BY <1>4, <1>5

\* What a loop begins with and each step keeps, one place further on, is true at the end.
LEMMA Induct ==
    ASSUME NEW low \in Int, NEW high \in Int, NEW P,
           low <= high => low \in P, \A i \in low .. high : i # low /\ i - 1 \in P => i \in P
    PROVE  \A i \in low .. high : i \in P
<1> DEFINE Bad == {n \in Nat : low + n <= high /\ low + n \notin P}
<1>1. Bad = {}
  <2> SUFFICES ASSUME Bad # {} PROVE FALSE
      OBVIOUS
  <2>1. PICK n \in Bad : \A m \in Bad : n <= m
        BY NatLeast
  <2>2. n \in Nat /\ low + n <= high /\ low + n \notin P
        OBVIOUS
  <2>3. n # 0
        BY <2>2
  <2>4. n - 1 \in Nat /\ n - 1 \notin Bad
    <3> HIDE DEF Bad
    <3> QED
        BY <2>1, <2>2, <2>3
  <2>5. low + (n - 1) \in P
        BY <2>2, <2>4
  <2>6. low + n \in low .. high /\ low + n # low /\ (low + n) - 1 = low + (n - 1)
        BY <2>2, <2>3
  <2> QED
      BY <2>2, <2>5, <2>6
<1>2. ASSUME NEW i \in low .. high PROVE i \in P
  <2>1. i - low \in Nat /\ low + (i - low) = i /\ i - low \notin Bad
    <3>1. i - low \in Nat /\ low + (i - low) = i
          OBVIOUS
    <3>2. i - low \notin Bad
          BY <1>1
    <3> QED
        BY <3>1, <3>2
  <2> QED
      BY <2>1
<1> QED
    BY <1>2
-----------------------------------------------------------------------------
(* Numbers                                                                 *)

LEMMA MinIs ==
    ASSUME NEW T, T \subseteq Nat, T # {}
    PROVE  Min(T) \in T
BY NatLeast DEF Min

LEMMA Least ==
    ASSUME NEW T, T \subseteq Nat, NEW x \in T, \A y \in T : x <= y
    PROVE  Min(T) = x
<1>1. Min(T) \in T /\ \A y \in T : Min(T) <= y
      BY NatLeast DEF Min
<1>2. Min(T) <= x /\ x <= Min(T) /\ Min(T) \in Nat /\ x \in Nat
      BY <1>1
<1> QED
    BY <1>2

LEMMA ValueIs == \A c \in DOMAIN Value : Value[c] \in 0 .. 9
<1>1. \A d \in ToSet(Digits) : \E n \in 0 .. 9 : Digits[n + 1] = d
      BY DEF ToSet, Digits
<1>2. \A d \in ToSet(Digits) : (CHOOSE n \in 0 .. 9 : Digits[n + 1] = d) \in 0 .. 9
      BY <1>1
<1>3. \A c \in DOMAIN Value : Value[c] \in 0 .. 9
      BY <1>2, Zenon DEF Value
<1> QED
    BY <1>3

Numbers == [digit : BOOLEAN, value : Nat]

LEMMA AddDigitTypes ==
    ASSUME NEW number \in Numbers, NEW c, NEW base \in Nat
    PROVE  AddDigit(number, c, base) \in Numbers
<1>1. CASE number.digit /\ c \in DOMAIN Value /\ Value[c] < base
  <2>1. number.value \in Nat /\ Value[c] \in Nat
        BY <1>1, ValueIs DEF Numbers
  <2>2. \A a, b, d \in Nat : a * b + d \in Nat
        OBVIOUS
  <2>3. base * number.value + Value[c] \in Nat
        BY <2>1, <2>2
  <2> QED
      BY <1>1, <2>3 DEF AddDigit, Numbers
<1>2. CASE ~(number.digit /\ c \in DOMAIN Value /\ Value[c] < base)
      BY <1>2 DEF AddDigit, Numbers
<1> QED
    BY <1>1, <1>2

\* str_to_int stores a number, whatever the string.
LEMMA StrToIntTypes ==
    ASSUME NEW string, Len(string) \in Nat
    PROVE  StrToInt(string).value \in Nat
<1> DEFINE length == Len(string)
           first == SelectInSeq(string, LAMBDA c : c # "SP")
           base == IF first \in 1 .. length - 1 /\ string[first] = "0" THEN 8 ELSE 10
           Start(i) == [digit |-> i + 1 = first, value |-> 0]
           Step(x, i) == IF first = 0 \/ i < first THEN Start(i) ELSE AddDigit(x, string[i], base)
           Is(h) == h = [i \in 0 .. length |->
                           IF first = 0 \/ i < first THEN Start(i)
                           ELSE AddDigit(h[i - 1], string[i], base)]
<1>1. StrToInt(string).value = (CHOOSE h : Is(h))[length].value
      BY DEF StrToInt
<1>2. first \in Nat
  <2> DEFINE I == {i \in 1 .. Len(string) : string[i] # "SP"}
  <2>1. first = IF I # {} THEN Min(I) ELSE 0
        BY DEF SelectInSeq
  <2>2. I # {} => Min(I) \in I
        BY MinIs
  <2> QED
      BY <2>1, <2>2
<1>3. base \in Nat
      OBVIOUS
<1> HIDE DEF first, base
<1>4. ASSUME NEW i \in 0 .. length, NEW x \in Numbers PROVE Step(x, i) \in Numbers
      BY <1>3, AddDigitTypes DEF Numbers
<1>5. \E h : Is(h)
  <2> DEFINE X == [i \in 0 .. length |-> Numbers]
             step == [i \in 0 .. length |-> [x \in Numbers |-> Step(x, i)]]
  <2>1. Start(0) \in X[0]
        BY DEF Numbers
  <2>2. \A i \in 0 .. length : i # 0 => \A x \in X[i - 1] : step[i][x] \in X[i]
        BY <1>4
  <2> HIDE DEF X, step
  <2>3. PICK f : \A i \in 0 .. length : /\ f[i] = IF i = 0 THEN Start(0) ELSE step[i][f[i - 1]]
                                       /\ f[i] \in X[i]
    <3>1. States(0, length, X, Start(0), step)
          BY <2>1, <2>2, Loop DEF Stays
    <3> QED
        BY <3>1 DEF States
  <2>4. \A i \in 0 .. length : i # 0 => i - 1 \in 0 .. length /\ f[i - 1] \in Numbers
        BY <2>3 DEF X
  <2>5. \A i \in 0 .. length : i # 0 => step[i][f[i - 1]] = Step(f[i - 1], i)
        BY <2>4 DEF step
  <2> DEFINE g == [i \in 0 .. length |-> f[i]]
  <2>6. \A i \in 0 .. length : f[i] = IF first = 0 \/ i < first THEN Start(i)
                                      ELSE AddDigit(g[i - 1], string[i], base)
        BY <1>2, <2>3, <2>4, <2>5
  <2>7. Is(g)
        BY <2>6
  <2> QED
      BY <2>7
<1>6. ASSUME NEW h, Is(h) PROVE h[length] \in Numbers
  <2> DEFINE P == {i \in 0 .. length : h[i] \in Numbers}
  <2>1. \A i \in 0 .. length : h[i] = Step(h[i - 1], i)
        BY <1>6
  <2>2. h[0] = Start(0)
        BY <1>2, <2>1
  <2>3. 0 \in P
    <3>1. Start(0) \in Numbers
          BY DEF Numbers
    <3>2. 0 \in 0 .. length
          OBVIOUS
    <3> HIDE DEF Start
    <3> QED
        BY <2>2, <3>1, <3>2
  <2>4. \A i \in 0 .. length : i # 0 /\ i - 1 \in P => i \in P
        BY <1>4, <2>1
  <2>5. length \in Int /\ 0 \in Int /\ length \in 0 .. length
        OBVIOUS
  <2> HIDE DEF P
  <2>6. length \in P
        BY <2>3, <2>4, <2>5, Induct
  <2> QED
      BY <2>6 DEF P
<1> HIDE DEF Is
<1> QED
    BY <1>1, <1>5, <1>6 DEF Numbers

LEMMA TextIs ==
    ASSUME NEW s \in Text
    PROVE  Len(s) \in Nat /\ DOMAIN s = 1 .. Len(s) /\ \A i \in 1 .. Len(s) : s[i] \in Token
BY DEF Text

LEMMA DigitIs == \A c \in ToSet(Digits) : c \in DOMAIN Value /\ Value[c] \in 0 .. 9 /\ c # "SP"
<1>1. \A c \in ToSet(Digits) : c \in DOMAIN Value /\ c # "SP"
      BY DEF ToSet, Digits, Value
<1>2. \A c \in ToSet(Digits) : Value[c] \in 0 .. 9
      BY <1>1, ValueIs
<1> QED
    BY <1>1, <1>2

\* str_to_int reads a decimal number as it is written.
LEMMA DecimalIs ==
    ASSUME NEW digits \in Text, IsDecimal(digits)
    PROVE  StrToInt(digits) = [ok |-> TRUE, value |-> Decimal(digits)] /\ Decimal(digits) \in Nat
<1>1. PICK length \in Nat : length = Len(digits) /\ length >= 1
  <2>1. Len(digits) \in Nat /\ digits # <<>>
        BY TextIs DEF IsDecimal
  <2>2. Len(digits) # 0
        BY <2>1 DEF Text
  <2> QED
      BY <2>1, <2>2
<1>2. \A i \in 1 .. length : digits[i] \in DOMAIN Value /\ Value[digits[i]] \in 0 .. 9 /\ digits[i] # "SP"
  <2>1. \A i \in 1 .. length : digits[i] \in ToSet(Digits)
        BY <1>1, TextIs DEF IsDecimal, ToSet
  <2> QED
      BY <2>1, DigitIs
<1>3. digits[1] = "0" => length = 1
      BY <1>1 DEF IsDecimal
<1> DEFINE Digit(i) == Value[digits[i]]
           IsD(h) == h = [i \in 0 .. length |-> IF i = 0 THEN 0 ELSE 10 * h[i - 1] + Digit(i)]
           first == SelectInSeq(digits, LAMBDA c : c # "SP")
           base == IF first \in 1 .. length - 1 /\ digits[first] = "0" THEN 8 ELSE 10
           Start(i) == [digit |-> i + 1 = first, value |-> 0]
           IsN(h) == h = [i \in 0 .. length |->
                            IF first = 0 \/ i < first THEN Start(i)
                            ELSE AddDigit(h[i - 1], digits[i], base)]
<1>4. Decimal(digits) = (CHOOSE h : IsD(h))[length]
      BY <1>1 DEF Decimal
<1>5. StrToInt(digits) = LET h == CHOOSE h : IsN(h)
                         IN  [ok |-> first # 0 /\ h[length].digit, value |-> h[length].value]
      BY <1>1 DEF StrToInt
<1>6. first = 1
  <2> DEFINE I == {i \in 1 .. Len(digits) : digits[i] # "SP"}
  <2>1. first = IF I # {} THEN Min(I) ELSE 0
        BY DEF SelectInSeq
  <2>2. 1 \in I /\ I \subseteq Nat /\ \A i \in I : 1 <= i
        BY <1>1, <1>2
  <2> QED
      BY <2>1, <2>2, Least
<1>7. base = 10
      BY <1>3, <1>6
<1> HIDE DEF first, base
<1>8. \A n \in Nat, i \in 1 .. length : 10 * n + Digit(i) \in Nat
      BY <1>2
<1>9. PICK d : IsD(d) /\ Decimal(digits) = d[length]
  <2> DEFINE X == [i \in 0 .. length |-> Nat]
             step == [i \in 0 .. length |-> [n \in Nat |-> 10 * n + Digit(i)]]
  <2>1. 0 \in X[0]
        OBVIOUS
  <2>2. \A i \in 0 .. length : i # 0 => \A n \in X[i - 1] : step[i][n] \in X[i]
    <3> SUFFICES ASSUME NEW i \in 0 .. length, i # 0, NEW n \in X[i - 1] PROVE step[i][n] \in X[i]
        OBVIOUS
    <3>1. i \in 1 .. length /\ i - 1 \in 0 .. length
          OBVIOUS
    <3>2. n \in Nat
          BY <3>1
    <3>3. step[i][n] = 10 * n + Digit(i) /\ X[i] = Nat
          BY <3>2
    <3> HIDE DEF X, step
    <3> QED
        BY <1>8, <3>1, <3>2, <3>3
  <2> HIDE DEF X, step
  <2>3. PICK f : \A i \in 0 .. length : /\ f[i] = IF i = 0 THEN 0 ELSE step[i][f[i - 1]]
                                       /\ f[i] \in X[i]
    <3>1. States(0, length, X, 0, step)
          BY <2>1, <2>2, Loop DEF Stays
    <3> QED
        BY <3>1 DEF States
  <2>4. \A i \in 0 .. length : i # 0 => i - 1 \in 0 .. length /\ f[i - 1] \in Nat
        BY <2>3 DEF X
  <2>5. \A i \in 0 .. length : i # 0 => step[i][f[i - 1]] = 10 * f[i - 1] + Digit(i)
        BY <2>4 DEF step
  <2> DEFINE g == [i \in 0 .. length |-> f[i]]
  <2>6. \A i \in 0 .. length : f[i] = IF i = 0 THEN 0 ELSE 10 * g[i - 1] + Digit(i)
        BY <2>3, <2>4, <2>5
  <2>7. IsD(g)
        BY <2>6
  <2> HIDE DEF IsD, g
  <2> QED
      BY <1>4, <2>7
<1>10. d[0] = 0 /\ \A i \in 1 .. length : d[i] = 10 * d[i - 1] + Digit(i)
  <2>1. \A i \in 0 .. length : d[i] = IF i = 0 THEN 0 ELSE 10 * d[i - 1] + Digit(i)
        BY <1>9
  <2> QED
      BY <2>1
<1>11. \A i \in 0 .. length : d[i] \in Nat
  <2> DEFINE P == {i \in 0 .. length : d[i] \in Nat}
  <2>1. 0 \in P /\ \A i \in 0 .. length : i # 0 /\ i - 1 \in P => i \in P
        BY <1>8, <1>10
  <2> HIDE DEF P
  <2>2. \A i \in 0 .. length : i \in P
        BY <2>1, Induct
  <2> QED
      BY <2>2 DEF P
<1>12. ASSUME NEW i \in 1 .. length
       PROVE  AddDigit([digit |-> TRUE, value |-> d[i - 1]], digits[i], base) = [digit |-> TRUE, value |-> d[i]]
  <2>1. digits[i] \in DOMAIN Value /\ Value[digits[i]] < 10
        BY <1>2
  <2>2. d[i] = 10 * d[i - 1] + Value[digits[i]]
        BY <1>10
  <2> QED
      BY <1>7, <2>1, <2>2 DEF AddDigit
<1> HIDE DEF IsD
<1> DEFINE g == [i \in 0 .. length |-> [digit |-> TRUE, value |-> d[i]]]
<1> DEFINE So(i) == [digit |-> TRUE, value |-> d[i]]
<1>13. Start(0) = So(0)
  <2>1. (0 + 1 = first) = TRUE
        BY <1>6
  <2> QED
      BY <1>10, <2>1
<1>14. IsN(g)
  <2>1. \A i \in 0 .. length : [digit |-> TRUE, value |-> d[i]]
                               = IF first = 0 \/ i < first THEN Start(i)
                                 ELSE AddDigit(g[i - 1], digits[i], base)
    <3> SUFFICES ASSUME NEW i \in 0 .. length
                 PROVE  [digit |-> TRUE, value |-> d[i]]
                        = IF first = 0 \/ i < first THEN Start(i)
                          ELSE AddDigit(g[i - 1], digits[i], base)
        OBVIOUS
    <3>1. CASE i = 0
      <4>1. i < first
            BY <1>6, <3>1
      <4> HIDE DEF Start
      <4> QED
          BY <1>13, <3>1, <4>1
    <3>2. CASE i # 0
      <4>1. i \in 1 .. length /\ ~(first = 0 \/ i < first) /\ g[i - 1] = [digit |-> TRUE, value |-> d[i - 1]]
            BY <1>6, <3>2
      <4> QED
          BY <1>12, <4>1
    <3> QED
        BY <3>1, <3>2
  <2> QED
      BY <2>1
<1>15. ASSUME NEW h, IsN(h) PROVE h[length] = [digit |-> TRUE, value |-> d[length]]
  <2> DEFINE P == {i \in 0 .. length : h[i] = [digit |-> TRUE, value |-> d[i]]}
  <2>1. \A i \in 0 .. length : h[i] = IF first = 0 \/ i < first THEN Start(i)
                                      ELSE AddDigit(h[i - 1], digits[i], base)
        BY <1>15
  <2>2. 0 \in P
    <3>1. 0 < first /\ 0 \in 0 .. length
          BY <1>6
    <3> HIDE DEF Start
    <3>2. h[0] = Start(0)
          BY <2>1, <3>1
    <3> QED
        BY <1>13, <3>1, <3>2
  <2>3. ASSUME NEW i \in 0 .. length, i # 0, i - 1 \in P PROVE i \in P
    <3>1. i \in 1 .. length /\ ~(first = 0 \/ i < first)
          BY <1>6, <2>3
    <3>2. h[i] = AddDigit(h[i - 1], digits[i], base) /\ h[i - 1] = [digit |-> TRUE, value |-> d[i - 1]]
          BY <2>1, <2>3, <3>1
    <3> QED
        BY <1>12, <3>1, <3>2
  <2> HIDE DEF P
  <2>4. length \in P
    <3>1. length \in 0 .. length /\ 0 \in Int /\ length \in Int
          OBVIOUS
    <3> QED
        BY <2>2, <2>3, <3>1, Induct
  <2> QED
      BY <2>4 DEF P
<1> HIDE DEF IsN, g
<1>16. IsN(CHOOSE h : IsN(h))
       BY <1>14
<1>17. (CHOOSE h : IsN(h))[length] = [digit |-> TRUE, value |-> d[length]]
       BY <1>15, <1>16
<1>18. first # 0 /\ d[length] \in Nat
       BY <1>6, <1>11
<1>19. StrToInt(digits) = [ok |-> first # 0 /\ TRUE, value |-> d[length]]
       BY <1>5, <1>17
<1>20. (first # 0 /\ TRUE) = TRUE
       BY <1>18
<1> QED
    BY <1>9, <1>18, <1>19, <1>20
-----------------------------------------------------------------------------
(* Texts                                                                   *)

LEMMA SubSeqTypes ==
    ASSUME NEW text \in Text, NEW from \in Nat \ {0}, NEW to \in Int, to <= Len(text)
    PROVE  SubSeq(text, from, to) \in Text /\ Len(SubSeq(text, from, to)) \in Nat
<1>1. SubSeq(text, from, to) \in Text
  <2>1. CASE from <= to
        BY <2>1 DEF Text
  <2>2. CASE from > to
        BY <2>2 DEF Text
  <2> QED
      BY <2>1, <2>2
<1> QED
    BY <1>1 DEF Text

LEMMA CStringTypes ==
    ASSUME NEW buf \in Text, NEW from \in Nat \ {0}
    PROVE  CString(buf, from) \in Text
<1> DEFINE I == {i \in from .. Len(buf) : buf[i] = "NUL"}
           end == SelectInSubSeq(buf, from, Len(buf), LAMBDA c : c = "NUL")
<1>1. Len(buf) \in Nat
      BY DEF Text
<1>2. end = IF I # {} THEN Min(I) ELSE 0
      BY DEF SelectInSubSeq
<1>3. I # {} => Min(I) \in I
      BY MinIs
<1>4. (IF end = 0 THEN Len(buf) ELSE end - 1) \in Int /\ (IF end = 0 THEN Len(buf) ELSE end - 1) <= Len(buf)
      BY <1>1, <1>2, <1>3
<1>5. CString(buf, from) = SubSeq(buf, from, IF end = 0 THEN Len(buf) ELSE end - 1)
      BY DEF CString, Until
<1> HIDE DEF end
<1> QED
    BY <1>4, <1>5, SubSeqTypes

LEMMA CStringIs ==
    ASSUME NEW b \in Text, NEW from \in Nat \ {0}, NEW end \in Nat, from <= end, end <= Len(b),
           b[end] = "NUL", \A i \in from .. end - 1 : b[i] # "NUL"
    PROVE  CString(b, from) = SubSeq(b, from, end - 1)
<1> DEFINE I == {i \in from .. Len(b) : b[i] = "NUL"}
           found == SelectInSubSeq(b, from, Len(b), LAMBDA c : c = "NUL")
<1>1. Len(b) \in Nat
      BY TextIs
<1>2. found = IF I # {} THEN Min(I) ELSE 0
      BY DEF SelectInSubSeq
<1>3. end \in I /\ I \subseteq Nat /\ \A i \in I : end <= i
  <2>1. end \in I /\ I \subseteq Nat
        BY <1>1
  <2>2. \A i \in I : i \notin from .. end - 1 /\ i \in Nat /\ from <= i
        BY <1>1
  <2> QED
      BY <2>1, <2>2
<1>4. found = end
      BY <1>2, <1>3, Least
<1>5. CString(b, from) = SubSeq(b, from, IF found = 0 THEN Len(b) ELSE found - 1)
      BY DEF CString, Until
<1> HIDE DEF found, I
<1> QED
    BY <1>4, <1>5

LEMMA SliceIs ==
    ASSUME NEW b \in Text, NEW from \in Nat \ {0}, NEW to \in Nat, from <= to + 1, to <= Len(b)
    PROVE  /\ SubSeq(b, from, to) \in Text /\ Len(SubSeq(b, from, to)) = to + 1 - from
           /\ \A k \in 1 .. to + 1 - from : SubSeq(b, from, to)[k] = b[from + k - 1]
<1>1. PICK length \in Nat : length = Len(b)
      BY TextIs
<1>2. SubSeq(b, from, to) \in Text
      BY <1>1, SubSeqTypes
<1>3. CASE from <= to
      BY <1>1, <1>2, <1>3 DEF Text
<1>4. CASE from = to + 1
      BY <1>1, <1>2, <1>4 DEF Text
<1> QED
    BY <1>2, <1>3, <1>4

LEMMA ByteSet ==
    ASSUME NEW b \in Text, NEW at, NEW c \in Token
    PROVE  \E d \in Text : /\ d = [b EXCEPT ![at] = c] /\ Len(d) = Len(b)
                           /\ \A i \in 1 .. Len(b) : i # at => d[i] = b[i]
                           /\ at \in 1 .. Len(b) => d[at] = c
<1>1. PICK n \in Nat : n = Len(b) /\ DOMAIN b = 1 .. n /\ \A i \in 1 .. n : b[i] \in Token
      BY TextIs
<1>2. PICK f : f = [b EXCEPT ![at] = c]
      OBVIOUS
<1>3. f = [i \in 1 .. n |-> IF i = at THEN c ELSE b[i]]
      BY <1>1, <1>2
<1>4. \A i \in 1 .. n : (IF i = at THEN c ELSE b[i]) \in Token
      BY <1>1
<1>5. f \in Seq(Token) /\ Len(f) = n
      BY <1>3, <1>4
<1>6. (\A i \in 1 .. n : i # at => f[i] = b[i]) /\ (at \in 1 .. n => f[at] = c)
      BY <1>3
<1> QED
    BY <1>1, <1>2, <1>5, <1>6 DEF Text

LEMMA SameSlice ==
    ASSUME NEW b \in Text, NEW g \in Text, NEW from \in Nat \ {0}, NEW to \in Nat, from <= to + 1,
           to <= Len(b), to <= Len(g), \A j \in from .. to : b[j] = g[j]
    PROVE  SubSeq(b, from, to) = SubSeq(g, from, to)
<1>1. PICK x \in Text : /\ x = SubSeq(b, from, to) /\ Len(x) = to + 1 - from
                        /\ \A k \in 1 .. to + 1 - from : x[k] = b[from + k - 1]
      BY SliceIs, ZenonT(30)
<1>2. PICK y \in Text : /\ y = SubSeq(g, from, to) /\ Len(y) = to + 1 - from
                        /\ \A k \in 1 .. to + 1 - from : y[k] = g[from + k - 1]
      BY SliceIs, ZenonT(30)
<1>3. \A k \in 1 .. to + 1 - from : from + k - 1 \in from .. to
      OBVIOUS
<1>4. Len(x) = Len(y) /\ \A k \in 1 .. Len(x) : x[k] = y[k]
      BY <1>1, <1>2, <1>3
<1>5. x = y
      BY <1>4, SeqEqual DEF Text
<1> QED
    BY <1>1, <1>2, <1>5

LEMMA CutTypes ==
    ASSUME NEW buf \in Text, NEW start \in Nat \ {0}
    PROVE  LET cut == Cut(buf, start) IN cut.buffer \in Text /\ cut.data \in Text
<1> DEFINE line == CString(buf, start)
           colon == SelectInSeq(line, LAMBDA c : c = ":")
           I == {i \in 1 .. Len(line) : line[i] = ":"}
<1>1. line \in Text /\ Len(line) \in Nat
      BY CStringTypes DEF Text
<1>2. colon \in Nat
  <2>1. colon = IF I # {} THEN Min(I) ELSE 0
        BY DEF SelectInSeq
  <2>2. I # {} => Min(I) \in I
        BY MinIs
  <2> QED
      BY <2>1, <2>2
<1>3. Cut(buf, start) = CutAt(buf, line, start + colon - 1, colon)
      BY DEF Cut
<1> HIDE DEF line, colon
<1>4. PICK at \in Nat : at = start + colon - 1
      BY <1>2
<1>5. (IF colon = 0 THEN buf ELSE [buf EXCEPT ![at] = "NUL"]) \in Text
      BY DEF Text, Token
<1>6. CString(buf, at + 2) \in Text
      BY CStringTypes
<1> QED
    BY <1>3, <1>4, <1>5, <1>6 DEF CutAt

\* What parse_apache_status has read.
Ends == {"lines", "ok", "crash", "error"}
Read == [buffer : Text, start : Nat \ {0}, end : Ends, idle : Int, busy : Int]

PageBegin(page) == [buffer |-> page, start |-> 1, end |-> "lines",
                    idle |-> NewStatus.idle, busy |-> NewStatus.busy]

LEMMA SetDataTypes ==
    ASSUME NEW r \in Read, NEW cut, cut.buffer \in Text, NEW number, number.value \in Int
    PROVE  SetData(r, cut, number) \in Read
<1>1. PICK idle \in Int : idle = IF cut.name = <<"idleworkers">> THEN number.value ELSE r.idle
      BY DEF Read
<1>2. PICK busy \in Int : busy = IF cut.name = <<"busyworkers">> THEN number.value ELSE r.busy
      BY DEF Read
<1>3. PICK end \in Ends : end = IF cut.colon = 0 THEN "crash"
                               ELSE IF /\ cut.name \in {<<"idleworkers">>, <<"busyworkers">>, <<"uptime">>}
                                       /\ ~number.ok THEN "error"
                               ELSE r.end
      BY DEF Read, Ends
<1>4. SetData(r, cut, number) = [r EXCEPT !.buffer = cut.buffer, !.idle = idle, !.busy = busy, !.end = end]
      BY <1>1, <1>2, <1>3 DEF SetData, Read
<1> QED
    BY <1>4 DEF Read

LEMMA ParseNextTypes ==
    ASSUME NEW r \in Read, NEW i \in Nat \ {0}
    PROVE  ParseNext(r, i) \in Read
<1> DEFINE ended == [r EXCEPT !.buffer[i] = "NUL"]
           cut == Cut(ended.buffer, r.start)
           number == StrToInt(cut.data)
           parsed == GetData(ended, r.start)
<1>1. ended \in Read
      BY DEF Read, Text, Token
<1>2. cut.buffer \in Text /\ cut.data \in Text
      BY <1>1, CutTypes DEF Read
<1>3. number.value \in Nat
      BY <1>2, StrToIntTypes DEF Text
<1>4. parsed = SetData(ended, cut, number)
      BY DEF GetData
<1> HIDE DEF ended, cut, number
<1>5. parsed \in Read
      BY <1>1, <1>2, <1>3, <1>4, SetDataTypes
<1>6. ParseLine(r, i) \in Read
  <2>1. ParseLine(r, i) = [parsed EXCEPT !.start = i + 1,
                                         !.end = IF @ = "lines" /\ (i = Len(r.buffer) \/ r.buffer[i + 1] = "LF")
                                                 THEN "ok" ELSE @]
        BY DEF ParseLine, ended
  <2>2. PICK p \in Read : p = parsed
        BY <1>5
  <2>3. PICK end \in Ends : end = IF p.end = "lines" /\ (i = Len(r.buffer) \/ r.buffer[i + 1] = "LF")
                                 THEN "ok" ELSE p.end
        BY DEF Read, Ends
  <2> HIDE DEF parsed
  <2>4. ParseLine(r, i) = [p EXCEPT !.start = i + 1, !.end = end]
        BY <2>1, <2>2, <2>3 DEF Read
  <2>5. i + 1 \in Nat \ {0}
        OBVIOUS
  <2> QED
      BY <2>4, <2>5 DEF Read
<1> QED
    BY <1>6 DEF ParseNext

\* What the beginning of a page is parsed with and each of its bytes keeps, in its place.
LEMMA ParseLinesIn ==
    ASSUME NEW page \in Text, NEW X, PageBegin(page) \in X[0],
           \A i \in 1 .. Len(page) : \A r \in X[i - 1] : ParseNext(r, i) \in X[i]
    PROVE  ParseLines(page) \in X[Len(page)]
<1> DEFINE length == Len(page)
           base == PageBegin(page)
           Is(h) == h = [i \in 0 .. length |-> IF i = 0 THEN base ELSE ParseNext(h[i - 1], i)]
           In == [i \in 0 .. length |-> X[i]]
           step == [i \in 0 .. length |-> [r \in X[i - 1] |-> ParseNext(r, i)]]
<1>1. ParseLines(page) = (CHOOSE h : Is(h))[length]
      BY DEF ParseLines, PageBegin
<1>2. length \in Nat
      BY DEF Text
<1>3. base \in X[0] /\ \A i \in 0 .. length : i # 0 => \A r \in X[i - 1] : ParseNext(r, i) \in X[i]
      BY <1>2
<1> HIDE DEF length, base
<1>4. \E h : Is(h)
  <2>1. base \in In[0]
        BY <1>2, <1>3
  <2>2. \A i \in 0 .. length : i # 0 => i - 1 \in 0 .. length
        BY <1>2
  <2>3. \A i \in 0 .. length : i # 0 => \A r \in In[i - 1] : step[i][r] \in In[i]
        BY <1>3, <2>2
  <2>4. \A i \in 0 .. length : i # 0 => \A r \in In[i - 1] : step[i][r] = ParseNext(r, i)
        BY <2>2
  <2> HIDE DEF In, step
  <2>5. PICK f : \A i \in 0 .. length : /\ f[i] = IF i = 0 THEN base ELSE step[i][f[i - 1]]
                                       /\ f[i] \in In[i]
    <3>1. States(0, length, In, base, step)
          BY <1>2, <2>1, <2>3, Loop DEF Stays
    <3> QED
        BY <3>1 DEF States
  <2> DEFINE g == [i \in 0 .. length |-> f[i]]
  <2>6. \A i \in 0 .. length : f[i] = IF i = 0 THEN base ELSE ParseNext(g[i - 1], i)
        BY <2>2, <2>4, <2>5
  <2>7. Is(g)
        BY <2>6
  <2> QED
      BY <2>7
<1>5. ASSUME NEW h, Is(h) PROVE h[length] \in X[length]
  <2> DEFINE P == {i \in 0 .. length : h[i] \in X[i]}
  <2>1. 0 \in P
        BY <1>2, <1>3, <1>5
  <2>2. \A i \in 0 .. length : i # 0 /\ i - 1 \in P => i \in P
        BY <1>2, <1>3, <1>5
  <2>3. length \in Int /\ 0 \in Int /\ length \in 0 .. length
        BY <1>2
  <2> HIDE DEF P
  <2>4. length \in P
        BY <2>1, <2>2, <2>3, Induct
  <2> QED
      BY <2>4 DEF P
<1> HIDE DEF Is
<1> QED
    BY <1>1, <1>4, <1>5 DEF length

LEMMA ParseLinesTypes ==
    ASSUME NEW page \in Text
    PROVE  ParseLines(page) \in Read
<1> DEFINE X == [i \in 0 .. Len(page) |-> Read]
<1>1. Len(page) \in Nat
      BY TextIs
<1>2. PageBegin(page) \in X[0]
      BY <1>1 DEF PageBegin, Read, NewStatus, Ends
<1>3. \A i \in 1 .. Len(page) : \A r \in X[i - 1] : ParseNext(r, i) \in X[i]
      BY <1>1, ParseNextTypes
<1>4. X[Len(page)] = Read
      BY <1>1
<1> HIDE DEF X
<1> QED
    BY <1>2, <1>3, <1>4, ParseLinesIn

\* get_http_response, parse_apache_status: wherever a transfer breaks off, the two numbers
\* are numbers.
LEMMA ReportsTypes ==
    ASSUME NEW page \in Text, NEW report \in Reports(page)
    PROVE  report.idle \in Int /\ report.busy \in Int
<1>1. PICK n \in 0 .. Len(page) : report = GetHttpResponse(SubSeq(page, 1, n))
      BY DEF Reports
<1>2. PICK text \in Text : text = SubSeq(page, 1, n) /\ Len(text) \in Nat
  <2>1. Len(page) \in Nat
        BY DEF Text
  <2>2. n \in Int /\ n <= Len(page) /\ 1 \in Nat \ {0}
        BY <2>1
  <2> QED
      BY <2>2, SubSeqTypes
<1>3. PICK blank \in Nat : blank = BlankLine(text)
  <2> DEFINE at == {i \in 1 .. Len(text) - 3 : SubSeq(text, i, i + 3) = CRLF \o CRLF}
  <2>1. BlankLine(text) = IF at = {} THEN 0 ELSE Min(at)
        BY DEF BlankLine
  <2>2. at \subseteq Nat
        BY <1>2
  <2> HIDE DEF at
  <2>3. at # {} => Min(at) \in at
        BY <2>2, MinIs
  <2> QED
      BY <2>1, <2>2, <2>3
<1>4. report = Respond(text, blank)
      BY <1>1, <1>2, <1>3 DEF GetHttpResponse
<1>5. CASE \E end : report = Report(end, NewStatus)
      BY <1>5 DEF Report, NewStatus
<1>6. CASE report = ParseStatus(SubSeq(text, blank + 4, Len(text)))
  <2>1. SubSeq(text, blank + 4, Len(text)) \in Text
        BY SubSeqTypes DEF Text
  <2>2. PICK read \in Read : read = ParseLines(SubSeq(text, blank + 4, Len(text)))
        BY <2>1, ParseLinesTypes
  <2>3. report = StatusRead(read)
        BY <1>6, <2>2 DEF ParseStatus
  <2> QED
      BY <2>3 DEF StatusRead, Report, Read
<1> QED
    BY <1>4, <1>5, <1>6 DEF Respond, BehindBlank

-----------------------------------------------------------------------------
(* The numbers of a page                                                   *)

LEMMA SelectIs ==
    ASSUME NEW line \in Text
    PROVE  LET colon == SelectInSeq(line, LAMBDA c : c = ":")
           IN  /\ colon \in 0 .. Len(line)
               /\ colon # 0 => line[colon] = ":"
               /\ \A k \in 1 .. Len(line) : line[k] = ":" => colon # 0 /\ colon <= k
<1> DEFINE Colons == {k \in 1 .. Len(line) : line[k] = ":"}
           colon == SelectInSeq(line, LAMBDA c : c = ":")
<1>1. colon = IF Colons # {} THEN Min(Colons) ELSE 0
      BY DEF SelectInSeq
<1>2. Len(line) \in Nat /\ Colons \subseteq Nat
      BY TextIs
<1>3. Colons # {} => Min(Colons) \in Colons /\ \A k \in Colons : Min(Colons) <= k
      BY <1>2, NatLeast DEF Min
<1>4. \A k \in Colons : k # 0 /\ k \in 0 .. Len(line)
      BY <1>2
<1>5. CASE Colons = {}
      BY <1>1, <1>2, <1>5
<1>6. CASE Colons # {}
  <2>1. colon \in Colons /\ \A k \in Colons : colon <= k
    <3> HIDE DEF Colons, colon
    <3> QED
        BY <1>1, <1>3, <1>6
  <2>2. colon \in 0 .. Len(line) /\ line[colon] = ":" /\ colon # 0
    <3> HIDE DEF colon
    <3> QED
        BY <1>4, <2>1
  <2> QED
      BY <2>1, <2>2, Zenon
<1> QED
    BY <1>5, <1>6

\* The C string of a line that has been ended at e: it ends there, or at a NUL it holds.
LEMMA LineString ==
    ASSUME NEW b \in Text, NEW s \in Nat \ {0}, NEW e \in Nat, s <= e, e <= Len(b), b[e] = "NUL"
    PROVE  \E f \in s .. e, line \in Text :
             /\ line = CString(b, s) /\ Len(line) = f - s /\ b[f] = "NUL"
             /\ \A k \in 1 .. f - s : line[k] = b[s + k - 1]
<1> DEFINE Nuls == {i \in s .. e : b[i] = "NUL"}
<1>1. e \in Nuls /\ Nuls \subseteq Nat
      OBVIOUS
<1>2. PICK f \in Nuls : \A i \in Nuls : f <= i
      BY <1>1, NatLeast
<1>3. f \in s .. e /\ f \in Nat /\ b[f] = "NUL" /\ \A i \in s .. f - 1 : b[i] # "NUL"
  <2>1. f \in s .. e /\ b[f] = "NUL"
        OBVIOUS
  <2>2. \A i \in s .. f - 1 : i \in s .. e /\ ~(f <= i)
        BY <2>1
  <2> QED
      BY <1>2, <2>1, <2>2
<1> HIDE DEF Nuls
<1>4. PICK length \in Nat : length = Len(b)
      BY TextIs
<1>5. CString(b, s) = SubSeq(b, s, f - 1)
  <2>1. s <= f /\ f <= Len(b)
        BY <1>3, <1>4
  <2> QED
      BY <1>3, <2>1, CStringIs
<1>6. /\ SubSeq(b, s, f - 1) \in Text /\ Len(SubSeq(b, s, f - 1)) = f - s
      /\ \A k \in 1 .. f - s : SubSeq(b, s, f - 1)[k] = b[s + k - 1]
  <2>1. PICK to \in Nat : to = f - 1 /\ s <= to + 1 /\ to <= Len(b) /\ to + 1 - s = f - s
        BY <1>3, <1>4
  <2>2. /\ SubSeq(b, s, to) \in Text /\ Len(SubSeq(b, s, to)) = to + 1 - s
        /\ \A k \in 1 .. to + 1 - s : SubSeq(b, s, to)[k] = b[s + k - 1]
        BY ONLY b \in Text, s \in Nat \ {0}, to \in Nat, <2>1, SliceIs
  <2> QED
      BY <2>1, <2>2
<1> QED
    BY <1>3, <1>5, <1>6

\* A buffer that holds the line of p from s to e, its end cut off.
HoldsLine(b, p, s, e) ==
    /\ p \in Text /\ b \in Text /\ Len(b) = Len(p)
    /\ s \in Nat \ {0} /\ e \in Nat /\ s <= e /\ e <= Len(p)
    /\ b[e] = "NUL" /\ \A j \in s .. e - 1 : b[j] = p[j]

\* The name of one word that this line gives, and what it gives under it.
LineIsCut(b, p, s, e, cut) ==
    /\ cut.buffer \in Text /\ Len(cut.buffer) = Len(b)
    /\ \A j \in e + 1 .. Len(b) : cut.buffer[j] = b[j]
    /\ \A name : cut.name = <<name>> => s + 1 < e /\ p[s + 1] = ":" /\ Lower(p[s]) = name
    /\ s + 1 < e /\ p[s + 1] = ":" /\ p[s] \notin {":", "NUL"} => cut.name = <<Lower(p[s])>>
    /\ /\ s + 2 < e /\ p[s + 1] = ":" /\ p[s] \notin {":", "NUL"}
       /\ \A j \in s + 2 .. e - 1 : p[j] # "NUL"
       => cut.data = SubSeq(p, s + 3, e - 1)

\* get_data cuts it so.
LEMMA PageLineCut ==
    ASSUME NEW p, NEW b, NEW s, NEW e, HoldsLine(b, p, s, e)
    PROVE  LineIsCut(b, p, s, e, Cut(b, s))
<1> USE DEF HoldsLine
<1>1. PICK size \in Nat : size = Len(p) /\ size = Len(b)
      BY TextIs
<1>2. PICK f \in s .. e, line \in Text :
         /\ line = CString(b, s) /\ Len(line) = f - s /\ b[f] = "NUL"
         /\ \A k \in 1 .. f - s : line[k] = b[s + k - 1]
      BY <1>1, LineString
<1>3. \A k \in 1 .. f - s : line[k] = p[s + k - 1]
  <2>1. \A k \in 1 .. f - s : s + k - 1 \in s .. e - 1
        OBVIOUS
  <2> QED
      BY <1>2, <2>1
<1> DEFINE colon == SelectInSeq(line, LAMBDA c : c = ":")
<1>4. /\ colon \in 0 .. f - s
      /\ colon # 0 => line[colon] = ":"
      /\ \A k \in 1 .. f - s : line[k] = ":" => colon # 0 /\ colon <= k
  <2>1. /\ colon \in 0 .. Len(line)
        /\ colon # 0 => line[colon] = ":"
        /\ \A k \in 1 .. Len(line) : line[k] = ":" => colon # 0 /\ colon <= k
        BY SelectIs
  <2> HIDE DEF colon
  <2> QED
      BY <1>2, <2>1
<1>5. PICK cut : cut = Cut(b, s) /\ cut = CutAt(b, line, s + colon - 1, colon)
      BY <1>2 DEF Cut
<1> HIDE DEF colon
<1>6. PICK at \in Nat : at = s + colon - 1 /\ at < e + 1 /\ (colon # 0 => at < e) /\ at + 2 \in Nat \ {0}
  <2>1. s + colon - 1 \in Nat /\ s + colon - 1 < e + 1 /\ (colon # 0 => s + colon - 1 < e)
    <3>1. f \in Nat /\ s <= f /\ f <= e /\ colon \in Nat /\ colon <= f - s
          BY <1>4
    <3> QED
        BY <3>1
  <2> QED
      BY <2>1
<1>7. /\ cut.colon = colon /\ cut.name = [k \in 1 .. colon - 1 |-> Lower(line[k])]
      /\ cut.buffer = IF colon = 0 THEN b ELSE [b EXCEPT ![at] = "NUL"]
      /\ cut.data = CString(b, at + 2)
      BY <1>5, <1>6 DEF CutAt
<1>8. /\ cut.buffer \in Text /\ Len(cut.buffer) = Len(b)
      /\ \A j \in e + 1 .. Len(b) : cut.buffer[j] = b[j]
  <2>1. "NUL" \in Token
        BY DEF Token
  <2>2. PICK d \in Text : /\ d = [b EXCEPT ![at] = "NUL"] /\ Len(d) = Len(b)
                          /\ \A i \in 1 .. Len(b) : i # at => d[i] = b[i]
                          /\ at \in 1 .. Len(b) => d[at] = "NUL"
        BY <2>1, ByteSet
  <2>3. \A j \in e + 1 .. Len(b) : j \in 1 .. Len(b) /\ j # at
        BY <1>1, <1>6
  <2>4. \A j \in e + 1 .. Len(b) : d[j] = b[j]
        BY <2>2, <2>3
  <2> QED
      BY <1>7, <2>2, <2>4
<1>10. ASSUME NEW name, cut.name = <<name>> PROVE s + 1 < e /\ p[s + 1] = ":" /\ Lower(p[s]) = name
  <2>1. DOMAIN cut.name = 1 .. 1 /\ cut.name[1] = name
        BY <1>10
  <2>2. DOMAIN cut.name = 1 .. colon - 1
        BY <1>7
  <2>3. colon = 2
    <3>1. 1 .. colon - 1 = 1 .. 1
          BY <2>1, <2>2, Zenon
    <3>2. 1 \in 1 .. 1 /\ (colon > 1 => colon - 1 \in 1 .. colon - 1)
          BY <1>4
    <3>3. 1 \in 1 .. colon - 1
          BY <3>1, <3>2, Zenon
    <3>4. colon > 1
          BY <1>4, <3>3
    <3>5. colon - 1 \in 1 .. 1
          BY <3>1, <3>2, <3>4, Zenon
    <3> QED
        BY <1>4, <3>5
  <2>4. Lower(line[1]) = name
        BY <1>7, <2>1, <2>3
  <2>5. f - s >= 2 /\ 1 \in 1 .. f - s /\ 2 \in 1 .. f - s /\ s + 1 - 1 = s /\ s + 2 - 1 = s + 1
        BY <1>4, <2>3
  <2>6. line[1] = p[s] /\ line[2] = p[s + 1]
        BY <1>3, <2>5
  <2>7. s + 1 < e
        BY <2>5
  <2> QED
      BY <1>4, <2>3, <2>4, <2>6, <2>7
<1>11. ASSUME s + 1 < e, p[s + 1] = ":", p[s] \notin {":", "NUL"}
       PROVE  colon = 2 /\ cut.name = <<Lower(p[s])>>
  <2>1. s \in s .. e - 1 /\ s + 1 \in s .. e - 1
        BY <1>11
  <2>2. b[s] # "NUL" /\ b[s + 1] # "NUL"
        BY <1>11, <2>1
  <2>3. f # s /\ f # s + 1
        BY <1>2, <2>2
  <2>4. 1 \in 1 .. f - s /\ 2 \in 1 .. f - s /\ s + 1 - 1 = s /\ s + 2 - 1 = s + 1
        BY <2>3
  <2>5. line[1] = p[s] /\ line[2] = p[s + 1]
        BY <1>3, <2>4
  <2>6. colon = 2
    <3>1. colon # 0 /\ colon <= 2 /\ colon # 1
          BY <1>4, <1>11, <2>4, <2>5
    <3> QED
        BY <1>4, <3>1
  <2>7. cut.name = [k \in 1 .. 1 |-> Lower(line[k])]
        BY <1>7, <2>6
  <2>8. cut.name = [k \in 1 .. 1 |-> Lower(p[s])]
    <3>1. \A k \in 1 .. 1 : Lower(line[k]) = Lower(p[s])
          BY <2>5
    <3> QED
        BY <2>7, <3>1
  <2> QED
      BY <2>6, <2>8
<1>12. ASSUME s + 2 < e, p[s + 1] = ":", p[s] \notin {":", "NUL"},
              \A j \in s + 2 .. e - 1 : p[j] # "NUL"
       PROVE  cut.data = SubSeq(p, s + 3, e - 1)
  <2>1. at + 2 = s + 3
        BY <1>6, <1>11, <1>12
  <2>2. PICK from \in Nat \ {0}, to \in Nat :
           from = s + 3 /\ to = e - 1 /\ from <= to + 1 /\ to <= Len(b) /\ to <= Len(p)
        BY <1>1, <1>12
  <2>3. \A j \in from .. to : b[j] = p[j] /\ b[j] # "NUL"
    <3>1. \A j \in from .. to : j \in s .. e - 1 /\ j \in s + 2 .. e - 1
          BY <2>2
    <3> QED
        BY <1>12, <3>1
  <2>4. CString(b, from) = SubSeq(b, from, to)
    <3>1. from <= e /\ e <= Len(b) /\ e - 1 = to
          BY <1>1, <2>2
    <3>2. \A i \in from .. e - 1 : b[i] # "NUL"
          BY <2>3, <3>1
    <3>3. CString(b, from) = SubSeq(b, from, e - 1)
          BY <3>1, <3>2, CStringIs
    <3> QED
        BY <3>1, <3>3
  <2>5. SubSeq(b, from, to) = SubSeq(p, from, to)
    <3>1. from <= to + 1 /\ to <= Len(b) /\ to <= Len(p)
          BY <2>2
    <3>2. \A j \in from .. to : b[j] = p[j]
          BY <2>3
    <3> QED
        BY ONLY b \in Text, p \in Text, from \in Nat \ {0}, to \in Nat, <3>1, <3>2, SameSlice
  <2> QED
      BY <1>7, <2>1, <2>2, <2>4, <2>5
<1> QED
    BY <1>5, <1>8, <1>10, <1>11, <1>12 DEF LineIsCut

\* parse_apache_status, of the byte that ends a line.
LEMMA ParseLineIs ==
    ASSUME NEW r \in Read, NEW i \in Nat \ {0}
    PROVE  LET b == [r.buffer EXCEPT ![i] = "NUL"]
               cut == Cut(b, r.start)
               number == StrToInt(cut.data).value
           IN  /\ ParseLine(r, i).buffer = cut.buffer /\ ParseLine(r, i).start = i + 1
               /\ ParseLine(r, i).idle = IF cut.name = <<"idleworkers">> THEN number ELSE r.idle
               /\ ParseLine(r, i).busy = IF cut.name = <<"busyworkers">> THEN number ELSE r.busy
<1> DEFINE ended == [r EXCEPT !.buffer[i] = "NUL"]
           b == [r.buffer EXCEPT ![i] = "NUL"]
           cut == Cut(b, r.start)
           number == StrToInt(cut.data)
           last == i = Len(r.buffer) \/ r.buffer[i + 1] = "LF"
<1>1. PICK buffer \in Text : buffer = b
  <2>1. PICK x \in Text : x = r.buffer
        BY DEF Read
  <2>2. "NUL" \in Token
        BY DEF Token
  <2>3. PICK d \in Text : /\ d = [x EXCEPT ![i] = "NUL"] /\ Len(d) = Len(x)
                          /\ \A j \in 1 .. Len(x) : j # i => d[j] = x[j]
                          /\ i \in 1 .. Len(x) => d[i] = "NUL"
        BY <2>2, ByteSet
  <2> QED
      BY <2>1, <2>3
<1>2. ended = [r EXCEPT !.buffer = buffer] /\ ended \in Read /\ ended.buffer = buffer
      BY <1>1 DEF Read
<1>3. ended.start = r.start /\ ended.idle = r.idle /\ ended.busy = r.busy
      BY <1>2 DEF Read
<1>4. GetData(ended, r.start) = SetData(ended, cut, number)
      BY <1>1, <1>2 DEF GetData
<1>5. PICK x : x = ended /\ x \in Read
      BY <1>2
<1>6. PICK c : c = cut
      OBVIOUS
<1>7. PICK num : num = number
      OBVIOUS
<1> HIDE DEF ended, b, cut, number
<1>8. PICK parsed : /\ parsed = SetData(x, c, num)
                    /\ parsed = [x EXCEPT !.buffer = c.buffer,
                                          !.idle = IF c.name = <<"idleworkers">> THEN num.value ELSE x.idle,
                                          !.busy = IF c.name = <<"busyworkers">> THEN num.value ELSE x.busy,
                                          !.end = parsed.end]
  <2> DEFINE end == IF c.colon = 0 THEN "crash"
                    ELSE IF /\ c.name \in {<<"idleworkers">>, <<"busyworkers">>, <<"uptime">>}
                            /\ ~num.ok THEN "error"
                    ELSE x.end
             parsed == [x EXCEPT !.buffer = c.buffer,
                                 !.idle = IF c.name = <<"idleworkers">> THEN num.value ELSE x.idle,
                                 !.busy = IF c.name = <<"busyworkers">> THEN num.value ELSE x.busy,
                                 !.end = end]
  <2>1. SetData(x, c, num) = parsed
        BY <1>5 DEF SetData, Read
  <2>2. parsed.end = end
        BY <1>5 DEF Read
  <2> HIDE DEF end
  <2> QED
      BY <2>1, <2>2
<1>9. /\ parsed.buffer = c.buffer
      /\ parsed.idle = IF c.name = <<"idleworkers">> THEN num.value ELSE x.idle
      /\ parsed.busy = IF c.name = <<"busyworkers">> THEN num.value ELSE x.busy
      /\ DOMAIN parsed = {"buffer", "start", "end", "idle", "busy"}
      BY <1>5, <1>8 DEF Read
<1>10. ParseLine(r, i) = [parsed EXCEPT !.start = i + 1,
                                        !.end = IF @ = "lines" /\ last THEN "ok" ELSE @]
       BY <1>4, <1>5, <1>6, <1>7, <1>8 DEF ParseLine, ended
<1>11. /\ ParseLine(r, i).buffer = parsed.buffer /\ ParseLine(r, i).start = i + 1
       /\ ParseLine(r, i).idle = parsed.idle /\ ParseLine(r, i).busy = parsed.busy
       BY <1>9, <1>10
<1> USE DEF cut, number, b
<1> QED
    BY <1>3, <1>5, <1>6, <1>7, <1>9, <1>11

LEMMA NamesAre ==
    \A c : /\ Lower(c) = "idleworkers" <=> c \in {"IdleWorkers", "idleworkers"}
           /\ Lower(c) = "busyworkers" <=> c \in {"BusyWorkers", "busyworkers"}
BY DEF Lower

\* A part of a text that has come: its first bytes.
ComesOf(p, g) == p \in Text /\ Len(p) <= Len(g) /\ \A j \in 1 .. Len(p) : p[j] = g[j]

\* A line that gives a number is read as it is written.
LEMMA NumberRead ==
    ASSUME NEW g \in Text, NEW names, ":" \notin names, "NUL" \notin names,
           NEW number, Give(g, LinesNamed(g, names), number),
           NEW p, ComesOf(p, g), NEW b, NEW s, NEW e, HoldsLine(b, p, s, e),
           <<s, e>> \in LinesNamed(g, names)
    PROVE  StrToInt(Cut(b, s).data).value = number /\ Cut(b, s).name = <<Lower(g[s])>>
<1> USE DEF HoldsLine
<1>1. PICK size \in Nat, length \in Nat : size = Len(p) /\ length = Len(g) /\ size <= length /\ p \in Text
      BY TextIs DEF ComesOf
<1>2. s < e /\ g[s] \in names /\ g[s + 1] = ":" /\ g[e] = "LF"
  <2>1. <<s, e>>[1] = s /\ <<s, e>>[2] = e
        OBVIOUS
  <2> QED
      BY <2>1 DEF LinesNamed
<1>3. PICK digits : /\ digits = SubSeq(g, s + 3, e - 1) /\ g[s + 2] = "SP"
                    /\ IsDecimal(digits) /\ Decimal(digits) = number
  <2>1. <<s, e>>[1] = s /\ <<s, e>>[2] = e
        OBVIOUS
  <2> QED
      BY <2>1 DEF Give
<1>4. s + 2 < e
  <2>1. e # s + 1 /\ e # s + 2
        BY <1>2, <1>3
  <2> QED
      BY <1>2, <2>1
<1>5. \A j \in s .. e - 1 : p[j] = g[j]
  <2>1. \A j \in s .. e - 1 : j \in 1 .. size
        BY <1>1
  <2> QED
      BY <1>1, <2>1 DEF ComesOf
<1>6. p[s] = g[s] /\ p[s + 1] = g[s + 1] /\ p[s + 2] = g[s + 2]
  <2>1. s \in s .. e - 1 /\ s + 1 \in s .. e - 1 /\ s + 2 \in s .. e - 1
        BY <1>4
  <2> QED
      BY <1>5, <2>1
<1>7. PICK from \in Nat \ {0}, to \in Nat :
         from = s + 3 /\ to = e - 1 /\ from <= to + 1 /\ to <= Len(g) /\ to <= Len(p)
      BY <1>1, <1>4
<1>8. digits \in Text /\ \A j \in from .. to : g[j] # "NUL"
  <2>1. /\ SubSeq(g, from, to) \in Text /\ Len(SubSeq(g, from, to)) = to + 1 - from
        /\ \A k \in 1 .. to + 1 - from : SubSeq(g, from, to)[k] = g[from + k - 1]
        BY ONLY g \in Text, from \in Nat \ {0}, to \in Nat, <1>7, SliceIs
  <2>2. digits = SubSeq(g, from, to)
        BY <1>3, <1>7
  <2>3. ASSUME NEW j \in from .. to PROVE g[j] # "NUL"
    <3>1. j - from + 1 \in 1 .. to + 1 - from /\ from + (j - from + 1) - 1 = j
          OBVIOUS
    <3>2. digits[j - from + 1] = g[j] /\ j - from + 1 \in 1 .. Len(digits)
          BY <2>1, <2>2, <3>1
    <3>3. digits[j - from + 1] \in ToSet(digits)
          BY <2>1, <2>2, <3>2, TextIs DEF ToSet
    <3>4. digits[j - from + 1] \in ToSet(Digits)
          BY <1>3, <3>3 DEF IsDecimal
    <3>5. "NUL" \notin ToSet(Digits)
          BY DEF ToSet, Digits
    <3> QED
        BY <3>2, <3>4, <3>5
  <2> QED
      BY <2>1, <2>2, <2>3
<1>9. SubSeq(p, from, to) = SubSeq(g, from, to)
  <2>1. \A j \in from .. to : p[j] = g[j]
    <3>1. \A j \in from .. to : j \in s .. e - 1
          BY <1>7
    <3> QED
        BY <1>5, <3>1
  <2>2. p \in Text
        BY <1>1
  <2> QED
      BY ONLY g \in Text, from \in Nat \ {0}, to \in Nat, <1>7, <2>1, <2>2, SameSlice, ZenonT(30)
<1>10. \A j \in s + 2 .. e - 1 : p[j] # "NUL"
  <2>1. \A j \in s + 2 .. e - 1 : j = s + 2 \/ (j \in from .. to /\ j \in s .. e - 1)
        BY <1>7
  <2>2. p[s + 2] # "NUL"
        BY <1>3, <1>6
  <2> QED
      BY <1>5, <1>8, <2>1, <2>2
<1>11. p[s + 1] = ":" /\ p[s] \notin {":", "NUL"} /\ s + 1 < e /\ s + 2 < e
       BY <1>2, <1>4, <1>6
<1>12. /\ Cut(b, s).name = <<Lower(p[s])>>
       /\ Cut(b, s).data = SubSeq(p, s + 3, e - 1)
  <2>1. LineIsCut(b, p, s, e, Cut(b, s))
        BY PageLineCut
  <2> QED
      BY <1>10, <1>11, <2>1 DEF LineIsCut
<1>13. Cut(b, s).data = digits
       BY <1>3, <1>7, <1>9, <1>12
<1>14. StrToInt(digits).value = number
  <2>1. StrToInt(digits) = [ok |-> TRUE, value |-> Decimal(digits)]
        BY <1>3, <1>8, DecimalIs
  <2> QED
      BY <1>3, <2>1
<1> QED
    BY <1>6, <1>12, <1>13, <1>14

\* What has been read of a part p of the page g, at its byte i: the number of idle workers
\* only together with that of the busy ones.
AtByte(g, p, idle, busy, i) ==
    {r \in Read :
       /\ Len(r.buffer) = Len(p) /\ r.start <= i + 1
       /\ \A j \in r.start .. Len(p) : r.buffer[j] = p[j]
       /\ r.end = "lines" => /\ r.start = 1 \/ p[r.start - 1] = "LF"
                             /\ \A j \in r.start .. i : p[j] # "LF"
       /\ r.busy \in {-1, busy}
       /\ (\E line \in BusyLines(g) : line[2] < r.start) => r.busy = busy
       /\ r.idle # -1 => r.idle = idle /\ r.busy = busy}

\* Two lines that end at one byte begin at one.
LEMMA OneLine ==
    ASSUME NEW g \in Text, NEW names, NEW line \in LinesNamed(g, names),
           NEW s \in Nat \ {0}, NEW e \in Nat, s <= e, s = 1 \/ g[s - 1] = "LF",
           \A j \in s .. e - 1 : g[j] # "LF", line[2] <= e
    PROVE  line[2] < s \/ line = <<s, e>>
<1>1. PICK length \in Nat : length = Len(g)
      BY TextIs
<1>2. PICK first \in 1 .. length, last \in 1 .. length :
         /\ line = <<first, last>> /\ first < last /\ (first = 1 \/ g[first - 1] = "LF")
         /\ g[last] = "LF" /\ \A j \in first .. last - 1 : g[j] # "LF"
  <2>1. line \in (1 .. length) \X (1 .. length)
        BY <1>1 DEF LinesNamed
  <2>2. PICK first \in 1 .. length, last \in 1 .. length : line = <<first, last>>
        BY <2>1
  <2>3. line[1] = first /\ line[2] = last
        BY <2>2
  <2>4. /\ first < last /\ (first = 1 \/ g[first - 1] = "LF")
        /\ g[last] = "LF" /\ \A j \in first .. last - 1 : g[j] # "LF"
        BY <2>3 DEF LinesNamed
  <2> QED
      BY <2>2, <2>4
<1>3. last <= e
      BY <1>2
<1>4. CASE last = e
  <2>1. ~(first < s)
    <3> SUFFICES ASSUME first < s PROVE FALSE
        OBVIOUS
    <3>1. s # 1 /\ s - 1 \in first .. last - 1
          BY <1>4
    <3> QED
        BY <1>2, <3>1
  <2>2. ~(first > s)
    <3> SUFFICES ASSUME first > s PROVE FALSE
        OBVIOUS
    <3>1. first # 1 /\ first - 1 \in s .. e - 1
          BY <1>2, <1>4
    <3> QED
        BY <1>2, <3>1
  <2>3. first = s
        BY <2>1, <2>2
  <2> QED
      BY <1>2, <1>4, <2>3
<1>5. CASE last < e
  <2>1. last \notin s .. e - 1
        BY <1>2
  <2>2. last < s
        BY <1>5, <2>1
  <2>3. line[2] = last
        BY <1>2
  <2> QED
      BY <2>2, <2>3
<1> QED
    BY <1>3, <1>4, <1>5

LEMMA AtNextByte ==
    ASSUME NEW g \in Text, NEW idle \in Int, NEW busy \in Int, IsStatus(g, idle, busy),
           NEW p, ComesOf(p, g), NEW i \in 1 .. Len(p), NEW r \in AtByte(g, p, idle, busy, i - 1)
    PROVE  ParseNext(r, i) \in AtByte(g, p, idle, busy, i)
<1>1. PICK size \in Nat, length \in Nat :
         size = Len(p) /\ length = Len(g) /\ size <= length /\ p \in Text /\ i \in 1 .. size /\ i \in Nat \ {0}
      BY TextIs DEF ComesOf
<1>2. \A j \in 1 .. size : p[j] = g[j]
      BY <1>1 DEF ComesOf
<1>3. PICK s \in Nat \ {0} :
         /\ s = r.start /\ s <= i /\ r \in Read /\ Len(r.buffer) = size /\ r.buffer \in Text
         /\ \A j \in s .. size : r.buffer[j] = p[j]
         /\ r.end = "lines" => /\ s = 1 \/ p[s - 1] = "LF"
                               /\ \A j \in s .. i - 1 : p[j] # "LF"
  <2>1. r \in Read /\ r.start \in Nat \ {0} /\ r.buffer \in Text
        BY DEF AtByte, Read
  <2>2. /\ Len(r.buffer) = size /\ r.start <= (i - 1) + 1 /\ (i - 1) + 1 = i
        /\ \A j \in r.start .. size : r.buffer[j] = p[j]
        /\ r.end = "lines" => /\ r.start = 1 \/ p[r.start - 1] = "LF"
                              /\ \A j \in r.start .. i - 1 : p[j] # "LF"
        BY <1>1 DEF AtByte
  <2> QED
      BY <2>1, <2>2
<1>4. /\ r.busy \in {-1, busy}
      /\ (\E line \in BusyLines(g) : line[2] < s) => r.busy = busy
      /\ r.idle # -1 => r.idle = idle /\ r.busy = busy
      BY <1>3 DEF AtByte
<1>5. CASE r.end # "lines" \/ r.buffer[i] # "LF"
  <2>1. ParseNext(r, i) = r
        BY <1>5 DEF ParseNext
  <2>2. r.end = "lines" => \A j \in s .. i : p[j] # "LF"
    <3> SUFFICES ASSUME r.end = "lines", NEW j \in s .. i PROVE p[j] # "LF"
        OBVIOUS
    <3>1. CASE j = i
          BY <1>1, <1>3, <1>5, <3>1
    <3>2. CASE j # i
      <4>1. j \in s .. i - 1
            BY <3>2
      <4> QED
          BY <1>3, <4>1
    <3> QED
        BY <3>1, <3>2
  <2>3. s <= i + 1
        BY <1>3
  <2>4. r \in AtByte(g, p, idle, busy, i)
        BY <1>1, <1>3, <1>4, <2>2, <2>3 DEF AtByte
  <2> QED
      BY <2>1, <2>4
<1>6. CASE r.end = "lines" /\ r.buffer[i] = "LF"
  <2>1. PICK b \in Text : /\ b = [r.buffer EXCEPT ![i] = "NUL"] /\ Len(b) = size
                          /\ b[i] = "NUL" /\ \A j \in 1 .. size : j # i => b[j] = r.buffer[j]
    <3>1. "NUL" \in Token
          BY DEF Token
    <3>2. PICK x \in Text : x = r.buffer /\ Len(x) = size
          BY <1>3
    <3>3. PICK d \in Text : /\ d = [x EXCEPT ![i] = "NUL"] /\ Len(d) = Len(x)
                            /\ \A j \in 1 .. Len(x) : j # i => d[j] = x[j]
                            /\ i \in 1 .. Len(x) => d[i] = "NUL"
          BY <3>1, ByteSet
    <3>4. d[i] = "NUL" /\ \A j \in 1 .. size : j # i => d[j] = x[j]
          BY <1>1, <3>2, <3>3
    <3>5. d = [r.buffer EXCEPT ![i] = "NUL"]
          BY <3>2, <3>3, Zenon
    <3>6. Len(d) = size /\ \A j \in 1 .. size : j # i => d[j] = r.buffer[j]
          BY <3>2, <3>3, <3>4
    <3> QED
        BY <3>4, <3>5, <3>6, Zenon
  <2>2. HoldsLine(b, p, s, i)
    <3>1. \A j \in s .. i - 1 : j \in 1 .. size /\ j # i /\ j \in s .. size
          BY <1>1
    <3>2. \A j \in s .. i - 1 : b[j] = p[j]
          BY <1>3, <2>1, <3>1
    <3> QED
        BY <1>1, <1>3, <2>1, <3>2 DEF HoldsLine
  <2>3. \A j \in i + 1 .. size : b[j] = p[j]
    <3>1. \A j \in i + 1 .. size : j \in 1 .. size /\ j # i /\ j \in s .. size
          BY <1>1, <1>3
    <3> QED
        BY <1>3, <2>1, <3>1
  <2>4. p[i] = "LF" /\ g[i] = "LF" /\ (s = 1 \/ g[s - 1] = "LF") /\ \A j \in s .. i - 1 : g[j] # "LF"
    <3>1. i \in s .. size /\ i \in 1 .. size /\ (s # 1 => s - 1 \in 1 .. size)
          /\ \A j \in s .. i - 1 : j \in 1 .. size
          BY <1>1, <1>3
    <3> QED
        BY <1>2, <1>3, <1>6, <3>1
  <2>5. PICK cut, number : /\ cut = Cut(b, s) /\ number = StrToInt(cut.data).value
                           /\ cut.buffer \in Text /\ Len(cut.buffer) = size
                           /\ \A j \in i + 1 .. size : cut.buffer[j] = p[j]
                           /\ \A name : cut.name = <<name>> =>
                                s + 1 < i /\ p[s + 1] = ":" /\ Lower(p[s]) = name
    <3>1. LineIsCut(b, p, s, i, Cut(b, s))
          BY <2>2, PageLineCut
    <3>2. PICK cut : cut = Cut(b, s)
          OBVIOUS
    <3>3. PICK number : number = StrToInt(cut.data).value
          OBVIOUS
    <3>4. /\ cut.buffer \in Text /\ Len(cut.buffer) = size
          /\ \A j \in i + 1 .. size : cut.buffer[j] = b[j]
          /\ \A name : cut.name = <<name>> =>
               s + 1 < i /\ p[s + 1] = ":" /\ Lower(p[s]) = name
          BY <2>1, <3>1, <3>2 DEF LineIsCut
    <3>5. \A j \in i + 1 .. size : cut.buffer[j] = p[j]
          BY <2>3, <3>4
    <3> QED
        BY <3>2, <3>3, <3>4, <3>5
  <2>6. \A names, name : cut.name = <<name>> /\ p[s] \in names => <<s, i>> \in LinesNamed(g, names)
    <3> SUFFICES ASSUME NEW names, NEW name, cut.name = <<name>>, p[s] \in names
                 PROVE  <<s, i>> \in LinesNamed(g, names)
        OBVIOUS
    <3>1. s + 1 < i /\ p[s + 1] = ":"
          BY <2>5
    <3>2. s \in 1 .. size /\ s + 1 \in 1 .. size
          BY <1>1, <3>1
    <3>3. g[s] \in names /\ g[s + 1] = ":"
          BY <1>2, <3>1, <3>2
    <3>4. <<s, i>> \in (1 .. Len(g)) \X (1 .. Len(g)) /\ <<s, i>>[1] = s /\ <<s, i>>[2] = i /\ s < i
          BY <1>1, <3>1
    <3> QED
        BY <2>4, <3>3, <3>4 DEF LinesNamed
  <2> DEFINE IsIdle == cut.name = <<"idleworkers">>
             IsBusy == cut.name = <<"busyworkers">>
  <2>7. PICK q \in Read : /\ q = ParseNext(r, i) /\ q.buffer = cut.buffer /\ q.start = i + 1
                          /\ q.idle = IF IsIdle THEN number ELSE r.idle
                          /\ q.busy = IF IsBusy THEN number ELSE r.busy
    <3>1. ParseNext(r, i) = ParseLine(r, i)
          BY <1>6 DEF ParseNext
    <3>2. ParseNext(r, i) \in Read
          BY <1>1, <1>3, ParseNextTypes
    <3>3. /\ ParseLine(r, i).buffer = cut.buffer /\ ParseLine(r, i).start = i + 1
          /\ ParseLine(r, i).idle = IF IsIdle THEN number ELSE r.idle
          /\ ParseLine(r, i).busy = IF IsBusy THEN number ELSE r.busy
          BY <1>1, <1>3, <2>1, <2>5, ParseLineIs, ZenonT(30)
    <3> QED
        BY <3>1, <3>2, <3>3
  <2>8. /\ Give(g, IdleLines(g), idle) /\ Give(g, BusyLines(g), busy)
        /\ \A line \in IdleLines(g) :
             BusyLines(g) = {} \/ \E before \in BusyLines(g) : before[2] < line[1]
        BY DEF IsStatus
  <2>9. \A names, value : /\ <<s, i>> \in LinesNamed(g, names) /\ Give(g, LinesNamed(g, names), value)
                          /\ ":" \notin names /\ "NUL" \notin names
                          => number = value /\ cut.name = <<Lower(g[s])>>
    <3> SUFFICES ASSUME NEW names, NEW value,
                        <<s, i>> \in LinesNamed(g, names), Give(g, LinesNamed(g, names), value),
                        ":" \notin names, "NUL" \notin names
                 PROVE  number = value /\ cut.name = <<Lower(g[s])>>
        OBVIOUS
    <3>1. StrToInt(Cut(b, s).data).value = value /\ Cut(b, s).name = <<Lower(g[s])>>
          BY <2>2, NumberRead
    <3> QED
        BY <2>5, <3>1
  <2>10. IsIdle => <<s, i>> \in IdleLines(g) /\ number = idle
    <3> SUFFICES ASSUME IsIdle PROVE <<s, i>> \in IdleLines(g) /\ number = idle
        OBVIOUS
    <3>1. p[s] \in {"IdleWorkers", "idleworkers"}
          BY <2>5, NamesAre
    <3>2. <<s, i>> \in LinesNamed(g, {"IdleWorkers", "idleworkers"})
          BY <2>6, <3>1
    <3> QED
        BY <2>8, <2>9, <3>2 DEF IdleLines
  <2>11. IsBusy => <<s, i>> \in BusyLines(g) /\ number = busy
    <3> SUFFICES ASSUME IsBusy PROVE <<s, i>> \in BusyLines(g) /\ number = busy
        OBVIOUS
    <3>1. p[s] \in {"BusyWorkers", "busyworkers"}
          BY <2>5, NamesAre
    <3>2. <<s, i>> \in LinesNamed(g, {"BusyWorkers", "busyworkers"})
          BY <2>6, <3>1
    <3> QED
        BY <2>8, <2>9, <3>2 DEF BusyLines
  <2>12. <<s, i>> \in BusyLines(g) => IsBusy
    <3> SUFFICES ASSUME <<s, i>> \in BusyLines(g) PROVE IsBusy
        OBVIOUS
    <3>1. cut.name = <<Lower(g[s])>>
          BY <2>8, <2>9 DEF BusyLines
    <3>2. g[s] \in {"BusyWorkers", "busyworkers"}
      <4>1. <<s, i>>[1] = s
            OBVIOUS
      <4> QED
          BY <4>1 DEF BusyLines, LinesNamed
    <3> QED
        BY <3>1, <3>2, NamesAre
  <2>13. ~(IsIdle /\ IsBusy)
    <3> SUFFICES ASSUME IsIdle, IsBusy PROVE FALSE
        OBVIOUS
    <3>1. Lower(p[s]) = "idleworkers" /\ Lower(p[s]) = "busyworkers"
          BY <2>5
    <3> QED
        BY <3>1
  <2> HIDE DEF IsIdle, IsBusy
  <2>14. q.busy \in {-1, busy}
         BY <1>4, <2>7, <2>11
  <2>15. ASSUME NEW line \in BusyLines(g), line[2] < i + 1 PROVE q.busy = busy
    <3>1. line[2] <= i
      <4>1. line[2] \in Nat
            BY <1>1 DEF BusyLines, LinesNamed
      <4> QED
          BY <1>1, <2>15, <4>1
    <3>2. line[2] < s \/ line = <<s, i>>
      <4>1. PICK names : line \in LinesNamed(g, names)
            BY DEF BusyLines
      <4>2. /\ s \in Nat \ {0} /\ i \in Nat /\ s <= i /\ (s = 1 \/ g[s - 1] = "LF")
            /\ \A j \in s .. i - 1 : g[j] # "LF"
            BY <1>1, <1>3, <2>4
      <4> QED
          BY ONLY g \in Text, <3>1, <4>1, <4>2, OneLine
    <3>3. CASE line[2] < s
          BY <1>4, <2>7, <2>11, <3>3
    <3>4. CASE line = <<s, i>>
          BY <2>7, <2>11, <2>12, <3>4
    <3> QED
        BY <3>2, <3>3, <3>4
  <2>16. ASSUME q.idle # -1 PROVE q.idle = idle /\ q.busy = busy
    <3>1. CASE IsIdle
      <4>1. q.idle = idle /\ q.busy = r.busy
            BY <2>7, <2>10, <2>13, <3>1
      <4>2. CASE BusyLines(g) = {}
        <5>1. busy = -1
              BY <2>8, <4>2 DEF Give
        <5> QED
            BY <1>4, <4>1, <5>1
      <4>3. CASE \E before \in BusyLines(g) : before[2] < s
            BY <1>4, <4>1, <4>3
      <4>4. <<s, i>>[1] = s
            OBVIOUS
      <4> QED
          BY <2>8, <2>10, <3>1, <4>2, <4>3, <4>4
    <3>2. CASE ~IsIdle
          BY <1>4, <2>7, <2>11, <2>16, <3>2
    <3> QED
        BY <3>1, <3>2
  <2>17. /\ q.start = 1 \/ p[q.start - 1] = "LF"
         /\ \A j \in q.start .. i : p[j] # "LF"
         /\ q.start <= i + 1
         BY <1>1, <2>4, <2>7
  <2>18. /\ Len(q.buffer) = Len(p)
         /\ \A j \in q.start .. Len(p) : q.buffer[j] = p[j]
         BY <1>1, <2>5, <2>7
  <2>19. (\E line \in BusyLines(g) : line[2] < q.start) => q.busy = busy
         BY <2>7, <2>15
  <2>20. q \in AtByte(g, p, idle, busy, i)
         BY <2>14, <2>16, <2>17, <2>18, <2>19 DEF AtByte
  <2> QED
      BY <2>7, <2>20
<1> QED
    BY <1>5, <1>6

\* parse_apache_status, of any part of a page: if it reads the number of idle workers, it
\* has read both numbers as the page gives them.
LEMMA StatusOfPart ==
    ASSUME NEW g \in Text, NEW idle \in Int, NEW busy \in Int, IsStatus(g, idle, busy),
           NEW p, ComesOf(p, g)
    PROVE  ParseStatus(p).idle # -1 => ParseStatus(p).idle = idle /\ ParseStatus(p).busy = busy
<1> DEFINE X == [i \in 0 .. Len(p) |-> AtByte(g, p, idle, busy, i)]
<1>1. p \in Text /\ Len(p) \in Nat
      BY TextIs DEF ComesOf
<1>2. PageBegin(p) \in X[0]
  <2>1. PageBegin(p) \in Read
        BY <1>1 DEF PageBegin, Read, NewStatus, Ends
  <2>2. PICK r \in Read : r = PageBegin(p) /\ r.buffer = p /\ r.start = 1 /\ r.idle = -1 /\ r.busy = -1
        BY <2>1 DEF PageBegin, NewStatus
  <2>3. \A line \in BusyLines(g) : ~(line[2] < 1)
    <3>1. Len(g) \in Nat
          BY TextIs
    <3> QED
        BY <3>1 DEF BusyLines, LinesNamed
  <2>4. r \in AtByte(g, p, idle, busy, 0)
        BY <2>2, <2>3 DEF AtByte
  <2> QED
      BY <1>1, <2>2, <2>4
<1>3. \A i \in 1 .. Len(p) : \A r \in X[i - 1] : ParseNext(r, i) \in X[i]
  <2> SUFFICES ASSUME NEW i \in 1 .. Len(p), NEW r \in X[i - 1] PROVE ParseNext(r, i) \in X[i]
      OBVIOUS
  <2>1. X[i - 1] = AtByte(g, p, idle, busy, i - 1) /\ X[i] = AtByte(g, p, idle, busy, i)
        BY <1>1
  <2>2. r \in AtByte(g, p, idle, busy, i - 1)
        BY <2>1
  <2> HIDE DEF X
  <2> QED
      BY <2>1, <2>2, AtNextByte
<1>4. X[Len(p)] = AtByte(g, p, idle, busy, Len(p))
      BY <1>1
<1> HIDE DEF X
<1>5. ParseLines(p) \in AtByte(g, p, idle, busy, Len(p))
      BY <1>1, <1>2, <1>3, <1>4, ParseLinesIn
<1>6. PICK read : read = ParseLines(p) /\ (read.idle # -1 => read.idle = idle /\ read.busy = busy)
      BY <1>5 DEF AtByte
<1>7. ParseStatus(p) = StatusRead(read)
      BY <1>6 DEF ParseStatus
<1> QED
    BY <1>6, <1>7 DEF StatusRead, Report

\* The blank line of a part that has one is that of the whole.
LEMMA BlankOfPart ==
    ASSUME NEW text \in Text, NEW n \in 0 .. Len(text), BlankLine(SubSeq(text, 1, n)) # 0
    PROVE  LET blank == BlankLine(SubSeq(text, 1, n))
           IN  blank = BlankLine(text) /\ blank \in 1 .. n - 3
<1>1. PICK length \in Nat : length = Len(text) /\ n \in Nat /\ n <= length
      BY TextIs
<1>2. PICK part \in Text : /\ part = SubSeq(text, 1, n) /\ Len(part) = n
                           /\ \A k \in 1 .. n : part[k] = text[k]
  <2>1. /\ SubSeq(text, 1, n) \in Text /\ Len(SubSeq(text, 1, n)) = n + 1 - 1
        /\ \A k \in 1 .. n + 1 - 1 : SubSeq(text, 1, n)[k] = text[1 + k - 1]
    <3>1. 1 \in Nat \ {0} /\ n \in Nat /\ 1 <= n + 1 /\ n <= Len(text)
          BY <1>1
    <3> QED
        BY ONLY text \in Text, <3>1, SliceIs
  <2>2. n + 1 - 1 = n /\ \A k \in 1 .. n : 1 + k - 1 = k
        BY <1>1
  <2> QED
      BY <2>1, <2>2, ZenonT(30)
<1> DEFINE At(t) == {i \in 1 .. Len(t) - 3 : SubSeq(t, i, i + 3) = CRLF \o CRLF}
<1>3. BlankLine(part) = (IF At(part) = {} THEN 0 ELSE Min(At(part)))
      /\ BlankLine(text) = (IF At(text) = {} THEN 0 ELSE Min(At(text)))
      BY DEF BlankLine
<1>4. At(part) # {}
      BY <1>2, <1>3
<1>5. At(part) \subseteq Nat /\ At(text) \subseteq Nat
      BY <1>1, <1>2
<1>6. PICK first : /\ first \in At(part) /\ first = Min(At(part))
                   /\ \A i \in At(part) : first <= i
  <2> HIDE DEF At
  <2>1. Min(At(part)) \in At(part) /\ \A i \in At(part) : Min(At(part)) <= i
        BY <1>4, <1>5, NatLeast DEF Min
  <2> QED
      BY <2>1
<1>7. \A i \in 1 .. n - 3 : SubSeq(part, i, i + 3) = SubSeq(text, i, i + 3)
  <2> SUFFICES ASSUME NEW i \in 1 .. n - 3 PROVE SubSeq(part, i, i + 3) = SubSeq(text, i, i + 3)
      OBVIOUS
  <2>1. PICK from \in Nat \ {0}, to \in Nat :
           from = i /\ to = i + 3 /\ from <= to + 1 /\ to <= Len(part) /\ to <= Len(text)
        BY <1>1, <1>2
  <2>2. \A j \in from .. to : part[j] = text[j]
    <3>1. \A j \in from .. to : j \in 1 .. n
          BY <1>1, <2>1
    <3> QED
        BY <1>2, <3>1
  <2>3. SubSeq(part, from, to) = SubSeq(text, from, to)
        BY ONLY part \in Text, text \in Text, from \in Nat \ {0}, to \in Nat, <2>1, <2>2, SameSlice
  <2> QED
      BY <2>1, <2>3
<1>8. first \in 1 .. n - 3 /\ first \in At(text)
  <2>1. first \in 1 .. n - 3 /\ SubSeq(part, first, first + 3) = CRLF \o CRLF
        BY <1>2, <1>6
  <2>2. first \in 1 .. Len(text) - 3
        BY <1>1, <2>1
  <2>3. SubSeq(text, first, first + 3) = CRLF \o CRLF
        BY <1>7, <2>1
  <2> QED
      BY <2>1, <2>2, <2>3
<1>9. ASSUME NEW i \in At(text) PROVE first <= i
  <2>1. i \in Nat /\ i >= 1 /\ first \in Nat /\ SubSeq(text, i, i + 3) = CRLF \o CRLF
        BY <1>1, <1>8
  <2>2. CASE i \in 1 .. n - 3
    <3>1. SubSeq(part, i, i + 3) = CRLF \o CRLF
          BY <1>7, <2>1, <2>2
    <3>2. i \in At(part)
          BY <1>2, <2>2, <3>1
    <3> QED
        BY <1>6, <3>2
  <2>3. CASE i \notin 1 .. n - 3
        BY <1>1, <1>8, <2>1, <2>3
  <2> QED
      BY <2>2, <2>3
<1>10. BlankLine(text) = first
  <2> HIDE DEF At
  <2>1. Min(At(text)) = first
        BY <1>5, <1>8, <1>9, Least
  <2> QED
      BY <1>3, <1>8, <2>1
<1>11. BlankLine(part) = first
  <2> HIDE DEF At
  <2> QED
      BY <1>3, <1>4, <1>6
<1> QED
    BY <1>2, <1>8, <1>10, <1>11

\* get_http_response, parse_apache_status: of a status page, wherever its transfer breaks
\* off, the number of idle workers is not reported, or both numbers are as the page gives
\* them.
LEMMA StatusServed ==
    ASSUME NEW text \in Text, NEW idle \in Int, NEW busy \in Int,
           BlankLine(text) # 0 => IsStatus(BehindBlank(text, BlankLine(text)), idle, busy),
           NEW report \in Reports(text), report.idle >= 0
    PROVE  report.idle = idle /\ report.busy = busy
<1>1. PICK length \in Nat : length = Len(text)
      BY TextIs
<1>2. PICK n \in 0 .. length : report = GetHttpResponse(SubSeq(text, 1, n))
      BY <1>1 DEF Reports
<1>3. PICK part \in Text : /\ part = SubSeq(text, 1, n) /\ Len(part) = n
                           /\ \A k \in 1 .. n : part[k] = text[k]
  <2>1. /\ SubSeq(text, 1, n) \in Text /\ Len(SubSeq(text, 1, n)) = n + 1 - 1
        /\ \A k \in 1 .. n + 1 - 1 : SubSeq(text, 1, n)[k] = text[1 + k - 1]
    <3>1. 1 \in Nat \ {0} /\ n \in Nat /\ 1 <= n + 1 /\ n <= Len(text)
          BY <1>1
    <3> QED
        BY ONLY text \in Text, <3>1, SliceIs
  <2>2. n + 1 - 1 = n /\ \A k \in 1 .. n : 1 + k - 1 = k
        BY <1>1
  <2> QED
      BY <2>1, <2>2
<1>4. PICK blank : blank = BlankLine(part)
      OBVIOUS
<1>5. report = Respond(part, blank)
      BY <1>2, <1>3, <1>4 DEF GetHttpResponse
<1>6. CASE \E end : report = Report(end, NewStatus)
  <2>1. report.idle = -1
        BY <1>6 DEF Report, NewStatus
  <2> QED
      BY <2>1
<1>7. CASE blank # 0 /\ report = ParseStatus(BehindBlank(part, blank))
  <2>1. blank = BlankLine(text) /\ blank \in 1 .. n - 3
        BY <1>1, <1>3, <1>4, <1>7, BlankOfPart
  <2>2. PICK g : g = BehindBlank(text, blank)
        OBVIOUS
  <2>3. IsStatus(g, idle, busy)
        BY <1>7, <2>1, <2>2
  <2>4. PICK from \in Nat \ {0} : from = blank + 4 /\ from <= n + 1
        BY <1>1, <2>1
  <2>5. g = SubSeq(text, from, length)
        BY <1>1, <2>2, <2>4 DEF BehindBlank
  <2>6. /\ g \in Text /\ Len(g) = length + 1 - from
        /\ \A k \in 1 .. length + 1 - from : g[k] = text[from + k - 1]
    <3>1. from \in Nat \ {0} /\ length \in Nat /\ from <= length + 1 /\ length <= Len(text)
          BY <1>1, <2>4
    <3> QED
        BY ONLY text \in Text, <3>1, <2>5, SliceIs
  <2>7. PICK p : p = BehindBlank(part, blank)
        OBVIOUS
  <2>8. p = SubSeq(part, from, n)
        BY <1>3, <2>4, <2>7 DEF BehindBlank
  <2>9. /\ p \in Text /\ Len(p) = n + 1 - from
        /\ \A k \in 1 .. n + 1 - from : p[k] = part[from + k - 1]
    <3>1. from \in Nat \ {0} /\ n \in Nat /\ from <= n + 1 /\ n <= Len(part)
          BY <1>1, <1>3, <2>4
    <3> QED
        BY ONLY part \in Text, <3>1, <2>8, SliceIs
  <2>10. ComesOf(p, g)
    <3>1. Len(p) <= Len(g)
          BY <1>1, <2>6, <2>9
    <3>2. ASSUME NEW k \in 1 .. Len(p) PROVE p[k] = g[k]
      <4>1. k \in 1 .. n + 1 - from /\ k \in 1 .. length + 1 - from /\ from + k - 1 \in 1 .. n
            BY <1>1, <2>9
      <4> QED
          BY <1>3, <2>6, <2>9, <4>1
    <3> QED
        BY <2>9, <3>1, <3>2 DEF ComesOf
  <2>11. report.idle # -1
         OBVIOUS
  <2>12. report = ParseStatus(p)
         BY <1>7, <2>7
  <2> QED
      BY <2>3, <2>6, <2>10, <2>11, <2>12, StatusOfPart
<1>8. blank = 0 => report = Report("crash", NewStatus)
      BY <1>5 DEF Respond
<1>9. blank # 0 => (\E end : report = Report(end, NewStatus)) \/ report = ParseStatus(BehindBlank(part, blank))
      BY <1>5 DEF Respond
<1> QED
    BY <1>6, <1>7, <1>8, <1>9
=============================================================================
