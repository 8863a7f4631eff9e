------------------------------ MODULE HttpProofs ------------------------------
(***************************************************************************)
(* A server is asked what the client has asked, the lengths that are read  *)
(* are those that the client and the servers have written, and the client  *)
(* reads whole answers in the order of its requests, for every session of  *)
(* requests, for every answer, and wherever either side closes.            *)
(***************************************************************************)
EXTENDS Http, StatusPageProofs

\* What a text of n and one of k tokens make together, place by place.
Joins(s, n, t, k, both) ==
    /\ both \in Text /\ Len(both) = n + k
    /\ \A i \in 1 .. n : both[i] = s[i]
    /\ \A i \in 1 .. k : both[n + i] = t[i]

LEMMA JoinIs ==
    ASSUME NEW s \in Text, NEW t \in Text
    PROVE  /\ s \o t \in Text /\ Len(s \o t) = Len(s) + Len(t)
           /\ \A i \in 1 .. Len(s) : (s \o t)[i] = s[i]
           /\ \A i \in 1 .. Len(t) : (s \o t)[Len(s) + i] = t[i]
<1>1. Len(s) \in Nat /\ Len(t) \in Nat
      BY TextIs
<1>2. /\ s \o t \in Text /\ Len(s \o t) = Len(s) + Len(t)
      /\ \A i \in 1 .. Len(s) + Len(t) : (s \o t)[i] = IF i <= Len(s) THEN s[i] ELSE t[i - Len(s)]
      BY ConcatProperties DEF Text
<1>3. \A i \in 1 .. Len(s) : i \in 1 .. Len(s) + Len(t) /\ i <= Len(s)
      BY <1>1
<1>4. \A i \in 1 .. Len(t) : /\ Len(s) + i \in 1 .. Len(s) + Len(t)
                             /\ ~(Len(s) + i <= Len(s)) /\ (Len(s) + i) - Len(s) = i
      BY <1>1
<1> QED
    BY <1>2, <1>3, <1>4

LEMMA JoinText ==
    ASSUME NEW s \in Text, NEW n \in Nat, n = Len(s), NEW t \in Text, NEW k \in Nat, k = Len(t)
    PROVE  \E both \in Text : both = s \o t /\ Joins(s, n, t, k, both)
<1>1. s \o t \in Text /\ Joins(s, n, t, k, s \o t)
      BY JoinIs DEF Joins
<1> QED
    BY <1>1

LEMMA PartIs ==
    ASSUME NEW s \in Text, NEW n \in 0 .. Len(s)
    PROVE  /\ SubSeq(s, 1, n) \in Text /\ Len(SubSeq(s, 1, n)) = n
           /\ \A i \in 1 .. n : SubSeq(s, 1, n)[i] = s[i]
BY TextIs DEF Text
-----------------------------------------------------------------------------
(* The stream                                                              *)

Texts1 == Seq(Text)

\* FlattenSeq as a loop over its texts.
Flat(h, seqs) == h = [i \in 1 .. Len(seqs) |-> IF i = 1 THEN seqs[i] ELSE h[i - 1] \o seqs[i]]

LEMMA FlatIs ==
    ASSUME NEW seqs \in Texts1, Len(seqs) > 0
    PROVE  \E h : /\ Flat(h, seqs) /\ FlattenSeq(seqs) = h[Len(seqs)]
                  /\ h \in [1 .. Len(seqs) -> Text]
<1> DEFINE length == Len(seqs)
           X == [i \in 1 .. length |-> Text]
           step == [i \in 1 .. length |-> [s \in Text |-> s \o seqs[i]]]
<1>1. FlattenSeq(seqs) = (CHOOSE h : Flat(h, seqs))[length]
      BY DEF FlattenSeq, Flat
<1>2. length \in Nat /\ length >= 1 /\ \A i \in 1 .. length : seqs[i] \in Text
      BY DEF Texts1
<1>3. \A s \in Text, i \in 1 .. length : s \o seqs[i] \in Text
      BY <1>2, JoinIs
<1> HIDE DEF length
<1>4. \E h : Flat(h, seqs)
  <2>1. seqs[1] \in X[1]
        BY <1>2
  <2>2. \A i \in 1 .. length : i # 1 => \A x \in X[i - 1] : step[i][x] \in X[i]
        BY <1>2, <1>3
  <2> HIDE DEF X, step
  <2>3. PICK f : \A i \in 1 .. length : /\ f[i] = IF i = 1 THEN seqs[1] ELSE step[i][f[i - 1]]
                                       /\ f[i] \in X[i]
    <3>1. States(1, length, X, seqs[1], step)
          BY <1>2, <2>1, <2>2, Loop DEF Stays
    <3> QED
        BY <3>1 DEF States
  <2>4. \A i \in 1 .. length : i # 1 => i - 1 \in 1 .. length /\ f[i - 1] \in Text
        BY <1>2, <2>3 DEF X
  <2>5. \A i \in 1 .. length : i # 1 => step[i][f[i - 1]] = f[i - 1] \o seqs[i]
        BY <2>4 DEF step
  <2> DEFINE g == [i \in 1 .. length |-> f[i]]
  <2>6. \A i \in 1 .. length : f[i] = IF i = 1 THEN seqs[i] ELSE g[i - 1] \o seqs[i]
        BY <2>3, <2>4, <2>5
  <2>7. Flat(g, seqs)
        BY <2>6 DEF Flat, length
  <2> QED
      BY <2>7
<1>5. ASSUME NEW h, Flat(h, seqs) PROVE h \in [1 .. length -> Text]
  <2> DEFINE P == {i \in 1 .. length : h[i] \in Text}
  <2>1. \A i \in 1 .. length : h[i] = IF i = 1 THEN seqs[i] ELSE h[i - 1] \o seqs[i]
        BY <1>5 DEF Flat, length
  <2>2. 1 \in P
        BY <1>2, <2>1
  <2>3. \A i \in 1 .. length : i # 1 /\ i - 1 \in P => i \in P
        BY <1>3, <2>1
  <2>4. length \in Int /\ 1 \in Int
        BY <1>2
  <2> HIDE DEF P
  <2>5. \A i \in 1 .. length : i \in P
        BY <2>2, <2>3, <2>4, Induct
  <2> QED
      BY <1>5, <2>5 DEF P, Flat, length
<1> HIDE DEF Flat
<1> QED
    BY <1>1, <1>4, <1>5 DEF length

\* The first text, and then the others.
LEMMA FlattenFirst ==
    ASSUME NEW seqs \in Texts1, Len(seqs) > 0
    PROVE  /\ FlattenSeq(Tail(seqs)) \in Text
           /\ FlattenSeq(seqs) = seqs[1] \o FlattenSeq(Tail(seqs))
<1>1. PICK rest \in Texts1 : rest = Tail(seqs) /\ Len(rest) = Len(seqs) - 1
  <2>1. seqs # <<>>
        OBVIOUS
  <2>2. Tail(seqs) \in Seq(Text) /\ Len(Tail(seqs)) = Len(seqs) - 1
        BY ONLY seqs \in Texts1, <2>1, HeadTailProperties DEF Texts1
  <2> QED
      BY <2>2 DEF Texts1
<1>2. PICK length \in Nat : length = Len(seqs)
      BY DEF Texts1
<1>3. /\ Len(rest) = length - 1 /\ length >= 1
      /\ \A i \in 1 .. length - 1 : rest[i] = seqs[i + 1]
      /\ \A i \in 1 .. length : seqs[i] \in Text
      BY <1>1, <1>2 DEF Texts1
<1>4. PICK h : /\ Flat(h, seqs) /\ FlattenSeq(seqs) = h[length]
               /\ h \in [1 .. length -> Text]
      BY <1>2, FlatIs
<1>5. \A i \in 1 .. length : h[i] = IF i = 1 THEN seqs[i] ELSE h[i - 1] \o seqs[i]
      BY <1>2, <1>4 DEF Flat
<1>6. CASE length = 1
  <2>1. rest = <<>>
        BY <1>3, <1>6 DEF Texts1
  <2>2. FlattenSeq(rest) = <<>> /\ <<>> \in Text
        BY <2>1 DEF FlattenSeq, Text
  <2>3. FlattenSeq(seqs) = seqs[1]
        BY <1>4, <1>5, <1>6
  <2>4. PICK s \in Seq(Token) : s = seqs[1]
        BY <1>3 DEF Text
  <2>5. s \o <<>> = s
        BY ConcatEmptySeq
  <2> QED
      BY <1>1, <2>2, <2>3, <2>4, <2>5
<1>7. CASE length > 1
  <2>1. PICK g : /\ Flat(g, rest) /\ FlattenSeq(rest) = g[length - 1]
                 /\ g \in [1 .. length - 1 -> Text]
    <3>1. Len(rest) > 0 /\ Len(rest) = length - 1
          BY <1>2, <1>3, <1>7
    <3>2. \E g : /\ Flat(g, rest) /\ FlattenSeq(rest) = g[Len(rest)]
                 /\ g \in [1 .. Len(rest) -> Text]
          BY <3>1, FlatIs
    <3> QED
        BY <3>1, <3>2
  <2>2. \A i \in 1 .. length - 1 : g[i] = IF i = 1 THEN rest[i] ELSE g[i - 1] \o rest[i]
        BY <1>3, <2>1 DEF Flat
  <2> DEFINE P == {i \in 2 .. length : h[i] = seqs[1] \o g[i - 1]}
  <2>3. 2 \in P
    <3>1. /\ 1 \in 1 .. length /\ 2 \in 1 .. length /\ 1 \in 1 .. length - 1
          /\ 2 - 1 = 1 /\ 1 + 1 = 2 /\ 2 \in 2 .. length
          BY <1>7
    <3>2. h[1] = seqs[1] /\ h[2] = h[1] \o seqs[2]
      <4>1. \A i \in 1 .. length : i = 1 => h[i] = seqs[i]
            BY <1>5
      <4>2. \A i \in 1 .. length : i # 1 => h[i] = h[i - 1] \o seqs[i]
            BY <1>5
      <4>3. 2 # 1
            OBVIOUS
      <4>4. h[1] = seqs[1] /\ h[2] = h[2 - 1] \o seqs[2]
            BY <3>1, <4>1, <4>2, <4>3, Zenon
      <4> QED
          BY <3>1, <4>4
    <3>3. g[1] = seqs[2]
          BY <1>3, <2>2, <3>1
    <3>4. h[2] = seqs[1] \o g[2 - 1]
          BY <3>1, <3>2, <3>3
    <3> QED
        BY <3>1, <3>4
  <2>4. ASSUME NEW i \in 2 .. length, i # 2, i - 1 \in P PROVE i \in P
    <3>1. /\ i \in 1 .. length /\ i # 1 /\ i - 1 \in 1 .. length - 1 /\ i - 1 # 1
          /\ (i - 1) - 1 \in 1 .. length - 1 /\ (i - 1) + 1 = i
          BY <2>4
    <3>2. h[i] = h[i - 1] \o seqs[i] /\ h[i - 1] = seqs[1] \o g[(i - 1) - 1]
          BY <1>5, <2>4, <3>1
    <3>3. g[i - 1] = g[(i - 1) - 1] \o seqs[i]
          BY <1>3, <2>2, <3>1, ZenonT(30)
    <3>4. PICK a \in Seq(Token), b \in Seq(Token), c \in Seq(Token) :
             a = seqs[1] /\ b = g[(i - 1) - 1] /\ c = seqs[i]
          BY <1>3, <1>7, <2>1, <3>1 DEF Text
    <3>5. (a \o b) \o c = a \o (b \o c)
          BY ONLY a \in Seq(Token), b \in Seq(Token), c \in Seq(Token), ConcatAssociative, SMTT(30)
    <3>6. h[i] = seqs[1] \o g[i - 1]
          BY <3>2, <3>3, <3>4, <3>5
    <3> QED
        BY <2>4, <3>6
  <2> HIDE DEF P
  <2>5. length \in P
    <3>1. 2 \in Int /\ length \in Int /\ length \in 2 .. length
          BY <1>7
    <3> QED
        BY <2>3, <2>4, <3>1, Induct
  <2>6. h[length] = seqs[1] \o g[length - 1]
        BY <2>5 DEF P
  <2>7. g[length - 1] \in Text
    <3>1. length - 1 \in 1 .. length - 1
          BY <1>7
    <3> QED
        BY <2>1, <3>1
  <2> QED
      BY <1>1, <1>4, <2>1, <2>6, <2>7
<1> QED
    BY <1>3, <1>6, <1>7
-----------------------------------------------------------------------------
(* The header of a request                                                 *)

\* Where the first line has its two spaces, and its LF.
FirstSpace(m)  == Len(m.line[1]) + 1
SecondSpace(m) == FirstSpace(m) + Len(m.line[2]) + 1
LineEnd(m)     == SecondSpace(m) + Len(m.line[3]) + 2

LEMMA RequestTypes ==
    ASSUME NEW m, IsMessage(m)
    PROVE  /\ \A i \in 1 .. 3 : m.line[i] \in Text /\ Len(m.line[i]) \in Nat
           /\ m.headers \in Text /\ m.body \in Text
           /\ <<"SP">> \in Text /\ Len(<<"SP">>) = 1 /\ CRLF \in Text /\ Len(CRLF) = 2
BY DEF IsMessage, Text, Token, CRLF

LEMMA HeaderIs ==
    ASSUME NEW m, IsMessage(m)
    PROVE  /\ Header(m) \in Text /\ Len(Header(m)) \in Nat
           /\ FirstSpace(m) \in Nat /\ SecondSpace(m) \in Nat /\ LineEnd(m) \in Nat
           /\ FirstSpace(m) >= 1 /\ SecondSpace(m) > FirstSpace(m) /\ LineEnd(m) >= SecondSpace(m) + 2
           /\ LineEnd(m) <= Len(Header(m))
           /\ \A i \in 1 .. Len(m.line[1]) : Header(m)[i] = m.line[1][i]
           /\ \A i \in 1 .. Len(m.line[2]) : Header(m)[FirstSpace(m) + i] = m.line[2][i]
           /\ \A i \in 1 .. Len(m.line[3]) : Header(m)[SecondSpace(m) + i] = m.line[3][i]
           /\ Header(m)[FirstSpace(m)] = "SP" /\ Header(m)[SecondSpace(m)] = "SP"
           /\ Header(m)[LineEnd(m) - 1] = "CR" /\ Header(m)[LineEnd(m)] = "LF"
           /\ Header(m)[Len(Header(m)) - 1] = "CR" /\ Header(m)[Len(Header(m))] = "LF"
<1>1. PICK l1 \in Text, l2 \in Text, l3 \in Text : l1 = m.line[1] /\ l2 = m.line[2] /\ l3 = m.line[3]
      BY RequestTypes
<1>2. PICK n1 \in Nat, n2 \in Nat, n3 \in Nat : n1 = Len(l1) /\ n2 = Len(l2) /\ n3 = Len(l3)
      BY TextIs
<1>3. PICK sp \in Text, nl \in Text, hs \in Text : sp = <<"SP">> /\ nl = CRLF /\ hs = m.headers
      BY RequestTypes
<1>4. Len(sp) = 1 /\ sp[1] = "SP" /\ Len(nl) = 2 /\ nl[1] = "CR" /\ nl[2] = "LF"
      BY <1>3 DEF CRLF
<1>5. PICK a \in Text : a = l1 \o sp /\ Joins(l1, n1, sp, 1, a)
      BY <1>2, <1>4, JoinText
<1>6. PICK b \in Text : b = a \o l2 /\ Joins(a, n1 + 1, l2, n2, b)
  <2>1. n1 + 1 \in Nat /\ n1 + 1 = Len(a)
        BY <1>5 DEF Joins
  <2> QED
      BY <1>2, <2>1, JoinText
<1>7. PICK c \in Text : c = b \o sp /\ Joins(b, n1 + 1 + n2, sp, 1, c)
  <2>1. n1 + 1 + n2 \in Nat /\ n1 + 1 + n2 = Len(b)
        BY <1>6 DEF Joins
  <2> QED
      BY <1>4, <2>1, JoinText
<1>8. PICK d \in Text : d = c \o l3 /\ Joins(c, n1 + 1 + n2 + 1, l3, n3, d)
  <2>1. n1 + 1 + n2 + 1 \in Nat /\ n1 + 1 + n2 + 1 = Len(c)
        BY <1>7 DEF Joins
  <2> QED
      BY <1>2, <2>1, JoinText
<1>9. PICK e \in Text : e = d \o nl /\ Joins(d, n1 + 1 + n2 + 1 + n3, nl, 2, e)
  <2>1. n1 + 1 + n2 + 1 + n3 \in Nat /\ n1 + 1 + n2 + 1 + n3 = Len(d)
        BY <1>8 DEF Joins
  <2> QED
      BY <1>4, <2>1, JoinText
<1> DEFINE ne == n1 + 1 + n2 + 1 + n3 + 2
<1>10. PICK g \in Text : g = (e \o hs) \o nl /\ Len(g) \in Nat /\ Len(g) >= ne
                         /\ \A i \in 1 .. ne : g[i] = e[i]
                         /\ g[Len(g) - 1] = "CR" /\ g[Len(g)] = "LF"
  <2>1. ne \in Nat /\ ne = Len(e)
        BY <1>9 DEF Joins
  <2>2. PICK nh \in Nat : nh = Len(hs)
        BY TextIs
  <2>3. PICK f \in Text : f = e \o hs /\ Joins(e, ne, hs, nh, f)
        BY <2>1, <2>2, JoinText
  <2>4. ne + nh \in Nat /\ ne + nh = Len(f)
        BY <2>3 DEF Joins
  <2>5. PICK g \in Text : g = f \o nl /\ Joins(f, ne + nh, nl, 2, g)
        BY <1>4, <2>4, JoinText
  <2>6. \A i \in 1 .. ne : i \in 1 .. ne + nh
        OBVIOUS
  <2>7. Len(g) = ne + nh + 2 /\ \A i \in 1 .. ne : g[i] = e[i]
        BY <2>3, <2>5, <2>6 DEF Joins
  <2>8. ne + nh + 2 \in Nat /\ ne + nh + 2 >= ne
        BY <2>1
  <2>9. g = (e \o hs) \o nl
        BY <2>3, <2>5
  <2>10. g[Len(g) - 1] = "CR" /\ g[Len(g)] = "LF"
    <3>1. 1 \in 1 .. 2 /\ 2 \in 1 .. 2 /\ Len(g) - 1 = (ne + nh) + 1 /\ Len(g) = (ne + nh) + 2
          BY <2>4, <2>7
    <3> QED
        BY <1>4, <2>5, <3>1 DEF Joins
  <2> HIDE DEF ne
  <2> QED
      BY <2>7, <2>8, <2>9, <2>10
<1>11. g = Header(m)
       BY <1>1, <1>3, <1>5, <1>6, <1>7, <1>8, <1>9, <1>10 DEF Header
<1>12. FirstSpace(m) = n1 + 1 /\ SecondSpace(m) = n1 + 1 + n2 + 1 /\ LineEnd(m) = n1 + 1 + n2 + 1 + n3 + 2
       BY <1>1, <1>2 DEF FirstSpace, SecondSpace, LineEnd
<1>13. \A i \in 1 .. n1 : g[i] = l1[i]
  <2>1. \A i \in 1 .. n1 : i \in 1 .. n1 + 1 /\ i \in 1 .. n1 + 1 + n2 /\ i \in 1 .. n1 + 1 + n2 + 1
                           /\ i \in 1 .. n1 + 1 + n2 + 1 + n3 /\ i \in 1 .. n1 + 1 + n2 + 1 + n3 + 2
        OBVIOUS
  <2>2. \A i \in 1 .. n1 : a[i] = l1[i] /\ b[i] = a[i]
        BY <1>5, <1>6, <2>1 DEF Joins
  <2>3. \A i \in 1 .. n1 : c[i] = b[i] /\ d[i] = c[i]
        BY <1>7, <1>8, <2>1 DEF Joins
  <2>4. \A i \in 1 .. n1 : e[i] = d[i] /\ g[i] = e[i]
        BY <1>9, <1>10, <2>1 DEF Joins
  <2> QED
      BY <2>2, <2>3, <2>4
<1>14. \A i \in 1 .. n2 : g[n1 + 1 + i] = l2[i]
  <2>1. \A i \in 1 .. n2 : /\ n1 + 1 + i \in 1 .. n1 + 1 + n2 /\ n1 + 1 + i \in 1 .. n1 + 1 + n2 + 1
                           /\ n1 + 1 + i \in 1 .. n1 + 1 + n2 + 1 + n3
                           /\ n1 + 1 + i \in 1 .. n1 + 1 + n2 + 1 + n3 + 2
        OBVIOUS
  <2>2. \A i \in 1 .. n2 : b[n1 + 1 + i] = l2[i]
        BY <1>6 DEF Joins
  <2>3. \A i \in 1 .. n2 : c[n1 + 1 + i] = b[n1 + 1 + i] /\ d[n1 + 1 + i] = c[n1 + 1 + i]
        BY <1>7, <1>8, <2>1 DEF Joins
  <2>4. \A i \in 1 .. n2 : e[n1 + 1 + i] = d[n1 + 1 + i] /\ g[n1 + 1 + i] = e[n1 + 1 + i]
        BY <1>9, <1>10, <2>1 DEF Joins
  <2> QED
      BY <2>2, <2>3, <2>4
<1>15. \A i \in 1 .. n3 : g[n1 + 1 + n2 + 1 + i] = l3[i]
  <2>1. \A i \in 1 .. n3 : /\ n1 + 1 + n2 + 1 + i \in 1 .. n1 + 1 + n2 + 1 + n3
                           /\ n1 + 1 + n2 + 1 + i \in 1 .. n1 + 1 + n2 + 1 + n3 + 2
        OBVIOUS
  <2> QED
      BY <1>8, <1>9, <1>10, <2>1 DEF Joins
<1>16. g[n1 + 1] = "SP" /\ g[n1 + 1 + n2 + 1] = "SP"
  <2>1. /\ n1 + 1 \in 1 .. n1 + 1 /\ n1 + 1 \in 1 .. n1 + 1 + n2 /\ n1 + 1 \in 1 .. n1 + 1 + n2 + 1
        /\ n1 + 1 \in 1 .. n1 + 1 + n2 + 1 + n3 /\ n1 + 1 \in 1 .. n1 + 1 + n2 + 1 + n3 + 2
        /\ n1 + 1 + n2 + 1 \in 1 .. n1 + 1 + n2 + 1 /\ n1 + 1 + n2 + 1 \in 1 .. n1 + 1 + n2 + 1 + n3
        /\ n1 + 1 + n2 + 1 \in 1 .. n1 + 1 + n2 + 1 + n3 + 2
        OBVIOUS
  <2>2. a[n1 + 1] = "SP" /\ c[n1 + 1 + n2 + 1] = "SP"
    <3>1. 1 \in 1 .. 1
          OBVIOUS
    <3> QED
        BY <1>4, <1>5, <1>7, <3>1 DEF Joins
  <2>3. b[n1 + 1] = a[n1 + 1] /\ c[n1 + 1] = b[n1 + 1]
        BY <1>6, <1>7, <2>1 DEF Joins
  <2>4. /\ d[n1 + 1] = c[n1 + 1] /\ e[n1 + 1] = d[n1 + 1]
        /\ d[n1 + 1 + n2 + 1] = c[n1 + 1 + n2 + 1] /\ e[n1 + 1 + n2 + 1] = d[n1 + 1 + n2 + 1]
        BY <1>8, <1>9, <2>1 DEF Joins
  <2> QED
      BY <1>10, <2>1, <2>2, <2>3, <2>4
<1>17. g[n1 + 1 + n2 + 1 + n3 + 1] = "CR" /\ g[n1 + 1 + n2 + 1 + n3 + 2] = "LF"
  <2>1. /\ n1 + 1 + n2 + 1 + n3 + 1 \in 1 .. n1 + 1 + n2 + 1 + n3 + 2
        /\ n1 + 1 + n2 + 1 + n3 + 2 \in 1 .. n1 + 1 + n2 + 1 + n3 + 2
        OBVIOUS
  <2> QED
      BY <1>4, <1>9, <1>10, <2>1 DEF Joins
<1>18. LineEnd(m) - 1 = n1 + 1 + n2 + 1 + n3 + 1
       BY <1>12
<1>19. /\ FirstSpace(m) \in Nat /\ SecondSpace(m) \in Nat /\ LineEnd(m) \in Nat
       /\ FirstSpace(m) >= 1 /\ SecondSpace(m) > FirstSpace(m) /\ LineEnd(m) >= SecondSpace(m) + 2
       /\ LineEnd(m) <= Len(g)
       BY <1>10, <1>12
<1> HIDE DEF Header, FirstSpace, SecondSpace, LineEnd
<1>20. /\ \A i \in 1 .. Len(m.line[1]) : g[i] = m.line[1][i]
       /\ \A i \in 1 .. Len(m.line[2]) : g[FirstSpace(m) + i] = m.line[2][i]
       /\ \A i \in 1 .. Len(m.line[3]) : g[SecondSpace(m) + i] = m.line[3][i]
       BY <1>1, <1>2, <1>12, <1>13, <1>14, <1>15
<1>21. /\ g[FirstSpace(m)] = "SP" /\ g[SecondSpace(m)] = "SP"
       /\ g[LineEnd(m) - 1] = "CR" /\ g[LineEnd(m)] = "LF"
       BY <1>12, <1>16, <1>17, <1>18
<1>22. g[Len(g) - 1] = "CR" /\ g[Len(g)] = "LF"
       BY <1>10
<1> QED
    BY <1>10, <1>11, <1>19, <1>20, <1>21, <1>22

\* Nothing before the end of the first line ends it, and no space is in its first two words.
LEMMA LineIs ==
    ASSUME NEW m, IsMessage(m)
    PROVE  /\ \A i \in 1 .. LineEnd(m) - 1 : Header(m)[i] # "LF" /\ Header(m)[i] # "NUL"
           /\ \A i \in 1 .. FirstSpace(m) - 1 : Header(m)[i] # "SP"
           /\ \A i \in FirstSpace(m) + 1 .. SecondSpace(m) - 1 : Header(m)[i] # "SP"
<1>1. PICK l1 \in Text, l2 \in Text, l3 \in Text : l1 = m.line[1] /\ l2 = m.line[2] /\ l3 = m.line[3]
      BY RequestTypes
<1>2. PICK n1 \in Nat, n2 \in Nat, n3 \in Nat : n1 = Len(l1) /\ n2 = Len(l2) /\ n3 = Len(l3)
      BY TextIs
<1>3. /\ \A i \in 1 .. n1 : l1[i] \notin {"LF", "NUL", "SP"}
      /\ \A i \in 1 .. n2 : l2[i] \notin {"LF", "NUL", "SP"}
      /\ \A i \in 1 .. n3 : l3[i] \notin {"LF", "NUL"}
  <2>1. \A i \in 1 .. 3 : \A j \in 1 .. Len(m.line[i]) : m.line[i][j] \notin {"LF", "NUL"}
    <3>1. \A i \in 1 .. 3 : ToSet(m.line[i]) \cap {"LF", "NUL"} = {}
          BY DEF IsMessage
    <3>2. \A i \in 1 .. 3 : DOMAIN m.line[i] = 1 .. Len(m.line[i])
          BY RequestTypes, TextIs
    <3>3. \A i \in 1 .. 3 : \A j \in DOMAIN m.line[i] : m.line[i][j] \notin {"LF", "NUL"}
          BY <3>1 DEF ToSet
    <3> QED
        BY <3>2, <3>3
  <2>2. \A i \in 1 .. 2 : \A j \in 1 .. Len(m.line[i]) : m.line[i][j] # "SP"
    <3>1. \A i \in 1 .. 2 : "SP" \notin ToSet(m.line[i]) /\ DOMAIN m.line[i] = 1 .. Len(m.line[i])
      <4>1. \A i \in 1 .. 2 : i \in 1 .. 3
            OBVIOUS
      <4> QED
          BY <4>1 DEF IsMessage
    <3> QED
        BY <3>1 DEF ToSet
  <2>3. 1 \in 1 .. 3 /\ 2 \in 1 .. 3 /\ 3 \in 1 .. 3 /\ 1 \in 1 .. 2 /\ 2 \in 1 .. 2
        OBVIOUS
  <2> QED
      BY <1>1, <1>2, <2>1, <2>2, <2>3
<1>4. PICK g : g = Header(m)
      OBVIOUS
<1>5. FirstSpace(m) = n1 + 1 /\ SecondSpace(m) = n1 + 1 + n2 + 1 /\ LineEnd(m) = n1 + 1 + n2 + 1 + n3 + 2
      BY <1>1, <1>2 DEF FirstSpace, SecondSpace, LineEnd
<1>6. /\ \A i \in 1 .. n1 : g[i] = l1[i]
      /\ \A i \in 1 .. n2 : g[n1 + 1 + i] = l2[i]
      /\ \A i \in 1 .. n3 : g[n1 + 1 + n2 + 1 + i] = l3[i]
      /\ g[n1 + 1] = "SP" /\ g[n1 + 1 + n2 + 1] = "SP" /\ g[n1 + 1 + n2 + 1 + n3 + 1] = "CR"
  <2>1. LineEnd(m) - 1 = n1 + 1 + n2 + 1 + n3 + 1
        BY <1>5
  <2>2. /\ \A i \in 1 .. Len(l1) : g[i] = l1[i]
        /\ \A i \in 1 .. Len(l2) : g[FirstSpace(m) + i] = l2[i]
        /\ \A i \in 1 .. Len(l3) : g[SecondSpace(m) + i] = l3[i]
        /\ g[FirstSpace(m)] = "SP" /\ g[SecondSpace(m)] = "SP" /\ g[LineEnd(m) - 1] = "CR"
        BY <1>1, <1>4, HeaderIs
  <2> HIDE DEF Header, FirstSpace, SecondSpace, LineEnd
  <2> QED
      BY <1>2, <1>5, <2>1, <2>2
<1>7. \A i \in 1 .. n1 : g[i] \notin {"LF", "NUL", "SP"}
      BY <1>3, <1>6
<1>8. ASSUME NEW i \in n1 + 2 .. n1 + 1 + n2 PROVE g[i] \notin {"LF", "NUL", "SP"}
  <2>1. i - (n1 + 1) \in 1 .. n2 /\ n1 + 1 + (i - (n1 + 1)) = i
        OBVIOUS
  <2> QED
      BY <1>3, <1>6, <2>1
<1>9. ASSUME NEW i \in n1 + 1 + n2 + 2 .. n1 + 1 + n2 + 1 + n3 PROVE g[i] \notin {"LF", "NUL"}
  <2>1. i - (n1 + 1 + n2 + 1) \in 1 .. n3 /\ n1 + 1 + n2 + 1 + (i - (n1 + 1 + n2 + 1)) = i
        OBVIOUS
  <2> QED
      BY <1>3, <1>6, <2>1
<1>10. ASSUME NEW i \in 1 .. n1 + 1 + n2 + 1 + n3 + 1 PROVE g[i] # "LF" /\ g[i] # "NUL"
  <2>1. \/ i \in 1 .. n1 \/ i = n1 + 1 \/ i \in n1 + 2 .. n1 + 1 + n2 \/ i = n1 + 1 + n2 + 1
        \/ i \in n1 + 1 + n2 + 2 .. n1 + 1 + n2 + 1 + n3 \/ i = n1 + 1 + n2 + 1 + n3 + 1
        OBVIOUS
  <2> QED
      BY <1>6, <1>7, <1>8, <1>9, <2>1
<1>11. /\ FirstSpace(m) - 1 = n1 /\ FirstSpace(m) + 1 = n1 + 2 /\ SecondSpace(m) - 1 = n1 + 1 + n2
       /\ LineEnd(m) - 1 = n1 + 1 + n2 + 1 + n3 + 1
       BY <1>5
<1> HIDE DEF Header, FirstSpace, SecondSpace, LineEnd
<1> QED
    BY <1>4, <1>7, <1>8, <1>10, <1>11
-----------------------------------------------------------------------------
(* The first line                                                          *)

LEMMA SubSeqIs ==
    ASSUME NEW text \in Text, NEW at \in Nat, NEW w \in Text, NEW n \in Nat, n = Len(w),
           at + n <= Len(text), \A i \in 1 .. n : text[at + i] = w[i]
    PROVE  SubSeq(text, at + 1, at + n) = w
<1>1. PICK length \in Nat : length = Len(text)
      BY TextIs
<1>2. PICK part \in Text : part = SubSeq(text, at + 1, at + n)
  <2>1. at + 1 \in Nat \ {0} /\ at + n \in Int
        OBVIOUS
  <2> QED
      BY <1>1, <2>1, SubSeqTypes
<1>3. Len(part) = n /\ \A i \in 1 .. n : part[i] = text[at + i]
  <2>1. CASE n = 0
        BY <1>1, <1>2, <2>1 DEF Text
  <2>2. CASE n > 0
        BY <1>1, <1>2, <2>2 DEF Text
  <2> QED
      BY <2>1, <2>2
<1>4. Len(part) = Len(w) /\ \A i \in 1 .. Len(part) : part[i] = w[i]
      BY <1>2, <1>3
<1>5. part = w
      BY <1>4, SeqEqual DEF Text
<1> QED
    BY <1>2, <1>5

\* The first line of a request is cut into its three words.
LEMMA PiecesAre ==
    ASSUME NEW m, IsMessage(m), NEW cut \in Text, LineEnd(m) <= Len(cut),
           \A i \in 1 .. LineEnd(m) - 2 : cut[i] = Header(m)[i], cut[LineEnd(m) - 1] = "NUL"
    PROVE  LET p == Pieces(cut, LineEnd(m) - 1)
           IN  p.first = m.line[1] /\ p.second = m.line[2] /\ p.third = m.line[3]
<1>1. PICK l1 \in Text, l2 \in Text, l3 \in Text : l1 = m.line[1] /\ l2 = m.line[2] /\ l3 = m.line[3]
      BY RequestTypes
<1>2. PICK n1 \in Nat, n2 \in Nat, n3 \in Nat : n1 = Len(l1) /\ n2 = Len(l2) /\ n3 = Len(l3)
      BY TextIs
<1>3. PICK s1 \in Nat, s2 \in Nat, last \in Nat : s1 = FirstSpace(m) /\ s2 = SecondSpace(m) /\ last = LineEnd(m) - 1
      BY HeaderIs
<1>4. s1 = n1 + 1 /\ s2 = s1 + n2 + 1 /\ last = s2 + n3 + 1
      BY <1>1, <1>2, <1>3 DEF FirstSpace, SecondSpace, LineEnd
<1>5. PICK length \in Nat : length = Len(cut) /\ last + 1 <= length
  <2>1. LineEnd(m) = last + 1 /\ Len(cut) \in Nat
        BY <1>3, TextIs, HeaderIs, SMTT(30)
  <2> QED
      BY <2>1
<1>6. cut[last] = "NUL" /\ \A i \in 1 .. last - 1 : cut[i] = Header(m)[i]
  <2>1. LineEnd(m) - 2 = last - 1
        BY <1>3, HeaderIs
  <2> QED
      BY <1>3, <2>1
<1>7. cut[s1] = "SP" /\ cut[s2] = "SP"
  <2>1. s1 \in 1 .. last - 1 /\ s2 \in 1 .. last - 1
        BY <1>4
  <2> QED
      BY <1>3, <1>6, <2>1, HeaderIs
<1>8. /\ \A i \in 1 .. last - 1 : cut[i] # "NUL"
      /\ \A i \in 1 .. s1 - 1 : cut[i] # "SP"
      /\ \A i \in s1 + 1 .. s2 - 1 : cut[i] # "SP"
  <2>1. /\ \A i \in 1 .. last : Header(m)[i] # "NUL"
        /\ \A i \in 1 .. s1 - 1 : Header(m)[i] # "SP"
        /\ \A i \in s1 + 1 .. s2 - 1 : Header(m)[i] # "SP"
        BY <1>3, LineIs
  <2>2. /\ \A i \in 1 .. last - 1 : i \in 1 .. last
        /\ \A i \in 1 .. s1 - 1 : i \in 1 .. last - 1
        /\ \A i \in s1 + 1 .. s2 - 1 : i \in 1 .. last - 1
        BY <1>4
  <2> QED
      BY <1>6, <2>1, <2>2
<1>9. /\ \A i \in 1 .. n1 : cut[i] = l1[i]
      /\ \A i \in 1 .. n2 : cut[s1 + i] = l2[i]
      /\ \A i \in 1 .. n3 : cut[s2 + i] = l3[i]
  <2>1. /\ \A i \in 1 .. n1 : Header(m)[i] = l1[i]
        /\ \A i \in 1 .. n2 : Header(m)[s1 + i] = l2[i]
        /\ \A i \in 1 .. n3 : Header(m)[s2 + i] = l3[i]
        BY <1>1, <1>2, <1>3, HeaderIs
  <2>2. /\ \A i \in 1 .. n1 : i \in 1 .. last - 1
        /\ \A i \in 1 .. n2 : s1 + i \in 1 .. last - 1
        /\ \A i \in 1 .. n3 : s2 + i \in 1 .. last - 1
        BY <1>4
  <2> QED
      BY <1>6, <2>1, <2>2
<1> DEFINE Spaces(from) == {i \in from .. last : cut[i] = "SP"}
           Nuls == {i \in s2 + 1 .. length : cut[i] = "NUL"}
           one == SelectInSubSeq(cut, 1, last, LAMBDA c : c = "SP")
           two == SelectInSubSeq(cut, s1 + 1, last, LAMBDA c : c = "SP")
           end == SelectInSubSeq(cut, s2 + 1, length, LAMBDA c : c = "NUL")
<1>10. one = s1
  <2>1. one = IF Spaces(1) # {} THEN Min(Spaces(1)) ELSE 0
        BY DEF SelectInSubSeq
  <2>2. s1 \in Spaces(1) /\ Spaces(1) \subseteq Nat
        BY <1>4, <1>7
  <2>3. \A i \in Spaces(1) : s1 <= i
    <3>1. \A i \in Spaces(1) : i \in Nat /\ i >= 1 /\ i \notin 1 .. s1 - 1
          BY <1>8
    <3> QED
        BY <3>1
  <2> QED
      BY <2>1, <2>2, <2>3, Least
<1>11. two = s2
  <2>1. two = IF Spaces(s1 + 1) # {} THEN Min(Spaces(s1 + 1)) ELSE 0
        BY DEF SelectInSubSeq
  <2>2. s2 \in Spaces(s1 + 1) /\ Spaces(s1 + 1) \subseteq Nat
        BY <1>4, <1>7
  <2>3. \A i \in Spaces(s1 + 1) : s2 <= i
    <3>1. \A i \in Spaces(s1 + 1) : i \in Nat /\ i >= s1 + 1 /\ i \notin s1 + 1 .. s2 - 1
          BY <1>8
    <3> QED
        BY <3>1
  <2> QED
      BY <2>1, <2>2, <2>3, Least
<1>12. end = last
  <2>1. end = IF Nuls # {} THEN Min(Nuls) ELSE 0
        BY DEF SelectInSubSeq
  <2>2. last \in Nuls /\ Nuls \subseteq Nat
        BY <1>4, <1>5, <1>6
  <2>3. \A i \in Nuls : last <= i
    <3>1. \A i \in Nuls : i \in Nat /\ i >= 1 /\ i \notin 1 .. last - 1
          BY <1>8
    <3> QED
        BY <3>1
  <2> QED
      BY <2>1, <2>2, <2>3, Least
<1>13. SubSeq(cut, 1, s1 - 1) = l1
  <2>1. \A i \in 1 .. n1 : cut[0 + i] = l1[i]
        BY <1>9
  <2>2. 0 + 1 = 1 /\ s1 - 1 = 0 + n1 /\ 0 + n1 <= Len(cut) /\ 0 \in Nat
        BY <1>4, <1>5
  <2>3. SubSeq(cut, 0 + 1, 0 + n1) = l1
        BY <1>2, <2>1, <2>2, SubSeqIs, ZenonT(30)
  <2> QED
      BY <2>2, <2>3
<1>14. SubSeq(cut, s1 + 1, s2 - 1) = l2
  <2>1. s2 - 1 = s1 + n2 /\ s1 + n2 <= Len(cut)
        BY <1>4, <1>5
  <2>2. SubSeq(cut, s1 + 1, s1 + n2) = l2
        BY <1>2, <1>9, <2>1, SubSeqIs
  <2> QED
      BY <2>1, <2>2
<1>15. SubSeq(cut, s2 + 1, last - 1) = l3
  <2>1. last - 1 = s2 + n3 /\ s2 + n3 <= Len(cut)
        BY <1>4, <1>5
  <2>2. SubSeq(cut, s2 + 1, s2 + n3) = l3
        BY <1>2, <1>9, <2>1, SubSeqIs
  <2> QED
      BY <2>1, <2>2
<1>16. CString(cut, s2 + 1) = l3
  <2>1. CString(cut, s2 + 1) = SubSeq(cut, s2 + 1, IF end = 0 THEN Len(cut) ELSE end - 1)
        BY <1>5 DEF CString, Until
  <2>2. last # 0
        BY <1>4
  <2> QED
      BY <1>12, <1>15, <2>1, <2>2
<1>17. Pieces(cut, last) = [first |-> l1, second |-> l2, third |-> l3]
  <2>1. s1 # 0 /\ s2 # 0
        BY <1>4
  <2>2. Pieces(cut, last) =
          LET o == one
              t == IF o = 0 THEN 0 ELSE SelectInSubSeq(cut, o + 1, last, LAMBDA c : c = "SP")
          IN  [first  |-> IF o = 0 THEN NULL ELSE SubSeq(cut, 1, o - 1),
               second |-> IF t = 0 THEN NULL ELSE SubSeq(cut, o + 1, t - 1),
               third  |-> IF t = 0 THEN NULL ELSE CString(cut, t + 1)]
        BY DEF Pieces
  <2> HIDE DEF one
  <2> QED
      BY <1>10, <1>11, <1>13, <1>14, <1>16, <2>1, <2>2
<1> QED
    BY <1>1, <1>3, <1>17
-----------------------------------------------------------------------------
(* The lines of a header                                                   *)

Begin(text) == [buffer |-> text, start |-> 1, http |-> NewHttpRequest, end |-> "lines"]
Line(r, i, type) ==
    IF r.end = "lines" /\ r.buffer[i] = "LF" THEN ReadLine(r, i, type) ELSE r

\* What the beginning of a header is read with and each of its bytes keeps, in its place.
LEMMA ReadLinesIn ==
    ASSUME NEW text \in Text, NEW type, NEW X, Begin(text) \in X[0],
           \A i \in 1 .. Len(text) : \A r \in X[i - 1] : Line(r, i, type) \in X[i]
    PROVE  ReadLines(text, type) \in X[Len(text)]
<1> DEFINE length == Len(text)
           base == Begin(text)
           Is(h) == h = [i \in 0 .. length |-> IF i = 0 THEN base ELSE Line(h[i - 1], i, type)]
           In == [i \in 0 .. length |-> X[i]]
           step == [i \in 0 .. length |-> [r \in X[i - 1] |-> Line(r, i, type)]]
<1>1. ReadLines(text, type) = (CHOOSE h : Is(h))[length]
      BY DEF ReadLines, Begin, Line
<1>2. length \in Nat
      BY DEF Text
<1>3. base \in X[0] /\ \A i \in 0 .. length : i # 0 => \A r \in X[i - 1] : Line(r, i, type) \in X[i]
      BY <1>2
<1> HIDE DEF length, base
<1>4. \E h : Is(h)
  <2>1. base \in In[0]
        BY <1>2, <1>3
  <2>2. \A i \in 0 .. length : i # 0 => i - 1 \in 0 .. length
        BY <1>2
  <2>3. \A i \in 0 .. length : i # 0 => \A r \in In[i - 1] : step[i][r] \in In[i]
        BY <1>3, <2>2
  <2>4. \A i \in 0 .. length : i # 0 => \A r \in In[i - 1] : step[i][r] = Line(r, i, type)
        BY <2>2
  <2> HIDE DEF In, step
  <2>5. PICK f : \A i \in 0 .. length : /\ f[i] = IF i = 0 THEN base ELSE step[i][f[i - 1]]
                                       /\ f[i] \in In[i]
    <3>1. States(0, length, In, base, step)
          BY <1>2, <2>1, <2>3, Loop DEF Stays
    <3> QED
        BY <3>1 DEF States
  <2> DEFINE g == [i \in 0 .. length |-> f[i]]
  <2>6. \A i \in 0 .. length : f[i] = IF i = 0 THEN base ELSE Line(g[i - 1], i, type)
        BY <2>2, <2>4, <2>5
  <2>7. Is(g)
        BY <2>6
  <2> QED
      BY <2>7
<1>5. ASSUME NEW h, Is(h) PROVE h[length] \in X[length]
  <2> DEFINE P == {i \in 0 .. length : h[i] \in X[i]}
  <2>1. 0 \in P
        BY <1>2, <1>3, <1>5
  <2>2. \A i \in 0 .. length : i # 0 /\ i - 1 \in P => i \in P
        BY <1>2, <1>3, <1>5
  <2>3. length \in Int /\ 0 \in Int /\ length \in 0 .. length
        BY <1>2
  <2> HIDE DEF P
  <2>4. length \in P
        BY <2>1, <2>2, <2>3, Induct
  <2> QED
      BY <2>4 DEF P
<1> HIDE DEF Is
<1> QED
    BY <1>1, <1>4, <1>5 DEF length

\* What is read of a request from the end of its first line on.
ParsedOf(m) == [req_type : {m.line[1]}, req_resource : {m.line[2]}, req_protocol : {m.line[3]},
                resp_code : Text, resp_msg : Text, req_host : Text, req_content_len : Int]

Behind(m) == [buffer : Text, start : Nat \ {0, 1}, http : ParsedOf(m), end : Ends]

LEMMA SetHeaderKeeps ==
    ASSUME NEW m, NEW r \in Behind(m), NEW cut, cut.buffer \in Text, cut.data \in Text,
           NEW length, length.value \in Int
    PROVE  SetHeader(r, cut, length) \in Behind(m)
<1>1. PICK http \in ParsedOf(m) :
         http = CASE cut.name = <<"content-length">> -> [r.http EXCEPT !.req_content_len = length.value]
                  [] cut.name = <<"host">> -> [r.http EXCEPT !.req_host = cut.data]
                  [] OTHER -> r.http
  <2>1. r.http \in ParsedOf(m)
        BY DEF Behind
  <2>2. [r.http EXCEPT !.req_content_len = length.value] \in ParsedOf(m)
        BY <2>1 DEF ParsedOf
  <2>3. [r.http EXCEPT !.req_host = cut.data] \in ParsedOf(m)
        BY <2>1 DEF ParsedOf
  <2> QED
      BY <2>1, <2>2, <2>3
<1>2. PICK end \in Ends : end = IF cut.colon = 0 THEN "crash"
                               ELSE IF cut.name = <<"content-length">> /\ ~length.ok THEN "error"
                               ELSE r.end
      BY DEF Behind, Ends
<1>3. SetHeader(r, cut, length) = [r EXCEPT !.buffer = cut.buffer, !.http = http, !.end = end]
      BY <1>1, <1>2 DEF SetHeader, Behind
<1> QED
    BY <1>1, <1>2, <1>3 DEF Behind

\* The lines that follow leave the first as it was read.
LEMMA LineKeeps ==
    ASSUME NEW m, NEW r \in Behind(m), NEW i \in Nat \ {0}
    PROVE  Line(r, i, RQST) \in Behind(m)
<1> DEFINE cutoff == IF i > 1 THEN [r.buffer EXCEPT ![i - 1] = "NUL"] ELSE r.buffer
           ended  == [r EXCEPT !.buffer = cutoff]
           cut    == Cut(ended.buffer, r.start)
           length == StrToInt(cut.data)
           parsed == GetHeader(ended, r.start)
           last   == i + 2 <= Len(cutoff) /\ SubSeq(cutoff, i + 1, i + 2) = CRLF
<1>1. cutoff \in Text
      BY DEF Behind, Text, Token
<1> HIDE DEF cutoff
<1>2. ended \in Behind(m) /\ r.start \in Nat \ {0} /\ r.start # 1
      BY <1>1 DEF Behind
<1>3. cut.buffer \in Text /\ cut.data \in Text
      BY <1>1, <1>2, CutTypes DEF Behind
<1>4. length.value \in Nat
      BY <1>3, StrToIntTypes DEF Text
<1>5. parsed = SetHeader(ended, cut, length)
      BY DEF GetHeader
<1>6. ReadLine(r, i, RQST) = [parsed EXCEPT !.start = i + 1, !.end = IF @ = "lines" /\ last THEN "ok" ELSE @]
      BY <1>2 DEF ReadLine, cutoff
<1> HIDE DEF ended, cut, length
<1>7. PICK p \in Behind(m) : p = parsed
      BY <1>2, <1>3, <1>4, <1>5, SetHeaderKeeps
<1>8. PICK end \in Ends : end = IF p.end = "lines" /\ last THEN "ok" ELSE p.end
      BY DEF Behind, Ends
<1> HIDE DEF parsed, last
<1>9. ReadLine(r, i, RQST) = [p EXCEPT !.start = i + 1, !.end = end]
      BY <1>6, <1>7, <1>8 DEF Behind
<1>10. i + 1 \in Nat \ {0, 1}
       OBVIOUS
<1>11. ReadLine(r, i, RQST) \in Behind(m)
       BY <1>8, <1>9, <1>10 DEF Behind
<1> QED
    BY <1>11 DEF Line

LEMMA FirstLineRead ==
    ASSUME NEW m, IsMessage(m), NEW text \in Text, LineEnd(m) <= Len(text),
           \A i \in 1 .. LineEnd(m) : text[i] = Header(m)[i]
    PROVE  ReadLines(text, RQST) \in Behind(m)
<1>1. PICK last \in Nat : last = LineEnd(m) /\ last > 2
  <2>1. LineEnd(m) \in Nat /\ LineEnd(m) > 2
        BY HeaderIs
  <2> QED
      BY <2>1
<1>2. PICK length \in Nat : length = Len(text) /\ last <= length
      BY <1>1, TextIs
<1> DEFINE X == [i \in 0 .. length |-> IF i < last THEN {Begin(text)} ELSE Behind(m)]
<1>3. Begin(text) \in X[0]
      BY <1>1
<1>4. ASSUME NEW i \in 1 .. length, NEW r \in X[i - 1] PROVE Line(r, i, RQST) \in X[i]
  <2>1. i - 1 \in 0 .. length /\ i \in 0 .. length
        OBVIOUS
  <2>2. CASE i < last
    <3>1. X[i - 1] = {Begin(text)} /\ X[i] = {Begin(text)}
          BY <1>1, <2>1, <2>2
    <3>2. r = Begin(text)
          BY <3>1
    <3>3. text[i] # "LF"
      <4>1. i \in 1 .. LineEnd(m) - 1 /\ i \in 1 .. LineEnd(m)
            BY <1>1, <2>2
      <4> QED
          BY <4>1, LineIs
    <3>4. Line(r, i, RQST) = r
          BY <3>2, <3>3 DEF Line, Begin
    <3> QED
        BY <3>1, <3>4
  <2>3. CASE i = last
    <3> DEFINE cut    == [text EXCEPT ![i - 1] = "NUL"]
               first  == [Begin(text) EXCEPT !.buffer = cut, !.http = GetRequest(@, cut, i - 1)]
               ends   == i + 2 <= Len(cut) /\ SubSeq(cut, i + 1, i + 2) = CRLF
    <3>1. X[i - 1] = {Begin(text)} /\ X[i] = Behind(m)
          BY <1>1, <2>1, <2>3
    <3>2. r = Begin(text)
          BY <3>1
    <3>3. text[i] = "LF"
      <4>1. i \in 1 .. LineEnd(m)
            BY <1>1, <2>3
      <4> QED
          BY <1>1, <2>3, <4>1, HeaderIs
    <3>4. cut \in Text /\ Len(cut) = length /\ cut[i - 1] = "NUL" /\ \A j \in 1 .. i - 2 : cut[j] = text[j]
          BY <1>1, <1>2, <2>3 DEF Text, Token
    <3> HIDE DEF cut
    <3>5. LET p == Pieces(cut, i - 1)
          IN  p.first = m.line[1] /\ p.second = m.line[2] /\ p.third = m.line[3]
      <4>1. \A j \in 1 .. LineEnd(m) - 2 : cut[j] = Header(m)[j]
            BY <1>1, <2>3, <3>4
      <4>2. LineEnd(m) <= Len(cut) /\ cut[LineEnd(m) - 1] = "NUL"
            BY <1>1, <1>2, <2>3, <3>4
      <4>3. LET p == Pieces(cut, LineEnd(m) - 1)
            IN  p.first = m.line[1] /\ p.second = m.line[2] /\ p.third = m.line[3]
            BY <3>4, <4>1, <4>2, PiecesAre
      <4> QED
          BY <1>1, <2>3, <4>3
    <3>6. PICK http \in ParsedOf(m) : http = GetRequest(NewHttpRequest, cut, i - 1)
      <4>1. GetRequest(NewHttpRequest, cut, i - 1)
              = [NewHttpRequest EXCEPT !.req_type = m.line[1], !.req_resource = m.line[2],
                                       !.req_protocol = m.line[3]]
            BY <3>5 DEF GetRequest
      <4>2. NULL \in Text
            BY DEF NULL, Text, Token
      <4> DEFINE Unset == [req_type : Text, req_resource : Text, req_protocol : Text,
                           resp_code : Text, resp_msg : Text, req_host : Text, req_content_len : Int]
      <4>3. NewHttpRequest \in Unset
            BY <4>2 DEF NewHttpRequest
      <4>4. PICK new \in Unset : new = NewHttpRequest
            BY <4>3
      <4>5. [new EXCEPT !.req_type = m.line[1], !.req_resource = m.line[2],
                        !.req_protocol = m.line[3]] \in ParsedOf(m)
            BY DEF ParsedOf
      <4> QED
          BY <4>1, <4>4, <4>5
    <3>7. first = [buffer |-> cut, start |-> 1, http |-> http, end |-> "lines"]
      <4>1. Begin(text).http = NewHttpRequest
            BY DEF Begin
      <4>2. first = [Begin(text) EXCEPT !.buffer = cut, !.http = http]
            BY <3>6, <4>1
      <4> HIDE DEF first
      <4> QED
          BY <4>2 DEF Begin
    <3>8. ReadLine(r, i, RQST)
            = [first EXCEPT !.start = i + 1, !.end = IF @ = "lines" /\ ends THEN "ok" ELSE @]
      <4>1. i > 1 /\ r.start = 1 /\ r.buffer = text
            BY <1>1, <2>3, <3>2 DEF Begin
      <4> QED
          BY <3>2, <4>1 DEF ReadLine, cut
    <3> HIDE DEF first, ends
    <3>9. PICK end \in Ends : end = IF ends THEN "ok" ELSE "lines"
          BY DEF Ends
    <3>10. ReadLine(r, i, RQST) = [buffer |-> cut, start |-> i + 1, http |-> http, end |-> end]
           BY <3>7, <3>8, <3>9
    <3>11. i + 1 \in Nat \ {0, 1}
           OBVIOUS
    <3>12. ReadLine(r, i, RQST) \in Behind(m)
           BY <3>4, <3>6, <3>9, <3>10, <3>11 DEF Behind
    <3>13. Line(r, i, RQST) = ReadLine(r, i, RQST)
           BY <3>2, <3>3 DEF Line, Begin
    <3> QED
        BY <3>1, <3>12, <3>13
  <2>4. CASE i > last
    <3>1. X[i - 1] = Behind(m) /\ X[i] = Behind(m)
          BY <1>1, <2>1, <2>4
    <3>2. r \in Behind(m) /\ i \in Nat \ {0}
          BY <3>1
    <3> QED
        BY <3>1, <3>2, LineKeeps
  <2>5. i < last \/ i = last \/ i > last
        OBVIOUS
  <2> QED
      BY <2>2, <2>3, <2>4, <2>5
<1>5. X[length] = Behind(m)
      BY <1>2
<1> HIDE DEF X
<1> QED
    BY <1>2, <1>3, <1>4, <1>5, ReadLinesIn

LEMMA NoLineRead ==
    ASSUME NEW text \in Text, \A i \in 1 .. Len(text) : text[i] # "LF"
    PROVE  ReadLines(text, RQST) = Begin(text)
<1>1. PICK length \in Nat : length = Len(text)
      BY TextIs
<1> DEFINE X == [i \in 0 .. length |-> {Begin(text)}]
<1>2. Begin(text) \in X[0] /\ X[length] = {Begin(text)}
      OBVIOUS
<1>3. ASSUME NEW i \in 1 .. length, NEW r \in X[i - 1] PROVE Line(r, i, RQST) \in X[i]
  <2>1. X[i - 1] = {Begin(text)} /\ X[i] = {Begin(text)}
        OBVIOUS
  <2>2. r = Begin(text)
        BY <2>1
  <2>3. Line(r, i, RQST) = r
        BY <1>1, <2>2 DEF Line, Begin
  <2> QED
      BY <2>1, <2>3
<1> HIDE DEF X
<1>4. ReadLines(text, RQST) \in X[length]
      BY <1>1, <1>2, <1>3, ReadLinesIn
<1> QED
    BY <1>2, <1>4

\* A header that has come in part, with or without the byte that lies behind the last.
PartOf(m, header) ==
    \E n \in 0 .. Len(Header(m)) :
      \/ header = SubSeq(Header(m), 1, n)
      \/ n < Len(Header(m)) /\ header = Append(SubSeq(Header(m), 1, n), "?")

\* However much has come of it: its first line is read as the client has written it, or
\* not at all.
LEMMA PartRead ==
    ASSUME NEW m, IsMessage(m), NEW header, PartOf(m, header)
    PROVE  LET http == ReadHeaders(header, RQST).http
           IN  http \in ParsedOf(m) \/ http.req_type = NULL
<1>1. PICK g \in Text, length \in Nat : g = Header(m) /\ length = Len(g)
      BY HeaderIs
<1> DEFINE behind == "?"
<1>2. PICK n \in 0 .. length : \/ header = SubSeq(g, 1, n)
                               \/ n < length /\ header = Append(SubSeq(g, 1, n), behind)
  <2>1. PICK n \in 0 .. Len(Header(m)) :
          \/ header = SubSeq(Header(m), 1, n)
          \/ n < Len(Header(m)) /\ header = Append(SubSeq(Header(m), 1, n), behind)
        BY Zenon DEF PartOf
  <2> HIDE DEF behind
  <2> QED
      BY <1>1, <2>1
<1>3. PICK part \in Text : part = SubSeq(g, 1, n) /\ Len(part) = n /\ \A i \in 1 .. n : part[i] = g[i]
      BY <1>1, PartIs
<1>4. behind \in Token /\ behind # "LF"
      BY Zenon DEF Token
<1> HIDE DEF behind
<1>5. PICK k \in Nat : /\ header \in Text /\ k = Len(header) /\ k >= n
                       /\ \A i \in 1 .. n : header[i] = g[i]
                       /\ \A i \in 1 .. k : i <= n \/ (header[i] = behind /\ n < length /\ i = n + 1)
  <2>1. CASE header = part
    <3>1. /\ header \in Text /\ n = Len(header) /\ n >= n /\ n \in Nat
          /\ \A i \in 1 .. n : header[i] = g[i]
          /\ \A i \in 1 .. n : i <= n
          BY <1>3, <2>1
    <3> QED
        BY <3>1
  <2>2. CASE n < length /\ header = Append(part, behind)
    <3>1. header \in Text /\ Len(header) = n + 1 /\ header[n + 1] = behind /\ \A i \in 1 .. n : header[i] = part[i]
          BY <1>3, <1>4, <2>2 DEF Text
    <3>2. n + 1 \in Nat /\ n + 1 >= n /\ \A i \in 1 .. n + 1 : i <= n \/ i = n + 1
          OBVIOUS
    <3>3. \A i \in 1 .. n + 1 : i <= n \/ (header[i] = behind /\ n < length /\ i = n + 1)
          BY <2>2, <3>1, <3>2
    <3>4. \A i \in 1 .. n : header[i] = g[i]
          BY <1>3, <3>1
    <3> QED
        BY <3>1, <3>2, <3>3, <3>4
  <2> QED
      BY <1>2, <1>3, <2>1, <2>2
<1>6. PICK last \in Nat : last = LineEnd(m) /\ last >= 1 /\ last <= length
  <2>1. LineEnd(m) \in Nat /\ LineEnd(m) >= 1 /\ LineEnd(m) <= Len(Header(m))
        BY HeaderIs
  <2> QED
      BY <1>1, <2>1
<1>7. ReadHeaders(header, RQST).http = ReadLines(header, RQST).http
      BY DEF ReadHeaders, HeadersRead
<1>8. CASE n >= last
  <2>1. LineEnd(m) <= Len(header) /\ \A i \in 1 .. LineEnd(m) : header[i] = Header(m)[i]
        BY <1>1, <1>5, <1>6, <1>8
  <2>2. ReadLines(header, RQST) \in Behind(m)
        BY <1>5, <2>1, FirstLineRead
  <2> QED
      BY <1>7, <2>2 DEF Behind
<1>9. CASE n < last
  <2>1. ASSUME NEW i \in 1 .. k PROVE header[i] # "LF"
    <3>1. CASE i <= n
      <4>1. i \in 1 .. LineEnd(m) - 1 /\ i \in 1 .. n
            BY <1>6, <1>9, <3>1
      <4>2. g[i] # "LF"
            BY <1>1, <4>1, LineIs
      <4> QED
          BY <1>5, <4>1, <4>2
    <3>2. CASE ~(i <= n)
      <4>1. header[i] = behind
            BY <1>5, <3>2
      <4> QED
          BY <1>4, <4>1
    <3> QED
        BY <3>1, <3>2
  <2>2. ReadLines(header, RQST) = Begin(header)
        BY <1>5, <2>1, NoLineRead
  <2> QED
      BY <1>7, <2>2 DEF Begin, NewHttpRequest
<1> QED
    BY <1>8, <1>9
-----------------------------------------------------------------------------
(* The header on the socket                                                *)

EndsAt(text, n) == n \in 4 .. Len(text) /\ \A k \in n - 3 .. n : text[k] \in {"CR", "LF"}

LEMMA HeaderEndsAt ==
    ASSUME NEW text
    PROVE  \A n : n \in HeaderEnds(text) <=> EndsAt(text, n)
BY DEF HeaderEnds, EndsAt

LEMMA RequestEndsAt ==
    ASSUME NEW m, IsMessage(m)
    PROVE  Len(Header(m)) >= 4 /\ \A n : EndsAt(Header(m), n) <=> n = Len(Header(m))
<1>1. PICK length \in Nat : length = Len(Header(m)) /\ length >= 4
      BY HeaderIs
<1>2. \A n \in 4 .. length : (\A k \in n - 3 .. n : Header(m)[k] \in {"CR", "LF"}) <=> n = length
      BY <1>1, Zenon DEF IsMessage
<1>3. \A n : EndsAt(Header(m), n) <=> n \in 4 .. length /\ n = length
      BY <1>1, <1>2, Zenon DEF EndsAt
<1> HIDE DEF EndsAt
<1> QED
    BY <1>1, <1>3

\* No text that begins like a request ends as a header before the header of the request.
LEMMA NoEndBefore ==
    ASSUME NEW m, IsMessage(m), NEW text \in Text, NEW n \in HeaderEnds(text), n <= Len(Header(m)),
           \A i \in 1 .. n : text[i] = Header(m)[i]
    PROVE  n = Len(Header(m))
<1>1. PICK g \in Text, length \in Nat : g = Header(m) /\ length = Len(g)
      BY HeaderIs
<1>2. EndsAt(text, n)
      BY HeaderEndsAt
<1>3. n \in 4 .. length /\ \A k \in n - 3 .. n : k \in 1 .. n
      BY <1>1, <1>2, TextIs DEF EndsAt
<1>4. EndsAt(g, n)
      BY <1>1, <1>2, <1>3 DEF EndsAt
<1> QED
    BY <1>1, <1>4, RequestEndsAt

\* Of a stream that goes on behind a request the reader takes this header, or the part of
\* it that comes; and after the first the rest is there to read.
LEMMA HeaderTaken ==
    ASSUME NEW m, IsMessage(m), NEW rest \in Text, NEW text, text = Header(m) \o rest,
           NEW got \in Received(text), NEW header \in Headers(got)
    PROVE  PartOf(m, header) /\ (HeaderEnds(got) # {} => AfterHeader(got) = rest)
<1>1. PICK g \in Text, length \in Nat : g = Header(m) /\ length = Len(g) /\ length >= 4
  <2>1. Header(m) \in Text /\ Len(Header(m)) \in Nat
        BY HeaderIs
  <2>2. Len(Header(m)) >= 4
        BY RequestEndsAt
  <2> QED
      BY <2>1, <2>2
<1>2. PICK k \in Nat : k = Len(rest)
      BY TextIs
<1>3. Joins(g, length, rest, k, text) /\ text \in Text
  <2>1. PICK both \in Text : both = g \o rest /\ Joins(g, length, rest, k, both)
        BY <1>1, <1>2, JoinText
  <2> QED
      BY <1>1, <2>1
<1>4. HeaderEnds(text) # {} /\ HeaderLength(text) = length
  <2>1. EndsAt(text, length)
    <3>1. EndsAt(g, length)
          BY <1>1, RequestEndsAt
    <3>2. \A i \in length - 3 .. length : i \in 1 .. length
          BY <1>1
    <3> QED
        BY <1>1, <1>3, <3>1, <3>2 DEF EndsAt, Joins
  <2>2. \A n \in HeaderEnds(text) : n \in Nat /\ length <= n
    <3> SUFFICES ASSUME NEW n \in HeaderEnds(text) PROVE n \in Nat /\ length <= n
        OBVIOUS
    <3>1. n \in Nat
          BY <1>3, TextIs, HeaderEndsAt DEF EndsAt
    <3>2. CASE n <= length
      <4>1. \A i \in 1 .. n : text[i] = Header(m)[i]
            BY <1>1, <1>3, <3>1, <3>2 DEF Joins
      <4>2. n = length
            BY <1>1, <1>3, <3>2, <4>1, NoEndBefore
      <4> QED
          BY <3>1, <4>2
    <3>3. CASE ~(n <= length)
          BY <3>1, <3>3
    <3> QED
        BY <3>2, <3>3
  <2>3. length \in HeaderEnds(text)
        BY <2>1, HeaderEndsAt
  <2>4. Min(HeaderEnds(text)) = length
        BY <2>2, <2>3, Least
  <2> QED
      BY <2>3, <2>4 DEF HeaderLength
<1>5. got = text \/ \E n \in 0 .. length - 1 : got = SubSeq(text, 1, n)
      BY <1>4 DEF Received
<1>6. CASE got = text
  <2>1. header = SubSeq(text, 1, length)
        BY <1>4, <1>6 DEF Headers
  <2>2. SubSeq(text, 0 + 1, 0 + length) = g /\ SubSeq(g, 0 + 1, 0 + length) = g
    <3>1. 0 + length <= Len(text) /\ 0 + length <= Len(g) /\ 0 \in Nat
          BY <1>1, <1>3 DEF Joins
    <3>2. \A i \in 1 .. length : text[0 + i] = g[i] /\ g[0 + i] = g[i]
          BY <1>3 DEF Joins
    <3>3. SubSeq(text, 0 + 1, 0 + length) = g
      <4>1. text \in Text /\ length = Len(g) /\ \A i \in 1 .. length : text[0 + i] = g[i]
            BY <1>1, <1>3, <3>2
      <4> QED
          BY <3>1, <4>1, SubSeqIs
    <3>4. SubSeq(g, 0 + 1, 0 + length) = g
          BY <1>1, <3>1, <3>2, SubSeqIs, ZenonT(30)
    <3> QED
        BY <3>3, <3>4
  <2>3. 0 + 1 = 1 /\ 0 + length = length /\ length \in 0 .. length
        OBVIOUS
  <2>4. header = SubSeq(g, 1, length)
        BY <2>1, <2>2, <2>3
  <2>5. PartOf(m, header)
        BY <1>1, <2>3, <2>4, Zenon DEF PartOf
  <2>6. AfterHeader(got) = rest
    <3>1. Len(text) = length + k
          BY <1>3 DEF Joins
    <3>2. SubSeq(text, length + 1, length + k) = rest
      <4>1. \A i \in 1 .. k : text[length + i] = rest[i]
            BY <1>3 DEF Joins
      <4>2. length + k <= Len(text)
            BY <3>1
      <4> QED
          BY <1>2, <1>3, <4>1, <4>2, SubSeqIs, ZenonT(30)
    <3> QED
        BY <1>4, <1>6, <3>1, <3>2 DEF AfterHeader
  <2> QED
      BY <2>5, <2>6
<1>7. ASSUME NEW n \in 0 .. length - 1, got = SubSeq(text, 1, n)
      PROVE  PartOf(m, header) /\ HeaderEnds(got) = {}
  <2>1. n \in 0 .. Len(text) /\ n \in 0 .. length /\ n < length /\ n \in Nat
        BY <1>3 DEF Joins
  <2>2. got \in Text /\ Len(got) = n /\ \A i \in 1 .. n : got[i] = text[i]
        BY <1>3, <1>7, <2>1, PartIs
  <2>3. \A i \in 1 .. n : got[i] = g[i]
    <3>1. \A i \in 1 .. n : i \in 1 .. length
          BY <2>1
    <3> QED
        BY <1>3, <2>2, <3>1 DEF Joins
  <2>4. HeaderEnds(got) = {}
    <3> SUFFICES ASSUME NEW j \in HeaderEnds(got) PROVE FALSE
        OBVIOUS
    <3>1. j \in 4 .. n
          BY <2>2, HeaderEndsAt DEF EndsAt
    <3>2. j <= Len(Header(m)) /\ \A i \in 1 .. j : got[i] = Header(m)[i]
          BY <1>1, <2>1, <2>3, <3>1
    <3>3. j = length
          BY <1>1, <2>2, <3>2, NoEndBefore
    <3> QED
        BY <2>1, <3>1, <3>3
  <2>5. SubSeq(got, 1, n) = SubSeq(g, 1, n)
    <3>1. PICK w \in Text : w = SubSeq(g, 1, n) /\ Len(w) = n /\ \A i \in 1 .. n : w[i] = g[i]
          BY <1>1, <2>1, PartIs
    <3>2. PICK v \in Text : v = SubSeq(got, 1, n) /\ Len(v) = n /\ \A i \in 1 .. n : v[i] = got[i]
      <4>1. n \in 0 .. Len(got)
            BY <2>1, <2>2
      <4> QED
          BY <2>2, <4>1, PartIs
    <3>3. Len(v) = Len(w) /\ \A i \in 1 .. Len(v) : v[i] = w[i]
          BY <2>3, <3>1, <3>2
    <3>4. v = w
          BY <3>3, SeqEqual DEF Text
    <3> QED
        BY <3>1, <3>2, <3>4
  <2> DEFINE behind == "?"
  <2>6. header = SubSeq(got, 1, n) \/ header = Append(SubSeq(got, 1, n), behind)
    <3>1. HeaderLength(got) = n
          BY <2>2, <2>4 DEF HeaderLength
    <3>2. Headers(got) = {SubSeq(got, 1, n), Append(SubSeq(got, 1, n), behind)}
          BY <2>4, <3>1, Zenon DEF Headers
    <3> QED
        BY <3>2, Zenon
  <2>7. header = SubSeq(g, 1, n) \/ (n < length /\ header = Append(SubSeq(g, 1, n), behind))
    <3> HIDE DEF behind
    <3> QED
        BY <2>1, <2>5, <2>6
  <2>8. PartOf(m, header)
        BY <1>1, <2>1, <2>7, Zenon DEF PartOf
  <2> QED
      BY <2>4, <2>8
<1> QED
    BY <1>5, <1>6, <1>7
-----------------------------------------------------------------------------
(* The requests of a client                                                *)

\* The messages of a session behind the first n, and what no body has come before.
Rest(s, n)      == [k \in 1 .. Len(s) - n |-> Message(s[n + k])]
Remaining(s, n) == FlattenSeq(Rest(s, n))
Bare(s, n)      == \A j \in 1 .. n : s[j].body = <<>>

IsSequence(s) == \E S : s \in Seq(S)

\* What a server is asked for a request.
Asked(m) == m.line[1] \o <<"SP">> \o m.line[2] \o <<"SP">> \o m.line[3]
            \o <<"LF", "Host", ":", "SP">> \o Host \o <<"LF", "LF">>

LEMMA AppendIs ==
    ASSUME NEW s, IsSequence(s), NEW x
    PROVE  /\ IsSequence(Append(s, x)) /\ Len(s) \in Nat /\ Len(Append(s, x)) = Len(s) + 1
           /\ DOMAIN s = 1 .. Len(s) /\ DOMAIN Append(s, x) = 1 .. Len(s) + 1
           /\ Append(s, x)[Len(s) + 1] = x /\ \A i \in 1 .. Len(s) : Append(s, x)[i] = s[i]
<1>1. PICK S : s \in Seq(S)
      BY DEF IsSequence
<1>2. PICK T : T = S \cup {x}
      OBVIOUS
<1>3. s \in Seq(T) /\ x \in T
      BY <1>1, <1>2
<1>4. Append(s, x) \in Seq(T)
      BY <1>3
<1> QED
    BY <1>3, <1>4 DEF IsSequence

LEMMA ExceptIs ==
    ASSUME NEW s, IsSequence(s), NEW k \in DOMAIN s, NEW x
    PROVE  /\ IsSequence([s EXCEPT ![k] = x]) /\ Len([s EXCEPT ![k] = x]) = Len(s)
           /\ \A i \in DOMAIN s : [s EXCEPT ![k] = x][i] = IF i = k THEN x ELSE s[i]
<1>1. PICK S : s \in Seq(S)
      BY DEF IsSequence
<1>2. PICK T : T = S \cup {x}
      OBVIOUS
<1>3. s \in Seq(T) /\ x \in T
      BY <1>1, <1>2
<1>4. [s EXCEPT ![k] = x] \in Seq(T) /\ Len([s EXCEPT ![k] = x]) = Len(s)
      BY <1>3
<1>5. \A i \in DOMAIN s : [s EXCEPT ![k] = x][i] = IF i = k THEN x ELSE s[i]
      OBVIOUS
<1> QED
    BY <1>4, <1>5 DEF IsSequence

LEMMA SessionIs ==
    ASSUME NEW s \in Sessions
    PROVE  Len(s) \in Nat /\ DOMAIN s = 1 .. Len(s)
           /\ \A k \in 1 .. Len(s) : IsMessage(s[k]) /\ Message(s[k]) \in Text
<1>1. s \in Seq(ToSet(s)) /\ \A k \in DOMAIN s : IsMessage(s[k])
      BY HttpAssumption
<1>2. Len(s) \in Nat /\ DOMAIN s = 1 .. Len(s)
      BY <1>1
<1>3. ASSUME NEW m, IsMessage(m) PROVE Message(m) \in Text
  <2>1. PICK header \in Text, body \in Text : header = Header(m) /\ body = m.body
        BY <1>3, HeaderIs, RequestTypes
  <2>2. header \o body \in Text
        BY JoinIs
  <2> QED
      BY <2>1, <2>2 DEF Message
<1> QED
    BY <1>1, <1>2, <1>3

\* What is left of a stream behind n requests begins with the next header; and if that has
\* no body, the requests behind it follow.
LEMMA RemainingIs ==
    ASSUME NEW s \in Sessions, NEW n \in Nat, n <= Len(s)
    PROVE  \/ n = Len(s) /\ Remaining(s, n) = <<>>
           \/ /\ n < Len(s) /\ Remaining(s, n + 1) \in Text
              /\ Remaining(s, n) = Header(s[n + 1]) \o (s[n + 1].body \o Remaining(s, n + 1))
              /\ s[n + 1].body = <<>> => s[n + 1].body \o Remaining(s, n + 1) = Remaining(s, n + 1)
<1>1. PICK length \in Nat : length = Len(s) /\ n <= length
      BY SessionIs
<1>2. CASE n = length
  <2>1. length - n = 0
        BY <1>2
  <2>2. Rest(s, n) = [k \in 1 .. 0 |-> Message(s[n + k])]
        BY <1>1, <2>1 DEF Rest
  <2>3. Rest(s, n) = <<>>
        BY <2>2
  <2>4. Remaining(s, n) = <<>>
        BY <2>3 DEF Remaining, FlattenSeq
  <2> QED
      BY <1>1, <1>2, <2>4
<1>3. CASE n < length
  <2>1. PICK seqs \in Texts1 : seqs = Rest(s, n) /\ Len(seqs) = length - n
    <3>1. \A k \in 1 .. length - n : n + k \in 1 .. length
          OBVIOUS
    <3>2. \A k \in 1 .. length - n : Message(s[n + k]) \in Text
          BY <1>1, <3>1, SessionIs
    <3>3. length - n \in Nat
          BY <1>1
    <3>4. Rest(s, n) = [k \in 1 .. length - n |-> Message(s[n + k])]
          BY <1>1 DEF Rest
    <3>5. Rest(s, n) \in Seq(Text) /\ Len(Rest(s, n)) = length - n
          BY <3>2, <3>3, <3>4
    <3> QED
        BY <3>5 DEF Texts1
  <2>2. Tail(seqs) = Rest(s, n + 1)
    <3>1. Rest(s, n + 1) = [k \in 1 .. length - (n + 1) |-> Message(s[n + 1 + k])]
          BY <1>1 DEF Rest
    <3>2. \A k \in 1 .. length - n : seqs[k] = Message(s[n + k])
          BY <1>1, <2>1 DEF Rest
    <3>3. PICK tail \in Seq(Text) : /\ tail = Tail(seqs) /\ Len(tail) = length - (n + 1)
                                    /\ \A k \in 1 .. length - (n + 1) : tail[k] = seqs[k + 1]
      <4>1. seqs # <<>>
            BY <1>3, <2>1
      <4>2. Tail(seqs) \in Seq(Text) /\ Len(Tail(seqs)) = Len(seqs) - 1
            BY ONLY seqs \in Texts1, <4>1, HeadTailProperties DEF Texts1
      <4>3. \A k \in 1 .. Len(seqs) - 1 : Tail(seqs)[k] = seqs[k + 1]
            BY <4>1 DEF Texts1
      <4>4. Len(seqs) - 1 = length - (n + 1)
            BY <2>1
      <4> QED
          BY <4>2, <4>3, <4>4
    <3>4. \A k \in 1 .. length - (n + 1) : k + 1 \in 1 .. length - n /\ n + (k + 1) = n + 1 + k
          OBVIOUS
    <3>5. tail = [k \in 1 .. length - (n + 1) |-> tail[k]]
      <4>1. DOMAIN tail = 1 .. length - (n + 1)
            BY ONLY tail \in Seq(Text), <3>3
      <4>2. tail = [k \in DOMAIN tail |-> tail[k]]
            BY ONLY tail \in Seq(Text)
      <4> QED
          BY <4>1, <4>2, Zenon
    <3>6. \A k \in 1 .. length - (n + 1) : tail[k] = Message(s[n + 1 + k])
          BY <3>2, <3>3, <3>4
    <3> QED
        BY <3>1, <3>3, <3>5, <3>6
  <2>3. /\ Remaining(s, n + 1) \in Text
        /\ Remaining(s, n) = seqs[1] \o Remaining(s, n + 1)
    <3>1. Len(seqs) > 0
          BY <1>3, <2>1
    <3> QED
        BY <2>1, <2>2, <3>1, FlattenFirst DEF Remaining
  <2>4. seqs[1] = Message(s[n + 1])
    <3>1. 1 \in 1 .. length - n
          BY <1>3
    <3> QED
        BY <1>1, <2>1, <3>1 DEF Rest
  <2>5. IsMessage(s[n + 1])
    <3>1. n + 1 \in 1 .. length
          BY <1>3
    <3> QED
        BY <1>1, <3>1, SessionIs
  <2>6. PICK a \in Seq(Token), b \in Seq(Token), c \in Seq(Token) :
           a = Header(s[n + 1]) /\ b = s[n + 1].body /\ c = Remaining(s, n + 1)
        BY <2>3, <2>5, HeaderIs, RequestTypes DEF Text
  <2>7. (a \o b) \o c = a \o (b \o c)
        BY ONLY a \in Seq(Token), b \in Seq(Token), c \in Seq(Token), ConcatAssociative
  <2>8. Remaining(s, n) = (a \o b) \o c
        BY <2>3, <2>4, <2>6 DEF Message
  <2>9. <<>> \o c = c
        BY ConcatEmptySeq
  <2> QED
      BY <1>1, <1>3, <2>3, <2>6, <2>7, <2>8, <2>9
<1>4. n = length \/ n < length
      BY <1>1
<1> QED
    BY <1>2, <1>3, <1>4, Zenon
-----------------------------------------------------------------------------
(* Requests are forwarded                                                  *)

\* One thread and one forwarded request for each request read.
Shape ==
    /\ session \in Sessions
    /\ IsSequence(requests) /\ IsSequence(forwarded) /\ IsSequence(thread)
    /\ Len(forwarded) = Len(requests) /\ Len(thread) = Len(requests)

\* A reader that no body has misled is at the end of a request.
InStep ==
    reader = "reading" /\ Bare(session, Len(requests)) =>
        /\ Len(requests) <= Len(session)
        /\ stream = <<>> \/ stream = Remaining(session, Len(requests))

ReadAsSent ==
    \A k \in 1 .. Len(requests) : Bare(session, k - 1) =>
        requests[k].req_type = NULL \/ requests[k] \in ParsedOf(session[k])

AskedAsSent ==
    \A k \in 1 .. Len(requests) : Bare(session, k - 1) =>
        forwarded[k] = NULL \/ forwarded[k] = Asked(session[k])

IInv == Shape /\ InStep /\ ReadAsSent /\ AskedAsSent

LEMMA InitIInv == Init => IInv
<1> SUFFICES ASSUME Init PROVE IInv
    OBVIOUS
<1>1. /\ session \in Sessions /\ requests = <<>> /\ forwarded = <<>> /\ thread = <<>>
      /\ stream = FlattenSeq([k \in DOMAIN session |-> Message(session[k])])
      BY DEF Init
<1>2. Len(requests) = 0 /\ Len(forwarded) = 0 /\ Len(thread) = 0
      BY <1>1
<1>3. IsSequence(<<>>)
  <2>1. <<>> \in Seq({})
        OBVIOUS
  <2> QED
      BY <2>1 DEF IsSequence
<1>4. stream = Remaining(session, 0)
  <2>1. PICK length \in Nat : length = Len(session) /\ DOMAIN session = 1 .. length
        BY <1>1, SessionIs
  <2>2. length - 0 = length /\ \A k \in 1 .. length : 0 + k = k
        OBVIOUS
  <2>3. [k \in DOMAIN session |-> Message(session[k])] = [k \in 1 .. length - 0 |-> Message(session[0 + k])]
        BY <2>1, <2>2
  <2> QED
      BY <1>1, <2>1, <2>3 DEF Remaining, Rest
<1>5. Len(session) \in Nat
      BY <1>1, SessionIs
<1> QED
    BY <1>1, <1>2, <1>3, <1>4, <1>5 DEF IInv, Shape, InStep, ReadAsSent, AskedAsSent

\* make_simple_request, of what has been read of a request.
LEMMA MadeOf ==
    ASSUME NEW m, NEW http, http.req_type = NULL \/ http \in ParsedOf(m)
    PROVE  MakeSimpleRequest(http, Host) = NULL \/ MakeSimpleRequest(http, Host) = Asked(m)
<1>1. CASE http.req_type = NULL
      BY <1>1 DEF MakeSimpleRequest
<1>2. CASE http \in ParsedOf(m)
  <2>1. http.req_type = m.line[1] /\ http.req_resource = m.line[2] /\ http.req_protocol = m.line[3]
        BY <1>2 DEF ParsedOf
  <2> QED
      BY <2>1, Zenon DEF MakeSimpleRequest, Asked
<1> QED
    BY <1>1, <1>2

\* read_work: the request that is read next, and what is left behind it.
LEMMA NextRead ==
    ASSUME IInv, reader = "reading", Bare(session, Len(requests)),
           NEW got \in Received(stream), NEW h \in HeaderRead(got, RQST), Parses(h)
    PROVE  /\ Len(requests) < Len(session)
           /\ \/ h.read.http.req_type = NULL
              \/ h.read.http \in ParsedOf(session[Len(requests) + 1])
           /\ session[Len(requests) + 1].body = <<>> /\ HeaderEnds(got) # {} =>
                AfterHeader(got) = Remaining(session, Len(requests) + 1)
<1>1. PICK n \in Nat : n = Len(requests) /\ n <= Len(session)
  <2>1. Len(requests) \in Nat
        BY AppendIs DEF IInv, Shape
  <2> QED
      BY <2>1 DEF IInv, InStep
<1>2. session \in Sessions
      BY DEF IInv, Shape
<1>3. stream # <<>>
  <2> SUFFICES ASSUME stream = <<>> PROVE FALSE
      OBVIOUS
  <2>1. got = <<>>
    <3>1. HeaderEnds(<<>>) = {}
          BY HeaderEndsAt DEF EndsAt
    <3>2. HeaderLength(<<>>) = 0
          BY <3>1 DEF HeaderLength
    <3> QED
        BY <3>2 DEF Received
  <2>2. h.received = (got # <<>>)
        BY DEF HeaderRead
  <2> QED
      BY <2>1, <2>2 DEF Parses
<1>4. stream = Remaining(session, n)
      BY <1>1, <1>3 DEF IInv, InStep
<1>5. /\ n < Len(session) /\ Remaining(session, n + 1) \in Text
      /\ stream = Header(session[n + 1]) \o (session[n + 1].body \o Remaining(session, n + 1))
      /\ session[n + 1].body = <<>> =>
           session[n + 1].body \o Remaining(session, n + 1) = Remaining(session, n + 1)
      BY <1>1, <1>2, <1>3, <1>4, RemainingIs
<1>6. PICK m : m = session[n + 1] /\ IsMessage(m)
  <2>1. Len(session) \in Nat
        BY <1>2, SessionIs
  <2>2. n + 1 \in 1 .. Len(session)
        BY <1>5, <2>1
  <2> QED
      BY <1>2, <2>2, SessionIs
<1>7. PICK rest \in Text : rest = m.body \o Remaining(session, n + 1)
  <2>1. m.body \in Text
        BY <1>6, RequestTypes
  <2> QED
      BY <1>5, <2>1, JoinIs
<1>8. PICK header \in Headers(got) : h = [header |-> header, read |-> ReadHeaders(header, RQST),
                                          received |-> got # <<>>]
      BY DEF HeaderRead
<1>9. PartOf(m, header) /\ (HeaderEnds(got) # {} => AfterHeader(got) = rest)
  <2>1. stream = Header(m) \o rest
        BY <1>5, <1>6, <1>7
  <2> QED
      BY <1>6, <1>8, <2>1, HeaderTaken
<1>10. h.read.http \in ParsedOf(m) \/ h.read.http.req_type = NULL
  <2>1. h.read = ReadHeaders(header, RQST)
        BY <1>8
  <2> QED
      BY <1>6, <1>9, <2>1, PartRead
<1> QED
    BY <1>1, <1>5, <1>6, <1>7, <1>9, <1>10

LEMMA ReceiveRequestIInv ==
    ASSUME IInv, ReceiveRequest
    PROVE  IInv'
<1>1. PICK got \in Received(stream), h \in UNION {HeaderRead(g, RQST) : g \in Received(stream)} :
        LET With(s, x) == IF Parses(h) THEN Append(s, x) ELSE s
        IN  /\ h \in HeaderRead(got, RQST)
            /\ stream' = IF HeaderEnds(got) = {} THEN <<>> ELSE AfterHeader(got)
            /\ reader' = IF Parses(h) THEN reader ELSE "stopped"
            /\ requests' = With(requests, h.read.http)
            /\ thread' = With(thread, "created")
            /\ forwarded' = With(forwarded, NULL)
            /\ session' = session /\ reader = "reading"
      BY DEF ReceiveRequest
<1>2. CASE ~Parses(h)
  <2>1. requests' = requests /\ thread' = thread /\ forwarded' = forwarded /\ session' = session
        /\ reader' = "stopped"
        BY <1>1, <1>2
  <2> QED
      BY <2>1 DEF IInv, Shape, InStep, ReadAsSent, AskedAsSent
<1>3. CASE Parses(h)
  <2>1. /\ requests' = Append(requests, h.read.http) /\ thread' = Append(thread, "created")
        /\ forwarded' = Append(forwarded, NULL) /\ session' = session /\ reader = "reading"
        /\ stream' = IF HeaderEnds(got) = {} THEN <<>> ELSE AfterHeader(got)
        BY <1>1, <1>3
  <2>2. PICK n \in Nat : n = Len(requests) /\ n = Len(forwarded) /\ n = Len(thread)
    <3>1. Len(requests) \in Nat
          BY AppendIs DEF IInv, Shape
    <3> QED
        BY <3>1 DEF IInv, Shape
  <2>3. /\ IsSequence(requests') /\ Len(requests') = n + 1 /\ requests'[n + 1] = h.read.http
        /\ \A k \in 1 .. n : requests'[k] = requests[k]
        BY <2>1, <2>2, AppendIs DEF IInv, Shape
  <2>4. /\ IsSequence(forwarded') /\ Len(forwarded') = n + 1 /\ forwarded'[n + 1] = NULL
        /\ \A k \in 1 .. n : forwarded'[k] = forwarded[k]
        BY <2>1, <2>2, AppendIs DEF IInv, Shape
  <2>5. IsSequence(thread') /\ Len(thread') = n + 1
        BY <2>1, <2>2, AppendIs DEF IInv, Shape
  <2>6. Bare(session, n) =>
          /\ n < Len(session)
          /\ h.read.http.req_type = NULL \/ h.read.http \in ParsedOf(session[n + 1])
          /\ session[n + 1].body = <<>> /\ HeaderEnds(got) # {} =>
               AfterHeader(got) = Remaining(session, n + 1)
    <3> SUFFICES ASSUME Bare(session, n)
                 PROVE  /\ n < Len(session)
                        /\ h.read.http.req_type = NULL \/ h.read.http \in ParsedOf(session[n + 1])
                        /\ session[n + 1].body = <<>> /\ HeaderEnds(got) # {} =>
                             AfterHeader(got) = Remaining(session, n + 1)
        OBVIOUS
    <3>1. h \in HeaderRead(got, RQST)
          BY <1>1
    <3> QED
        BY <1>3, <2>1, <2>2, <3>1, NextRead
  <2>7. Bare(session, n + 1) => Bare(session, n) /\ session[n + 1].body = <<>>
    <3>1. n + 1 \in 1 .. n + 1 /\ \A k \in 1 .. n : k \in 1 .. n + 1
          OBVIOUS
    <3> QED
        BY <3>1 DEF Bare
  <2>8. Shape'
        BY <2>1, <2>3, <2>4, <2>5 DEF IInv, Shape
  <2>9. InStep'
    <3>1. Len(session) \in Nat
          BY SessionIs DEF IInv, Shape
    <3>2. Bare(session, n + 1) => /\ n + 1 <= Len(session)
                                  /\ stream' = <<>> \/ stream' = Remaining(session, n + 1)
          BY <2>1, <2>6, <2>7, <3>1
    <3> QED
        BY <2>1, <2>3, <3>2 DEF InStep
  <2>10. ASSUME NEW k \in 1 .. n + 1, Bare(session, k - 1)
         PROVE  /\ requests'[k].req_type = NULL \/ requests'[k] \in ParsedOf(session[k])
                /\ forwarded'[k] = NULL \/ forwarded'[k] = Asked(session[k])
    <3>1. CASE k \in 1 .. n
          BY <2>2, <2>3, <2>4, <2>10, <3>1 DEF IInv, ReadAsSent, AskedAsSent
    <3>2. CASE k = n + 1
      <4>1. k - 1 = n
            BY <3>2
      <4>2. Bare(session, n)
            BY <2>10, <4>1
      <4> QED
          BY <2>3, <2>4, <2>6, <3>2, <4>2
    <3>3. k \in 1 .. n \/ k = n + 1
          OBVIOUS
    <3> QED
        BY <3>1, <3>2, <3>3
  <2>11. ReadAsSent' /\ AskedAsSent'
         BY <2>1, <2>3, <2>10 DEF ReadAsSent, AskedAsSent
  <2> QED
      BY <2>8, <2>9, <2>11 DEF IInv
<1> QED
    BY <1>2, <1>3

LEMMA ForwardRequestIInv ==
    ASSUME IInv, NEW k \in DOMAIN thread, ForwardRequest(k)
    PROVE  IInv'
<1>1. PICK text : /\ text = MakeSimpleRequest(requests[k], Host)
                  /\ thread' = [thread EXCEPT ![k] = IF text = NULL THEN "failed" ELSE "forwarded"]
                  /\ forwarded' = [forwarded EXCEPT ![k] = text]
                  /\ session' = session /\ stream' = stream /\ reader' = reader /\ requests' = requests
      BY DEF ForwardRequest
<1>2. PICK n \in Nat : /\ n = Len(requests) /\ n = Len(forwarded) /\ n = Len(thread)
                       /\ DOMAIN forwarded = 1 .. n /\ DOMAIN thread = 1 .. n
  <2>1. Len(requests) \in Nat /\ DOMAIN forwarded = 1 .. Len(forwarded) /\ DOMAIN thread = 1 .. Len(thread)
        BY AppendIs DEF IInv, Shape
  <2> QED
      BY <2>1 DEF IInv, Shape
<1>3. IsSequence(thread') /\ Len(thread') = n
      BY <1>1, <1>2, ExceptIs DEF IInv, Shape
<1>4. /\ IsSequence(forwarded') /\ Len(forwarded') = n
      /\ \A i \in 1 .. n : forwarded'[i] = IF i = k THEN text ELSE forwarded[i]
      BY <1>1, <1>2, ExceptIs DEF IInv, Shape
<1>5. Shape' /\ InStep' /\ ReadAsSent'
      BY <1>1, <1>2, <1>3, <1>4 DEF IInv, Shape, InStep, ReadAsSent
<1>6. AskedAsSent'
  <2>1. ASSUME NEW i \in 1 .. n, Bare(session, i - 1)
        PROVE  forwarded'[i] = NULL \/ forwarded'[i] = Asked(session[i])
    <3>1. CASE i = k
      <4>1. requests[k].req_type = NULL \/ requests[k] \in ParsedOf(session[k])
            BY <1>2, <2>1, <3>1 DEF IInv, ReadAsSent
      <4> QED
          BY <1>1, <1>4, <3>1, <4>1, MadeOf
    <3>2. CASE i # k
          BY <1>2, <1>4, <2>1, <3>2 DEF IInv, AskedAsSent
    <3> QED
        BY <3>1, <3>2
  <2> QED
      BY <1>1, <1>2, <2>1 DEF AskedAsSent
<1> QED
    BY <1>5, <1>6 DEF IInv

LEMMA StepIInv == IInv /\ [Next]_vars => IInv'
<1> SUFFICES ASSUME IInv, [Next]_vars PROVE IInv'
    OBVIOUS
<1>1. CASE ReceiveRequest
      BY <1>1, ReceiveRequestIInv
<1>2. ASSUME NEW k \in DOMAIN thread, ForwardRequest(k) PROVE IInv'
      BY <1>2, ForwardRequestIInv
<1>3. ASSUME NEW k \in DOMAIN thread, ReceiveResponse(k) PROVE IInv'
  <2>1. PICK step : /\ thread' = [thread EXCEPT ![k] = step]
                    /\ session' = session /\ stream' = stream /\ reader' = reader
                    /\ requests' = requests /\ forwarded' = forwarded
        BY <1>3 DEF ReceiveResponse
  <2>2. IsSequence(thread') /\ Len(thread') = Len(thread)
        BY <2>1, ExceptIs DEF IInv, Shape
  <2> QED
      BY <2>1, <2>2 DEF IInv, Shape, InStep, ReadAsSent, AskedAsSent
<1>4. CASE SendResponse
  <2>1. /\ thread' = thread /\ session' = session /\ stream' = stream /\ reader' = reader
        /\ requests' = requests /\ forwarded' = forwarded
        BY <1>4 DEF SendResponse
  <2> QED
      BY <2>1 DEF IInv, Shape, InStep, ReadAsSent, AskedAsSent
<1>5. CASE UNCHANGED vars
      BY <1>5 DEF vars, IInv, Shape, InStep, ReadAsSent, AskedAsSent
<1> QED
    BY <1>1, <1>2, <1>3, <1>4, <1>5 DEF Next

LEMMA IInvForwards == IInv => ForwardsTheRequest
<1> SUFFICES ASSUME IInv, NEW k \in DOMAIN forwarded, Readable(k), forwarded[k] # NULL
             PROVE  forwarded[k] = Asked(session[k])
    BY DEF ForwardsTheRequest, Asked
<1>1. PICK n \in Nat : n = Len(requests) /\ k \in 1 .. n
  <2>1. Len(requests) \in Nat /\ DOMAIN forwarded = 1 .. Len(forwarded)
        BY AppendIs DEF IInv, Shape
  <2> QED
      BY <2>1 DEF IInv, Shape
<1>2. Bare(session, k - 1)
  <2>1. \A j \in 1 .. k - 1 : j \in 1 .. k /\ j < k
        BY <1>1
  <2> QED
      BY <2>1 DEF Readable, Bare
<1> QED
    BY <1>1, <1>2 DEF IInv, AskedAsSent

\* read_headers, make_simple_request: what is forwarded is method, resource and protocol of
\* the request the client has sent, whatever sessions clients have and wherever they close.
THEOREM RequestsAreForwarded == Spec => []ForwardsTheRequest
BY InitIInv, StepIInv, IInvForwards, PTL DEF Spec
-----------------------------------------------------------------------------
(* The lines of a header                                                   *)

\* A header whose lines the parser can read, and the lengths it gives.
Lined(g) ==
    /\ g \in Text /\ Len(g) \in Nat /\ Len(g) >= 4
    /\ g[1] # "LF" /\ g[Len(g) - 2] = "LF" /\ g[Len(g) - 1] = "CR" /\ g[Len(g)] = "LF"
    /\ \A i \in 1 .. Len(g) : g[i] # "NUL" /\ g[i] # "NULL"
    /\ \A i \in 2 .. Len(g) : g[i] = "LF" <=> g[i - 1] = "CR"
    /\ \A i \in 2 .. Len(g) - 2 : g[i] = "LF" /\ g[i + 1] = "CR" => i = Len(g) - 2
    /\ \A line \in Lines(g) : line[2] < Len(g) => \E i \in line[1] .. line[2] - 2 : g[i] = ":"
    /\ \A line \in LengthLines(g) : /\ g[line[1] + 2] = "SP"
                                    /\ IsDecimal(DigitsOf(g, line))

Lengths(g) == {Decimal(DigitsOf(g, line)) : line \in LengthLines(g)}

LEMMA LinedIs ==
    ASSUME NEW m, IsMessage(m), WellFormed(m)
    PROVE  Lined(Header(m))
<1>1. PICK g \in Text, length \in Nat : g = Header(m) /\ length = Len(g) /\ length >= 4
  <2>1. Len(Header(m)) >= 4
        BY RequestEndsAt
  <2> QED
      BY <2>1, HeaderIs
<1>2. g[length - 1] = "CR" /\ g[length] = "LF"
      BY <1>1, HeaderIs
<1>3. \A n : EndsAt(g, n) <=> n = length
      BY <1>1, RequestEndsAt
<1>4. /\ ToSet(g) \cap {"NUL", "NULL"} = {}
      /\ \A i \in 2 .. length : g[i] = "LF" <=> g[i - 1] = "CR"
      /\ \A line \in Lines(g) : line[2] < length => \E i \in line[1] .. line[2] - 2 : g[i] = ":"
      /\ \A line \in LengthLines(g) : g[line[1] + 2] = "SP" /\ IsDecimal(DigitsOf(g, line))
      BY <1>1 DEF WellFormed
<1>5. \A i \in 1 .. length : g[i] # "NUL" /\ g[i] # "NULL"
  <2>1. \A i \in 1 .. length : g[i] \in ToSet(g)
        BY <1>1, TextIs DEF ToSet
  <2> QED
      BY <1>4, <2>1
<1>6. g[length - 2] = "LF"
  <2>1. \A k \in length - 3 .. length : g[k] \in {"CR", "LF"}
        BY <1>1, <1>3 DEF EndsAt
  <2>2. g[length - 2] \in {"CR", "LF"}
        BY <1>1, <2>1
  <2>3. length - 1 \in 2 .. length /\ (length - 1) - 1 = length - 2
        BY <1>1
  <2>4. g[length - 2] # "CR"
        BY <1>2, <1>4, <2>3
  <2> QED
      BY <2>2, <2>4
<1>7. g[1] # "LF"
  <2>1. 1 \in 1 .. LineEnd(m) - 1
        BY HeaderIs
  <2> QED
      BY <1>1, <2>1, LineIs
<1>8. ASSUME NEW i \in 2 .. length - 2, g[i] = "LF", g[i + 1] = "CR" PROVE i = length - 2
  <2>1. /\ i \in 2 .. length /\ i + 2 \in 2 .. length /\ (i + 2) - 1 = i + 1
        /\ i + 2 \in 4 .. length /\ (i + 2) - 3 = i - 1
        OBVIOUS
  <2>2. g[i - 1] = "CR" /\ g[i + 2] = "LF"
        BY <1>4, <1>8, <2>1
  <2>3. \A k \in i - 1 .. i + 2 : k = i - 1 \/ k = i \/ k = i + 1 \/ k = i + 2
        OBVIOUS
  <2>4. EndsAt(g, i + 2)
        BY <1>1, <1>8, <2>1, <2>2, <2>3 DEF EndsAt
  <2> QED
      BY <1>3, <2>4
<1> QED
    BY <1>1, <1>2, <1>4, <1>5, <1>6, <1>7, <1>8 DEF Lined

\* A line ends before the blank one, and begins where the line before it ends.
LEMMA LinesAre ==
    ASSUME NEW g, Lined(g), NEW line \in LengthLines(g)
    PROVE  /\ line[1] \in 2 .. Len(g) /\ line[2] \in 2 .. Len(g) - 2
           /\ line[1] + 2 < line[2] /\ g[line[1] - 1] = "LF" /\ g[line[2]] = "LF"
           /\ \A i \in line[1] .. line[2] - 1 : g[i] # "LF"
<1>1. PICK length \in Nat : length = Len(g) /\ length >= 4 /\ g[length - 2] = "LF"
      BY DEF Lined
<1>2. PICK first \in 2 .. length, last \in 2 .. length :
         /\ first = line[1] /\ last = line[2] /\ first <= last
         /\ g[first - 1] = "LF" /\ g[last] = "LF"
         /\ \A i \in first .. last - 1 : g[i] # "LF"
      BY <1>1 DEF LengthLines, Lines
<1>3. g[first] \in {"Content-Length", "CONTENT-LENGTH", "content-length"} /\ g[first + 1] = ":" /\ g[first + 2] = "SP"
      BY <1>2 DEF LengthLines, Lined
<1>4. first + 2 < last
  <2>1. first # last
        BY <1>2, <1>3
  <2>2. first + 1 # last
        BY <1>2, <1>3
  <2>3. first + 2 # last
        BY <1>2, <1>3
  <2> QED
      BY <1>2, <2>1, <2>2, <2>3
<1>5. ~(last > length - 2)
  <2> SUFFICES ASSUME last > length - 2 PROVE FALSE
      OBVIOUS
  <2>1. CASE first <= length - 2
    <3>1. length - 2 \in first .. last - 1
          BY <1>1, <1>2, <2>1
    <3> QED
        BY <1>1, <1>2, <3>1
  <2>2. CASE first > length - 2
        BY <1>1, <1>2, <1>4, <2>2
  <2> QED
      BY <1>1, <1>2, <2>1, <2>2
<1> QED
    BY <1>1, <1>2, <1>4, <1>5

LEMMA LowerIs == \A c : Lower(c) = "content-length" <=> c \in {"Content-Length", "CONTENT-LENGTH", "content-length"}
BY DEF Lower

\* get_header, of a line whose end has been cut off: it has its colon, and if it gives the
\* length its data are the digits of the length.
LEMMA LineCut ==
    ASSUME NEW g, Lined(g), NEW s \in Nat, NEW e \in Nat, <<s, e>> \in Lines(g), e < Len(g),
           NEW b \in Text, e <= Len(b), b[e - 1] = "NUL", \A j \in s .. e - 2 : b[j] = g[j]
    PROVE  LET cut == Cut(b, s)
           IN  /\ cut.buffer \in Text /\ Len(cut.buffer) = Len(b)
               /\ \A j \in e .. Len(b) : cut.buffer[j] = b[j]
               /\ cut.data \in Text /\ cut.colon # 0
               /\ cut.name = <<"content-length">> <=> <<s, e>> \in LengthLines(g)
               /\ <<s, e>> \in LengthLines(g) => cut.data = DigitsOf(g, <<s, e>>)
<1>1. PICK length \in Nat, size \in Nat : length = Len(g) /\ size = Len(b) /\ length >= 4
      BY TextIs DEF Lined
<1>2. s >= 2 /\ s <= e /\ e < length /\ e <= size
      BY <1>1 DEF Lines
<1>3. PICK i \in s .. e - 2 : g[i] = ":"
  <2>1. \E i \in <<s, e>>[1] .. <<s, e>>[2] - 2 : g[i] = ":"
        BY DEF Lined
  <2> QED
      BY <2>1
<1>4. \A j \in s .. e - 2 : b[j] = g[j] /\ b[j] # "NUL"
  <2>1. \A j \in s .. e - 2 : j \in 1 .. length
        BY <1>2
  <2> QED
      BY <1>1, <2>1 DEF Lined
<1>5. CString(b, s) = SubSeq(b, s, e - 2)
  <2>1. e - 1 \in Nat /\ s \in Nat \ {0} /\ s <= e - 1 /\ e - 1 <= Len(b) /\ (e - 1) - 1 = e - 2
        BY <1>1, <1>2, <1>3
  <2>2. \A j \in s .. (e - 1) - 1 : b[j] # "NUL"
        BY <1>4, <2>1
  <2>3. CString(b, s) = SubSeq(b, s, (e - 1) - 1)
        BY <2>1, <2>2, CStringIs
  <2> QED
      BY <2>1, <2>3
<1>6. PICK n \in Nat, line \in Text :
         /\ n = (e - 2) + 1 - s /\ line = CString(b, s) /\ Len(line) = n
         /\ \A k \in 1 .. n : line[k] = b[s + k - 1]
  <2>1. e - 2 \in Nat /\ s \in Nat \ {0} /\ s <= (e - 2) + 1 /\ e - 2 <= Len(b) /\ (e - 2) + 1 - s \in Nat
        BY <1>1, <1>2, <1>3
  <2>2. /\ SubSeq(b, s, e - 2) \in Text /\ Len(SubSeq(b, s, e - 2)) = (e - 2) + 1 - s
        /\ \A k \in 1 .. (e - 2) + 1 - s : SubSeq(b, s, e - 2)[k] = b[s + k - 1]
        BY ONLY <2>1, b \in Text, SliceIs
  <2> QED
      BY <1>5, <2>1, <2>2
<1>7. \A k \in 1 .. n : line[k] = g[s + k - 1]
  <2>1. \A k \in 1 .. n : s + k - 1 \in s .. e - 2
        BY <1>6
  <2> QED
      BY <1>4, <1>6, <2>1
<1> DEFINE Colons == {k \in 1 .. Len(line) : line[k] = ":"}
           colon == SelectInSeq(line, LAMBDA c : c = ":")
<1>8. /\ colon \in 1 .. n /\ line[colon] = ":"
      /\ \A k \in 1 .. n : line[k] = ":" => colon <= k
  <2>1. colon = IF Colons # {} THEN Min(Colons) ELSE 0
        BY DEF SelectInSeq
  <2>2. Colons # {}
    <3>1. i - s + 1 \in 1 .. n /\ s + (i - s + 1) - 1 = i
          BY <1>3, <1>6
    <3>2. line[i - s + 1] = ":"
          BY <1>3, <1>7, <3>1
    <3> QED
        BY <1>6, <3>1, <3>2
  <2>3. Colons \subseteq Nat
        BY <1>6
  <2>4. Min(Colons) \in Colons /\ \A k \in Colons : Min(Colons) <= k
        BY <2>2, <2>3, NatLeast DEF Min
  <2>5. colon \in Colons /\ \A k \in Colons : colon <= k
    <3> HIDE DEF Colons, colon
    <3> QED
        BY <2>1, <2>2, <2>4
  <2> HIDE DEF colon
  <2> QED
      BY <1>6, <2>5
<1> HIDE DEF colon
<1>9. PICK at \in Nat : at = s + colon - 1 /\ at <= e - 2 /\ at >= 1
      BY <1>2, <1>6, <1>8
<1>10. PICK cut : cut = Cut(b, s) /\ cut = CutAt(b, line, at, colon)
       BY <1>6, <1>9 DEF Cut, colon
<1>11. /\ cut.colon = colon /\ cut.name = [k \in 1 .. colon - 1 |-> Lower(line[k])]
       /\ cut.buffer = [b EXCEPT ![at] = "NUL"] /\ cut.data = CString(b, at + 2)
       BY <1>8, <1>10 DEF CutAt
<1>12. /\ cut.buffer \in Text /\ Len(cut.buffer) = Len(b)
       /\ \A j \in e .. Len(b) : cut.buffer[j] = b[j]
  <2>1. [b EXCEPT ![at] = "NUL"] \in Text /\ Len([b EXCEPT ![at] = "NUL"]) = Len(b)
    <3>1. "NUL" \in Token
          BY DEF Token
    <3>2. PICK d \in Text : /\ d = [b EXCEPT ![at] = "NUL"] /\ Len(d) = Len(b)
                            /\ \A j \in 1 .. Len(b) : j # at => d[j] = b[j]
                            /\ at \in 1 .. Len(b) => d[at] = "NUL"
          BY <3>1, ByteSet
    <3> QED
        BY <3>2
  <2>2. \A j \in e .. Len(b) : j \in 1 .. Len(b) /\ j # at
        BY <1>1, <1>2, <1>9
  <2>3. \A j \in e .. Len(b) : [b EXCEPT ![at] = "NUL"][j] = b[j]
        BY <2>2 DEF Text
  <2> QED
      BY <1>11, <2>1, <2>3
<1>13. cut.data \in Text
  <2>1. at + 2 \in Nat \ {0}
        OBVIOUS
  <2> QED
      BY <1>11, <2>1, CStringTypes
<1>14. ASSUME <<s, e>> \in LengthLines(g)
       PROVE  cut.name = <<"content-length">> /\ cut.data = DigitsOf(g, <<s, e>>)
  <2>1. /\ g[s] \in {"Content-Length", "CONTENT-LENGTH", "content-length"} /\ g[s + 1] = ":"
        /\ s + 2 < e
    <3>1. <<s, e>>[1] = s /\ <<s, e>>[2] = e
          OBVIOUS
    <3> QED
        BY <1>14, <3>1, LinesAre DEF LengthLines
  <2>2. s + 3 <= e - 1 /\ n >= 2
    <3>1. g[s + 2] = "SP"
          BY <1>14 DEF Lined
    <3>2. g[e - 1] = "CR"
      <4>1. g[e] = "LF" /\ e \in 2 .. length
            BY <1>1, <1>2 DEF Lines
      <4> QED
          BY <1>1, <4>1 DEF Lined
    <3>3. s + 2 # e - 1
          BY <3>1, <3>2
    <3> QED
        BY <1>6, <2>1, <3>3
  <2>3. line[1] = g[s] /\ line[2] = g[s + 1]
    <3>1. 1 \in 1 .. n /\ 2 \in 1 .. n /\ s + 1 - 1 = s /\ s + 2 - 1 = s + 1
          BY <2>2
    <3> QED
        BY <1>7, <3>1
  <2>4. colon = 2
    <3>1. line[1] # ":" /\ line[2] = ":"
          BY <2>1, <2>3
    <3>2. 2 \in 1 .. n
          BY <2>2
    <3>3. colon <= 2 /\ colon # 1
          BY <1>8, <3>1, <3>2
    <3> QED
        BY <1>8, <3>3
  <2>5. cut.name = <<"content-length">>
    <3>1. Lower(line[1]) = "content-length"
          BY <2>1, <2>3, LowerIs
    <3>2. cut.name = [k \in 1 .. 1 |-> Lower(line[k])]
          BY <1>11, <2>4
    <3>3. \A k \in 1 .. 1 : Lower(line[k]) = "content-length"
          BY <3>1
    <3>4. cut.name = [k \in 1 .. 1 |-> "content-length"]
          BY <3>2, <3>3
    <3> QED
        BY <3>4
  <2>6. cut.data = CString(b, s + 3)
    <3>1. at + 2 = s + 3
          BY <1>9, <2>4
    <3> QED
        BY <1>11, <3>1
  <2>7. CString(b, s + 3) = SubSeq(b, s + 3, e - 2)
    <3>1. e - 1 \in Nat /\ s + 3 \in Nat \ {0} /\ s + 3 <= e - 1 /\ e - 1 <= Len(b) /\ (e - 1) - 1 = e - 2
          BY <1>1, <1>2, <2>2
    <3>2. \A j \in s + 3 .. (e - 1) - 1 : b[j] # "NUL"
          BY <1>4, <3>1
    <3>3. CString(b, s + 3) = SubSeq(b, s + 3, (e - 1) - 1)
          BY <3>1, <3>2, CStringIs
    <3> QED
        BY <3>1, <3>3
  <2>8. SubSeq(b, s + 3, e - 2) = SubSeq(g, s + 3, e - 2)
    <3>1. /\ e - 2 \in Nat /\ s + 3 \in Nat \ {0} /\ s + 3 <= (e - 2) + 1
          /\ e - 2 <= Len(b) /\ e - 2 <= Len(g)
          BY <1>1, <1>2, <2>2
    <3>2. g \in Text
          BY DEF Lined
    <3>3. \A j \in s + 3 .. e - 2 : b[j] = g[j]
          BY <1>4
    <3> QED
        BY ONLY b \in Text, <3>1, <3>2, <3>3, SameSlice
  <2> QED
      BY <2>5, <2>6, <2>7, <2>8 DEF DigitsOf
<1>15. ASSUME cut.name = <<"content-length">> PROVE <<s, e>> \in LengthLines(g)
  <2>1. DOMAIN cut.name = 1 .. 1 /\ cut.name[1] = "content-length"
        BY <1>15
  <2>2. DOMAIN cut.name = 1 .. colon - 1
        BY <1>11
  <2>3. colon = 2
    <3>1. 1 .. colon - 1 = 1 .. 1
          BY <2>1, <2>2, Zenon
    <3>2. 1 \in 1 .. 1 /\ (colon > 1 => colon - 1 \in 1 .. colon - 1)
          BY <1>8
    <3>3. 1 \in 1 .. colon - 1
          BY <3>1, <3>2, Zenon
    <3>4. colon - 1 \in 1 .. 1
      <4>1. colon > 1
            BY <1>8, <3>3
      <4> QED
          BY <3>1, <3>2, <4>1, Zenon
    <3> QED
        BY <1>8, <3>4
  <2>4. Lower(line[1]) = "content-length"
        BY <1>11, <2>1, <2>3
  <2>5. line[1] = g[s] /\ line[2] = g[s + 1]
    <3>1. 1 \in 1 .. n /\ 2 \in 1 .. n /\ s + 1 - 1 = s /\ s + 2 - 1 = s + 1
          BY <1>8, <2>3
    <3> QED
        BY <1>7, <3>1
  <2>6. /\ g[<<s, e>>[1]] \in {"Content-Length", "CONTENT-LENGTH", "content-length"}
        /\ g[<<s, e>>[1] + 1] = ":"
    <3>1. g[s] \in {"Content-Length", "CONTENT-LENGTH", "content-length"} /\ g[s + 1] = ":"
          BY <1>8, <2>3, <2>4, <2>5, LowerIs
    <3> QED
        BY <3>1
  <2> QED
      BY <2>6 DEF LengthLines
<1>16. cut.colon # 0
       BY <1>8, <1>11
<1> QED
    BY <1>10, <1>12, <1>13, <1>14, <1>15, <1>16
-----------------------------------------------------------------------------
(* What the parser keeps, of any text                                      *)

AnyHttp == [req_type : Text, req_resource : Text, req_protocol : Text,
            resp_code : Text, resp_msg : Text, req_host : Text, req_content_len : Int]
Reading == [buffer : Text, start : Nat \ {0}, http : AnyHttp, end : Ends]

LEMMA PiecesTypes ==
    ASSUME NEW buf \in Text, NEW len \in Int, len <= Len(buf)
    PROVE  LET p == Pieces(buf, len) IN p.first \in Text /\ p.second \in Text /\ p.third \in Text
<1> DEFINE Spaces(from) == {i \in from .. len : buf[i] = "SP"}
           one == SelectInSubSeq(buf, 1, len, LAMBDA c : c = "SP")
           two == IF one = 0 THEN 0 ELSE SelectInSubSeq(buf, one + 1, len, LAMBDA c : c = "SP")
<1>1. PICK length \in Nat : length = Len(buf)
      BY TextIs
<1>2. ASSUME NEW from \in Nat \ {0}
      PROVE  LET found == SelectInSubSeq(buf, from, len, LAMBDA c : c = "SP")
             IN  found = 0 \/ found \in from .. len
  <2>1. SelectInSubSeq(buf, from, len, LAMBDA c : c = "SP") = IF Spaces(from) # {} THEN Min(Spaces(from)) ELSE 0
        BY DEF SelectInSubSeq
  <2>2. Spaces(from) \subseteq Nat
        OBVIOUS
  <2>3. Spaces(from) # {} => Min(Spaces(from)) \in Spaces(from)
        BY <2>2, MinIs
  <2> QED
      BY <2>1, <2>3
<1>3. one = 0 \/ one \in 1 .. len
      BY <1>2
<1>4. two = 0 \/ (one # 0 /\ two \in one + 1 .. len)
  <2>1. CASE one = 0
        BY <2>1
  <2>2. CASE one # 0
    <3>1. one + 1 \in Nat \ {0}
          BY <1>3, <2>2
    <3> QED
        BY <1>2, <2>2, <3>1
  <2> QED
      BY <2>1, <2>2
<1>5. NULL \in Text
      BY DEF NULL, Text, Token
<1>6. Pieces(buf, len) = [first  |-> IF one = 0 THEN NULL ELSE SubSeq(buf, 1, one - 1),
                          second |-> IF two = 0 THEN NULL ELSE SubSeq(buf, one + 1, two - 1),
                          third  |-> IF two = 0 THEN NULL ELSE CString(buf, two + 1)]
      BY DEF Pieces
<1> HIDE DEF one, two
<1>7. one # 0 => SubSeq(buf, 1, one - 1) \in Text
  <2> SUFFICES ASSUME one # 0 PROVE SubSeq(buf, 1, one - 1) \in Text
      OBVIOUS
  <2>1. one - 1 \in Int /\ one - 1 <= Len(buf) /\ 1 \in Nat \ {0}
        BY <1>1, <1>3
  <2> QED
      BY <2>1, SubSeqTypes
<1>8. two # 0 => SubSeq(buf, one + 1, two - 1) \in Text /\ CString(buf, two + 1) \in Text
  <2> SUFFICES ASSUME two # 0 PROVE SubSeq(buf, one + 1, two - 1) \in Text /\ CString(buf, two + 1) \in Text
      OBVIOUS
  <2>1. /\ two - 1 \in Int /\ two - 1 <= Len(buf) /\ one + 1 \in Nat \ {0}
        /\ two + 1 \in Nat \ {0}
        BY <1>1, <1>3, <1>4
  <2> QED
      BY <2>1, SubSeqTypes, CStringTypes
<1> QED
    BY <1>5, <1>6, <1>7, <1>8

LEMMA FirstTypes ==
    ASSUME NEW http \in AnyHttp, NEW buf \in Text, NEW len \in Int, len <= Len(buf)
    PROVE  /\ GetRequest(http, buf, len) \in AnyHttp
           /\ GetRequest(http, buf, len).req_content_len = http.req_content_len
           /\ GetResponse(http, buf, len) \in AnyHttp
           /\ GetResponse(http, buf, len).req_content_len = http.req_content_len
<1>1. PICK a \in Text, b \in Text, c \in Text :
         LET p == Pieces(buf, len) IN p.first = a /\ p.second = b /\ p.third = c
      BY PiecesTypes
<1>2. /\ GetRequest(http, buf, len) = [http EXCEPT !.req_type = a, !.req_resource = b, !.req_protocol = c]
      /\ GetResponse(http, buf, len) = [http EXCEPT !.req_protocol = a, !.resp_code = b, !.resp_msg = c]
      BY <1>1 DEF GetRequest, GetResponse
<1> QED
    BY <1>2, ZenonT(30) DEF AnyHttp

LEMMA CutLength ==
    ASSUME NEW buf \in Text, NEW start
    PROVE  Len(Cut(buf, start).buffer) = Len(buf)
<1>1. PICK line, colon, at : Cut(buf, start) = CutAt(buf, line, at, colon)
      BY DEF Cut
<1>2. Len([buf EXCEPT ![at] = "NUL"]) = Len(buf)
  <2>1. "NUL" \in Token
        BY DEF Token
  <2> QED
      BY <2>1, ByteSet
<1> QED
    BY <1>1, <1>2 DEF CutAt

LEMMA SetHeaderIs ==
    ASSUME NEW r \in Reading, NEW cut, cut.buffer \in Text, cut.data \in Text,
           NEW length, length.value \in Int
    PROVE  LET set == SetHeader(r, cut, length)
           IN  /\ set \in Reading /\ set.buffer = cut.buffer /\ set.start = r.start
               /\ set.http.req_content_len = IF cut.name = <<"content-length">> THEN length.value
                                             ELSE r.http.req_content_len
               /\ cut.colon # 0 /\ (cut.name = <<"content-length">> => length.ok) => set.end = r.end
<1>1. PICK http \in AnyHttp :
         /\ http = CASE cut.name = <<"content-length">> -> [r.http EXCEPT !.req_content_len = length.value]
                     [] cut.name = <<"host">> -> [r.http EXCEPT !.req_host = cut.data]
                     [] OTHER -> r.http
         /\ http.req_content_len = IF cut.name = <<"content-length">> THEN length.value
                                   ELSE r.http.req_content_len
  <2>1. PICK old \in AnyHttp : old = r.http
        BY DEF Reading
  <2>2. /\ [old EXCEPT !.req_content_len = length.value] \in AnyHttp
        /\ [old EXCEPT !.req_content_len = length.value].req_content_len = length.value
        BY DEF AnyHttp
  <2>3. /\ [old EXCEPT !.req_host = cut.data] \in AnyHttp
        /\ [old EXCEPT !.req_host = cut.data].req_content_len = old.req_content_len
        BY DEF AnyHttp
  <2>4. CASE cut.name = <<"content-length">>
    <3>1. cut.name # <<"host">>
      <4>1. cut.name[1] = "content-length" /\ <<"host">>[1] = "host"
            BY <2>4
      <4> QED
          BY <4>1
    <3> QED
        BY <2>1, <2>2, <2>4, <3>1
  <2>5. CASE cut.name # <<"content-length">> /\ cut.name = <<"host">>
        BY <2>1, <2>3, <2>5
  <2>6. CASE cut.name # <<"content-length">> /\ cut.name # <<"host">>
        BY <2>1, <2>6
  <2> QED
      BY <2>4, <2>5, <2>6
<1>2. PICK end \in Ends : end = IF cut.colon = 0 THEN "crash"
                               ELSE IF cut.name = <<"content-length">> /\ ~length.ok THEN "error"
                               ELSE r.end
      BY DEF Reading, Ends
<1>3. SetHeader(r, cut, length) = [r EXCEPT !.buffer = cut.buffer, !.http = http, !.end = end]
      BY <1>1, <1>2 DEF SetHeader, Reading
<1>4. /\ SetHeader(r, cut, length) \in Reading /\ SetHeader(r, cut, length).buffer = cut.buffer
      /\ SetHeader(r, cut, length).start = r.start /\ SetHeader(r, cut, length).http = http
      /\ SetHeader(r, cut, length).end = end
      BY <1>1, <1>2, <1>3 DEF Reading
<1> QED
    BY <1>1, <1>2, <1>4

\* What read_line has made of a line, before it looks whether it was the last.
Parsed(r, i, type) ==
    LET cut == IF i > 1 THEN [r.buffer EXCEPT ![i - 1] = "NUL"] ELSE r.buffer
    IN  IF r.start = 1
        THEN [r EXCEPT !.buffer = cut,
                       !.http = IF type = RQST THEN GetRequest(@, cut, i - 1)
                                               ELSE GetResponse(@, cut, i - 1)]
        ELSE GetHeader([r EXCEPT !.buffer = cut], r.start)

LEMMA CutOff ==
    ASSUME NEW b \in Text, NEW i \in Nat
    PROVE  /\ [b EXCEPT ![i - 1] = "NUL"] \in Text /\ Len([b EXCEPT ![i - 1] = "NUL"]) = Len(b)
           /\ \A j \in 1 .. Len(b) :
                [b EXCEPT ![i - 1] = "NUL"][j] = IF j = i - 1 THEN "NUL" ELSE b[j]
<1>1. PICK n \in Nat : n = Len(b) /\ DOMAIN b = 1 .. n /\ \A j \in 1 .. n : b[j] \in Token
      BY TextIs
<1>2. PICK f : f = [b EXCEPT ![i - 1] = "NUL"]
      OBVIOUS
<1>3. f = [j \in 1 .. n |-> IF j = i - 1 THEN "NUL" ELSE b[j]]
      BY <1>1, <1>2
<1>4. "NUL" \in Token
      BY DEF Token
<1>5. \A j \in 1 .. n : (IF j = i - 1 THEN "NUL" ELSE b[j]) \in Token
      BY <1>1, <1>4
<1>6. f \in Seq(Token) /\ Len(f) = n
      BY <1>3, <1>5
<1> QED
    BY <1>1, <1>2, <1>3, <1>6 DEF Text

LEMMA ReadLineIs ==
    ASSUME NEW r \in Reading, NEW i \in 1 .. Len(r.buffer), NEW type, Parsed(r, i, type) \in Reading
    PROVE  LET read   == ReadLine(r, i, type)
               parsed == Parsed(r, i, type)
           IN  /\ read \in Reading /\ read.buffer = parsed.buffer /\ read.http = parsed.http
               /\ read.start = i + 1
               /\ read.end \in {parsed.end, "ok"}
               /\ parsed.end = "lines" =>
                    (read.end = "ok" <=> /\ i + 2 <= Len(r.buffer)
                                         /\ r.buffer[i + 1] = "CR" /\ r.buffer[i + 2] = "LF")
<1> DEFINE cut == IF i > 1 THEN [r.buffer EXCEPT ![i - 1] = "NUL"] ELSE r.buffer
           last == i + 2 <= Len(cut) /\ SubSeq(cut, i + 1, i + 2) = CRLF
<1>1. PICK length \in Nat, buf \in Text : /\ buf = r.buffer /\ length = Len(buf) /\ i \in 1 .. length
                                          /\ DOMAIN buf = 1 .. length
      BY TextIs DEF Reading
<1>2. cut \in Text /\ Len(cut) = length /\ \A j \in i .. length : cut[j] = buf[j]
  <2>1. /\ [buf EXCEPT ![i - 1] = "NUL"] \in Text /\ Len([buf EXCEPT ![i - 1] = "NUL"]) = length
        /\ \A j \in 1 .. length : j # i - 1 => [buf EXCEPT ![i - 1] = "NUL"][j] = buf[j]
    <3>1. i \in Nat
          BY <1>1
    <3>2. /\ [buf EXCEPT ![i - 1] = "NUL"] \in Text /\ Len([buf EXCEPT ![i - 1] = "NUL"]) = Len(buf)
          /\ \A j \in 1 .. Len(buf) :
               [buf EXCEPT ![i - 1] = "NUL"][j] = IF j = i - 1 THEN "NUL" ELSE buf[j]
          BY ONLY buf \in Text, <3>1, CutOff
    <3> QED
        BY <1>1, <3>2
  <2>2. \A j \in i .. length : j \in 1 .. length /\ j # i - 1
        BY <1>1
  <2> QED
      BY <1>1, <2>1, <2>2
<1> HIDE DEF cut
<1>3. last <=> i + 2 <= length /\ buf[i + 1] = "CR" /\ buf[i + 2] = "LF"
  <2>1. CASE i + 2 <= length
    <3>1. PICK two \in Text : /\ two = SubSeq(cut, i + 1, i + 2) /\ Len(two) = 2
                              /\ two[1] = cut[i + 1] /\ two[2] = cut[i + 2]
      <4>1. /\ i + 1 \in Nat \ {0} /\ i + 2 \in Nat /\ i + 1 <= (i + 2) + 1 /\ i + 2 <= Len(cut)
            /\ (i + 2) + 1 - (i + 1) = 2 /\ i + 1 + 1 - 1 = i + 1 /\ i + 1 + 2 - 1 = i + 2
            /\ 1 \in 1 .. 2 /\ 2 \in 1 .. 2
            BY <1>1, <1>2, <2>1
      <4>2. /\ SubSeq(cut, i + 1, i + 2) \in Text /\ Len(SubSeq(cut, i + 1, i + 2)) = (i + 2) + 1 - (i + 1)
            /\ \A k \in 1 .. (i + 2) + 1 - (i + 1) : SubSeq(cut, i + 1, i + 2)[k] = cut[i + 1 + k - 1]
            BY <1>2, <4>1, SliceIs
      <4> QED
          BY <4>1, <4>2
    <3>2. cut[i + 1] = buf[i + 1] /\ cut[i + 2] = buf[i + 2]
      <4>1. i + 1 \in i .. length /\ i + 2 \in i .. length
            BY <1>1, <2>1
      <4> QED
          BY <1>2, <4>1
    <3>3. two = CRLF <=> two[1] = "CR" /\ two[2] = "LF"
      <4>1. ASSUME two[1] = "CR", two[2] = "LF" PROVE two = CRLF
        <5>1. CRLF \in Text /\ Len(CRLF) = 2 /\ CRLF[1] = "CR" /\ CRLF[2] = "LF"
              BY DEF CRLF, Text, Token
        <5>2. \A k \in 1 .. 2 : k = 1 \/ k = 2
              OBVIOUS
        <5>3. Len(two) = Len(CRLF) /\ \A k \in 1 .. Len(two) : two[k] = CRLF[k]
              BY <3>1, <4>1, <5>1, <5>2
        <5> QED
            BY <5>1, <5>3, SeqEqual DEF Text
      <4>2. ASSUME two = CRLF PROVE two[1] = "CR" /\ two[2] = "LF"
            BY <4>2 DEF CRLF
      <4> QED
          BY <4>1, <4>2
    <3> QED
        BY <1>2, <2>1, <3>1, <3>2, <3>3
  <2>2. CASE ~(i + 2 <= length)
        BY <1>2, <2>2
  <2> QED
      BY <2>1, <2>2
<1>4. ReadLine(r, i, type) = [Parsed(r, i, type) EXCEPT !.start = i + 1,
                                                        !.end = IF @ = "lines" /\ last THEN "ok" ELSE @]
      BY DEF ReadLine, Parsed, cut
<1>5. PICK p \in Reading : p = Parsed(r, i, type)
      OBVIOUS
<1> HIDE DEF last
<1>6. PICK end \in Ends : end = IF p.end = "lines" /\ last THEN "ok" ELSE p.end
      BY DEF Reading, Ends
<1>7. ReadLine(r, i, type) = [p EXCEPT !.start = i + 1, !.end = end]
      BY <1>4, <1>5, <1>6 DEF Reading
<1>8. i + 1 \in Nat \ {0}
      OBVIOUS
<1>9. /\ ReadLine(r, i, type) \in Reading /\ ReadLine(r, i, type).buffer = p.buffer
      /\ ReadLine(r, i, type).http = p.http /\ ReadLine(r, i, type).start = i + 1
      /\ ReadLine(r, i, type).end = end
      BY <1>7, <1>8 DEF Reading
<1>10. p.end = "lines" => (end = "ok" <=> last)
       BY <1>6
<1> QED
    BY <1>1, <1>3, <1>5, <1>6, <1>9, <1>10

LEMMA ParsedTypes ==
    ASSUME NEW r \in Reading, NEW i \in 1 .. Len(r.buffer), NEW type
    PROVE  Parsed(r, i, type) \in Reading /\ Len(Parsed(r, i, type).buffer) = Len(r.buffer)
<1> DEFINE cut == IF i > 1 THEN [r.buffer EXCEPT ![i - 1] = "NUL"] ELSE r.buffer
<1>1. PICK length \in Nat, buf \in Text, new \in Text :
         /\ buf = r.buffer /\ length = Len(buf) /\ i \in 1 .. length
         /\ new = cut /\ length = Len(new)
  <2>1. PICK length \in Nat, buf \in Text : buf = r.buffer /\ length = Len(buf) /\ i \in 1 .. length
        BY TextIs DEF Reading
  <2>2. [buf EXCEPT ![i - 1] = "NUL"] \in Text /\ Len([buf EXCEPT ![i - 1] = "NUL"]) = length
    <3>1. i \in Nat
          BY <2>1
    <3>2. [buf EXCEPT ![i - 1] = "NUL"] \in Text /\ Len([buf EXCEPT ![i - 1] = "NUL"]) = Len(buf)
          BY ONLY buf \in Text, <3>1, CutOff
    <3> QED
        BY <2>1, <3>2
  <2>3. cut \in Text /\ Len(cut) = length
        BY <2>1, <2>2
  <2> QED
      BY <2>1, <2>3
<1> HIDE DEF cut
<1>2. CASE r.start = 1
  <2> DEFINE h == IF type = RQST THEN GetRequest(r.http, new, i - 1) ELSE GetResponse(r.http, new, i - 1)
  <2>1. h \in AnyHttp
    <3>1. i - 1 \in Int /\ i - 1 <= Len(new) /\ r.http \in AnyHttp
          BY <1>1 DEF Reading
    <3> QED
        BY <3>1, FirstTypes
  <2>2. Parsed(r, i, type) = [r EXCEPT !.buffer = new, !.http = h]
        BY <1>1, <1>2 DEF Parsed, cut, Reading
  <2> HIDE DEF h
  <2> QED
      BY <1>1, <2>1, <2>2 DEF Reading
<1>3. CASE r.start # 1
  <2>1. PICK old \in Reading : old = [r EXCEPT !.buffer = new]
    <3>1. [r EXCEPT !.buffer = new] \in Reading
          BY DEF Reading
    <3> QED
        BY <3>1
  <2>2. r.start \in Nat \ {0}
        BY DEF Reading
  <2>3. PICK c : /\ c = Cut(new, r.start) /\ c.buffer \in Text /\ c.data \in Text
                 /\ Len(c.buffer) = length
        BY <1>1, <2>2, CutTypes, CutLength
  <2>4. StrToInt(c.data).value \in Int
        BY <2>3, StrToIntTypes DEF Text
  <2>5. Parsed(r, i, type) = SetHeader(old, c, StrToInt(c.data))
        BY <1>1, <1>3, <2>1, <2>3 DEF Parsed, cut, GetHeader, Reading
  <2>6. SetHeader(old, c, StrToInt(c.data)) \in Reading /\ SetHeader(old, c, StrToInt(c.data)).buffer = c.buffer
        BY <2>3, <2>4, SetHeaderIs
  <2> QED
      BY <1>1, <2>3, <2>5, <2>6
<1> QED
    BY <1>2, <1>3
-----------------------------------------------------------------------------
(* A header, or the part of it that has come, is read line by line         *)

\* The first n tokens of a header, and perhaps the byte that lies behind them.
Taken(g, n, text) ==
    /\ text \in Text /\ n \in 0 .. Len(g)
    /\ \/ Len(text) = n
       \/ n < Len(g) /\ Len(text) = n + 1 /\ text[n + 1] \notin {"CR", "LF", "NULL"}
    /\ \A i \in 1 .. n : text[i] = g[i]

\* The line of which i has been read begins at start, and from there the buffer is the text.
AtLine(n, g, text, i, r) ==
    /\ n = Len(g) => i < Len(g) - 2
    /\ r.start <= i + 1 /\ (r.start = 1 \/ text[r.start - 1] = "LF")
    /\ \A j \in r.start .. i : text[j] # "LF"
    /\ \A j \in r.start .. Len(text) : r.buffer[j] = text[j]

\* Lines that end at i or before have been read, the one with the length too.
InLoop(g, n, text, i) ==
    {r \in Reading :
       /\ Len(r.buffer) = Len(text) /\ r.end \in {"lines", "ok"}
       /\ r.http.req_content_len \in {-1} \cup Lengths(g)
       /\ (\E line \in LengthLines(g) : line[2] <= i /\ line[2] <= n) =>
            r.http.req_content_len \in Lengths(g)
       /\ r.end = "ok" => n = Len(g) /\ i >= Len(g) - 2
       /\ r.end = "lines" => AtLine(n, g, text, i, r)}

LEMMA BeginIn ==
    ASSUME NEW g, Lined(g), NEW n, NEW text, Taken(g, n, text)
    PROVE  Begin(text) \in InLoop(g, n, text, 0)
<1>1. PICK length \in Nat : length = Len(g) /\ length >= 4
      BY DEF Lined
<1>2. Begin(text) \in Reading
  <2>1. NULL \in Text
        BY DEF NULL, Text, Token
  <2>2. NewHttpRequest \in AnyHttp
        BY <2>1 DEF NewHttpRequest, AnyHttp
  <2>3. text \in Text
        BY DEF Taken
  <2> QED
      BY <2>2, <2>3 DEF Begin, Reading, Ends
<1>3. PICK r \in Reading : r = Begin(text)
      BY <1>2
<1>4. /\ r.buffer = text /\ r.start = 1 /\ r.end = "lines" /\ r.http.req_content_len = -1
      BY <1>3 DEF Begin, NewHttpRequest
<1>5. ~\E line \in LengthLines(g) : line[2] <= 0
  <2>1. \A line \in LengthLines(g) : line[2] \in 2 .. length - 2
        BY <1>1, LinesAre
  <2> QED
      BY <1>1, <2>1
<1>6. AtLine(n, g, text, 0, r)
      BY <1>1, <1>4 DEF AtLine
<1>7. r \in InLoop(g, n, text, 0)
      BY <1>4, <1>5, <1>6 DEF InLoop
<1> QED
    BY <1>3, <1>7

\* A line that ends here is the one that begins at start.
LEMMA ThisLine ==
    ASSUME NEW g, Lined(g), NEW s \in Nat, NEW i \in Nat, s <= i, i <= Len(g),
           s = 1 \/ g[s - 1] = "LF", \A j \in s .. i - 1 : g[j] # "LF",
           NEW line \in LengthLines(g), line[2] = i
    PROVE  s # 1 /\ line = <<s, i>>
<1>1. PICK length \in Nat : length = Len(g) /\ length >= 4
      BY DEF Lined
<1>2. PICK first \in 2 .. length, last \in 2 .. length : line = <<first, last>>
      BY <1>1 DEF LengthLines, Lines
<1>3. /\ first < last /\ last = i /\ g[first - 1] = "LF"
      /\ \A j \in first .. last - 1 : g[j] # "LF"
  <2>1. line[1] = first /\ line[2] = last
        BY <1>2
  <2>2. /\ line[1] + 2 < line[2] /\ g[line[1] - 1] = "LF"
        /\ \A j \in line[1] .. line[2] - 1 : g[j] # "LF"
        BY LinesAre
  <2> QED
      BY <1>1, <1>2, <2>1, <2>2
<1>4. ~(first - 1 \in s .. i - 1)
      BY <1>3
<1>5. first - 1 < s
      BY <1>3, <1>4
<1>6. s # 1
      BY <1>5
<1>7. ~(s - 1 \in first .. last - 1)
      BY <1>3, <1>6
<1>8. first = s
      BY <1>3, <1>5, <1>6, <1>7
<1> QED
    BY <1>2, <1>3, <1>6, <1>8

\* What a line is parsed to: the length, if it is the line that gives it.
LEMMA ParsedIs ==
    ASSUME NEW g, Lined(g), NEW n, NEW text, Taken(g, n, text), NEW type,
           NEW i \in 1 .. Len(text), NEW r \in InLoop(g, n, text, i - 1),
           r.end = "lines", text[i] = "LF"
    PROVE  LET parsed == Parsed(r, i, type)
           IN  /\ parsed.end = "lines"
               /\ \A j \in i + 1 .. Len(text) : parsed.buffer[j] = text[j]
               /\ parsed.http.req_content_len \in {-1} \cup Lengths(g)
               /\ (\E line \in LengthLines(g) : line[2] <= i /\ line[2] <= n) =>
                    parsed.http.req_content_len \in Lengths(g)
<1>1. PICK length \in Nat, size \in Nat :
         length = Len(g) /\ size = Len(text) /\ length >= 4 /\ n \in 0 .. length /\ i \in 1 .. size
      BY TextIs DEF Lined, Taken
<1>2. i <= n /\ g[i] = "LF" /\ \A j \in 1 .. n : text[j] = g[j]
      BY <1>1 DEF Taken
<1>3. i >= 2 /\ g[i - 1] = "CR"
  <2>1. i # 1
        BY <1>2 DEF Lined
  <2>2. i \in 2 .. length
        BY <1>1, <1>2, <2>1
  <2> QED
      BY <1>1, <1>2, <2>2 DEF Lined
<1>4. PICK s \in Nat \ {0} :
         /\ s = r.start /\ s <= i /\ (s = 1 \/ text[s - 1] = "LF")
         /\ \A j \in s .. i - 1 : text[j] # "LF"
         /\ \A j \in s .. size : r.buffer[j] = text[j]
         /\ n = length => i - 1 < length - 2
  <2>1. AtLine(n, g, text, i - 1, r) /\ r.start \in Nat \ {0}
        BY DEF InLoop, Reading
  <2>2. (i - 1) + 1 = i
        OBVIOUS
  <2> QED
      BY <1>1, <2>1, <2>2 DEF AtLine
<1>5. s <= i - 1 /\ (s = 1 \/ g[s - 1] = "LF") /\ \A j \in s .. i - 1 : g[j] # "LF"
  <2>1. s = 1 \/ g[s - 1] = "LF"
        BY <1>1, <1>2, <1>4, SMTT(30)
  <2>2. s # i
        BY <1>2, <1>3, <2>1
  <2>3. \A j \in s .. i - 1 : j \in 1 .. n
        BY <1>1, <1>2, <1>4
  <2> QED
      BY <1>2, <1>4, <2>1, <2>2, <2>3
<1>6. i < length
  <2>1. CASE n = length
        BY <1>1, <1>4, <2>1
  <2>2. CASE n # length
        BY <1>1, <1>2, <2>2
  <2> QED
      BY <2>1, <2>2
<1>7. PICK buf \in Text : buf = r.buffer /\ Len(buf) = size
      BY <1>1 DEF InLoop, Reading
<1>8. PICK new \in Text : /\ new = [buf EXCEPT ![i - 1] = "NUL"] /\ Len(new) = size
                         /\ \A j \in 1 .. size : new[j] = IF j = i - 1 THEN "NUL" ELSE buf[j]
  <2>1. i \in Nat
        BY <1>1
  <2>2. /\ [buf EXCEPT ![i - 1] = "NUL"] \in Text /\ Len([buf EXCEPT ![i - 1] = "NUL"]) = Len(buf)
        /\ \A j \in 1 .. Len(buf) :
             [buf EXCEPT ![i - 1] = "NUL"][j] = IF j = i - 1 THEN "NUL" ELSE buf[j]
        BY ONLY buf \in Text, <2>1, CutOff
  <2> QED
      BY <1>7, <2>2
<1>9. /\ new[i - 1] = "NUL" /\ \A j \in s .. i - 2 : new[j] = g[j]
      /\ \A j \in i .. size : new[j] = text[j]
  <2>1. i - 1 \in 1 .. size
        BY <1>1, <1>3
  <2>2. \A j \in s .. i - 2 : j \in 1 .. size /\ j \in s .. size /\ j # i - 1 /\ j \in 1 .. n
        BY <1>1, <1>2, <1>4
  <2>3. \A j \in i .. size : j \in 1 .. size /\ j \in s .. size /\ j # i - 1
        BY <1>1, <1>4
  <2> QED
      BY <1>2, <1>4, <1>7, <1>8, <2>1, <2>2, <2>3
<1>10. PICK old \in {-1} \cup Lengths(g) :
          /\ old = r.http.req_content_len
          /\ (\E line \in LengthLines(g) : line[2] <= i - 1 /\ line[2] <= n) => old \in Lengths(g)
       BY DEF InLoop
<1>11. ASSUME NEW line \in LengthLines(g), line[2] <= i
       PROVE  line[2] <= i - 1 \/ (s # 1 /\ line = <<s, i>>)
  <2>1. line[2] \in Nat
        BY <1>1, LinesAre
  <2>2. CASE line[2] = i
    <3>1. s \in Nat /\ i \in Nat /\ s <= i /\ i <= Len(g)
          BY <1>1, <1>4, <1>6
    <3> QED
        BY <1>5, <2>2, <3>1, ThisLine, ZenonT(30)
  <2> QED
      BY <1>1, <1>11, <2>1, <2>2
<1>12. CASE s = 1
  <2> DEFINE h == IF type = RQST THEN GetRequest(r.http, new, i - 1) ELSE GetResponse(r.http, new, i - 1)
  <2>1. h \in AnyHttp /\ h.req_content_len = r.http.req_content_len
    <3>1. PICK http \in AnyHttp, len \in Int : http = r.http /\ len = i - 1 /\ len <= Len(new)
      <4>1. i - 1 \in Int /\ i - 1 <= Len(new) /\ r.http \in AnyHttp
            BY <1>1, <1>8 DEF InLoop, Reading
      <4> QED
          BY <4>1
    <3>2. /\ GetRequest(http, new, len) \in AnyHttp
          /\ GetRequest(http, new, len).req_content_len = http.req_content_len
          /\ GetResponse(http, new, len) \in AnyHttp
          /\ GetResponse(http, new, len).req_content_len = http.req_content_len
          BY ONLY http \in AnyHttp, len \in Int, new \in Text, <3>1, FirstTypes
    <3> QED
        BY <3>1, <3>2
  <2>2. Parsed(r, i, type) = [r EXCEPT !.buffer = new, !.http = h]
    <3>1. r \in Reading /\ i > 1 /\ r.start = 1
          BY <1>1, <1>3, <1>4, <1>12 DEF InLoop
    <3>2. (IF i > 1 THEN [r.buffer EXCEPT ![i - 1] = "NUL"] ELSE r.buffer) = new
          BY <1>7, <1>8, <3>1
    <3> QED
        BY <3>1, <3>2 DEF Parsed, Reading
  <2> HIDE DEF h
  <2>3. /\ Parsed(r, i, type).end = "lines" /\ Parsed(r, i, type).buffer = new
        /\ Parsed(r, i, type).http.req_content_len = old
        BY <1>10, <2>1, <2>2 DEF InLoop, Reading
  <2>4. \A line \in LengthLines(g) : line[2] <= i => line[2] <= i - 1
        BY <1>11, <1>12
  <2>5. (\E line \in LengthLines(g) : line[2] <= i /\ line[2] <= n) => old \in Lengths(g)
        BY <1>10, <2>4
  <2>6. \A j \in i + 1 .. size : j \in i .. size
        BY <1>1
  <2> QED
      BY <1>1, <1>9, <2>3, <2>5, <2>6
<1>13. CASE s # 1
  <2>1. <<s, i>> \in Lines(g)
    <3>1. s \in 2 .. length /\ i \in 2 .. length /\ s <= i
          BY <1>3, <1>4, <1>6, <1>13
    <3>2. <<s, i>> \in (2 .. length) \X (2 .. length) /\ <<s, i>>[1] = s /\ <<s, i>>[2] = i
          BY <3>1
    <3> QED
        BY <1>1, <1>2, <1>5, <1>13, <3>1, <3>2 DEF Lines
  <2>2. PICK cut : /\ cut = Cut(new, s)
                   /\ cut.buffer \in Text /\ Len(cut.buffer) = Len(new)
                   /\ \A j \in i .. Len(new) : cut.buffer[j] = new[j]
                   /\ cut.data \in Text /\ cut.colon # 0
                   /\ cut.name = <<"content-length">> <=> <<s, i>> \in LengthLines(g)
                   /\ <<s, i>> \in LengthLines(g) => cut.data = DigitsOf(g, <<s, i>>)
    <3>1. s \in Nat /\ i \in Nat /\ i < Len(g) /\ i <= Len(new)
          BY <1>1, <1>6, <1>8
    <3> QED
        BY <1>9, <2>1, <3>1, LineCut
  <2>3. PICK number : /\ number = StrToInt(cut.data) /\ number.value \in Int
                      /\ cut.name = <<"content-length">> =>
                           number.ok /\ number.value \in Lengths(g)
    <3>1. StrToInt(cut.data).value \in Int
          BY <2>2, StrToIntTypes DEF Text
    <3>2. ASSUME cut.name = <<"content-length">>
          PROVE  StrToInt(cut.data).ok /\ StrToInt(cut.data).value \in Lengths(g)
      <4>1. <<s, i>> \in LengthLines(g) /\ cut.data = DigitsOf(g, <<s, i>>)
            BY <2>2, <3>2
      <4>2. IsDecimal(cut.data)
            BY <4>1 DEF Lined
      <4>3. StrToInt(cut.data) = [ok |-> TRUE, value |-> Decimal(cut.data)]
            BY <2>2, <4>2, DecimalIs
      <4>4. Decimal(cut.data) \in Lengths(g)
            BY <4>1 DEF Lengths
      <4> QED
          BY <4>3, <4>4
    <3> QED
        BY <3>1, <3>2
  <2>4. PICK ended \in Reading : /\ ended = [r EXCEPT !.buffer = new] /\ ended.buffer = new
                                 /\ ended.end = "lines" /\ ended.http = r.http
    <3>1. [r EXCEPT !.buffer = new] \in Reading /\ [r EXCEPT !.buffer = new].buffer = new
          BY DEF InLoop, Reading
    <3>2. [r EXCEPT !.buffer = new].end = "lines" /\ [r EXCEPT !.buffer = new].http = r.http
          BY DEF InLoop, Reading
    <3> QED
        BY <3>1, <3>2
  <2>5. Parsed(r, i, type) = SetHeader(ended, cut, number)
    <3>1. i > 1 /\ r.start # 1
          BY <1>1, <1>3, <1>4, <1>13
    <3>2. (IF i > 1 THEN [r.buffer EXCEPT ![i - 1] = "NUL"] ELSE r.buffer) = new
          BY <1>7, <1>8, <3>1
    <3>3. Parsed(r, i, type) = GetHeader(ended, r.start)
          BY <2>4, <3>1, <3>2 DEF Parsed
    <3> QED
        BY <1>4, <2>2, <2>3, <2>4, <3>3 DEF GetHeader
  <2>6. PICK set : /\ set = Parsed(r, i, type) /\ set.buffer = cut.buffer /\ set.end = "lines"
                   /\ set.http.req_content_len = IF cut.name = <<"content-length">> THEN number.value ELSE old
    <3>1. /\ SetHeader(ended, cut, number).buffer = cut.buffer
          /\ SetHeader(ended, cut, number).http.req_content_len =
               IF cut.name = <<"content-length">> THEN number.value ELSE ended.http.req_content_len
          /\ cut.colon # 0 /\ (cut.name = <<"content-length">> => number.ok)
               => SetHeader(ended, cut, number).end = ended.end
          BY ONLY ended \in Reading, <2>2, <2>3, SetHeaderIs
    <3> QED
        BY <1>10, <2>2, <2>3, <2>4, <2>5, <3>1
  <2>7. ASSUME NEW line \in LengthLines(g), line[2] <= i
        PROVE  set.http.req_content_len \in Lengths(g)
    <3>1. CASE line = <<s, i>>
          BY <2>2, <2>3, <2>6, <3>1
    <3>2. CASE line[2] <= i - 1
      <4>1. line[2] <= n
        <5>1. line[2] \in Nat
              BY <1>1, LinesAre
        <5> QED
            BY <1>1, <1>2, <3>2, <5>1
      <4>2. old \in Lengths(g)
            BY <1>10, <3>2, <4>1
      <4> QED
          BY <2>3, <2>6, <4>2
    <3> QED
        BY <1>11, <2>7, <3>1, <3>2
  <2>8. set.http.req_content_len \in {-1} \cup Lengths(g)
        BY <1>10, <2>3, <2>6
  <2>9. \A j \in i + 1 .. size : set.buffer[j] = text[j]
    <3>1. \A j \in i + 1 .. size : j \in i .. size
          BY <1>1
    <3> QED
        BY <1>8, <1>9, <2>2, <2>6, <3>1, ZenonT(30)
  <2> QED
      BY <1>1, <2>6, <2>7, <2>8, <2>9
<1> QED
    BY <1>12, <1>13

LEMMA LineIn ==
    ASSUME NEW g, Lined(g), NEW n, NEW text, Taken(g, n, text), NEW type,
           NEW i \in 1 .. Len(text), NEW r \in InLoop(g, n, text, i - 1)
    PROVE  Line(r, i, type) \in InLoop(g, n, text, i)
<1>1. PICK length \in Nat, size \in Nat :
         /\ length = Len(g) /\ size = Len(text) /\ length >= 4 /\ n \in 0 .. length /\ i \in 1 .. size
         /\ g[1] # "LF" /\ g[length - 2] = "LF" /\ g[length - 1] = "CR" /\ g[length] = "LF"
      BY TextIs DEF Lined, Taken
<1>2. /\ size = n \/ (n < length /\ size = n + 1 /\ text[n + 1] \notin {"CR", "LF"})
      /\ \A j \in 1 .. n : text[j] = g[j]
      BY <1>1 DEF Taken
<1>3. \A line \in LengthLines(g) : line[2] \in 2 .. length - 2 /\ g[line[2]] = "LF"
      BY <1>1, LinesAre
<1>4. /\ r \in Reading /\ Len(r.buffer) = size /\ r.end \in {"lines", "ok"}
      /\ r.http.req_content_len \in {-1} \cup Lengths(g)
      /\ (\E line \in LengthLines(g) : line[2] <= i - 1 /\ line[2] <= n) =>
           r.http.req_content_len \in Lengths(g)
      /\ r.end = "ok" => n = length /\ i - 1 >= length - 2
      /\ r.end = "lines" => AtLine(n, g, text, i - 1, r)
      BY <1>1 DEF InLoop
<1>5. CASE r.end = "ok"
  <2>1. n = length /\ i - 1 >= length - 2 /\ i >= length - 2
        BY <1>1, <1>4, <1>5
  <2>2. \A line \in LengthLines(g) : line[2] <= i - 1
        BY <1>1, <1>3, <2>1
  <2>3. (\E line \in LengthLines(g) : line[2] <= i /\ line[2] <= n) =>
          r.http.req_content_len \in Lengths(g)
        BY <1>4, <2>2
  <2>4. r \in InLoop(g, n, text, i)
        BY <1>1, <1>4, <1>5, <2>1, <2>3 DEF InLoop
  <2>5. Line(r, i, type) = r
        BY <1>5 DEF Line
  <2> QED
      BY <2>4, <2>5
<1>6. CASE r.end = "lines" /\ text[i] # "LF"
  <2>1. /\ n = length => i - 1 < length - 2
        /\ r.start <= i /\ (r.start = 1 \/ text[r.start - 1] = "LF")
        /\ \A j \in r.start .. i - 1 : text[j] # "LF"
        /\ \A j \in r.start .. size : r.buffer[j] = text[j]
        /\ r.start \in Nat \ {0}
    <3>1. AtLine(n, g, text, i - 1, r) /\ r.start \in Nat \ {0} /\ (i - 1) + 1 = i
          BY <1>1, <1>4, <1>6 DEF Reading
    <3> QED
        BY <1>1, <3>1 DEF AtLine
  <2>2. Line(r, i, type) = r
        BY <1>1, <1>6, <2>1 DEF Line
  <2>3. i <= n => g[i] # "LF"
        BY <1>1, <1>2, <1>6
  <2>4. n = length => i < length - 2
    <3>1. n = length => i # length - 2
          BY <1>1, <2>3
    <3> QED
        BY <1>1, <2>1, <3>1
  <2>5. AtLine(n, g, text, i, r)
    <3>1. r.start <= i + 1
          BY <1>1, <2>1
    <3>2. \A j \in r.start .. i : text[j] # "LF"
      <4>1. \A j \in r.start .. i : j = i \/ j \in r.start .. i - 1
            BY <1>1, <2>1
      <4> QED
          BY <1>6, <2>1, <4>1
    <3> QED
        BY <1>1, <2>1, <2>4, <3>1, <3>2 DEF AtLine
  <2>6. (\E line \in LengthLines(g) : line[2] <= i /\ line[2] <= n) =>
          r.http.req_content_len \in Lengths(g)
    <3>1. \A line \in LengthLines(g) : line[2] <= i /\ line[2] <= n => line[2] <= i - 1
      <4> SUFFICES ASSUME NEW line \in LengthLines(g), line[2] <= i, line[2] <= n
                   PROVE  line[2] <= i - 1
          OBVIOUS
      <4>1. line[2] # i
            BY <1>3, <2>3
      <4> QED
          BY <1>1, <1>3, <4>1
    <3> QED
        BY <1>4, <3>1
  <2>7. r \in InLoop(g, n, text, i)
        BY <1>1, <1>4, <1>6, <2>5, <2>6 DEF InLoop
  <2> QED
      BY <2>2, <2>7
<1>7. CASE r.end = "lines" /\ text[i] = "LF"
  <2>1. /\ n = length => i - 1 < length - 2
        /\ r.buffer[i] = text[i] /\ \A j \in i + 1 .. size : r.buffer[j] = text[j]
    <3>1. AtLine(n, g, text, i - 1, r) /\ r.start \in Nat \ {0} /\ (i - 1) + 1 = i
          BY <1>1, <1>4, <1>7 DEF Reading
    <3>2. r.start <= i /\ \A j \in r.start .. size : r.buffer[j] = text[j]
          BY <1>1, <3>1 DEF AtLine
    <3>3. i \in r.start .. size /\ \A j \in i + 1 .. size : j \in r.start .. size
          BY <1>1, <3>1, <3>2
    <3> QED
        BY <1>1, <3>1, <3>2, <3>3 DEF AtLine
  <2>2. Line(r, i, type) = ReadLine(r, i, type)
        BY <1>7, <2>1 DEF Line
  <2>3. PICK parsed \in Reading :
           /\ parsed = Parsed(r, i, type) /\ Len(parsed.buffer) = size /\ parsed.end = "lines"
           /\ \A j \in i + 1 .. size : parsed.buffer[j] = text[j]
           /\ parsed.http.req_content_len \in {-1} \cup Lengths(g)
           /\ (\E line \in LengthLines(g) : line[2] <= i /\ line[2] <= n) =>
                parsed.http.req_content_len \in Lengths(g)
    <3>1. i \in 1 .. Len(r.buffer)
          BY <1>1, <1>4
    <3>2. Parsed(r, i, type) \in Reading /\ Len(Parsed(r, i, type).buffer) = size
          BY <1>4, <3>1, ParsedTypes
    <3>3. /\ Parsed(r, i, type).end = "lines"
          /\ \A j \in i + 1 .. Len(text) : Parsed(r, i, type).buffer[j] = text[j]
          /\ Parsed(r, i, type).http.req_content_len \in {-1} \cup Lengths(g)
          /\ (\E line \in LengthLines(g) : line[2] <= i /\ line[2] <= n) =>
               Parsed(r, i, type).http.req_content_len \in Lengths(g)
          BY <1>7, ParsedIs, ZenonT(30)
    <3> QED
        BY <1>1, <3>2, <3>3
  <2>4. PICK read \in Reading :
           /\ read = ReadLine(r, i, type) /\ read.buffer = parsed.buffer /\ read.http = parsed.http
           /\ read.start = i + 1 /\ read.end \in {"lines", "ok"}
           /\ read.end = "ok" <=> i + 2 <= size /\ r.buffer[i + 1] = "CR" /\ r.buffer[i + 2] = "LF"
    <3>1. i \in 1 .. Len(r.buffer)
          BY <1>1, <1>4
    <3>2. /\ ReadLine(r, i, type) \in Reading /\ ReadLine(r, i, type).buffer = Parsed(r, i, type).buffer
          /\ ReadLine(r, i, type).http = Parsed(r, i, type).http
          /\ ReadLine(r, i, type).start = i + 1
          /\ ReadLine(r, i, type).end \in {Parsed(r, i, type).end, "ok"}
          /\ Parsed(r, i, type).end = "lines" =>
               (ReadLine(r, i, type).end = "ok" <=> /\ i + 2 <= Len(r.buffer)
                                                    /\ r.buffer[i + 1] = "CR" /\ r.buffer[i + 2] = "LF")
          BY <1>4, <2>3, <3>1, ReadLineIs, SMTT(30)
    <3> QED
        BY <1>4, <2>3, <3>2
  <2>5. i <= n /\ g[i] = "LF" /\ i >= 2
    <3>1. i <= n
          BY <1>1, <1>2, <1>7
    <3>2. g[i] = "LF"
          BY <1>1, <1>2, <1>7, <3>1
    <3>3. i # 1
          BY <1>1, <3>2
    <3> QED
        BY <1>1, <3>1, <3>2, <3>3
  <2>6. read.end = "ok" <=> i + 2 <= size /\ text[i + 1] = "CR" /\ text[i + 2] = "LF"
    <3>1. i + 2 <= size => i + 1 \in i + 1 .. size /\ i + 2 \in i + 1 .. size
          BY <1>1
    <3> QED
        BY <2>1, <2>4, <3>1
  <2>7. read.end = "ok" => n = length /\ i >= length - 2
    <3> SUFFICES ASSUME read.end = "ok" PROVE n = length /\ i >= length - 2
        OBVIOUS
    <3>1. i + 2 <= size /\ text[i + 1] = "CR" /\ text[i + 2] = "LF"
          BY <2>6
    <3>2. i + 2 <= n
      <4>1. size = n + 1 => i + 2 # n + 1
            BY <1>2, <3>1
      <4> QED
          BY <1>1, <1>2, <3>1, <4>1
    <3>3. i + 1 \in 1 .. n /\ i \in 2 .. length - 2
          BY <1>1, <2>5, <3>2
    <3>4. g[i + 1] = "CR"
          BY <1>2, <3>1, <3>3
    <3>5. i = length - 2
      <4>1. \A j \in 2 .. Len(g) - 2 : g[j] = "LF" /\ g[j + 1] = "CR" => j = Len(g) - 2
            BY DEF Lined
      <4> QED
          BY <1>1, <2>5, <3>3, <3>4, <4>1
    <3> QED
        BY <1>1, <3>2, <3>5
  <2>8. read.end = "lines" => AtLine(n, g, text, i, read)
    <3> SUFFICES ASSUME read.end = "lines" PROVE AtLine(n, g, text, i, read)
        OBVIOUS
    <3>1. n = length => i < length - 2
      <4> SUFFICES ASSUME n = length, i = length - 2 PROVE FALSE
          BY <1>1, <2>1
      <4>1. /\ i + 1 = length - 1 /\ i + 2 = length /\ i + 1 \in 1 .. n /\ i + 2 \in 1 .. n
            /\ i + 2 <= size
            BY <1>1, <1>2
      <4>2. text[i + 1] = "CR" /\ text[i + 2] = "LF"
            BY <1>1, <1>2, <4>1
      <4>3. read.end = "ok"
            BY <2>6, <4>1, <4>2
      <4> QED
          BY <4>3
    <3>2. (i + 1) - 1 = i /\ \A j \in i + 1 .. i : FALSE
          BY <1>1
    <3> QED
        BY <1>1, <1>7, <2>3, <2>4, <3>1, <3>2 DEF AtLine
  <2>9. read \in InLoop(g, n, text, i)
        BY <1>1, <2>3, <2>4, <2>7, <2>8 DEF InLoop
  <2> QED
      BY <2>2, <2>4, <2>9
<1> QED
    BY <1>4, <1>5, <1>6, <1>7

LEMMA TakenIs ==
    ASSUME NEW m, IsMessage(m), NEW header, PartOf(m, header)
    PROVE  \E n : Taken(Header(m), n, header)
<1>1. PICK g \in Text, length \in Nat : g = Header(m) /\ length = Len(g)
      BY HeaderIs
<1> DEFINE behind == "?"
<1>2. PICK n \in 0 .. length : \/ header = SubSeq(g, 1, n)
                               \/ n < length /\ header = Append(SubSeq(g, 1, n), behind)
  <2>1. PICK n \in 0 .. Len(Header(m)) :
          \/ header = SubSeq(Header(m), 1, n)
          \/ n < Len(Header(m)) /\ header = Append(SubSeq(Header(m), 1, n), behind)
        BY Zenon DEF PartOf
  <2> HIDE DEF behind
  <2> QED
      BY <1>1, <2>1
<1>3. PICK part \in Text : part = SubSeq(g, 1, n) /\ Len(part) = n /\ \A i \in 1 .. n : part[i] = g[i]
      BY <1>1, PartIs
<1>4. behind \in Token /\ behind \notin {"CR", "LF", "NULL"}
      BY Zenon DEF Token
<1> HIDE DEF behind
<1>5. CASE header = part
      BY <1>1, <1>3, <1>5 DEF Taken
<1>6. CASE n < length /\ header = Append(part, behind)
  <2>1. header \in Text /\ Len(header) = n + 1 /\ header[n + 1] = behind /\ \A i \in 1 .. n : header[i] = part[i]
        BY <1>3, <1>4, <1>6 DEF Text
  <2>2. Taken(g, n, header)
        BY <1>1, <1>3, <1>4, <1>6, <2>1 DEF Taken
  <2> QED
      BY <1>1, <2>2
<1> QED
    BY <1>2, <1>3, <1>5, <1>6

\* read_headers, of a header that is well formed or of the part of it that has come: it
\* parses, and the length is one the header gives, or none; none only if it gives none or
\* has broken off.
LEMMA HeaderLinesRead ==
    ASSUME NEW m, IsMessage(m), WellFormed(m), NEW header, PartOf(m, header), NEW type
    PROVE  LET read == ReadHeaders(header, type)
           IN  /\ read.end = "ok" /\ read.http \in AnyHttp
               /\ read.http.req_content_len \in {-1} \cup Lengths(Header(m))
               /\ header = Header(m) /\ LengthLines(header) # {} =>
                    read.http.req_content_len \in Lengths(Header(m))
<1>1. PICK g : g = Header(m) /\ Lined(g)
      BY LinedIs
<1>2. PICK n : Taken(g, n, header)
      BY <1>1, TakenIs
<1> DEFINE X == [i \in 0 .. Len(header) |-> InLoop(g, n, header, i)]
<1>3. PICK size \in Nat : size = Len(header) /\ header \in Text
      BY <1>2, TextIs DEF Taken
<1>4. Begin(header) \in X[0]
  <2>1. 0 \in 0 .. Len(header)
        BY <1>3
  <2> QED
      BY <1>1, <1>2, <2>1, BeginIn
<1>5. \A i \in 1 .. Len(header) : \A r \in X[i - 1] : Line(r, i, type) \in X[i]
  <2> SUFFICES ASSUME NEW i \in 1 .. Len(header), NEW r \in X[i - 1]
               PROVE  Line(r, i, type) \in X[i]
      OBVIOUS
  <2>1. i \in 0 .. Len(header) /\ i - 1 \in 0 .. Len(header)
        BY <1>3
  <2>2. r \in InLoop(g, n, header, i - 1)
        BY <2>1
  <2>3. Line(r, i, type) \in InLoop(g, n, header, i)
        BY <1>1, <1>2, <2>2, LineIn
  <2> QED
      BY <2>1, <2>3
<1>6. PICK r \in InLoop(g, n, header, size) : r = ReadLines(header, type)
  <2> HIDE DEF X
  <2>1. ReadLines(header, type) \in X[Len(header)]
        BY <1>3, <1>4, <1>5, ReadLinesIn
  <2>2. Len(header) \in 0 .. Len(header)
        BY <1>3
  <2> QED
      BY <1>3, <2>1, <2>2 DEF X
<1>7. /\ r.http \in AnyHttp /\ r.end \in {"lines", "ok"}
      /\ r.http.req_content_len \in {-1} \cup Lengths(g)
      /\ (\E line \in LengthLines(g) : line[2] <= size /\ line[2] <= n) =>
           r.http.req_content_len \in Lengths(g)
      BY DEF InLoop, Reading
<1>8. ReadHeaders(header, type).end = "ok" /\ ReadHeaders(header, type).http = r.http
  <2>1. ReadHeaders(header, type) = [end |-> IF r.end = "lines" THEN "ok" ELSE r.end, http |-> r.http]
        BY <1>6 DEF ReadHeaders, HeadersRead
  <2> QED
      BY <1>7, <2>1
<1>9. ASSUME header = Header(m), LengthLines(header) # {}
      PROVE  r.http.req_content_len \in Lengths(g)
  <2>1. size = Len(g) /\ g[size] = "LF" /\ n \in 0 .. size
        BY <1>1, <1>2, <1>3, <1>9 DEF Lined, Taken
  <2>2. n = size
        BY <1>1, <1>2, <1>3, <1>9, <2>1 DEF Taken
  <2>3. PICK line \in LengthLines(g) : line[2] \in 2 .. Len(g) - 2
        BY <1>1, <1>9, LinesAre
  <2>4. line[2] <= size /\ line[2] <= n
        BY <2>1, <2>2, <2>3
  <2> QED
      BY <1>7, <2>4
<1> QED
    BY <1>1, <1>7, <1>8, <1>9
-----------------------------------------------------------------------------
(* Texts that begin others                                                 *)

Begins(s, t) == \E u \in Text : t = s \o u

LEMMA BeginsAll ==
    ASSUME NEW s \in Text
    PROVE  Begins(s, s) /\ Begins(<<>>, s)
<1>1. PICK a \in Seq(Token) : a = s
      BY DEF Text
<1>2. a \o <<>> = a /\ <<>> \o a = a
      BY ConcatEmptySeq
<1>3. <<>> \in Text
      BY DEF Text
<1> QED
    BY <1>1, <1>2, <1>3 DEF Begins

LEMMA BeginsTwo ==
    ASSUME NEW s \in Text, NEW t \in Text, NEW v, Begins(s, t), Begins(t, v)
    PROVE  Begins(s, v)
<1>1. PICK a \in Seq(Token), b \in Seq(Token), c \in Seq(Token) : a = s /\ t = s \o b /\ v = t \o c
      BY DEF Begins, Text
<1>2. (a \o b) \o c = a \o (b \o c)
      BY ONLY a \in Seq(Token), b \in Seq(Token), c \in Seq(Token), ConcatAssociative
<1>3. b \o c \in Text
      BY JoinIs DEF Text
<1> QED
    BY <1>1, <1>2, <1>3 DEF Begins

LEMMA BeginsBehind ==
    ASSUME NEW r \in Text, NEW s \in Text, NEW t, Begins(s, t)
    PROVE  Begins(r \o s, r \o t)
<1>1. PICK a \in Seq(Token), b \in Seq(Token), c \in Seq(Token) : a = r /\ b = s /\ t = s \o c
      BY DEF Begins, Text
<1>2. (a \o b) \o c = a \o (b \o c)
      BY ONLY a \in Seq(Token), b \in Seq(Token), c \in Seq(Token), ConcatAssociative
<1> QED
    BY <1>1, <1>2 DEF Begins, Text

LEMMA BeginsPart ==
    ASSUME NEW t \in Text, NEW n \in 0 .. Len(t)
    PROVE  SubSeq(t, 1, n) \in Text /\ Len(SubSeq(t, 1, n)) = n /\ Begins(SubSeq(t, 1, n), t)
<1>1. PICK length \in Nat : length = Len(t) /\ n \in 0 .. length
      BY TextIs
<1>2. PICK s \in Text : s = SubSeq(t, 1, n) /\ Len(s) = n /\ \A i \in 1 .. n : s[i] = t[i]
      BY PartIs
<1>3. PICK u \in Text : /\ u = SubSeq(t, n + 1, length) /\ Len(u) = length - n
                        /\ \A k \in 1 .. length - n : u[k] = t[n + k]
  <2>1. /\ n + 1 \in Nat \ {0} /\ n + 1 <= length + 1 /\ length <= Len(t)
        /\ length + 1 - (n + 1) = length - n /\ \A k \in 1 .. length - n : n + 1 + k - 1 = n + k
        BY <1>1
  <2>2. /\ SubSeq(t, n + 1, length) \in Text /\ Len(SubSeq(t, n + 1, length)) = length + 1 - (n + 1)
        /\ \A k \in 1 .. length + 1 - (n + 1) : SubSeq(t, n + 1, length)[k] = t[n + 1 + k - 1]
        BY <2>1, SliceIs
  <2>3. \A k \in 1 .. length - n : SubSeq(t, n + 1, length)[k] = t[n + k]
    <3>1. \A k \in 1 .. length + 1 - (n + 1) : SubSeq(t, n + 1, length)[k] = t[n + k]
          BY <2>1, <2>2
    <3> QED
        BY <2>1, <3>1
  <2> QED
      BY <2>1, <2>2, <2>3
<1>4. PICK both \in Text : both = s \o u /\ Joins(s, n, u, length - n, both)
  <2>1. n \in Nat /\ length - n \in Nat
        BY <1>1
  <2> QED
      BY <1>2, <1>3, <2>1, JoinText
<1>5. Len(both) = length /\ \A i \in 1 .. length : both[i] = t[i]
  <2>1. \A i \in 1 .. length : i \in 1 .. n \/ (i - n \in 1 .. length - n /\ n + (i - n) = i)
        BY <1>1
  <2>2. n + (length - n) = length
        BY <1>1
  <2> QED
      BY <1>2, <1>3, <1>4, <2>1, <2>2 DEF Joins
<1>6. both = t
      BY <1>1, <1>5, SeqEqual DEF Text
<1> QED
    BY <1>2, <1>4, <1>6 DEF Begins

LEMMA PrefixIs ==
    ASSUME NEW s \in Text, NEW t, Begins(s, t)
    PROVE  IsPrefix(s, t)
<1>1. PICK u \in Text : t = s \o u
      BY DEF Begins
<1>2. Len(s) \in Nat /\ Len(u) \in Nat
      BY TextIs
<1>3. PICK both \in Text : both = t /\ Joins(s, Len(s), u, Len(u), both)
  <2>1. \E both \in Text : both = s \o u /\ Joins(s, Len(s), u, Len(u), both)
        BY <1>2, JoinText
  <2> QED
      BY <1>1, <2>1
<1>4. Len(s) \in 0 .. Len(both) /\ \A i \in 1 .. Len(s) : both[i] = s[i]
      BY <1>2, <1>3 DEF Joins
<1>5. SubSeq(both, 1, Len(s)) = s
  <2>1. /\ SubSeq(both, 1, Len(s)) \in Text /\ Len(SubSeq(both, 1, Len(s))) = Len(s)
        /\ \A i \in 1 .. Len(s) : SubSeq(both, 1, Len(s))[i] = both[i]
        BY <1>4, PartIs
  <2> QED
      BY <1>4, <2>1, SeqEqual DEF Text
<1>6. SubSeq(s, 1, Len(s)) = s
  <2>1. /\ SubSeq(s, 1, Len(s)) \in Text /\ Len(SubSeq(s, 1, Len(s))) = Len(s)
        /\ \A i \in 1 .. Len(s) : SubSeq(s, 1, Len(s))[i] = s[i]
        BY <1>2, PartIs
  <2> QED
      BY <2>1, SeqEqual DEF Text
<1> QED
    BY <1>2, <1>3, <1>4, <1>5, <1>6 DEF IsPrefix
-----------------------------------------------------------------------------
(* The text of the first answers                                           *)

LEMMA FlatSame ==
    ASSUME NEW seqs \in Texts1, NEW front \in Texts1, NEW n \in Nat \ {0},
           Len(front) = n, Len(seqs) = n + 1, \A i \in 1 .. n : front[i] = seqs[i]
    PROVE  /\ FlattenSeq(front) \in Text
           /\ FlattenSeq(seqs) = FlattenSeq(front) \o seqs[n + 1]
<1>1. PICK h : /\ Flat(h, seqs) /\ FlattenSeq(seqs) = h[n + 1] /\ h \in [1 .. n + 1 -> Text]
  <2>1. Len(seqs) > 0
        OBVIOUS
  <2>2. \E h : /\ Flat(h, seqs) /\ FlattenSeq(seqs) = h[Len(seqs)] /\ h \in [1 .. Len(seqs) -> Text]
        BY ONLY seqs \in Texts1, <2>1, FlatIs
  <2> QED
      BY <2>2
<1>2. PICK g : /\ Flat(g, front) /\ FlattenSeq(front) = g[n] /\ g \in [1 .. n -> Text]
  <2>1. Len(front) > 0
        OBVIOUS
  <2>2. \E g : /\ Flat(g, front) /\ FlattenSeq(front) = g[Len(front)] /\ g \in [1 .. Len(front) -> Text]
        BY ONLY front \in Texts1, <2>1, FlatIs
  <2> QED
      BY <2>2
<1>3. \A i \in 1 .. n + 1 : h[i] = IF i = 1 THEN seqs[i] ELSE h[i - 1] \o seqs[i]
      BY <1>1 DEF Flat
<1>4. \A i \in 1 .. n : g[i] = IF i = 1 THEN front[i] ELSE g[i - 1] \o front[i]
      BY <1>2 DEF Flat
<1> DEFINE P == {i \in 1 .. n : h[i] = g[i]}
<1>5. 1 \in P
  <2>1. 1 \in 1 .. n /\ 1 \in 1 .. n + 1
        OBVIOUS
  <2>2. \A i \in 1 .. n + 1 : i = 1 => h[i] = seqs[i]
        BY <1>3
  <2>3. \A i \in 1 .. n : i = 1 => g[i] = front[i]
        BY <1>4
  <2>4. h[1] = seqs[1] /\ g[1] = front[1]
        BY <2>1, <2>2, <2>3
  <2> QED
      BY <2>1, <2>4
<1>6. ASSUME NEW i \in 1 .. n, i # 1, i - 1 \in P PROVE i \in P
  <2>1. i \in 1 .. n + 1 /\ h[i - 1] = g[i - 1]
        BY <1>6
  <2>2. h[i] = h[i - 1] \o seqs[i] /\ g[i] = g[i - 1] \o front[i]
        BY <1>3, <1>4, <1>6, <2>1
  <2> QED
      BY <1>6, <2>1, <2>2
<1> HIDE DEF P
<1>7. n \in P
  <2>1. n \in Int /\ 1 \in Int /\ n \in 1 .. n
        OBVIOUS
  <2>2. \A i \in 1 .. n : i \in P
        BY <1>5, <1>6, <2>1, Induct
  <2> QED
      BY <2>1, <2>2
<1>8. h[n + 1] = h[n] \o seqs[n + 1]
  <2>1. n + 1 \in 1 .. n + 1 /\ n + 1 # 1 /\ (n + 1) - 1 = n
        OBVIOUS
  <2> QED
      BY <1>3, <2>1
<1>9. g[n] \in Text /\ h[n] = g[n]
  <2>1. n \in 1 .. n
        OBVIOUS
  <2> QED
      BY <1>2, <1>7, <2>1 DEF P
<1> QED
    BY <1>1, <1>2, <1>8, <1>9

\* What the servers have sent for the first n requests.
AnswerText(a) == IF a = NoAnswer THEN <<>> ELSE Message(a)
Sent(s, n)    == FlattenSeq([k \in 1 .. n |-> AnswerText(s[k])])

LEMMA SentNext ==
    ASSUME NEW s, NEW n \in Nat, \A k \in 1 .. n + 1 : AnswerText(s[k]) \in Text
    PROVE  /\ Sent(s, 0) = <<>> /\ Sent(s, n) \in Text
           /\ Sent(s, n + 1) = Sent(s, n) \o AnswerText(s[n + 1])
<1>1. Sent(s, 0) = <<>>
  <2>1. [k \in 1 .. 0 |-> AnswerText(s[k])] = <<>>
        OBVIOUS
  <2> QED
      BY <2>1 DEF Sent, FlattenSeq
<1>2. PICK seqs \in Texts1 : /\ seqs = [k \in 1 .. n + 1 |-> AnswerText(s[k])] /\ Len(seqs) = n + 1
                             /\ \A k \in 1 .. n + 1 : seqs[k] = AnswerText(s[k])
  <2>1. n + 1 \in Nat
        OBVIOUS
  <2>2. /\ [k \in 1 .. n + 1 |-> AnswerText(s[k])] \in Seq(Text)
        /\ Len([k \in 1 .. n + 1 |-> AnswerText(s[k])]) = n + 1
        BY <2>1
  <2> QED
      BY <2>2 DEF Texts1
<1>3. n + 1 \in 1 .. n + 1
      OBVIOUS
<1>4. CASE n = 0
  <2>1. FlattenSeq(seqs) = seqs[1]
    <3>1. Len(seqs) > 0 /\ Len(seqs) = 1 /\ 1 \in 1 .. 1
          BY <1>2, <1>4
    <3>2. PICK h : Flat(h, seqs) /\ FlattenSeq(seqs) = h[1]
      <4>1. \E h : /\ Flat(h, seqs) /\ FlattenSeq(seqs) = h[Len(seqs)] /\ h \in [1 .. Len(seqs) -> Text]
            BY ONLY seqs \in Texts1, <3>1, FlatIs
      <4> QED
          BY <3>1, <4>1
    <3>3. \A i \in 1 .. 1 : h[i] = IF i = 1 THEN seqs[i] ELSE h[i - 1] \o seqs[i]
          BY <3>1, <3>2 DEF Flat
    <3> QED
        BY <3>1, <3>2, <3>3
  <2>2. PICK a \in Seq(Token) : a = AnswerText(s[n + 1])
        BY <1>3 DEF Text
  <2>3. <<>> \o a = a
        BY ConcatEmptySeq
  <2>4. <<>> \in Text
        BY DEF Text
  <2> QED
      BY <1>1, <1>2, <1>3, <1>4, <2>1, <2>2, <2>3, <2>4 DEF Sent
<1>5. CASE n # 0
  <2>1. PICK front \in Texts1 : /\ front = [k \in 1 .. n |-> AnswerText(s[k])] /\ Len(front) = n
                                /\ \A k \in 1 .. n : front[k] = AnswerText(s[k])
    <3>1. \A k \in 1 .. n : k \in 1 .. n + 1
          OBVIOUS
    <3>2. [k \in 1 .. n |-> AnswerText(s[k])] \in Seq(Text) /\ Len([k \in 1 .. n |-> AnswerText(s[k])]) = n
          BY <3>1
    <3> QED
        BY <3>2 DEF Texts1
  <2>2. \A k \in 1 .. n : k \in 1 .. n + 1
        OBVIOUS
  <2>3. n \in Nat \ {0} /\ \A i \in 1 .. n : front[i] = seqs[i]
        BY <1>2, <1>5, <2>1, <2>2
  <2>4. FlattenSeq(front) \in Text /\ FlattenSeq(seqs) = FlattenSeq(front) \o seqs[n + 1]
        BY <1>2, <2>1, <2>3, FlatSame
  <2> QED
      BY <1>1, <1>2, <1>3, <2>1, <2>4 DEF Sent
<1> QED
    BY <1>4, <1>5

\* They come in the order of the requests, and no answer changes those before it.
LEMMA SentBegins ==
    ASSUME NEW s, NEW m \in Nat, NEW n \in 0 .. m, \A k \in 1 .. m : AnswerText(s[k]) \in Text
    PROVE  Sent(s, n) \in Text /\ Sent(s, m) \in Text /\ Begins(Sent(s, n), Sent(s, m))
<1>0. n \in Nat /\ Sent(s, 0) = <<>> /\ <<>> \in Text
  <2>1. [k \in 1 .. 0 |-> AnswerText(s[k])] = <<>>
        OBVIOUS
  <2> QED
      BY <2>1 DEF Sent, FlattenSeq, Text
<1>1. ASSUME NEW i \in 0 .. m, i # 0
      PROVE  Sent(s, i) = Sent(s, i - 1) \o AnswerText(s[i])
  <2>1. i - 1 \in Nat /\ (i - 1) + 1 = i /\ \A k \in 1 .. (i - 1) + 1 : k \in 1 .. m
        BY <1>1
  <2>2. \A k \in 1 .. (i - 1) + 1 : AnswerText(s[k]) \in Text
        BY <2>1
  <2>3. Sent(s, (i - 1) + 1) = Sent(s, i - 1) \o AnswerText(s[(i - 1) + 1])
        BY <2>1, <2>2, SentNext
  <2> QED
      BY <2>1, <2>3
<1> DEFINE T == {i \in 0 .. m : Sent(s, i) \in Text}
           P == {i \in n .. m : Begins(Sent(s, n), Sent(s, i))}
<1>2. \A i \in 0 .. m : i \in T
  <2>1. 0 \in T
        BY <1>0
  <2>2. ASSUME NEW i \in 0 .. m, i # 0, i - 1 \in T PROVE i \in T
    <3>1. Sent(s, i - 1) \in Text /\ AnswerText(s[i]) \in Text
          BY <2>2
    <3>2. Sent(s, i - 1) \o AnswerText(s[i]) \in Text
          BY <3>1, JoinIs
    <3> QED
        BY <1>1, <2>2, <3>2
  <2>3. 0 \in Int /\ m \in Int
        OBVIOUS
  <2> HIDE DEF T
  <2> QED
      BY <2>1, <2>2, <2>3, Induct
<1>3. \A i \in 0 .. m : Sent(s, i) \in Text
      BY <1>2
<1>4. \A i \in n .. m : i \in P
  <2>1. n \in P
    <3>1. Begins(Sent(s, n), Sent(s, n))
          BY <1>3, BeginsAll
    <3> QED
        BY <1>0, <3>1
  <2>2. ASSUME NEW i \in n .. m, i # n, i - 1 \in P PROVE i \in P
    <3>1. i \in 0 .. m /\ i # 0 /\ i - 1 \in 0 .. m /\ i \in 1 .. m
          BY <1>0, <2>2
    <3>2. Begins(Sent(s, n), Sent(s, i - 1))
          BY <2>2
    <3>3. Sent(s, i) = Sent(s, i - 1) \o AnswerText(s[i])
          BY <1>1, <3>1
    <3>4. Begins(Sent(s, i - 1), Sent(s, i))
          BY <3>1, <3>3 DEF Begins
    <3>5. Begins(Sent(s, n), Sent(s, i))
          BY <1>3, <3>1, <3>2, <3>4, BeginsTwo
    <3> QED
        BY <2>2, <3>5
  <2>3. n \in Int /\ m \in Int
        OBVIOUS
  <2> HIDE DEF P
  <2> QED
      BY <2>1, <2>2, <2>3, Induct
<1> QED
    BY <1>3, <1>4

LEMMA SentSame ==
    ASSUME NEW s, NEW t, NEW n \in Nat, \A k \in 1 .. n : s[k] = t[k]
    PROVE  Sent(s, n) = Sent(t, n)
<1>1. [k \in 1 .. n |-> AnswerText(s[k])] = [k \in 1 .. n |-> AnswerText(t[k])]
      OBVIOUS
<1> QED
    BY <1>1 DEF Sent
-----------------------------------------------------------------------------
(* What comes of an answer                                                 *)

LEMMA HeaderLengthIs ==
    ASSUME NEW text \in Text
    PROVE  /\ HeaderLength(text) \in 0 .. Len(text)
           /\ HeaderEnds(text) # {} => HeaderLength(text) \in HeaderEnds(text)
           /\ HeaderEnds(text) = {} => HeaderLength(text) = Len(text)
<1>1. HeaderEnds(text) \subseteq 4 .. Len(text) /\ Len(text) \in Nat
      BY TextIs DEF HeaderEnds
<1>2. CASE HeaderEnds(text) = {}
      BY <1>1, <1>2 DEF HeaderLength
<1>3. CASE HeaderEnds(text) # {}
  <2>1. HeaderEnds(text) \subseteq Nat
        BY <1>1
  <2>2. Min(HeaderEnds(text)) \in HeaderEnds(text)
        BY <1>3, <2>1, MinIs
  <2>3. HeaderLength(text) = Min(HeaderEnds(text))
        BY <1>3 DEF HeaderLength
  <2> QED
      BY <1>1, <1>3, <2>2, <2>3
<1> QED
    BY <1>2, <1>3

LEMMA HeadersAre ==
    ASSUME NEW got \in Text, NEW header \in Headers(got)
    PROVE  /\ header \in Text /\ AfterHeader(got) \in Text
           /\ HeaderEnds(got) = {} => HeaderEnds(header) = {} /\ AfterHeader(got) = <<>>
           /\ HeaderEnds(got) # {} => EndsAt(header, Len(header))
<1>1. PICK n \in Nat, length \in Nat : n = HeaderLength(got) /\ length = Len(got) /\ n <= length
  <2>1. Len(got) \in Nat /\ HeaderLength(got) \in 0 .. Len(got)
        BY TextIs, HeaderLengthIs
  <2> QED
      BY <2>1
<1> DEFINE behind == "?"
<1>2. \/ header = SubSeq(got, 1, n)
      \/ HeaderEnds(got) = {} /\ header = Append(SubSeq(got, 1, n), behind)
      BY <1>1, Zenon DEF Headers
<1>3. behind \in Token /\ behind \notin {"CR", "LF"}
      BY Zenon DEF Token
<1> HIDE DEF behind
<1>4. PICK part \in Text : part = SubSeq(got, 1, n) /\ Len(part) = n /\ \A i \in 1 .. n : part[i] = got[i]
  <2>1. n \in 0 .. Len(got)
        BY <1>1
  <2> QED
      BY <2>1, PartIs
<1>5. AfterHeader(got) \in Text
  <2>1. n + 1 \in Nat \ {0} /\ length \in Int /\ length <= Len(got)
        BY <1>1
  <2>2. SubSeq(got, n + 1, length) \in Text
        BY <2>1, SubSeqTypes
  <2> QED
      BY <1>1, <2>2 DEF AfterHeader
<1>6. CASE HeaderEnds(got) # {}
  <2>1. header = part
        BY <1>2, <1>4, <1>6
  <2>2. EndsAt(got, n)
        BY <1>1, <1>6, HeaderLengthIs, HeaderEndsAt
  <2>3. EndsAt(part, n)
    <3>1. n \in 4 .. n /\ \A k \in n - 3 .. n : k \in 1 .. n /\ got[k] \in {"CR", "LF"}
          BY <2>2 DEF EndsAt
    <3> QED
        BY <1>4, <3>1 DEF EndsAt
  <2> QED
      BY <1>4, <1>5, <1>6, <2>1, <2>3
<1>7. CASE HeaderEnds(got) = {}
  <2>1. n = length
        BY <1>1, <1>7, HeaderLengthIs
  <2>2. AfterHeader(got) = <<>>
    <3>1. SubSeq(got, length + 1, length) = <<>>
          BY <1>1 DEF Text
    <3> QED
        BY <1>1, <2>1, <3>1 DEF AfterHeader
  <2>3. part = got
    <3>1. Len(part) = Len(got) /\ \A i \in 1 .. Len(part) : part[i] = got[i]
          BY <1>1, <1>4, <2>1
    <3> QED
        BY <3>1, SeqEqual DEF Text
  <2>4. CASE header = part
        BY <1>5, <1>7, <2>2, <2>3, <2>4
  <2>5. CASE header = Append(part, behind)
    <3>1. /\ header \in Text /\ Len(header) = n + 1 /\ header[n + 1] = behind
          /\ \A i \in 1 .. n : header[i] = part[i]
          BY <1>3, <1>4, <2>5 DEF Text
    <3>2. ASSUME NEW e, EndsAt(header, e) PROVE FALSE
      <4>1. e \in 4 .. n + 1 /\ \A k \in e - 3 .. e : header[k] \in {"CR", "LF"}
            BY <3>1, <3>2 DEF EndsAt
      <4>2. e # n + 1
        <5>1. e \in e - 3 .. e
              BY <4>1
        <5> QED
            BY <1>3, <3>1, <4>1, <5>1
      <4>3. e \in 4 .. n /\ \A k \in e - 3 .. e : k \in 1 .. n
            BY <4>1, <4>2
      <4>4. EndsAt(got, e)
            BY <1>1, <2>1, <2>3, <3>1, <4>1, <4>3 DEF EndsAt
      <4> QED
          BY <1>7, <4>4, HeaderEndsAt
    <3>3. HeaderEnds(header) = {}
          BY <3>2, HeaderEndsAt
    <3> QED
        BY <1>5, <1>7, <2>2, <3>1, <3>3
  <2> QED
      BY <1>2, <1>4, <2>4, <2>5
<1> QED
    BY <1>6, <1>7

LEMMA ReceivedText ==
    ASSUME NEW text \in Text, NEW got \in Received(text)
    PROVE  got \in Text
<1>1. CASE got = text
      BY <1>1
<1>2. ASSUME NEW n \in 0 .. HeaderLength(text) - 1, got = SubSeq(text, 1, n) PROVE got \in Text
  <2>1. n \in 0 .. Len(text)
    <3>1. HeaderLength(text) \in 0 .. Len(text) /\ Len(text) \in Nat
          BY TextIs, HeaderLengthIs
    <3> QED
        BY <3>1
  <2> QED
      BY <1>2, <2>1, PartIs
<1> QED
    BY <1>1, <1>2 DEF Received

\* A header that has come to its end is the one that has been sent.
LEMMA WholeHeader ==
    ASSUME NEW m, IsMessage(m), NEW header, PartOf(m, header), EndsAt(header, Len(header))
    PROVE  header = Header(m)
<1>1. PICK g \in Text, length \in Nat : g = Header(m) /\ length = Len(g)
      BY HeaderIs
<1>2. PICK n : Taken(g, n, header)
      BY <1>1, TakenIs
<1>3. PICK size \in Nat : /\ header \in Text /\ size = Len(header) /\ n \in 0 .. length
                          /\ size = n \/ (size = n + 1 /\ header[n + 1] \notin {"CR", "LF"})
                          /\ \A i \in 1 .. n : header[i] = g[i]
      BY <1>1, <1>2, TextIs DEF Taken
<1>4. size \in 4 .. size /\ \A k \in size - 3 .. size : header[k] \in {"CR", "LF"}
      BY <1>3 DEF EndsAt
<1>5. size = n
  <2>1. size \in size - 3 .. size
        BY <1>3
  <2> QED
      BY <1>3, <1>4, <2>1
<1>6. EndsAt(g, n)
  <2>1. n \in 4 .. length /\ \A k \in n - 3 .. n : k \in 1 .. n
        BY <1>3, <1>4, <1>5
  <2> QED
      BY <1>1, <1>3, <1>4, <1>5, <2>1 DEF EndsAt
<1>7. n = length
      BY <1>1, <1>6, RequestEndsAt
<1> QED
    BY <1>1, <1>3, <1>5, <1>7, SeqEqual DEF Text

\* The header of an answer and what may follow it, as much of them as has come.
LEMMA AnswerHeader ==
    ASSUME NEW m, IsMessage(m),
           NEW got \in Received(Message(m)) \cup {SubSeq(Message(m), 1, Len(Message(m)) - 1)},
           NEW header \in Headers(got)
    PROVE  /\ header \in Text /\ PartOf(m, header)
           /\ HeaderEnds(got) = {} => HeaderEnds(header) = {} /\ AfterHeader(got) = <<>>
           /\ HeaderEnds(got) # {} =>
                \E rest \in Text : /\ header = Header(m) /\ rest = AfterHeader(got)
                                   /\ Begins(rest, m.body)
                                   /\ Len(rest) = Len(m.body) => rest = m.body
<1>1. PICK g \in Text, body \in Text, length \in Nat, k \in Nat :
         g = Header(m) /\ body = m.body /\ length = Len(g) /\ k = Len(body) /\ length >= 4
  <2>1. Header(m) \in Text /\ m.body \in Text /\ Len(Header(m)) \in Nat /\ Len(m.body) \in Nat
        BY HeaderIs, RequestTypes, TextIs
  <2>2. Len(Header(m)) >= 4
        BY RequestEndsAt
  <2> QED
      BY <2>1, <2>2
<1>2. PICK text \in Text : text = Message(m) /\ text = g \o body /\ Joins(g, length, body, k, text)
  <2>1. Message(m) = g \o body
        BY <1>1 DEF Message
  <2>2. \E both \in Text : both = g \o body /\ Joins(g, length, body, k, both)
        BY <1>1, JoinText
  <2> QED
      BY <2>1, <2>2
<1>3. PICK short : short = SubSeq(text, 1, (length + k) - 1)
      OBVIOUS
<1>4. got \in Received(text) \/ got = short
      BY <1>2, <1>3 DEF Joins
<1>5. \E rest \in Text : /\ got \in Received(g \o rest) /\ Begins(rest, body)
                         /\ Len(rest) = k => rest = body
  <2>1. CASE got \in Received(text)
    <3>1. Begins(body, body)
          BY BeginsAll
    <3> QED
        BY <1>1, <1>2, <2>1, <3>1
  <2>2. CASE got = short /\ k = 0
    <3>1. text = g
      <4>1. Len(text) = Len(g) /\ \A i \in 1 .. Len(text) : text[i] = g[i]
            BY <1>1, <1>2, <2>2 DEF Joins
      <4> QED
          BY <4>1, SeqEqual DEF Text
    <3>2. HeaderLength(text) = length
      <4>1. \A n : EndsAt(text, n) <=> n = length
            BY <1>1, <3>1, RequestEndsAt
      <4>2. HeaderEnds(text) = {length}
            BY <4>1, HeaderEndsAt
      <4> QED
          BY <4>2, HeaderLengthIs
    <3>3. length - 1 \in 0 .. HeaderLength(text) - 1 /\ got = SubSeq(text, 1, length - 1)
          BY <1>1, <1>3, <2>2, <3>2
    <3>4. got \in Received(text)
          BY <3>3 DEF Received
    <3> QED
        BY <1>1, <1>2, <3>4, BeginsAll
  <2>3. CASE got = short /\ k # 0
    <3>1. PICK rest \in Text : rest = SubSeq(body, 1, k - 1) /\ Len(rest) = k - 1 /\ Begins(rest, body)
                              /\ \A i \in 1 .. k - 1 : rest[i] = body[i]
      <4>1. k - 1 \in 0 .. Len(body)
            BY <1>1, <2>3
      <4> QED
          BY <4>1, BeginsPart, PartIs
    <3>2. PICK both \in Text : both = g \o rest /\ Joins(g, length, rest, k - 1, both)
      <4>1. k - 1 \in Nat
            BY <2>3
      <4> QED
          BY <1>1, <3>1, <4>1, JoinText
    <3>3. short = both
      <4>1. /\ (length + k) - 1 \in 0 .. Len(text) /\ length + (k - 1) = (length + k) - 1
            BY <1>1, <1>2, <2>3 DEF Joins
      <4>2. /\ short \in Text /\ Len(short) = (length + k) - 1
            /\ \A i \in 1 .. (length + k) - 1 : short[i] = text[i]
            BY <1>3, <4>1, PartIs
      <4>3. \A i \in 1 .. (length + k) - 1 :
              i \in 1 .. length \/ (i - length \in 1 .. k - 1 /\ i - length \in 1 .. k /\ length + (i - length) = i)
            BY <1>1
      <4>4. \A i \in 1 .. (length + k) - 1 : text[i] = both[i]
            BY <1>2, <3>1, <3>2, <4>3 DEF Joins
      <4>5. Len(short) = Len(both) /\ \A i \in 1 .. Len(short) : short[i] = both[i]
            BY <3>2, <4>1, <4>2, <4>4 DEF Joins
      <4> QED
          BY <4>2, <4>5, SeqEqual DEF Text
    <3>4. got \in Received(g \o rest)
          BY <2>3, <3>2, <3>3 DEF Received
    <3>5. k - 1 # k
          BY <2>3
    <3> QED
        BY <3>1, <3>4, <3>5
  <2> QED
      BY <1>4, <2>1, <2>2, <2>3
<1>6. PICK rest \in Text : /\ got \in Received(g \o rest) /\ Begins(rest, body)
                           /\ Len(rest) = k => rest = body
      BY <1>5
<1>7. got \in Text
  <2>1. g \o rest \in Text
        BY JoinIs
  <2> QED
      BY <1>6, <2>1, ReceivedText
<1>8. PartOf(m, header) /\ (HeaderEnds(got) # {} => AfterHeader(got) = rest)
      BY <1>1, <1>6, HeaderTaken
<1>9. /\ header \in Text
      /\ HeaderEnds(got) = {} => HeaderEnds(header) = {} /\ AfterHeader(got) = <<>>
      /\ HeaderEnds(got) # {} => EndsAt(header, Len(header))
      BY <1>7, HeadersAre
<1>10. HeaderEnds(got) # {} => header = Header(m)
       BY <1>8, <1>9, WholeHeader
<1> QED
    BY <1>1, <1>6, <1>8, <1>9, <1>10

\* A byte that nobody has sent.
Unwritten == "?"

\* A text the client may read of an answer: its first bytes, or these and one from memory.
Torn(text, t) ==
    \/ text \in Text /\ Begins(text, t)
    \/ \E front \in Text : text = Append(front, Unwritten) /\ Begins(front, t)

\* What a request thread has received of an answer.
Answered(a, r) ==
    /\ r.header \in Text /\ r.header # NULL /\ r.body \in Text
    /\ r.length = a.length \/ (r.length = -1 /\ HeaderEnds(r.header) = {})
    /\ Torn(r.header \o r.body, Message(a))
    /\ r.length = Len(r.body) /\ r.body # <<>> => r.header \o r.body = Message(a)

LEMMA PartTorn ==
    ASSUME NEW m, IsMessage(m), NEW header, PartOf(m, header)
    PROVE  Torn(header, Message(m))
<1>1. PICK g \in Text, body \in Text : g = Header(m) /\ body = m.body
      BY HeaderIs, RequestTypes
<1>2. Begins(g, Message(m))
      BY <1>1 DEF Begins, Message
<1>3. PICK n \in 0 .. Len(g) : header = SubSeq(g, 1, n) \/ header = Append(SubSeq(g, 1, n), Unwritten)
      BY <1>1, Zenon DEF PartOf, Unwritten
<1>4. SubSeq(g, 1, n) \in Text /\ Begins(SubSeq(g, 1, n), g)
      BY BeginsPart
<1>5. Begins(SubSeq(g, 1, n), Message(m))
      BY <1>2, <1>4, BeginsTwo
<1> QED
    BY <1>3, <1>4, <1>5 DEF Torn

LEMMA NotNull ==
    ASSUME NEW m, IsMessage(m), WellFormed(m), NEW header, PartOf(m, header)
    PROVE  header # NULL
<1> SUFFICES ASSUME header = NULL PROVE FALSE
    OBVIOUS
<1>1. PICK g : g = Header(m) /\ Lined(g)
      BY LinedIs
<1>2. PICK n : Taken(g, n, header)
      BY <1>1, TakenIs
<1>3. Len(header) = 1 /\ header[1] = "NULL"
      BY DEF NULL
<1>4. n \in 0 .. Len(g) /\ Len(g) \in Nat /\ Len(g) >= 4
      BY <1>1, <1>2 DEF Lined, Taken
<1>5. CASE n = 1
  <2>1. header[1] = g[1] /\ 1 \in 1 .. Len(g)
        BY <1>2, <1>4, <1>5 DEF Taken
  <2>2. g[1] # "NULL"
        BY <1>1, <2>1 DEF Lined
  <2> QED
      BY <1>3, <2>1, <2>2
<1>6. CASE n # 1
  <2>1. n = 0 /\ header[n + 1] # "NULL"
        BY <1>2, <1>3, <1>4, <1>6 DEF Taken
  <2> QED
      BY <1>3, <2>1
<1> QED
    BY <1>5, <1>6

\* receive_http_response_header, receive_http_chunks: what a request thread has of an answer.
LEMMA ResponseIs ==
    ASSUME NEW a, IsAnswer(a),
           NEW got \in Received(Message(a)) \cup {SubSeq(Message(a), 1, Len(Message(a)) - 1)},
           NEW h \in HeaderRead(got, RESP)
    PROVE  /\ h.read.end = "ok"
           /\ Answered(a, [header |-> h.header, length |-> h.read.http.req_content_len,
                           body |-> Body(got, h.read)])
<1>1. IsMessage(a) /\ WellFormed(a) /\ a.length \in {-1, Len(a.body)}
      BY DEF IsAnswer
<1>2. PICK header \in Headers(got) : h = [header |-> header, read |-> ReadHeaders(header, RESP),
                                          received |-> got # <<>>]
      BY DEF HeaderRead
<1>3. PICK g \in Text, body \in Text : g = Header(a) /\ body = a.body
      BY <1>1, HeaderIs, RequestTypes
<1>4. /\ header \in Text /\ PartOf(a, header)
      /\ HeaderEnds(got) = {} => HeaderEnds(header) = {} /\ AfterHeader(got) = <<>>
      /\ HeaderEnds(got) # {} =>
           \E rest \in Text : /\ header = g /\ rest = AfterHeader(got) /\ Begins(rest, body)
                              /\ Len(rest) = Len(body) => rest = body
      BY <1>1, <1>2, <1>3, AnswerHeader
<1>5. PICK len, read : /\ read = ReadHeaders(header, RESP) /\ len = read.http.req_content_len
                       /\ read.end = "ok" /\ len \in {-1} \cup Lengths(g)
                       /\ header = g /\ LengthLines(header) # {} => len \in Lengths(g)
      BY <1>1, <1>3, <1>4, HeaderLinesRead
<1>6. \A x \in Lengths(g) : x = a.length
      BY <1>3 DEF IsAnswer, Lengths
<1>7. header = g => len = a.length
  <2>1. LengthLines(g) = {} => Lengths(g) = {} /\ a.length = -1
        BY <1>3 DEF IsAnswer, Lengths
  <2> QED
      BY <1>5, <1>6, <2>1
<1>8. PICK k \in Nat : k = Len(body) /\ a.length \in {-1, k} /\ len \in {-1, a.length} /\ len \in Int
      BY <1>1, <1>3, <1>5, <1>6, TextIs
<1>9. PICK content : /\ content = Body(got, h.read) /\ read = h.read
                     /\ content = IF len < 1 THEN <<>>
                                  ELSE SubSeq(AfterHeader(got), 1, Min({len, Len(AfterHeader(got))}))
      BY <1>2, <1>5 DEF Body
<1>10. PICK r : /\ r = [header |-> h.header, length |-> h.read.http.req_content_len, body |-> Body(got, h.read)]
                /\ r.header = header /\ r.length = len /\ r.body = content
  <2>1. h.header = header /\ h.read.http.req_content_len = len /\ Body(got, h.read) = content
        BY <1>2, <1>5, <1>9
  <2>2. PICK r : r = [header |-> header, length |-> len, body |-> content]
        OBVIOUS
  <2>3. r = [header |-> h.header, length |-> h.read.http.req_content_len, body |-> Body(got, h.read)]
        BY <2>1, <2>2, Zenon
  <2>4. r.header = header /\ r.length = len /\ r.body = content
        BY <2>2
  <2> QED
      BY <2>3, <2>4
<1>11. header # NULL
       BY <1>1, <1>4, NotNull
<1>12. <<>> \in Text /\ header \o <<>> = header /\ Len(<<>>) = 0 /\ <<>> = SubSeq(<<>>, 1, 0)
  <2>1. PICK s \in Seq(Token) : s = header
        BY <1>4 DEF Text
  <2>2. s \o <<>> = s
        BY ConcatEmptySeq
  <2> QED
      BY <2>1, <2>2 DEF Text
<1>13. ASSUME NEW x \in Nat, NEW y \in Nat, y <= x PROVE Min({x, y}) = y
  <2>1. {x, y} \subseteq Nat /\ {x, y} # {}
        OBVIOUS
  <2>2. y \in {x, y} /\ \A z \in {x, y} : y <= z
        BY <1>13
  <2> QED
      BY <2>1, <2>2, Least
<1>14. CASE HeaderEnds(got) = {}
  <2>1. AfterHeader(got) = <<>> /\ HeaderEnds(header) = {}
        BY <1>4, <1>14
  <2>2. content = <<>>
    <3>1. CASE len < 1
          BY <1>9, <3>1
    <3>2. CASE ~(len < 1)
      <4>1. len \in Nat /\ 0 <= len
            BY <1>8, <3>2
      <4>2. Min({len, 0}) = 0
            BY <1>13, <4>1
      <4> QED
          BY <1>9, <1>12, <2>1, <3>2, <4>2
    <3> QED
        BY <3>1, <3>2
  <2>3. Torn(header, Message(a))
        BY <1>1, <1>4, PartTorn
  <2>4. r.header = header /\ r.length = len /\ r.body = <<>>
        BY <1>10, <2>2
  <2>5. Answered(a, r)
        BY <1>4, <1>8, <1>11, <1>12, <2>1, <2>3, <2>4 DEF Answered
  <2> QED
      BY <1>5, <1>9, <1>10, <2>5
<1>15. CASE HeaderEnds(got) # {}
  <2>1. PICK rest \in Text : /\ header = g /\ rest = AfterHeader(got) /\ Begins(rest, body)
                             /\ Len(rest) = Len(body) => rest = body
        BY <1>4, <1>15
  <2>2. PICK l \in Nat : l = Len(rest) /\ l <= k
    <3>1. PICK u \in Text : body = rest \o u
          BY <2>1 DEF Begins
    <3>2. Len(body) = Len(rest) + Len(u) /\ Len(rest) \in Nat /\ Len(u) \in Nat
          BY <3>1, JoinIs, TextIs
    <3> QED
        BY <1>8, <3>2
  <2>3. len = a.length
        BY <1>7, <2>1
  <2>4. content \in {<<>>, rest}
    <3>1. CASE len < 1
          BY <1>9, <3>1
    <3>2. CASE ~(len < 1)
      <4>1. len = k
            BY <1>8, <2>3, <3>2
      <4>2. Min({len, l}) = l
            BY <1>13, <2>2, <4>1
      <4>3. content = SubSeq(rest, 1, l)
            BY <1>9, <2>1, <2>2, <3>2, <4>2
      <4>4. SubSeq(rest, 1, l) = rest
        <5>1. l \in 0 .. Len(rest)
              BY <2>2
        <5>2. /\ SubSeq(rest, 1, l) \in Text /\ Len(SubSeq(rest, 1, l)) = l
              /\ \A i \in 1 .. l : SubSeq(rest, 1, l)[i] = rest[i]
              BY <5>1, PartIs
        <5> QED
            BY <2>2, <5>2, SeqEqual DEF Text
      <4> QED
          BY <4>3, <4>4
    <3> QED
        BY <3>1, <3>2
  <2>5. content \in Text /\ header \o content \in Text /\ Begins(header \o content, Message(a))
    <3>1. content \in Text
          BY <1>12, <2>4
    <3>2. Begins(content, body)
          BY <2>1, <2>4, BeginsAll
    <3>3. Begins(header \o content, header \o body)
          BY <1>4, <3>1, <3>2, BeginsBehind
    <3>4. Message(a) = header \o body
          BY <1>3, <2>1 DEF Message
    <3> QED
        BY <1>4, <3>1, <3>3, <3>4, JoinIs
  <2>6. len = Len(content) /\ content # <<>> => header \o content = Message(a)
    <3> SUFFICES ASSUME len = Len(content), content # <<>> PROVE header \o content = Message(a)
        OBVIOUS
    <3>1. content = rest
          BY <2>4
    <3>2. len # -1
          BY <2>2, <3>1
    <3>3. len = k
          BY <1>8, <3>2
    <3>4. rest = body
          BY <1>8, <2>1, <3>1, <3>3
    <3> QED
        BY <1>3, <2>1, <3>1, <3>4 DEF Message
  <2>7. Answered(a, r)
        BY <1>4, <1>11, <1>10, <2>3, <2>5, <2>6 DEF Answered, Torn
  <2> QED
      BY <1>5, <1>9, <1>10, <2>7
<1> QED
    BY <1>14, <1>15
-----------------------------------------------------------------------------
(* Every request and every answer                                          *)

\* read_headers keeps the types of what it fills in, whatever it is given.
LEMMA ReadTypes ==
    ASSUME NEW text \in Text, NEW type
    PROVE  ReadHeaders(text, type).http \in AnyHttp
<1> DEFINE R == {r \in Reading : Len(r.buffer) = Len(text)}
           X == [i \in 0 .. Len(text) |-> R]
<1>1. PICK length \in Nat : length = Len(text)
      BY TextIs
<1>2. Begin(text) \in R
  <2>1. NULL \in Text
        BY DEF NULL, Text, Token
  <2>2. NewHttpRequest \in AnyHttp
        BY <2>1 DEF NewHttpRequest, AnyHttp
  <2>3. Begin(text) \in Reading
        BY <2>2 DEF Begin, Reading, Ends
  <2>4. Begin(text).buffer = text
        BY DEF Begin
  <2> QED
      BY <2>3, <2>4
<1>3. ASSUME NEW i \in 1 .. Len(text), NEW r \in R PROVE Line(r, i, type) \in R
  <2>1. r \in Reading /\ i \in 1 .. Len(r.buffer)
        OBVIOUS
  <2>2. Parsed(r, i, type) \in Reading /\ Len(Parsed(r, i, type).buffer) = Len(r.buffer)
        BY <2>1, ParsedTypes
  <2>3. ReadLine(r, i, type) \in Reading /\ ReadLine(r, i, type).buffer = Parsed(r, i, type).buffer
        BY <2>1, <2>2, ReadLineIs
  <2> QED
      BY <2>1, <2>2, <2>3 DEF Line
<1> HIDE DEF R
<1>4. Begin(text) \in X[0] /\ \A i \in 1 .. Len(text) : \A r \in X[i - 1] : Line(r, i, type) \in X[i]
  <2>1. \A i \in 1 .. Len(text) : i \in 0 .. Len(text) /\ i - 1 \in 0 .. Len(text)
        BY <1>1
  <2>2. 0 \in 0 .. Len(text)
        BY <1>1
  <2> QED
      BY <1>2, <1>3, <2>1, <2>2
<1> HIDE DEF X
<1>5. ReadLines(text, type) \in X[Len(text)]
      BY <1>4, ReadLinesIn
<1>6. PICK r \in Reading : r = ReadLines(text, type)
  <2>1. Len(text) \in 0 .. Len(text)
        BY <1>1
  <2> QED
      BY <1>5, <2>1 DEF X, R
<1>7. ReadHeaders(text, type) = [end |-> IF r.end = "lines" THEN "ok" ELSE r.end, http |-> r.http]
      BY <1>6 DEF ReadHeaders, HeadersRead
<1> QED
    BY <1>7 DEF Reading

LEMMA AnswerIs ==
    ASSUME NEW a \in Answers
    PROVE  IsAnswer(a) /\ Message(a) \in Text /\ a # NoAnswer /\ AnswerText(a) = Message(a)
<1>1. IsAnswer(a) /\ IsMessage(a)
      BY HttpAssumption DEF IsAnswer
<1>2. PICK header \in Text, body \in Text : header = Header(a) /\ body = a.body
      BY <1>1, HeaderIs, RequestTypes
<1>3. Message(a) \in Text
  <2>1. header \o body \in Text
        BY JoinIs
  <2> QED
      BY <1>2, <2>1 DEF Message
<1>4. a # NoAnswer
  <2> SUFFICES ASSUME a = NoAnswer PROVE FALSE
      OBVIOUS
  <2>1. a.line = NULL
        BY DEF NoAnswer
  <2>2. DOMAIN a.line = 1 .. 3
        BY <1>1 DEF IsMessage
  <2>3. DOMAIN NULL = 1 .. 1
        BY DEF NULL
  <2> QED
      BY <2>1, <2>2, <2>3
<1> QED
    BY <1>1, <1>3, <1>4 DEF AnswerText

\* Of each request read there is a response; and what is read is of its type.
Paired ==
    /\ IsSequence(answer) /\ IsSequence(response)
    /\ Len(answer) = Len(thread) /\ Len(response) = Len(thread)

Typed ==
    /\ stream \in Text /\ reader \in {"reading", "stopped"} /\ worker \in {"alive", "crashed"}
    /\ \A k \in 1 .. Len(thread) :
         /\ thread[k] \in {"created", "forwarded", "answered", "failed"}
         /\ requests[k] \in AnyHttp
         /\ thread[k] \in {"forwarded", "answered"} => forwarded[k] # NULL

\* A thread has received nothing yet, or what belongs to its answer.
NotAnswered(step, a, r) ==
    a = NoAnswer /\ r = NoResponse /\ step \in {"created", "forwarded", "failed"}
HasAnswer(step, a, r) ==
    a \in Answers /\ Answered(a, r) /\ step \in {"answered", "failed"}

AsAnswered ==
    \A k \in 1 .. Len(thread) : \/ NotAnswered(thread[k], answer[k], response[k])
                                \/ HasAnswer(thread[k], answer[k], response[k])

\* The writer has sent all the answers before the one it is at; where it has stopped,
\* those and the beginning of the next.
AsSent ==
    /\ writer \in 0 .. Len(thread) + 1
    /\ writer # 0 => /\ \A j \in 1 .. writer - 1 : answer[j] \in Answers
                     /\ output = Sent(answer, writer - 1)
    /\ writer = 0 => \E n \in 1 .. Len(thread) : /\ \A j \in 1 .. n : answer[j] \in Answers
                                                /\ Torn(output, Sent(answer, n))

\* A session of requests that are well formed, without a body.
Plain(s) == \A k \in DOMAIN s : WellFormed(s[k]) /\ s[k].body = <<>>

ToTheEnd ==
    Plain(session) =>
        /\ Len(requests) <= Len(session)
        /\ stream = <<>> \/ stream = Remaining(session, Len(requests))
        /\ reader = "stopped" => stream = <<>>
        /\ worker = "alive"

AInv == IInv /\ Paired /\ Typed /\ AsAnswered /\ AsSent /\ ToTheEnd

LEMMA ThreadsAre ==
    ASSUME Shape, Paired
    PROVE  \E n \in Nat : /\ n = Len(thread) /\ n = Len(requests) /\ n = Len(forwarded)
                          /\ n = Len(answer) /\ n = Len(response)
                          /\ DOMAIN thread = 1 .. n /\ DOMAIN requests = 1 .. n
                          /\ DOMAIN forwarded = 1 .. n /\ DOMAIN answer = 1 .. n
                          /\ DOMAIN response = 1 .. n
<1>1. Len(thread) \in Nat /\ DOMAIN thread = 1 .. Len(thread)
      BY AppendIs DEF Shape
<1>2. DOMAIN requests = 1 .. Len(requests) /\ DOMAIN forwarded = 1 .. Len(forwarded)
      BY AppendIs DEF Shape
<1>3. DOMAIN answer = 1 .. Len(answer) /\ DOMAIN response = 1 .. Len(response)
      BY AppendIs DEF Paired
<1> QED
    BY <1>1, <1>2, <1>3 DEF Shape, Paired

LEMMA InitAInv == Init => AInv
<1> SUFFICES ASSUME Init PROVE AInv
    OBVIOUS
<1>1. IInv
      BY InitIInv
<1>2. /\ session \in Sessions /\ requests = <<>> /\ forwarded = <<>> /\ thread = <<>>
      /\ answer = <<>> /\ response = <<>> /\ writer = 1 /\ output = <<>>
      /\ reader = "reading" /\ worker = "alive"
      BY DEF Init
<1>3. Len(thread) = 0 /\ Len(answer) = 0 /\ Len(response) = 0 /\ Len(requests) = 0
      BY <1>2
<1>4. Paired
  <2>1. <<>> \in Seq({})
        OBVIOUS
  <2> QED
      BY <1>2, <1>3, <2>1 DEF Paired, IsSequence
<1>5. stream = Remaining(session, 0)
  <2>1. PICK length \in Nat : length = Len(session) /\ DOMAIN session = 1 .. length
        BY <1>2, SessionIs
  <2>2. length - 0 = length /\ \A k \in 1 .. length : 0 + k = k
        OBVIOUS
  <2>3. [k \in DOMAIN session |-> Message(session[k])] = [k \in 1 .. length - 0 |-> Message(session[0 + k])]
        BY <2>1, <2>2
  <2>4. stream = FlattenSeq([k \in DOMAIN session |-> Message(session[k])])
        BY DEF Init
  <2> QED
      BY <2>1, <2>3, <2>4 DEF Remaining, Rest
<1>6. stream \in Text /\ Len(session) \in Nat
  <2>1. Len(session) \in Nat
        BY <1>2, SessionIs
  <2>2. 0 <= Len(session) /\ 0 \in Nat
        BY <2>1
  <2>3. CASE Remaining(session, 0) = <<>>
    <3>1. <<>> \in Text
          BY DEF Text
    <3> QED
        BY <1>5, <2>1, <2>3, <3>1, Zenon
  <2>4. CASE /\ 0 < Len(session) /\ Remaining(session, 0 + 1) \in Text
             /\ Remaining(session, 0) =
                  Header(session[0 + 1]) \o (session[0 + 1].body \o Remaining(session, 0 + 1))
    <3>1. IsMessage(session[1])
      <4>1. 1 \in 1 .. Len(session)
            BY <2>1, <2>4
      <4> QED
          BY <1>2, <4>1, SessionIs
    <3>2. Header(session[1]) \in Text /\ session[1].body \in Text
          BY <3>1, HeaderIs, RequestTypes
    <3>3. session[1].body \o Remaining(session, 1) \in Text
          BY <2>4, <3>2, JoinIs
    <3>4. Header(session[1]) \o (session[1].body \o Remaining(session, 1)) \in Text
          BY <3>2, <3>3, JoinIs
    <3>5. 0 + 1 = 1
          OBVIOUS
    <3>6. Remaining(session, 0) \in Text
          BY <2>4, <3>4, <3>5
    <3> QED
        BY <1>5, <2>1, <3>6, Zenon
  <2> QED
      BY <1>2, <2>2, <2>3, <2>4, RemainingIs
<1>7. Typed /\ AsAnswered
      BY <1>2, <1>3, <1>6 DEF Typed, AsAnswered
<1>8. AsSent
  <2>1. [k \in 1 .. 0 |-> AnswerText(answer[k])] = <<>>
        OBVIOUS
  <2>2. Sent(answer, 0) = <<>>
        BY <2>1 DEF Sent, FlattenSeq
  <2>3. writer - 1 = 0 /\ writer \in 0 .. Len(thread) + 1 /\ \A j \in 1 .. 0 : FALSE
        BY <1>2, <1>3
  <2> QED
      BY <1>2, <2>2, <2>3 DEF AsSent
<1>9. ToTheEnd
      BY <1>2, <1>3, <1>5, <1>6 DEF ToTheEnd
<1> QED
    BY <1>1, <1>4, <1>7, <1>8, <1>9 DEF AInv

LEMMA AsSentKeeps ==
    ASSUME AInv, writer' = writer, output' = output,
           Len(thread') \in Nat, Len(thread) <= Len(thread'),
           \A j \in 1 .. Len(thread) : answer[j] \in Answers => answer'[j] = answer[j]
    PROVE  AsSent'
<1>1. PICK n \in Nat, more \in Nat, w \in Int :
         n = Len(thread) /\ more = Len(thread') /\ n <= more /\ w = writer /\ w \in 0 .. n + 1
  <2>1. Len(thread) \in Nat
        BY AppendIs DEF AInv, IInv, Shape
  <2> QED
      BY <2>1 DEF AInv, AsSent
<1>2. PICK new : new = answer' /\ \A j \in 1 .. n : answer[j] \in Answers => new[j] = answer[j]
      BY <1>1
<1>3. CASE w # 0
  <2>1. output = Sent(answer, w - 1) /\ \A j \in 1 .. w - 1 : answer[j] \in Answers
        BY <1>1, <1>3 DEF AInv, AsSent
  <2>2. w - 1 \in Nat /\ \A j \in 1 .. w - 1 : j \in 1 .. n
        BY <1>1, <1>3
  <2>3. \A j \in 1 .. w - 1 : new[j] \in Answers /\ new[j] = answer[j]
        BY <1>2, <2>1, <2>2
  <2>4. Sent(new, w - 1) = Sent(answer, w - 1)
        BY <2>2, <2>3, SentSame
  <2>5. w \in 0 .. more + 1
        BY <1>1
  <2> QED
      BY <1>1, <1>2, <1>3, <2>1, <2>3, <2>4, <2>5 DEF AsSent
<1>4. CASE w = 0
  <2>1. PICK m \in 1 .. n : (\A j \in 1 .. m : answer[j] \in Answers) /\ Torn(output, Sent(answer, m))
        BY <1>1, <1>4 DEF AInv, AsSent
  <2>2. m \in Nat /\ m \in 1 .. more /\ \A j \in 1 .. m : j \in 1 .. n
        BY <1>1
  <2>3. \A j \in 1 .. m : new[j] \in Answers /\ new[j] = answer[j]
        BY <1>2, <2>1, <2>2
  <2>4. Sent(new, m) = Sent(answer, m)
        BY <2>2, <2>3, SentSame
  <2>5. Torn(output, Sent(new, m))
        BY <2>1, <2>4
  <2>6. w \in 0 .. more + 1
        BY <1>1
  <2> QED
      BY <1>1, <1>2, <1>4, <2>2, <2>3, <2>5, <2>6 DEF AsSent
<1> QED
    BY <1>3, <1>4

\* read_work, at a request that is well formed and has no body, or behind the last.
LEMMA PlainRead ==
    ASSUME IInv, ToTheEnd, Plain(session),
           NEW got \in Received(stream), NEW h \in HeaderRead(got, RQST)
    PROVE  /\ ~Crashes(h) /\ (~Parses(h) => HeaderEnds(got) = {})
           /\ Parses(h) => /\ Len(requests) < Len(session)
                           /\ HeaderEnds(got) # {} =>
                                AfterHeader(got) = Remaining(session, Len(requests) + 1)
<1>1. PICK n \in Nat : n = Len(requests) /\ n <= Len(session)
  <2>1. Len(requests) \in Nat
        BY AppendIs DEF IInv, Shape
  <2> QED
      BY <2>1 DEF ToTheEnd
<1>2. session \in Sessions
      BY DEF IInv, Shape
<1>3. HeaderEnds(<<>>) = {} /\ HeaderLength(<<>>) = 0
  <2>1. HeaderEnds(<<>>) = {}
        BY HeaderEndsAt DEF EndsAt
  <2> QED
      BY <2>1 DEF HeaderLength
<1>4. PICK header \in Headers(got) : h = [header |-> header, read |-> ReadHeaders(header, RQST),
                                          received |-> got # <<>>]
      BY DEF HeaderRead
<1>5. h.received = (got # <<>>) /\ h.read = ReadHeaders(header, RQST)
      BY <1>4
<1>6. CASE got = <<>>
      BY <1>3, <1>5, <1>6 DEF Parses, Crashes
<1>7. CASE got # <<>>
  <2>1. stream # <<>>
    <3> SUFFICES ASSUME stream = <<>> PROVE FALSE
        OBVIOUS
    <3>1. got = <<>>
          BY <1>3 DEF Received
    <3> QED
        BY <1>7, <3>1
  <2>2. stream = Remaining(session, n)
        BY <1>1, <2>1 DEF ToTheEnd
  <2>3. /\ n < Len(session) /\ Remaining(session, n + 1) \in Text
        /\ Remaining(session, n) = Header(session[n + 1]) \o (session[n + 1].body \o Remaining(session, n + 1))
        /\ session[n + 1].body = <<>> =>
             session[n + 1].body \o Remaining(session, n + 1) = Remaining(session, n + 1)
        BY <1>1, <1>2, <2>1, <2>2, RemainingIs
  <2>4. PICK m : m = session[n + 1] /\ IsMessage(m) /\ WellFormed(m) /\ m.body = <<>>
    <3>1. Len(session) \in Nat /\ DOMAIN session = 1 .. Len(session)
          BY <1>2, SessionIs
    <3>2. n + 1 \in 1 .. Len(session)
          BY <2>3, <3>1
    <3>3. IsMessage(session[n + 1])
          BY <1>2, <3>2, SessionIs
    <3> QED
        BY <3>1, <3>2, <3>3 DEF Plain
  <2>5. PICK rest \in Text : rest = Remaining(session, n + 1) /\ stream = Header(m) \o rest
        BY <2>2, <2>3, <2>4
  <2>6. PartOf(m, header) /\ (HeaderEnds(got) # {} => AfterHeader(got) = rest)
    <3>1. IsMessage(m) /\ stream = Header(m) \o rest
          BY <2>4, <2>5
    <3> QED
        BY ONLY rest \in Text, got \in Received(stream), header \in Headers(got), <3>1, HeaderTaken
  <2>7. ReadHeaders(header, RQST).end = "ok"
        BY <2>4, <2>6, HeaderLinesRead
  <2> QED
      BY <1>1, <1>5, <1>7, <2>3, <2>5, <2>6, <2>7 DEF Parses, Crashes
<1> QED
    BY <1>6, <1>7

LEMMA ReceiveRequestAInv ==
    ASSUME AInv, ReceiveRequest
    PROVE  AInv'
<1>1. IInv'
      BY ReceiveRequestIInv DEF AInv
<1>2. PICK got \in Received(stream), h \in UNION {HeaderRead(g, RQST) : g \in Received(stream)} :
        LET With(s, x) == IF Parses(h) THEN Append(s, x) ELSE s
        IN  /\ h \in HeaderRead(got, RQST)
            /\ stream' = IF HeaderEnds(got) = {} THEN <<>> ELSE AfterHeader(got)
            /\ worker' = IF Crashes(h) THEN "crashed" ELSE worker
            /\ reader' = IF Parses(h) THEN reader ELSE "stopped"
            /\ requests' = With(requests, h.read.http)
            /\ thread' = With(thread, "created")
            /\ forwarded' = With(forwarded, NULL)
            /\ answer' = With(answer, NoAnswer)
            /\ response' = With(response, NoResponse)
            /\ session' = session /\ reader = "reading"
            /\ writer' = writer /\ output' = output
      BY DEF ReceiveRequest
<1>3. PICK n \in Nat : /\ n = Len(thread) /\ n = Len(requests) /\ n = Len(forwarded)
                       /\ n = Len(answer) /\ n = Len(response)
      BY ThreadsAre DEF AInv, IInv
<1>4. stream' \in Text /\ h.read.http \in AnyHttp
  <2>1. got \in Text
        BY ReceivedText DEF AInv, Typed
  <2>2. PICK header \in Headers(got) : h = [header |-> header, read |-> ReadHeaders(header, RQST),
                                            received |-> got # <<>>]
        BY <1>2 DEF HeaderRead
  <2>3. header \in Text /\ AfterHeader(got) \in Text
        BY <2>1, HeadersAre
  <2>4. h.read.http \in AnyHttp
        BY <2>2, <2>3, ReadTypes
  <2>5. <<>> \in Text
        BY DEF Text
  <2> QED
      BY <1>2, <2>3, <2>4, <2>5
<1>5. ToTheEnd'
  <2> SUFFICES ASSUME Plain(session)
               PROVE  /\ Len(requests') <= Len(session)
                      /\ stream' = <<>> \/ stream' = Remaining(session, Len(requests'))
                      /\ reader' = "stopped" => stream' = <<>>
                      /\ worker' = "alive"
      BY <1>2 DEF ToTheEnd
  <2>1. /\ ~Crashes(h) /\ (~Parses(h) => HeaderEnds(got) = {})
        /\ Parses(h) => /\ n < Len(session)
                        /\ HeaderEnds(got) # {} => AfterHeader(got) = Remaining(session, n + 1)
    <3>1. h \in HeaderRead(got, RQST)
          BY <1>2
    <3> QED
        BY <1>3, <3>1, PlainRead DEF AInv
  <2>2. worker' = "alive"
        BY <1>2, <2>1 DEF AInv, ToTheEnd
  <2>3. CASE Parses(h)
    <3>1. requests' = Append(requests, h.read.http)
          BY <1>2, <2>3
    <3>2. Len(requests') = n + 1
          BY <1>3, <3>1, AppendIs DEF AInv, IInv, Shape
    <3>3. Len(session) \in Nat
          BY SessionIs DEF AInv, IInv, Shape
    <3> QED
        BY <1>2, <2>1, <2>2, <2>3, <3>2, <3>3
  <2>4. CASE ~Parses(h)
        BY <1>2, <2>1, <2>2, <2>4 DEF AInv, ToTheEnd
  <2> QED
      BY <2>3, <2>4
<1>6. CASE ~Parses(h)
  <2>1. /\ requests' = requests /\ thread' = thread /\ forwarded' = forwarded /\ answer' = answer
        /\ response' = response /\ reader' = "stopped" /\ worker' \in {"alive", "crashed"}
        BY <1>2, <1>6 DEF AInv, Typed
  <2>2. Paired' /\ Typed' /\ AsAnswered'
        BY <1>4, <2>1 DEF AInv, Paired, Typed, AsAnswered
  <2>3. AsSent'
        BY <1>2, <2>1 DEF AInv, AsSent
  <2> QED
      BY <1>1, <1>5, <2>2, <2>3 DEF AInv
<1>7. CASE Parses(h)
  <2>1. /\ requests' = Append(requests, h.read.http) /\ thread' = Append(thread, "created")
        /\ forwarded' = Append(forwarded, NULL) /\ answer' = Append(answer, NoAnswer)
        /\ response' = Append(response, NoResponse) /\ reader' = reader
        /\ worker' \in {"alive", "crashed"}
        BY <1>2, <1>7 DEF AInv, Typed
  <2>2. /\ Len(thread') = n + 1 /\ thread'[n + 1] = "created" /\ \A k \in 1 .. n : thread'[k] = thread[k]
        BY <1>3, <2>1, AppendIs DEF AInv, IInv, Shape
  <2>3. /\ requests'[n + 1] = h.read.http /\ \A k \in 1 .. n : requests'[k] = requests[k]
    <3>1. PICK http : http = h.read.http /\ requests' = Append(requests, http)
          BY <2>1
    <3>2. IsSequence(requests) /\ Len(requests) = n
          BY <1>3 DEF AInv, IInv, Shape
    <3>3. /\ Append(requests, http)[Len(requests) + 1] = http
          /\ \A k \in 1 .. Len(requests) : Append(requests, http)[k] = requests[k]
          BY <3>2, AppendIs
    <3> QED
        BY <3>1, <3>2, <3>3
  <2>4. \A k \in 1 .. n : forwarded'[k] = forwarded[k]
        BY <1>3, <2>1, AppendIs DEF AInv, IInv, Shape
  <2>5. /\ IsSequence(answer') /\ Len(answer') = n + 1 /\ answer'[n + 1] = NoAnswer
        /\ \A k \in 1 .. n : answer'[k] = answer[k]
        BY <1>3, <2>1, AppendIs DEF AInv, Paired
  <2>6. /\ IsSequence(response') /\ Len(response') = n + 1 /\ response'[n + 1] = NoResponse
        /\ \A k \in 1 .. n : response'[k] = response[k]
        BY <1>3, <2>1, AppendIs DEF AInv, Paired
  <2>7. Paired'
        BY <2>2, <2>5, <2>6 DEF Paired
  <2>8. \A k \in 1 .. n + 1 : k \in 1 .. n \/ k = n + 1
        OBVIOUS
  <2>9. Typed'
    <3>1. \A k \in 1 .. n + 1 : /\ thread'[k] \in {"created", "forwarded", "answered", "failed"}
                                /\ requests'[k] \in AnyHttp
                                /\ thread'[k] \in {"forwarded", "answered"} => forwarded'[k] # NULL
          BY <1>3, <1>4, <2>2, <2>3, <2>4, <2>8 DEF AInv, Typed
    <3> QED
        BY <1>4, <2>1, <2>2, <3>1 DEF AInv, Typed
  <2>10. AsAnswered'
    <3>1. ASSUME NEW k \in 1 .. n + 1
          PROVE  \/ NotAnswered(thread'[k], answer'[k], response'[k])
                 \/ HasAnswer(thread'[k], answer'[k], response'[k])
      <4>1. CASE k \in 1 .. n
            BY <1>3, <2>2, <2>5, <2>6, <4>1 DEF AInv, AsAnswered
      <4>2. CASE k = n + 1
            BY <2>2, <2>5, <2>6, <4>2 DEF NotAnswered
      <4> QED
          BY <2>8, <4>1, <4>2
    <3> QED
        BY <2>2, <3>1 DEF AsAnswered
  <2>11. AsSent'
    <3>1. /\ Len(thread') \in Nat /\ Len(thread) <= Len(thread')
          /\ \A j \in 1 .. Len(thread) : answer[j] \in Answers => answer'[j] = answer[j]
          BY <1>3, <2>2, <2>5
    <3> QED
        BY <1>2, <3>1, AsSentKeeps
  <2> QED
      BY <1>1, <1>5, <2>7, <2>9, <2>10, <2>11 DEF AInv
<1> QED
    BY <1>6, <1>7

LEMMA ForwardRequestAInv ==
    ASSUME AInv, NEW k \in DOMAIN thread, ForwardRequest(k)
    PROVE  AInv'
<1>1. IInv'
      BY ForwardRequestIInv DEF AInv
<1>2. PICK text, step : /\ text = MakeSimpleRequest(requests[k], Host) /\ thread[k] = "created"
                        /\ step = IF text = NULL THEN "failed" ELSE "forwarded"
                        /\ thread' = [thread EXCEPT ![k] = step]
                        /\ forwarded' = [forwarded EXCEPT ![k] = text]
                        /\ session' = session /\ stream' = stream /\ reader' = reader
                        /\ worker' = worker /\ requests' = requests /\ answer' = answer
                        /\ response' = response /\ writer' = writer /\ output' = output
      BY DEF ForwardRequest
<1>3. PICK n \in Nat : /\ n = Len(thread) /\ n = Len(answer) /\ n = Len(response)
                       /\ DOMAIN thread = 1 .. n /\ DOMAIN forwarded = 1 .. n
      BY ThreadsAre DEF AInv, IInv
<1>4. Len(thread') = n /\ \A i \in 1 .. n : thread'[i] = IF i = k THEN step ELSE thread[i]
      BY <1>2, <1>3, ExceptIs DEF AInv, IInv, Shape
<1>5. \A i \in 1 .. n : forwarded'[i] = IF i = k THEN text ELSE forwarded[i]
      BY <1>2, <1>3, ExceptIs DEF AInv, IInv, Shape
<1>6. Paired'
      BY <1>2, <1>3, <1>4 DEF AInv, Paired
<1>7. Typed'
  <2>1. \A i \in 1 .. n : /\ thread'[i] \in {"created", "forwarded", "answered", "failed"}
                          /\ requests[i] \in AnyHttp
                          /\ thread'[i] \in {"forwarded", "answered"} => forwarded'[i] # NULL
        BY <1>2, <1>3, <1>4, <1>5 DEF AInv, Typed
  <2> QED
      BY <1>2, <1>4, <2>1 DEF AInv, Typed
<1>8. AsAnswered'
  <2>1. ASSUME NEW i \in 1 .. n
        PROVE  \/ NotAnswered(thread'[i], answer[i], response[i])
               \/ HasAnswer(thread'[i], answer[i], response[i])
    <3>1. \/ NotAnswered(thread[i], answer[i], response[i])
          \/ HasAnswer(thread[i], answer[i], response[i])
          BY <1>3 DEF AInv, AsAnswered
    <3>2. CASE i = k
          BY <1>2, <1>4, <3>1, <3>2 DEF NotAnswered, HasAnswer
    <3>3. CASE i # k
          BY <1>4, <3>1, <3>3
    <3> QED
        BY <3>2, <3>3
  <2> QED
      BY <1>2, <1>4, <2>1 DEF AsAnswered
<1>9. AsSent'
  <2>1. Len(thread') \in Nat /\ Len(thread) <= Len(thread')
        BY <1>3, <1>4
  <2> QED
      BY <1>2, <2>1, AsSentKeeps
<1>10. ToTheEnd'
       BY <1>2 DEF AInv, ToTheEnd
<1> QED
    BY <1>1, <1>6, <1>7, <1>8, <1>9, <1>10 DEF AInv

LEMMA ReceiveResponseAInv ==
    ASSUME AInv, NEW k \in DOMAIN thread, ReceiveResponse(k)
    PROVE  AInv'
<1>1. IInv'
  <2>1. ReceiveResponse(k) => Next
        BY DEF Next
  <2> QED
      BY <2>1, StepIInv DEF AInv
<1>2. PICK a, got, h :
        /\ a \in Answers /\ got \in Received(Message(a)) \cup {SubSeq(Message(a), 1, Len(Message(a)) - 1)}
        /\ h \in HeaderRead(got, RESP) /\ thread[k] = "forwarded"
        /\ answer' = [answer EXCEPT ![k] = a]
        /\ response' = [response EXCEPT ![k] =
                          [header |-> h.header, length |-> h.read.http.req_content_len,
                           body |-> Body(got, h.read)]]
        /\ thread' = [thread EXCEPT ![k] = IF Parses(h) THEN "answered" ELSE "failed"]
        /\ worker' = IF Crashes(h) THEN "crashed" ELSE worker
        /\ session' = session /\ stream' = stream /\ reader' = reader /\ requests' = requests
        /\ forwarded' = forwarded /\ writer' = writer /\ output' = output
  <2>1. /\ session' = session /\ stream' = stream /\ reader' = reader /\ requests' = requests
        /\ forwarded' = forwarded /\ writer' = writer /\ output' = output /\ thread[k] = "forwarded"
        BY DEF ReceiveResponse
  <2> QED
      BY <2>1 DEF ReceiveResponse
<1>3. PICK r, step : /\ response' = [response EXCEPT ![k] = r] /\ Answered(a, r) /\ ~Crashes(h)
                     /\ thread' = [thread EXCEPT ![k] = step] /\ step \in {"answered", "failed"}
  <2>1. IsAnswer(a)
        BY <1>2, AnswerIs
  <2>2. /\ h.read.end = "ok"
        /\ Answered(a, [header |-> h.header, length |-> h.read.http.req_content_len,
                        body |-> Body(got, h.read)])
        BY <1>2, <2>1, ResponseIs
  <2>3. ~Crashes(h)
        BY <2>2 DEF Crashes
  <2> QED
      BY <1>2, <2>2, <2>3
<1>4. PICK n \in Nat : /\ n = Len(thread) /\ n = Len(answer) /\ n = Len(response)
                       /\ DOMAIN thread = 1 .. n /\ DOMAIN answer = 1 .. n /\ DOMAIN response = 1 .. n
      BY ThreadsAre DEF AInv, IInv
<1>5. Len(thread') = n /\ \A i \in 1 .. n : thread'[i] = IF i = k THEN step ELSE thread[i]
      BY <1>3, <1>4, ExceptIs DEF AInv, IInv, Shape
<1>6. /\ IsSequence(answer') /\ Len(answer') = n
      /\ \A i \in 1 .. n : answer'[i] = IF i = k THEN a ELSE answer[i]
      BY <1>2, <1>4, ExceptIs DEF AInv, Paired
<1>7. /\ IsSequence(response') /\ Len(response') = n
      /\ \A i \in 1 .. n : response'[i] = IF i = k THEN r ELSE response[i]
      BY <1>3, <1>4, ExceptIs DEF AInv, Paired
<1>8. worker' = worker
      BY <1>2, <1>3
<1>9. Paired'
      BY <1>5, <1>6, <1>7 DEF Paired
<1>10. Typed'
  <2>1. \A i \in 1 .. n : /\ thread'[i] \in {"created", "forwarded", "answered", "failed"}
                          /\ requests[i] \in AnyHttp
                          /\ thread'[i] \in {"forwarded", "answered"} => forwarded[i] # NULL
    <3> SUFFICES ASSUME NEW i \in 1 .. n
                 PROVE  /\ thread'[i] \in {"created", "forwarded", "answered", "failed"}
                        /\ requests[i] \in AnyHttp
                        /\ thread'[i] \in {"forwarded", "answered"} => forwarded[i] # NULL
        OBVIOUS
    <3>1. /\ thread[i] \in {"created", "forwarded", "answered", "failed"}
          /\ requests[i] \in AnyHttp
          /\ thread[i] \in {"forwarded", "answered"} => forwarded[i] # NULL
          BY <1>4 DEF AInv, Typed
    <3>2. CASE i = k
          BY <1>2, <1>3, <1>5, <3>1, <3>2
    <3>3. CASE i # k
          BY <1>5, <3>1, <3>3
    <3> QED
        BY <3>2, <3>3
  <2> QED
      BY <1>2, <1>5, <1>8, <2>1 DEF AInv, Typed
<1>11. AsAnswered'
  <2>1. ASSUME NEW i \in 1 .. n
        PROVE  \/ NotAnswered(thread'[i], answer'[i], response'[i])
               \/ HasAnswer(thread'[i], answer'[i], response'[i])
    <3>1. CASE i = k
          BY <1>2, <1>3, <1>5, <1>6, <1>7, <3>1 DEF HasAnswer
    <3>2. CASE i # k
          BY <1>4, <1>5, <1>6, <1>7, <3>2 DEF AInv, AsAnswered
    <3> QED
        BY <3>1, <3>2
  <2> QED
      BY <1>5, <2>1 DEF AsAnswered
<1>12. AsSent'
  <2>1. answer[k] \notin Answers
    <3>1. \/ NotAnswered(thread[k], answer[k], response[k])
          \/ HasAnswer(thread[k], answer[k], response[k])
          BY <1>4 DEF AInv, AsAnswered
    <3>2. answer[k] = NoAnswer
          BY <1>2, <3>1 DEF NotAnswered, HasAnswer
    <3> QED
        BY <3>2, AnswerIs
  <2>2. /\ Len(thread') \in Nat /\ Len(thread) <= Len(thread')
        /\ \A j \in 1 .. Len(thread) : answer[j] \in Answers => answer'[j] = answer[j]
        BY <1>4, <1>5, <1>6, <2>1
  <2> QED
      BY <1>2, <2>2, AsSentKeeps
<1>13. ToTheEnd'
       BY <1>2, <1>8 DEF AInv, ToTheEnd
<1> QED
    BY <1>1, <1>9, <1>10, <1>11, <1>12, <1>13 DEF AInv

LEMMA TornBehind ==
    ASSUME NEW s \in Text, NEW text, NEW t, Torn(text, t)
    PROVE  Torn(s \o text, s \o t)
<1>1. CASE text \in Text /\ Begins(text, t)
  <2>1. s \o text \in Text /\ Begins(s \o text, s \o t)
        BY <1>1, JoinIs, BeginsBehind
  <2> QED
      BY <2>1 DEF Torn
<1>2. ASSUME NEW front \in Text, text = Append(front, Unwritten), Begins(front, t)
      PROVE  Torn(s \o text, s \o t)
  <2>1. s \o front \in Text /\ Begins(s \o front, s \o t)
        BY <1>2, JoinIs, BeginsBehind
  <2>2. PICK c \in Token : c = Unwritten
        BY Zenon DEF Unwritten, Token
  <2>3. PICK one \in Seq(Token) : one = <<c>>
    <3>1. <<c>> \in Seq(Token)
          BY ONLY c \in Token
    <3> QED
        BY <3>1
  <2>4. PICK a \in Seq(Token), b \in Seq(Token) : a = s /\ b = front
        BY DEF Text
  <2>5. (a \o b) \o one = a \o (b \o one)
        BY ONLY a \in Seq(Token), b \in Seq(Token), one \in Seq(Token), ConcatAssociative
  <2>6. Append(b, c) = b \o one /\ Append(a \o b, c) = (a \o b) \o one
    <3>1. a \o b \in Seq(Token)
          BY <2>1, <2>4 DEF Text
    <3> QED
        BY <2>3, <3>1, AppendIsConcat
  <2>7. s \o text = Append(s \o front, Unwritten)
        BY <1>2, <2>2, <2>4, <2>5, <2>6
  <2> QED
      BY <2>1, <2>7 DEF Torn
<1> QED
    BY <1>1, <1>2 DEF Torn

LEMMA SendResponseAInv ==
    ASSUME AInv, SendResponse
    PROVE  AInv'
<1>1. IInv'
  <2>1. SendResponse => Next
        BY DEF Next
  <2> QED
      BY <2>1, StepIInv DEF AInv
<1>2. /\ writer \in DOMAIN response /\ response[writer].header # NULL
      /\ output' = output \o response[writer].header \o response[writer].body
      /\ writer' = IF response[writer].length = Len(response[writer].body)
                      /\ response[writer].body # <<>>
                   THEN writer + 1 ELSE 0
      /\ session' = session /\ stream' = stream /\ reader' = reader /\ worker' = worker
      /\ requests' = requests /\ thread' = thread /\ forwarded' = forwarded
      /\ answer' = answer /\ response' = response
      BY DEF SendResponse
<1>3. Paired' /\ Typed' /\ AsAnswered' /\ ToTheEnd'
      BY <1>2 DEF AInv, Paired, Typed, AsAnswered, ToTheEnd
<1>4. PICK n \in Nat, w \in Nat : /\ n = Len(thread) /\ w = writer /\ w \in 1 .. n
                                  /\ DOMAIN response = 1 .. n
  <2>1. \E n \in Nat : n = Len(thread) /\ DOMAIN response = 1 .. n
        BY ThreadsAre DEF AInv, IInv
  <2> QED
      BY <1>2, <2>1
<1>5. PICK a, r : a \in Answers /\ a = answer[w] /\ r = response[w] /\ Answered(a, r)
  <2>1. \/ NotAnswered(thread[w], answer[w], response[w])
        \/ HasAnswer(thread[w], answer[w], response[w])
        BY <1>4 DEF AInv, AsAnswered
  <2>2. response[w] # NoResponse
        BY <1>2, <1>4 DEF NoResponse
  <2> QED
      BY <2>1, <2>2 DEF NotAnswered, HasAnswer
<1>6. output = Sent(answer, w - 1) /\ \A j \in 1 .. w - 1 : answer[j] \in Answers
      BY <1>4 DEF AInv, AsSent
<1>7. \A j \in 1 .. w : answer[j] \in Answers
  <2>1. \A j \in 1 .. w : j = w \/ j \in 1 .. w - 1
        BY <1>4
  <2> QED
      BY <1>5, <1>6, <2>1
<1>8. PICK before \in Text : before = output /\ Sent(answer, w) = before \o Message(a)
  <2>1. w - 1 \in Nat /\ (w - 1) + 1 = w
        BY <1>4
  <2>2. \A j \in 1 .. (w - 1) + 1 : AnswerText(answer[j]) \in Text
        BY <1>7, <2>1, AnswerIs
  <2>3. Sent(answer, w - 1) \in Text
        BY <2>1, <2>2, SentNext
  <2>4. Sent(answer, (w - 1) + 1) = Sent(answer, w - 1) \o AnswerText(answer[(w - 1) + 1])
        BY <2>1, <2>2, SentNext
  <2>5. AnswerText(a) = Message(a)
        BY <1>5, AnswerIs
  <2> QED
      BY <1>5, <1>6, <2>1, <2>3, <2>4, <2>5
<1>9. PICK header \in Text, body \in Text : header = r.header /\ body = r.body
      BY <1>5 DEF Answered
<1>10. output' = before \o (header \o body)
  <2>1. output' = (before \o header) \o body
        BY <1>2, <1>4, <1>5, <1>8, <1>9
  <2>2. PICK x \in Seq(Token), y \in Seq(Token), z \in Seq(Token) : x = before /\ y = header /\ z = body
        BY DEF Text
  <2>3. (x \o y) \o z = x \o (y \o z)
        BY ONLY x \in Seq(Token), y \in Seq(Token), z \in Seq(Token), ConcatAssociative
  <2> QED
      BY <2>1, <2>2, <2>3
<1>11. AsSent'
  <2>1. CASE r.length = Len(r.body) /\ r.body # <<>>
    <3>1. header \o body = Message(a)
          BY <1>5, <1>9, <2>1 DEF Answered
    <3>2. output' = Sent(answer, w) /\ writer' = w + 1
          BY <1>2, <1>4, <1>5, <1>8, <1>10, <2>1, <3>1
    <3>3. w + 1 \in 0 .. n + 1 /\ w + 1 # 0 /\ (w + 1) - 1 = w
          BY <1>4
    <3> QED
        BY <1>2, <1>4, <1>7, <3>2, <3>3 DEF AsSent
  <2>2. CASE ~(r.length = Len(r.body) /\ r.body # <<>>)
    <3>1. writer' = 0
          BY <1>2, <1>4, <1>5, <2>2
    <3>2. Torn(header \o body, Message(a))
          BY <1>5, <1>9 DEF Answered
    <3>3. Torn(output', Sent(answer, w))
          BY <1>8, <1>10, <3>2, TornBehind
    <3>4. 0 \in 0 .. n + 1
          BY <1>4
    <3> QED
        BY <1>2, <1>4, <1>7, <3>1, <3>3, <3>4 DEF AsSent
  <2> QED
      BY <2>1, <2>2
<1> QED
    BY <1>1, <1>3, <1>11 DEF AInv

LEMMA StepAInv == AInv /\ [Next]_vars => AInv'
<1> SUFFICES ASSUME AInv, [Next]_vars PROVE AInv'
    OBVIOUS
<1>1. CASE ReceiveRequest
      BY <1>1, ReceiveRequestAInv
<1>2. ASSUME NEW k \in DOMAIN thread, ForwardRequest(k) PROVE AInv'
      BY <1>2, ForwardRequestAInv
<1>3. ASSUME NEW k \in DOMAIN thread, ReceiveResponse(k) PROVE AInv'
      BY <1>3, ReceiveResponseAInv
<1>4. CASE SendResponse
      BY <1>4, SendResponseAInv
<1>5. CASE UNCHANGED vars
  <2>1. IInv'
        BY StepIInv DEF AInv
  <2>2. Paired' /\ Typed' /\ AsAnswered'
        BY <1>5 DEF vars, AInv, Paired, Typed, AsAnswered
  <2>3. AsSent' /\ ToTheEnd'
        BY <1>5 DEF vars, AInv, AsSent, ToTheEnd
  <2> QED
      BY <2>1, <2>2, <2>3 DEF AInv
<1> QED
    BY <1>1, <1>2, <1>3, <1>4, <1>5 DEF Next

\* Every reachable state satisfies AInv.
LEMMA Invariance == Spec => []AInv
BY InitAInv, StepAInv, PTL DEF Spec

LEMMA AnswersAre ==
    ASSUME AInv, NEW k \in 1 .. Len(thread)
    PROVE  /\ AnswerText(answer[k]) \in Text
           /\ thread[k] = "answered" => Answered(answer[k], response[k])
<1>1. \/ NotAnswered(thread[k], answer[k], response[k])
      \/ HasAnswer(thread[k], answer[k], response[k])
      BY DEF AInv, AsAnswered
<1>2. <<>> \in Text
      BY DEF Text
<1>3. CASE NotAnswered(thread[k], answer[k], response[k])
      BY <1>2, <1>3 DEF NotAnswered, AnswerText
<1>4. CASE HasAnswer(thread[k], answer[k], response[k])
      BY <1>4, AnswerIs DEF HasAnswer
<1> QED
    BY <1>1, <1>3, <1>4

LEMMA OutputText == AInv => output \in Text
<1> SUFFICES ASSUME AInv PROVE output \in Text
    OBVIOUS
<1>1. PICK n \in Nat : n = Len(thread)
      BY ThreadsAre DEF AInv, IInv
<1>2. \A k \in 1 .. n : AnswerText(answer[k]) \in Text
      BY <1>1, AnswersAre
<1>3. CASE writer # 0
  <2>1. writer - 1 \in 0 .. n /\ output = Sent(answer, writer - 1)
        BY <1>1, <1>3 DEF AInv, AsSent
  <2>2. Sent(answer, writer - 1) \in Text
        BY <1>2, <2>1, SentBegins
  <2> QED
      BY <2>1, <2>2
<1>4. CASE writer = 0
  <2>1. PICK t : Torn(output, t)
        BY <1>4 DEF AInv, AsSent
  <2>2. ASSUME NEW front \in Text, output = Append(front, Unwritten) PROVE output \in Text
    <3>1. PICK c \in Token : c = Unwritten
          BY Zenon DEF Unwritten, Token
    <3> QED
        BY <2>2, <3>1 DEF Text
  <2> QED
      BY <2>1, <2>2 DEF Torn
<1> QED
    BY <1>3, <1>4

LEMMA AInvTypeOK == AInv => TypeOK
<1> SUFFICES ASSUME AInv PROVE TypeOK
    OBVIOUS
<1>1. PICK n \in Nat : /\ n = Len(thread) /\ DOMAIN thread = 1 .. n /\ DOMAIN requests = 1 .. n
                       /\ DOMAIN forwarded = 1 .. n /\ DOMAIN answer = 1 .. n
                       /\ DOMAIN response = 1 .. n
      BY ThreadsAre DEF AInv, IInv
<1>2. thread \in Seq({"created", "forwarded", "answered", "failed"})
  <2>1. PICK S : thread \in Seq(S)
        BY DEF AInv, IInv, Shape, IsSequence
  <2>2. \A k \in 1 .. Len(thread) : thread[k] \in {"created", "forwarded", "answered", "failed"}
        BY DEF AInv, Typed
  <2> QED
      BY <2>1, <2>2
<1>3. {DOMAIN requests, DOMAIN forwarded, DOMAIN answer, DOMAIN response} = {DOMAIN thread}
      BY <1>1
<1>4. ASSUME NEW k \in DOMAIN thread
      PROVE  /\ requests[k].req_content_len \in Int
             /\ thread[k] = "answered" => response[k].header # NULL
             /\ thread[k] \in {"forwarded", "answered"} => forwarded[k] # NULL
  <2>1. k \in 1 .. Len(thread)
        BY <1>1
  <2>2. thread[k] = "answered" => response[k].header # NULL
        BY <2>1, AnswersAre DEF Answered
  <2> QED
      BY <2>1, <2>2 DEF AInv, Typed, AnyHttp
<1>5. session \in Sessions /\ stream \in Text /\ reader \in {"reading", "stopped"}
      /\ worker \in {"alive", "crashed"} /\ writer \in 0 .. Len(thread) + 1
      BY DEF AInv, IInv, Shape, Typed, AsSent
<1> QED
    BY <1>2, <1>3, <1>4, <1>5, OutputText DEF TypeOK

\* Each request keeps one response, and every text is one of tokens.
THEOREM TypeCorrect == Spec => []TypeOK
BY Invariance, AInvTypeOK, PTL

LEMMA AInvReads == AInv => ReadsToTheEnd
BY DEF AInv, ToTheEnd, Plain, ReadsToTheEnd

\* read_work: of well formed requests without a body every one is read, and the worker does
\* not crash, however the answers of the servers are cut.
THEOREM ReaderReadsToTheEnd == Spec => []ReadsToTheEnd
BY Invariance, AInvReads, PTL

LEMMA AInvLengths == AInv => LengthIsServers
<1> SUFFICES ASSUME AInv, NEW k \in DOMAIN response, thread[k] = "answered"
             PROVE  \/ response[k].length = answer[k].length
                    \/ response[k].length = -1 /\ HeaderEnds(response[k].header) = {}
    BY DEF LengthIsServers
<1>1. k \in 1 .. Len(thread)
      BY ThreadsAre DEF AInv, IInv
<1> QED
    BY <1>1, AnswersAre DEF Answered

\* get_header: a length that has been read is the one the server has given, digit by digit;
\* where a header breaks off there is none or all of it.
THEOREM LengthsAreServers == Spec => []LengthIsServers
BY Invariance, AInvLengths, PTL

LEMMA TornRead ==
    ASSUME NEW all, Torn(output, all)
    PROVE  IsPrefix(output, all) \/ (output # <<>> /\ Last(output) = Unwritten /\ IsPrefix(Front(output), all))
<1>1. CASE output \in Text /\ Begins(output, all)
      BY <1>1, PrefixIs
<1>2. ASSUME NEW front \in Text, output = Append(front, Unwritten), Begins(front, all)
      PROVE  output # <<>> /\ Last(output) = Unwritten /\ IsPrefix(Front(output), all)
  <2>1. PICK c \in Token, n \in Nat : c = Unwritten /\ n = Len(front)
    <3>1. Unwritten \in Token
          BY Zenon DEF Unwritten, Token
    <3>2. Len(front) \in Nat
          BY TextIs
    <3> QED
        BY <3>1, <3>2
  <2>2. PICK text \in Text : /\ text = output /\ Len(text) = n + 1 /\ text[n + 1] = c
                             /\ \A i \in 1 .. n : text[i] = front[i]
    <3>1. /\ Append(front, c) \in Text /\ Len(Append(front, c)) = n + 1
          /\ Append(front, c)[n + 1] = c /\ \A i \in 1 .. n : Append(front, c)[i] = front[i]
          BY <2>1 DEF Text
    <3> QED
        BY <1>2, <2>1, <3>1
  <2>3. output # <<>> /\ Last(output) = Unwritten
        BY <2>1, <2>2 DEF Last
  <2>4. SubSeq(text, 1, n) = front
    <3>1. n \in 0 .. Len(text)
          BY <2>2
    <3>2. /\ SubSeq(text, 1, n) \in Text /\ Len(SubSeq(text, 1, n)) = n
          /\ \A i \in 1 .. n : SubSeq(text, 1, n)[i] = text[i]
          BY <3>1, PartIs
    <3> QED
        BY <2>1, <2>2, <3>2, SeqEqual DEF Text
  <2>5. Front(output) = front
    <3>1. Len(output) - 1 = n
          BY <2>2
    <3> QED
        BY <2>2, <2>4, <3>1 DEF Front
  <2> QED
      BY <1>2, <2>3, <2>5, PrefixIs
<1> QED
    BY <1>1, <1>2 DEF Torn

LEMMA AInvClients == AInv => ClientReadsAnswers
<1> SUFFICES ASSUME AInv PROVE ClientReadsAnswers
    OBVIOUS
<1>1. PICK n \in Nat : n = Len(thread) /\ DOMAIN answer = 1 .. n
      BY ThreadsAre DEF AInv, IInv
<1>2. \A k \in 1 .. n : AnswerText(answer[k]) \in Text
      BY <1>1, AnswersAre
<1>3. PICK all \in Text : all = Sent(answer, n)
  <2>1. n \in 0 .. n
        BY <1>1
  <2> QED
      BY <1>2, <2>1, SentBegins
<1>4. Torn(output, all)
  <2>1. ASSUME NEW m \in 0 .. n, Torn(output, Sent(answer, m)) PROVE Torn(output, all)
    <3>1. Sent(answer, m) \in Text /\ Begins(Sent(answer, m), all)
          BY <1>2, <1>3, SentBegins
    <3> QED
        BY <2>1, <3>1, BeginsTwo DEF Torn
  <2>2. CASE writer # 0
    <3>1. PICK m \in 0 .. n : m = writer - 1 /\ output = Sent(answer, m)
          BY <1>1, <2>2 DEF AInv, AsSent
    <3>2. Torn(output, Sent(answer, m))
          BY <3>1, OutputText, BeginsAll DEF Torn
    <3> QED
        BY <2>1, <3>2
  <2>3. CASE writer = 0
    <3>1. PICK m \in 1 .. n : Torn(output, Sent(answer, m))
          BY <1>1, <2>3 DEF AInv, AsSent
    <3>2. m \in 0 .. n
          BY <1>1
    <3> QED
        BY <2>1, <3>1, <3>2
  <2> QED
      BY <2>2, <2>3
<1>5. IsPrefix(output, all) \/ (output # <<>> /\ Last(output) = Unwritten /\ IsPrefix(Front(output), all))
      BY <1>4, TornRead
<1>6. FlattenSeq([k \in DOMAIN answer |-> IF answer[k] = NoAnswer THEN <<>> ELSE Message(answer[k])]) = all
  <2>1. [k \in DOMAIN answer |-> IF answer[k] = NoAnswer THEN <<>> ELSE Message(answer[k])]
          = [k \in 1 .. n |-> AnswerText(answer[k])]
        BY <1>1, Zenon DEF AnswerText
  <2> QED
      BY <1>3, <2>1 DEF Sent
<1> QED
    BY <1>5, <1>6, Zenon DEF ClientReadsAnswers, Unwritten

\* receive_http_header2, receive_http_chunks, write_work: a client reads the answers of its
\* requests in order, each in full before the next, whatever servers send and wherever
\* they break off.
THEOREM ClientsReadAnswers == Spec => []ClientReadsAnswers
BY Invariance, AInvClients, PTL
=============================================================================
