------------------------- MODULE DaCloudHeadersProofs -------------------------
(***************************************************************************)
(* The key of a request with any headers, and a hash that is fed in any    *)
(* pieces, for any bound of the model and any size of the buffer.          *)
(*                                                                         *)
(* The loop of da_cloud_header_add is a function defined by recursion.     *)
(* That such a function exists, and what holds of all its values, follows  *)
(* from Induct: a set that is closed under successor has no least number   *)
(* outside it.                                                             *)
(***************************************************************************)
EXTENDS DaCloudHeaders, XXHashStream, WellFoundedInduction, TLAPS

LEMMA Induct ==
  ASSUME NEW N \in Nat, NEW S, 0 \in S, \A n \in 1 .. N : n - 1 \in S => n \in S
  PROVE  0 .. N \subseteq S
<1> DEFINE R == OpToRel(<, Nat)
           T == (0 .. N) \ S
<1>1. IsWellFoundedOn(R, Nat)
  BY NatLessThanWellFounded, Zenon
<1>2. \A m, n \in Nat : m < n => <<m, n>> \in R
  BY DEF OpToRel
<1>3. T \subseteq Nat
  OBVIOUS
<1> SUFFICES ASSUME T # {}
             PROVE  FALSE
  OBVIOUS
<1>4. PICK n \in T : \A m \in T : ~ (<<m, n>> \in R)
  <2> HIDE DEF R, T
  <2> QED
    BY <1>1, <1>3, WFMin, Zenon
<1>5. n \in 1 .. N /\ n \in Nat
  <2>1. n \in 0 .. N /\ n \notin S
    OBVIOUS
  <2>2. n # 0
    BY <2>1
  <2> QED
    BY <2>1, <2>2
<1>6. n - 1 \in 0 .. N /\ n - 1 \in Nat /\ n - 1 < n
  BY <1>5
<1>7. n - 1 \notin T
  <2> HIDE DEF R
  <2> QED
    BY <1>2, <1>4, <1>5, <1>6
<1> QED
  BY <1>4, <1>5, <1>6, <1>7

(* A value for each number from 0 to N, each made of the one before.       *)
Turns(next, N, T) == next \in [(1 .. N) \X T -> T]
Made(g, next, N, T, b) ==
  /\ g \in [0 .. N -> T]
  /\ g[0] = b
  /\ \A n \in 1 .. N : g[n] = next[<<n, g[n - 1]>>]

LEMMA Recursion ==
  ASSUME NEW N \in Nat, NEW T, NEW b \in T, NEW next, Turns(next, N, T)
  PROVE  \E g : Made(g, next, N, T, b)
<1> USE DEF Turns, Made
<1> DEFINE UpTo(m) == \E g \in [0 .. m -> T] :
                         g[0] = b /\ \A n \in 1 .. m : g[n] = next[<<n, g[n - 1]>>]
           S == {m \in 0 .. N : UpTo(m)}
<1>1. 0 \in S
  <2>1. [k \in 0 .. 0 |-> b] \in [0 .. 0 -> T] /\ \A n \in 1 .. 0 : FALSE
    OBVIOUS
  <2> DEFINE g == [k \in 0 .. 0 |-> b]
  <2>2. g \in [0 .. 0 -> T] /\ g[0] = b /\ \A n \in 1 .. 0 : g[n] = next[<<n, g[n - 1]>>]
    BY <2>1
  <2>3. UpTo(0)
    <3> HIDE DEF g
    <3> QED
      BY <2>2
  <2> QED
    BY <2>3
<1>2. ASSUME NEW m \in 1 .. N, m - 1 \in S
      PROVE  m \in S
  <2>1. PICK g \in [0 .. m - 1 -> T] :
               g[0] = b /\ \A n \in 1 .. m - 1 : g[n] = next[<<n, g[n - 1]>>]
    BY <1>2
  <2> DEFINE v == next[<<m, g[m - 1]>>]
             h == [k \in 0 .. m |-> IF k = m THEN v ELSE g[k]]
  <2>2. m - 1 \in 0 .. m - 1 /\ m \in Nat
    OBVIOUS
  <2>3. v \in T
    BY <2>1, <2>2
  <2>4. h \in [0 .. m -> T]
    BY <2>2, <2>3
  <2>5. h[0] = b
    BY <2>1, <2>2
  <2>6. ASSUME NEW n \in 1 .. m
        PROVE  h[n] = next[<<n, h[n - 1]>>]
    <3>1. n - 1 \in 0 .. m /\ n - 1 # m /\ n \in 0 .. m
      BY <2>2
    <3>2. h[n - 1] = g[n - 1]
      BY <3>1
    <3>3. CASE n = m
      BY <3>1, <3>2, <3>3
    <3>4. CASE n # m
      <4>1. n \in 1 .. m - 1
        BY <2>2, <3>4
      <4> QED
        BY <2>1, <3>1, <3>2, <3>4, <4>1
    <3> QED
      BY <3>3, <3>4
  <2>7. UpTo(m)
    <3> HIDE DEF h
    <3> QED
      BY <2>4, <2>5, <2>6
  <2> QED
    BY <2>7
<1>3. 0 .. N \subseteq S
  <2> HIDE DEF S
  <2> QED
    BY <1>1, <1>2, Induct
<1> QED
  BY <1>3

-----------------------------------------------------------------------------
(* Texts.                                                                  *)

Char == UNION {Range(x) : x \in Names \cup Texts}

LEMMA TextFacts ==
  /\ \A x \in Names \cup Texts : x \in Seq(Char)
  /\ \A x \in Header : x.key \in Seq(Char) /\ x.value \in Seq(Char)
  /\ "none" \notin Char
<1>1. ASSUME NEW x \in Names \cup Texts
      PROVE  x \in Seq(Char)
  <2>1. x \in Seq(Range(x))
    BY HeadersAssumption
  <2>2. Range(x) \subseteq Char
    BY DEF Char
  <2>3. \A A, B : A \subseteq B => Seq(A) \subseteq Seq(B)
    OBVIOUS
  <2> QED
    BY <2>1, <2>2, <2>3
<1>2. "none" \notin Char
  BY HeadersAssumption DEF Char
<1> QED
  BY <1>1, <1>2 DEF Header

LEMMA WrittenText ==
  ASSUME NEW buf \in Seq(Char), NEW x \in Header, Len(buf) < BUFLEN
  PROVE  Written(buf, x) \in Seq(Char) /\ Len(Written(buf, x)) < BUFLEN
<1>1. x.key \in Seq(Char) /\ x.value \in Seq(Char)
  BY TextFacts
<1>2. /\ buf \o x.key \o x.value \in Seq(Char)
      /\ Len(buf \o x.key \o x.value) = Len(buf) + Len(x.key) + Len(x.value)
      /\ Len(buf) \in Nat /\ Len(x.key) \in Nat /\ Len(x.value) \in Nat
  BY <1>1
<1>3. BUFLEN \in Nat
  BY HeadersAssumption
<1>4. CASE Room(buf, x)
  <2>1. Written(buf, x) = buf \o x.key \o x.value
    BY <1>4, Zenon DEF Written
  <2>2. BUFLEN - Len(buf) > Len(x.key) + Len(x.value)
    BY <1>4, Zenon DEF Room
  <2>3. \A a, b, c, d \in Nat : a - b > c + d => b + c + d < a
    OBVIOUS
  <2>4. Len(buf) + Len(x.key) + Len(x.value) < BUFLEN
    BY <1>2, <1>3, <2>2, <2>3
  <2> QED
    BY <1>2, <2>1, <2>4
<1>5. CASE ~ Room(buf, x)
  BY <1>5 DEF Written
<1> QED
  BY <1>4, <1>5

Associates(r, s, t) == (r \o s) \o t = r \o (s \o t)

LEMMA Regrouped ==
  ASSUME NEW A, NEW r \in Seq(A), NEW s \in Seq(A), NEW t \in Seq(A)
  PROVE  Associates(r, s, t)
  BY DEF Associates

LEMMA ConcatFacts ==
  ASSUME NEW A
  PROVE  /\ \A r, s \in Seq(A) : r \o s \in Seq(A) /\ Len(r \o s) = Len(r) + Len(s)
         /\ \A s \in Seq(A) : <<>> \o s = s /\ Len(s) \in Nat
<1>1. \A r, s \in Seq(A) : r \o s \in Seq(A) /\ Len(r \o s) = Len(r) + Len(s)
  OBVIOUS
<1>2. \A s \in Seq(A) : <<>> \o s = s /\ Len(s) \in Nat
  OBVIOUS
<1> QED
  BY <1>1, <1>2

-----------------------------------------------------------------------------
(* The buffer after each turn of the loop of lines 82-93.                  *)

Fitting == {t \in Seq(Char) : Len(t) < BUFLEN}

LEMMA KeyTextIs ==
  ASSUME NEW l \in Seq(Header)
  PROVE  \E buf \in [0 .. Len(l) -> Fitting] :
            /\ buf[0] = <<>>
            /\ \A n \in 1 .. Len(l) : buf[n] = Written(buf[n - 1], l[n])
            /\ KeyText(l) = buf[Len(l)]
<1> DEFINE N == Len(l)
           Turn(f, n) == IF n = 0 THEN <<>> ELSE Written(f[n - 1], l[n])
           next == [p \in (1 .. N) \X Fitting |-> Written(p[2], l[p[1]])]
           buf == CHOOSE f : f = [n \in 0 .. N |-> Turn(f, n)]
<1>1. N \in Nat /\ \A n \in 1 .. N : l[n] \in Header
  OBVIOUS
<1>2. <<>> \in Fitting
  <2>1. <<>> \in Seq(Char) /\ Len(<<>>) = 0
    OBVIOUS
  <2> QED
    BY <2>1, HeadersAssumption DEF Fitting
<1>3. \A t \in Fitting, n \in 1 .. N : Written(t, l[n]) \in Fitting
  <2> SUFFICES ASSUME NEW t \in Fitting, NEW n \in 1 .. N
               PROVE  Written(t, l[n]) \in Fitting
    OBVIOUS
  <2>1. t \in Seq(Char) /\ Len(t) < BUFLEN
    BY DEF Fitting
  <2>2. Written(t, l[n]) \in Seq(Char) /\ Len(Written(t, l[n])) < BUFLEN
    BY <1>1, <2>1, WrittenText
  <2> QED
    BY <2>2 DEF Fitting
<1>4. next \in [(1 .. N) \X Fitting -> Fitting]
  BY <1>3
<1>5. PICK g \in [0 .. N -> Fitting] :
           g[0] = <<>> /\ \A n \in 1 .. N : g[n] = next[<<n, g[n - 1]>>]
  <2> HIDE DEF next, N
  <2>2. Turns(next, N, Fitting)
    BY <1>4 DEF Turns
  <2>3. \E g : Made(g, next, N, Fitting, <<>>)
    BY <1>1, <1>2, <2>2, Recursion, Zenon
  <2> QED
    BY <2>3 DEF Made
<1>6. \A n \in 1 .. N : n - 1 \in 0 .. N /\ n # 0
  BY <1>1
<1>7. \A n \in 1 .. N : g[n] = Written(g[n - 1], l[n])
  BY <1>5, <1>6
<1>8. g = [n \in 0 .. N |-> Turn(g, n)]
  <2>1. \A n \in 0 .. N : g[n] = Turn(g, n)
    <3> SUFFICES ASSUME NEW n \in 0 .. N
                 PROVE  g[n] = Turn(g, n)
      OBVIOUS
    <3>1. n = 0 \/ n \in 1 .. N
      BY <1>1
    <3> QED
      BY <1>5, <1>7, <3>1
  <2> QED
    BY <1>5, <2>1
<1>9. buf = [n \in 0 .. N |-> Turn(buf, n)]
  <2> HIDE DEF N, Turn
  <2> QED
    BY <1>8, Zenon
<1>10. buf[0] = <<>> /\ \A n \in 1 .. N : buf[n] = Written(buf[n - 1], l[n])
  <2> HIDE DEF buf
  <2>1. 0 \in 0 .. N /\ \A n \in 1 .. N : n \in 0 .. N /\ n # 0
    BY <1>1
  <2> QED
    BY <1>9, <2>1
<1>11. \A n \in 0 .. N : buf[n] \in Fitting
  <2> DEFINE S == {n \in 0 .. N : buf[n] \in Fitting}
  <2>1. 0 \in S
    <3> HIDE DEF buf
    <3> QED
      BY <1>1, <1>2, <1>10
  <2>2. \A n \in 1 .. N : n - 1 \in S => n \in S
    <3> HIDE DEF buf
    <3> SUFFICES ASSUME NEW n \in 1 .. N, n - 1 \in S
                 PROVE  n \in S
      OBVIOUS
    <3>1. buf[n] \in Fitting
      BY <1>3, <1>10
    <3> QED
      BY <1>1, <3>1
  <2> HIDE DEF S
  <2>3. 0 .. N \subseteq S
    BY <1>1, <2>1, <2>2, Induct
  <2> QED
    BY <2>3 DEF S
<1>12. buf \in [0 .. N -> Fitting]
  <2> HIDE DEF buf, Turn
  <2> QED
    BY <1>9, <1>11
<1>13. KeyText(l) = buf[N]
  BY Zenon DEF KeyText
<1> HIDE DEF buf
<1> QED
  BY <1>10, <1>12, <1>13

(* All headers one after the other.                                        *)
LEMMA WholeIs ==
  ASSUME NEW l \in Seq(Header), l # <<>>
  PROVE  \E f \in [1 .. Len(l) -> Seq(Char)] :
            /\ f[1] = l[1].key \o l[1].value
            /\ \A n \in 2 .. Len(l) : f[n] = f[n - 1] \o (l[n].key \o l[n].value)
            /\ Whole(l) = f[Len(l)]
<1> DEFINE N == Len(l)
           w == [n \in DOMAIN l |-> l[n].key \o l[n].value]
           Join(f, n) == IF n = 1 THEN w[n] ELSE f[n - 1] \o w[n]
           next == [p \in (1 .. N) \X Seq(Char) |->
                      IF p[1] = 1 THEN w[1] ELSE p[2] \o w[p[1]]]
           f == CHOOSE g : g = [n \in 1 .. N |-> Join(g, n)]
<1>1. /\ N \in Nat /\ N > 0 /\ 1 \in 1 .. N
      /\ DOMAIN l = 1 .. N /\ \A n \in 1 .. N : l[n] \in Header
  OBVIOUS
<1>2. \A n \in 1 .. N : w[n] = l[n].key \o l[n].value /\ w[n] \in Seq(Char)
  <2> SUFFICES ASSUME NEW n \in 1 .. N
               PROVE  w[n] = l[n].key \o l[n].value /\ w[n] \in Seq(Char)
    OBVIOUS
  <2>1. l[n].key \in Seq(Char) /\ l[n].value \in Seq(Char)
    BY <1>1, TextFacts
  <2>2. w[n] = l[n].key \o l[n].value
    BY <1>1
  <2> HIDE DEF w
  <2> QED
    BY <2>1, <2>2, ConcatFacts
<1>3. w \in Seq(Seq(Char)) /\ Len(w) = N
  <2> HIDE DEF N
  <2>1. w \in [1 .. N -> Seq(Char)]
    BY <1>1, <1>2
  <2> HIDE DEF w
  <2> QED
    BY <1>1, <2>1
<1>4. \A t \in Seq(Char), n \in 1 .. N : t \o w[n] \in Seq(Char)
  <2> HIDE DEF w, N
  <2> QED
    BY <1>2, ConcatFacts
<1>5. next \in [(1 .. N) \X Seq(Char) -> Seq(Char)]
  <2> HIDE DEF w, N
  <2>1. w[1] \in Seq(Char)
    BY <1>1, <1>2
  <2> QED
    BY <1>4, <2>1
<1>6. PICK g \in [0 .. N -> Seq(Char)] :
           g[0] = <<>> /\ \A n \in 1 .. N : g[n] = next[<<n, g[n - 1]>>]
  <2>1. <<>> \in Seq(Char)
    OBVIOUS
  <2> HIDE DEF next, N
  <2>2. Turns(next, N, Seq(Char))
    BY <1>5 DEF Turns
  <2>3. \E g : Made(g, next, N, Seq(Char), <<>>)
    BY <1>1, <2>1, <2>2, Recursion, Zenon
  <2> QED
    BY <2>3 DEF Made
<1>7. \A n \in 1 .. N : g[n] = Join(g, n)
  <2> HIDE DEF w, N
  <2> SUFFICES ASSUME NEW n \in 1 .. N
               PROVE  g[n] = Join(g, n)
    OBVIOUS
  <2>1. n - 1 \in 0 .. N
    BY <1>1
  <2>2. next[<<n, g[n - 1]>>] = IF n = 1 THEN w[1] ELSE g[n - 1] \o w[n]
    BY <1>6, <2>1
  <2> QED
    BY <1>6, <2>2
<1> DEFINE h == [n \in 1 .. N |-> g[n]]
<1>8. h = [n \in 1 .. N |-> Join(h, n)]
  <2> HIDE DEF w, N
  <2> SUFFICES ASSUME NEW n \in 1 .. N
               PROVE  h[n] = Join(h, n)
    OBVIOUS
  <2>1. n # 1 => n - 1 \in 1 .. N
    BY <1>1
  <2> QED
    BY <1>7, <2>1
<1>9. f = [n \in 1 .. N |-> Join(f, n)]
  <2> HIDE DEF N, Join, h
  <2> QED
    BY <1>8, Zenon
<1>10. \A n \in 1 .. N : f[n] = Join(f, n)
  <2> HIDE DEF f, w, N
  <2> QED
    BY <1>9
<1>11. \A n \in 1 .. N : f[n] \in Seq(Char)
  <2> HIDE DEF f, w, N
  <2> DEFINE S == {0} \cup {n \in 1 .. N : f[n] \in Seq(Char)}
  <2>1. 0 \in S
    OBVIOUS
  <2>2. \A n \in 1 .. N : n - 1 \in S => n \in S
    <3> SUFFICES ASSUME NEW n \in 1 .. N, n - 1 \in S
                 PROVE  n \in S
      OBVIOUS
    <3>1. n # 1 => f[n - 1] \in Seq(Char)
      BY <1>1
    <3>2. f[n] \in Seq(Char)
      BY <1>2, <1>4, <1>10, <3>1
    <3> QED
      BY <3>2
  <2> HIDE DEF S
  <2>3. 0 .. N \subseteq S
    BY <1>1, <2>1, <2>2, Induct
  <2>4. \A n \in 1 .. N : n \in 0 .. N /\ n # 0
    BY <1>1
  <2> QED
    BY <2>3, <2>4 DEF S
<1>12. f \in [1 .. N -> Seq(Char)]
  <2> HIDE DEF f, Join, N
  <2> QED
    BY <1>9, <1>11
<1>13. Whole(l) = f[N]
  <2>1. Whole(l) = FlattenSeq(w)
    BY Zenon DEF Whole
  <2>2. Len(w) # 0
    BY <1>1, <1>3
  <2>3. FlattenSeq(w) = (CHOOSE g_1 : g_1 = [n \in 1 .. Len(w) |-> Join(g_1, n)])[Len(w)]
    <3> HIDE DEF w
    <3> QED
      BY <2>2, Zenon DEF FlattenSeq
  <2> HIDE DEF w, N
  <2> QED
    BY <1>3, <2>1, <2>3, Zenon
<1>14. \A n \in 2 .. N : f[n] = f[n - 1] \o (l[n].key \o l[n].value)
  <2> HIDE DEF f, N
  <2>1. \A n \in 2 .. N : n \in 1 .. N /\ n # 1
    BY <1>1
  <2> HIDE DEF w
  <2> QED
    BY <1>2, <1>10, <2>1
<1>15. f[1] = l[1].key \o l[1].value
  <2> HIDE DEF f, N, w
  <2> QED
    BY <1>1, <1>2, <1>10
<1> HIDE DEF f
<1> QED
  BY <1>12, <1>13, <1>14, <1>15

LEMMA WrittenWhole ==
  ASSUME NEW buf \in Seq(Char), NEW x \in Header,
         Len(buf \o (x.key \o x.value)) < BUFLEN
  PROVE  /\ Written(buf, x) = buf \o (x.key \o x.value)
         /\ Len(buf) < BUFLEN
<1>1. x.key \in Seq(Char) /\ x.value \in Seq(Char)
  BY TextFacts
<1>2. /\ Len(buf \o (x.key \o x.value)) = Len(buf) + (Len(x.key) + Len(x.value))
      /\ (buf \o x.key) \o x.value = buf \o (x.key \o x.value)
      /\ Len(buf) \in Nat /\ Len(x.key) \in Nat /\ Len(x.value) \in Nat
  <2>1. /\ x.key \o x.value \in Seq(Char)
        /\ Len(x.key \o x.value) = Len(x.key) + Len(x.value)
    BY <1>1, ConcatFacts
  <2>2. Len(buf \o (x.key \o x.value)) = Len(buf) + Len(x.key \o x.value)
    BY <2>1, ConcatFacts
  <2>3. (buf \o x.key) \o x.value = buf \o (x.key \o x.value)
    <3>1. Associates(buf, x.key, x.value)
      BY <1>1, Regrouped
    <3> QED
      BY <3>1, Zenon DEF Associates
  <2>4. Len(buf) \in Nat /\ Len(x.key) \in Nat /\ Len(x.value) \in Nat
    BY <1>1, ConcatFacts
  <2> QED
    BY <2>1, <2>2, <2>3, <2>4
<1>3. BUFLEN \in Nat
  BY HeadersAssumption
<1>4. \A a, b, c, d \in Nat : b + (c + d) < a => b < a /\ a - b > c + d
  OBVIOUS
<1>5. Len(buf) + (Len(x.key) + Len(x.value)) < BUFLEN
  BY <1>2
<1>6. Len(buf) < BUFLEN /\ BUFLEN - Len(buf) > Len(x.key) + Len(x.value)
  BY <1>2, <1>3, <1>4, <1>5
<1>7. Room(buf, x)
  BY <1>6, Zenon DEF Room
<1> QED
  BY <1>2, <1>6, <1>7, Zenon DEF Written

(* Nothing is left out of a key if the whole request fits.                 *)
LEMMA KeyIsWhole ==
  ASSUME NEW l \in Seq(Header), l # <<>>, Len(Whole(l)) < BUFLEN
  PROVE  KeyText(l) = Whole(l)
<1> DEFINE N == Len(l)
           both(x) == x.key \o x.value
<1>1. /\ N \in Nat /\ N > 0 /\ 1 \in 1 .. N /\ N \in 0 .. N
      /\ \A n \in 1 .. N : l[n] \in Header
  OBVIOUS
<1>2. PICK buf \in [0 .. N -> Fitting] :
         /\ buf[0] = <<>>
         /\ \A n \in 1 .. N : buf[n] = Written(buf[n - 1], l[n])
         /\ KeyText(l) = buf[N]
  BY KeyTextIs
<1>3. PICK f \in [1 .. N -> Seq(Char)] :
         /\ f[1] = both(l[1])
         /\ \A n \in 2 .. N : f[n] = f[n - 1] \o both(l[n])
         /\ Whole(l) = f[N]
  BY WholeIs
<1> HIDE DEF N
<1> DEFINE S == {0} \cup {n \in 1 .. N : Len(f[n]) < BUFLEN => buf[n] = f[n]}
<1>4. ASSUME NEW n \in 1 .. N, n - 1 \in S
      PROVE  n \in S
  <2> SUFFICES ASSUME Len(f[n]) < BUFLEN
               PROVE  buf[n] = f[n]
    BY <1>4
  <2>1. l[n] \in Header /\ n \in Nat
    BY <1>1
  <2>2. l[n].key \in Seq(Char) /\ l[n].value \in Seq(Char)
    BY <2>1, TextFacts
  <2>3. both(l[n]) \in Seq(Char)
    BY <2>2, ConcatFacts
  <2>4. CASE n = 1
    <3>1. f[1] = <<>> \o both(l[1]) /\ <<>> \in Seq(Char)
      <4> HIDE DEF both
      <4> QED
        BY <1>3, <2>3, <2>4, ConcatFacts
    <3>2. Written(<<>>, l[1]) = f[1]
      BY <2>1, <2>4, <3>1, WrittenWhole
    <3> QED
      BY <1>1, <1>2, <2>4, <3>2
  <2>5. CASE n # 1
    <3>1. n \in 2 .. N /\ n - 1 \in 1 .. N /\ n - 1 # 0
      BY <1>1, <2>1, <2>5
    <3>2. f[n - 1] \in Seq(Char) /\ f[n] = f[n - 1] \o both(l[n])
      BY <1>3, <3>1
    <3>3. Len(f[n - 1]) < BUFLEN /\ Written(f[n - 1], l[n]) = f[n]
      BY <2>1, <3>2, WrittenWhole
    <3>4. buf[n - 1] = f[n - 1]
      BY <1>4, <3>1, <3>3
    <3> QED
      BY <1>2, <3>3, <3>4
  <2> QED
    BY <2>4, <2>5
<1>5. 0 \in S /\ \A n \in 1 .. N : n - 1 \in S => n \in S
  BY <1>4
<1>6. 0 .. N \subseteq S
  <2> HIDE DEF S
  <2> QED
    BY <1>1, <1>5, Induct
<1>7. Len(f[N]) < BUFLEN => buf[N] = f[N]
  BY <1>1, <1>6
<1> QED
  BY <1>2, <1>3, <1>7

LEMMA KeyIsText ==
  ASSUME NEW l \in Seq(Header)
  PROVE  KeyText(l) \in Fitting /\ KeyText(l) # NoText
<1>1. KeyText(l) \in Fitting
  <2>1. Len(l) \in 0 .. Len(l)
    OBVIOUS
  <2> QED
    BY <2>1, KeyTextIs
<1>2. NoText[1] = "none" /\ 1 \in DOMAIN NoText
  BY DEF NoText
<1>3. \A s \in Seq(Char) : 1 \in DOMAIN s => s[1] # "none"
  BY TextFacts
<1> QED
  BY <1>1, <1>2, <1>3 DEF Fitting

-----------------------------------------------------------------------------
(* The key is made anew by every add that takes a header, and by nothing   *)
(* else: whatever the calls before were, it is that of the list as it is.  *)
KeyInv ==
  /\ list \in [Request -> Seq(Header)]
  /\ text = [h \in Request |-> IF list[h] = <<>> THEN NoText ELSE KeyText(list[h])]
  /\ ret \in [Request -> {-1, 0}]
  /\ adds \in [Request -> 0 .. MaxAdds]
  /\ alive \in BOOLEAN

LEMMA KeyInit == Init => KeyInv
<1> SUFFICES ASSUME Init
             PROVE  KeyInv
  OBVIOUS
<1>1. list \in [Request -> Seq(Header)] /\ \A h \in Request : list[h] = <<>>
  BY DEF Init
<1>2. text = [h \in Request |-> IF list[h] = <<>> THEN NoText ELSE KeyText(list[h])]
  BY <1>1 DEF Init
<1>3. 0 \in 0 .. MaxAdds /\ 0 \in {-1, 0}
  BY HeadersAssumption
<1>4. ret \in [Request -> {-1, 0}] /\ adds \in [Request -> 0 .. MaxAdds]
  BY <1>3 DEF Init
<1>5. alive \in BOOLEAN
  BY DEF Init
<1> QED
  BY <1>1, <1>2, <1>4, <1>5 DEF KeyInv

LEMMA Counted ==
  ASSUME KeyInv, NEW h \in Request, Calling(h)
  PROVE  adds' \in [Request -> 0 .. MaxAdds]
<1>1. adds[h] + 1 \in 0 .. MaxAdds
  BY HeadersAssumption DEF KeyInv, Calling
<1> QED
  BY <1>1 DEF KeyInv, Calling

LEMMA KeyStep == KeyInv /\ [Next]_vars => KeyInv'
<1> SUFFICES ASSUME KeyInv, [Next]_vars
             PROVE  KeyInv'
  OBVIOUS
<1>1. ASSUME NEW h \in Request, NEW k \in Names, AddDuplicate(h, k)
      PROVE  KeyInv'
  <2>1. adds' \in [Request -> 0 .. MaxAdds]
    BY <1>1, Counted DEF AddDuplicate
  <2> QED
    BY <1>1, <2>1 DEF AddDuplicate, KeyInv
<1>2. ASSUME NEW h \in Request, NEW k \in Names, AddCrashes(h, k)
      PROVE  KeyInv'
  <2>1. adds' \in [Request -> 0 .. MaxAdds]
    BY <1>2, Counted DEF AddCrashes
  <2> QED
    BY <1>2, <2>1 DEF AddCrashes, KeyInv
<1>3. ASSUME NEW h \in Request, NEW k \in Names, NEW v \in Texts, Add(h, k, v)
      PROVE  KeyInv'
  <2> DEFINE l == Prepended(h, k, v)
  <2>1. l \in Seq(Header) /\ l # <<>>
    <3>1. [key |-> k, value |-> v] \in Header
      BY DEF Header
    <3>2. list[h] \in Seq(Header)
      BY DEF KeyInv
    <3> QED
      BY <3>1, <3>2 DEF Prepended
  <2>2. /\ list' = [list EXCEPT ![h] = l]
        /\ text' = [text EXCEPT ![h] = KeyText(l)]
    BY <1>3, Zenon DEF Add
  <2> HIDE DEF l
  <2>3. list' \in [Request -> Seq(Header)]
    BY <2>1, <2>2 DEF KeyInv
  <2>4. text' = [g \in Request |-> IF list'[g] = <<>> THEN NoText ELSE KeyText(list'[g])]
    BY <2>1, <2>2 DEF KeyInv
  <2>5. adds' \in [Request -> 0 .. MaxAdds]
    BY <1>3, Counted DEF Add
  <2>6. ret' \in [Request -> {-1, 0}] /\ alive' \in BOOLEAN
    BY <1>3 DEF Add, KeyInv
  <2> QED
    BY <2>3, <2>4, <2>5, <2>6 DEF KeyInv
<1>4. ASSUME NEW h \in Request, AddFails(h)
      PROVE  KeyInv'
  <2>1. adds' \in [Request -> 0 .. MaxAdds]
    BY <1>4, Counted DEF AddFails
  <2> QED
    BY <1>4, <2>1 DEF AddFails, KeyInv
<1>5. ASSUME NEW h \in Request, Renew(h)
      PROVE  KeyInv'
  <2>1. list' \in [Request -> Seq(Header)]
    BY <1>5 DEF Renew, KeyInv
  <2>2. text' = [g \in Request |-> IF list'[g] = <<>> THEN NoText ELSE KeyText(list'[g])]
    BY <1>5 DEF Renew, KeyInv
  <2>3. 0 \in 0 .. MaxAdds
    BY HeadersAssumption
  <2> QED
    BY <1>5, <2>1, <2>2, <2>3 DEF Renew, KeyInv
<1>6. CASE UNCHANGED vars
  BY <1>6 DEF vars, KeyInv
<1> QED
  BY <1>1, <1>2, <1>3, <1>4, <1>5, <1>6 DEF Next

LEMMA KeyInvariant == Spec => []KeyInv
  BY KeyInit, KeyStep, PTL DEF Spec

(* The values of the variables are those of the code's types, and what is  *)
(* in the buffer always leaves room for the NUL at its end, however many   *)
(* headers are added and however long they are (lines 82-93).              *)
THEOREM HeadersTypeCorrect == Spec => []TypeOK
<1>1. KeyInv => TypeOK
  <2> SUFFICES ASSUME KeyInv
               PROVE  TypeOK
    OBVIOUS
  <2>1. ASSUME NEW h \in Request
        PROVE  Len(text[h]) < BUFLEN
    <3>1. Len(NoText) = 1 /\ 1 < BUFLEN
      BY HeadersAssumption DEF NoText
    <3>2. list[h] \in Seq(Header)
      BY DEF KeyInv
    <3>3. Len(KeyText(list[h])) < BUFLEN
      BY <3>2, KeyIsText DEF Fitting
    <3>4. text[h] = NoText \/ text[h] = KeyText(list[h])
      BY DEF KeyInv
    <3> QED
      BY <3>1, <3>3, <3>4
  <2> QED
    BY <2>1 DEF KeyInv, TypeOK
<1> QED
  BY <1>1, KeyInvariant, PTL

(* As long as a request fits in the buffer every header of it counts: its  *)
(* key is the hash of all its names and values in the order of the list,   *)
(* also when names were refused or memory ran out on the way, and when the *)
(* list was freed and used again.                                          *)
THEOREM EveryHeaderIsHashed == Spec => []EveryHeaderCounts
<1>1. KeyInv => EveryHeaderCounts
  <2> SUFFICES ASSUME KeyInv, NEW h \in Request, list[h] # <<>>,
                      Len(Whole(list[h])) < BUFLEN
               PROVE  Cachekey(h) = Hashed(Whole(list[h]))
    BY DEF EveryHeaderCounts
  <2>1. list[h] \in Seq(Header)
    BY DEF KeyInv
  <2>2. text[h] = KeyText(list[h])
    BY DEF KeyInv
  <2>3. text[h] # NoText /\ text[h] = Whole(list[h])
    BY <2>1, <2>2, KeyIsText, KeyIsWhole
  <2> QED
    BY <2>3, Zenon DEF Cachekey
<1> QED
  BY <1>1, KeyInvariant, PTL

-----------------------------------------------------------------------------
(* Numbers.                                                                *)

LEMMA Division ==
  ASSUME NEW L \in Nat, L > 0
  PROVE  \A m \in Nat : m \div L \in Nat /\ m % L \in 0 .. L - 1
                        /\ m = L * (m \div L) + (m % L)
  OBVIOUS

LEMMA Monotonic ==
  ASSUME NEW L \in Nat, NEW d \in Nat, NEW e \in Nat, d < e
  PROVE  L * d + L <= L * e
<1>1. e = d + 1 + (e - d - 1) /\ e - d - 1 \in Nat
  OBVIOUS
<1>2. \A x \in Nat : L * (d + 1 + x) = L * d + L + L * x
  OBVIOUS
<1>3. L * e = L * d + L + L * (e - d - 1)
  BY <1>1, <1>2
<1>4. L * d \in Nat /\ L * e \in Nat /\ L * (e - d - 1) \in Nat
  BY <1>1
<1> QED
  BY <1>3, <1>4

LEMMA Remainder ==
  ASSUME NEW L \in Nat, L > 0, NEW d \in Nat, NEW r \in 0 .. L - 1
  PROVE  (L * d + r) % L = r
<1> DEFINE m == L * d + r
           e == m \div L
           u == m % L
<1>1. m \in Nat /\ L * d \in Nat /\ r \in Nat
  OBVIOUS
<1>2. e \in Nat /\ u \in Nat /\ u < L /\ L * e \in Nat /\ L * d + r = L * e + u
  BY <1>1, Division
<1> HIDE DEF e, u
<1>3. CASE d < e
  <2>1. L * d + L <= L * e
    BY <1>2, <1>3, Monotonic
  <2> QED
    BY <1>1, <1>2, <2>1
<1>4. CASE e < d
  <2>1. L * e + L <= L * d
    BY <1>2, <1>4, Monotonic
  <2> QED
    BY <1>1, <1>2, <2>1
<1>5. CASE e = d
  <2>1. r = u
    BY <1>1, <1>2, <1>5
  <2> QED
    BY <2>1 DEF u
<1> QED
  BY <1>2, <1>3, <1>4, <1>5

(* A sum of which one part was already taken modulo L.                     *)
LEMMA SumModulo ==
  ASSUME NEW L \in Nat, L > 0, NEW m \in Nat, NEW n \in Nat
  PROVE  ((m % L) + n) % L = (m + n) % L
<1> DEFINE d == m \div L
           r == m % L
           e == (r + n) \div L
           t == (r + n) % L
<1>1. d \in Nat /\ r \in Nat /\ m = L * d + r
  BY Division
<1>2. e \in Nat /\ t \in 0 .. L - 1 /\ r + n = L * e + t
  <2>1. r + n \in Nat
    BY <1>1
  <2> HIDE DEF r
  <2> QED
    BY <2>1, Division
<1> HIDE DEF d, r, e, t
<1>3. m + n = L * (d + e) + t /\ d + e \in Nat
  <2>1. L * (d + e) = L * d + L * e /\ L * d \in Nat /\ L * e \in Nat
    BY <1>1, <1>2
  <2> QED
    BY <1>1, <1>2, <2>1
<1>4. (L * (d + e) + t) % L = t
  BY <1>2, <1>3, Remainder
<1> QED
  BY <1>3, <1>4 DEF t, r

-----------------------------------------------------------------------------
(* Stripes: of four words of four bytes in XXH32, of four of eight in      *)
(* XXH64.  The k-th word of the n-th accumulator is at these bytes.        *)
Sizes(W, B) == <<W, B>> \in {<<4, 16>>, <<8, 32>>}
Striped(a, B) == \E q \in Nat : Len(a) = B * q
First(k, n, W) == (4 * (k - 1) + n - 1) * W + 1
Final(k, n, W) == (4 * (k - 1) + n) * W
Dealt(s, n, W) ==
  [k \in 1 .. (Len(s) \div W) \div 4 |-> SubSeq(s, First(k, n, W), Final(k, n, W))]

LEMMA StripeFacts ==
  ASSUME NEW W, NEW B, Sizes(W, B)
  PROVE  /\ \A m \in Nat : /\ m \div W \in Nat /\ (m \div W) \div 4 \in Nat
                           /\ B * ((m \div W) \div 4) <= m
         /\ \A q, m \in Nat : ((B * q + m) \div W) \div 4 = q + (m \div W) \div 4
         /\ \A q, m \in Nat : (B * q + m) \div B = q + m \div B
         /\ \A m \in Nat : m < B => m \div B = 0 /\ (m \div W) \div 4 = 0
         /\ \A q \in Nat : B * q \in Nat /\ ((B * q) \div W) \div 4 = q
         /\ \A m \in Nat : m \div B \in Nat /\ (m \div B) * B = B * (m \div B)
                           /\ B * (m \div B) <= m /\ m - B * (m \div B) < B
                           /\ m % B = m - B * (m \div B)
<1>1. CASE W = 4 /\ B = 16
  BY <1>1
<1>2. CASE W = 8 /\ B = 32
  BY <1>2
<1> QED
  BY <1>1, <1>2 DEF Sizes

LEMMA PlaceFacts ==
  ASSUME NEW W, NEW B, Sizes(W, B), NEW k \in Nat, k >= 1, NEW n \in 1 .. 4
  PROVE  /\ First(k, n, W) \in Nat /\ First(k, n, W) >= 1
         /\ Final(k, n, W) \in Nat
         /\ \A m \in Nat : k <= (m \div W) \div 4 => Final(k, n, W) <= m
<1>1. CASE W = 4 /\ B = 16
  BY <1>1 DEF First, Final
<1>2. CASE W = 8 /\ B = 32
  BY <1>2 DEF First, Final
<1> QED
  BY <1>1, <1>2 DEF Sizes

Shifted(q, k, n, W, B) ==
  /\ First(q + k, n, W) = B * q + First(k, n, W)
  /\ Final(q + k, n, W) = B * q + Final(k, n, W)

LEMMA PlaceShift ==
  ASSUME NEW W, NEW B, Sizes(W, B), NEW q \in Nat, NEW k \in Nat, NEW n \in 1 .. 4
  PROVE  Shifted(q, k, n, W, B)
<1>1. CASE W = 4 /\ B = 16
  BY <1>1 DEF Shifted, First, Final
<1>2. CASE W = 8 /\ B = 32
  BY <1>2 DEF Shifted, First, Final
<1> QED
  BY <1>1, <1>2 DEF Sizes

(* Cut out of the first of two texts, or out of the second.                *)
SameBefore(a, b, i, j) == SubSeq(a \o b, i, j) = SubSeq(a, i, j)
SameAfter(a, b, i, j) == SubSeq(a \o b, Len(a) + i, Len(a) + j) = SubSeq(b, i, j)

LEMMA SubSeqBefore ==
  ASSUME NEW a \in Seq(Nat), NEW b \in Seq(Nat), NEW i \in Nat, NEW j \in Nat, i >= 1,
         j <= Len(a)
  PROVE  SubSeq(a, i, j) \in Seq(Nat) /\ SameBefore(a, b, i, j)
<1>1. SubSeq(a, i, j) \in Seq(Nat)
  OBVIOUS
<1>2. SubSeq(a \o b, i, j) = SubSeq(a, i, j)
  OBVIOUS
<1> QED
  BY <1>1, <1>2 DEF SameBefore

LEMMA SubSeqAfter ==
  ASSUME NEW a \in Seq(Nat), NEW b \in Seq(Nat), NEW i \in Nat, NEW j \in Nat, i >= 1,
         j <= Len(b)
  PROVE  SameAfter(a, b, i, j)
<1>1. SubSeq(a \o b, Len(a) + i, Len(a) + j) = SubSeq(b, i, j)
  OBVIOUS
<1> QED
  BY <1>1 DEF SameAfter

LEMMA RoundsAre ==
  ASSUME NEW W, NEW B, Sizes(W, B), NEW s \in Seq(Nat), NEW v
  PROVE  Rounds(v, s, W) = [n \in 1 .. 4 |-> v[n] \o Dealt(s, n, W)]
<1> DEFINE w == Words(s, W)
           stripes == (Len(s) \div W) \div 4
<1>1. Len(s) \in Nat /\ Len(s) \div W \in Nat /\ stripes \in Nat
  BY StripeFacts
<1>2. w = [k \in 1 .. Len(s) \div W |-> SubSeq(s, (k - 1) * W + 1, k * W)]
  BY Zenon DEF Words
<1>3. Len(w) = Len(s) \div W
  <2> DEFINE N == Len(s) \div W
             f == [k \in 1 .. N |-> SubSeq(s, (k - 1) * W + 1, k * W)]
  <2>1. \A m \in Nat : Len([k \in 1 .. m |-> SubSeq(s, (k - 1) * W + 1, k * W)]) = m
    OBVIOUS
  <2> QED
    BY <1>1, <1>2, <2>1
<1>4. ASSUME NEW n \in 1 .. 4
      PROVE  [k \in 1 .. Len(w) \div 4 |-> w[4 * (k - 1) + n]] = Dealt(s, n, W)
  <2>1. ASSUME NEW k \in 1 .. stripes
        PROVE  w[4 * (k - 1) + n] = SubSeq(s, First(k, n, W), Final(k, n, W))
    <3> DEFINE j == 4 * (k - 1) + n
    <3>1. \A x, y, z \in Nat : y >= 1 /\ y <= x \div 4 /\ z \in 1 .. 4 =>
             4 * (y - 1) + z \in 1 .. x
      OBVIOUS
    <3>2. j \in 1 .. Len(s) \div W
      BY <1>1, <3>1
    <3>3. w[j] = SubSeq(s, (j - 1) * W + 1, j * W)
      <4> HIDE DEF w, j
      <4> QED
        BY <1>2, <3>2
    <3>4. First(k, n, W) = (j - 1) * W + 1 /\ Final(k, n, W) = j * W
      BY DEF First, Final
    <3>5. w[j] = SubSeq(s, First(k, n, W), Final(k, n, W))
      <4> HIDE DEF w, j
      <4> QED
        BY <3>3, <3>4
    <3> HIDE DEF w
    <3> QED
      BY <3>5
  <2> HIDE DEF w
  <2> QED
    BY <1>3, <2>1 DEF Dealt
<1>5. Rounds(v, s, W) = [n \in 1 .. 4 |-> v[n] \o [k \in 1 .. Len(w) \div 4 |-> w[4 * (k - 1) + n]]]
  BY Zenon DEF Rounds
<1> HIDE DEF w
<1> QED
  BY <1>4, <1>5

LEMMA DealtIs ==
  ASSUME NEW W, NEW B, Sizes(W, B), NEW s \in Seq(Nat), NEW n \in 1 .. 4
  PROVE  /\ Dealt(s, n, W) \in Seq(Seq(Nat))
         /\ Len(Dealt(s, n, W)) = (Len(s) \div W) \div 4
         /\ \A k \in 1 .. (Len(s) \div W) \div 4 :
               Dealt(s, n, W)[k] = SubSeq(s, First(k, n, W), Final(k, n, W))
<1> DEFINE N == (Len(s) \div W) \div 4
<1>1. Len(s) \in Nat /\ N \in Nat
  BY StripeFacts
<1>2. ASSUME NEW k \in 1 .. N
      PROVE  SubSeq(s, First(k, n, W), Final(k, n, W)) \in Seq(Nat)
  <2>1. k \in Nat /\ k >= 1 /\ k <= N
    BY <1>1
  <2>2. /\ First(k, n, W) \in Nat /\ First(k, n, W) >= 1 /\ Final(k, n, W) \in Nat
        /\ Final(k, n, W) <= Len(s)
    BY <1>1, <2>1, PlaceFacts
  <2> QED
    BY <2>2, SubSeqBefore
<1>3. Dealt(s, n, W) = [k \in 1 .. N |-> SubSeq(s, First(k, n, W), Final(k, n, W))]
  BY Zenon DEF Dealt
<1> HIDE DEF N
<1>4. Dealt(s, n, W) \in [1 .. N -> Seq(Nat)]
  BY <1>2, <1>3
<1>5. Dealt(s, n, W) \in Seq(Seq(Nat)) /\ Len(Dealt(s, n, W)) = N
  BY <1>1, <1>4
<1> QED
  BY <1>3, <1>5 DEF N

LEMMA Joined ==
  ASSUME NEW A, NEW r \in Seq(A), NEW s \in Seq(A), NEW t \in Seq(A),
         Len(r) = Len(s) + Len(t),
         \A k \in 1 .. Len(s) + Len(t) :
            r[k] = IF k <= Len(s) THEN s[k] ELSE t[k - Len(s)]
  PROVE  r = s \o t
<1>1. /\ s \o t \in Seq(A) /\ Len(s \o t) = Len(s) + Len(t)
      /\ Len(s) \in Nat /\ Len(t) \in Nat
  OBVIOUS
<1>2. \A k \in 1 .. Len(s) + Len(t) :
         (s \o t)[k] = IF k <= Len(s) THEN s[k] ELSE t[k - Len(s)]
  OBVIOUS
<1>3. \A k \in 1 .. Len(r) : r[k] = (s \o t)[k]
  BY <1>2
<1>4. \A x, y \in Seq(A) : Len(x) = Len(y) /\ (\A k \in 1 .. Len(x) : x[k] = y[k]) => x = y
  <2>1. \A x \in Seq(A) : x = [k \in 1 .. Len(x) |-> x[k]]
    OBVIOUS
  <2> QED
    BY <2>1
<1> QED
  BY <1>1, <1>3, <1>4

(* Whole stripes, and bytes after them: what is dealt of the one, then     *)
(* what is dealt of the other.                                             *)
LEMMA DealtConcat ==
  ASSUME NEW W, NEW B, Sizes(W, B), NEW a \in Seq(Nat), NEW b \in Seq(Nat),
         Striped(a, B), NEW n \in 1 .. 4
  PROVE  Dealt(a \o b, n, W) = Dealt(a, n, W) \o Dealt(b, n, W)
<1>0. PICK q \in Nat : Len(a) = B * q
  BY DEF Striped
<1> DEFINE m == (Len(b) \div W) \div 4
           f == Dealt(a \o b, n, W)
           g == Dealt(a, n, W)
           h == Dealt(b, n, W)
<1>1. /\ a \o b \in Seq(Nat) /\ Len(a \o b) = B * q + Len(b)
      /\ Len(b) \in Nat /\ Len(a) \in Nat
  BY <1>0, ConcatFacts
<1>2. (Len(a \o b) \div W) \div 4 = q + m /\ (Len(a) \div W) \div 4 = q /\ m \in Nat
  BY <1>0, <1>1, StripeFacts
<1>3. f \in Seq(Seq(Nat)) /\ Len(f) = q + m
      /\ \A k \in 1 .. q + m : f[k] = SubSeq(a \o b, First(k, n, W), Final(k, n, W))
  BY <1>1, <1>2, DealtIs
<1>4. g \in Seq(Seq(Nat)) /\ Len(g) = q
      /\ \A k \in 1 .. q : g[k] = SubSeq(a, First(k, n, W), Final(k, n, W))
  BY <1>2, DealtIs
<1>5. h \in Seq(Seq(Nat)) /\ Len(h) = m
      /\ \A k \in 1 .. m : h[k] = SubSeq(b, First(k, n, W), Final(k, n, W))
  BY DealtIs
<1> HIDE DEF f, g, h, m
<1>6. ASSUME NEW k \in 1 .. q
      PROVE  f[k] = g[k]
  <2>1. k \in Nat /\ k >= 1 /\ k <= (Len(a) \div W) \div 4 /\ k \in 1 .. q + m
    BY <1>2
  <2>2. /\ First(k, n, W) \in Nat /\ First(k, n, W) >= 1 /\ Final(k, n, W) \in Nat
        /\ Final(k, n, W) <= Len(a)
    BY <1>1, <2>1, PlaceFacts
  <2>3. SameBefore(a, b, First(k, n, W), Final(k, n, W))
    BY <2>2, SubSeqBefore
  <2> QED
    BY <1>3, <1>4, <2>1, <2>3 DEF SameBefore
<1>7. ASSUME NEW k \in 1 .. m
      PROVE  f[q + k] = h[k]
  <2>1. k \in Nat /\ k >= 1 /\ k <= m /\ q + k \in 1 .. q + m
    BY <1>2
  <2>2. /\ First(k, n, W) \in Nat /\ First(k, n, W) >= 1 /\ Final(k, n, W) \in Nat
        /\ Final(k, n, W) <= Len(b)
    BY <1>1, <2>1, PlaceFacts DEF m
  <2>3. /\ First(q + k, n, W) = B * q + First(k, n, W)
        /\ Final(q + k, n, W) = B * q + Final(k, n, W)
    <3>1. Shifted(q, k, n, W, B)
      BY <2>1, PlaceShift
    <3> QED
      BY <3>1, Zenon DEF Shifted
  <2>4. SameAfter(a, b, First(k, n, W), Final(k, n, W))
    BY <2>2, SubSeqAfter
  <2>5. f[q + k] = SubSeq(a \o b, First(q + k, n, W), Final(q + k, n, W))
    BY <1>3, <2>1
  <2> QED
    BY <1>0, <1>5, <2>1, <2>3, <2>4, <2>5 DEF SameAfter
<1>8. \A k \in 1 .. q + m : f[k] = IF k <= q THEN g[k] ELSE h[k - q]
  <2> SUFFICES ASSUME NEW k \in 1 .. q + m
               PROVE  f[k] = IF k <= q THEN g[k] ELSE h[k - q]
    OBVIOUS
  <2>1. CASE k <= q
    BY <1>2, <1>6, <2>1
  <2>2. CASE k > q
    <3>1. k - q \in 1 .. m /\ k = q + (k - q)
      BY <1>2, <2>2
    <3>2. f[k] = h[k - q]
      BY <1>7, <3>1
    <3> QED
      BY <1>2, <2>2, <3>2
  <2> QED
    BY <1>2, <2>1, <2>2
<1>9. f = g \o h
  <2> DEFINE A == Seq(Nat)
  <2>1. f \in Seq(A) /\ g \in Seq(A) /\ h \in Seq(A)
    BY <1>3, <1>4, <1>5
  <2>2. Len(f) = Len(g) + Len(h)
    BY <1>3, <1>4, <1>5
  <2>3. \A k \in 1 .. Len(g) + Len(h) : f[k] = IF k <= Len(g) THEN g[k] ELSE h[k - Len(g)]
    BY <1>4, <1>5, <1>8
  <2> HIDE DEF A
  <2> QED
    BY <2>1, <2>2, <2>3, Joined
<1> QED
  BY <1>9 DEF f, g, h

Accumulators == [1 .. 4 -> Seq({0} \cup Seq(Nat))]

LEMMA AccumulatorFacts ==
  ASSUME NEW W, NEW B, Sizes(W, B), NEW v \in Accumulators, NEW s \in Seq(Nat)
  PROVE  /\ Rounds(v, s, W) \in Accumulators
         /\ \A n \in 1 .. 4 : /\ v[n] \in Seq({0} \cup Seq(Nat))
                              /\ Dealt(s, n, W) \in Seq({0} \cup Seq(Nat))
                              /\ Rounds(v, s, W)[n] = v[n] \o Dealt(s, n, W)
<1> DEFINE A == {0} \cup Seq(Nat)
<1>1. \A X, Y : X \subseteq Y => Seq(X) \subseteq Seq(Y)
  OBVIOUS
<1>2. Seq(Seq(Nat)) \subseteq Seq(A)
  BY <1>1
<1>3. \A n \in 1 .. 4 : v[n] \in Seq(A) /\ Dealt(s, n, W) \in Seq(A)
  BY <1>2, DealtIs DEF Accumulators
<1>4. Rounds(v, s, W) = [n \in 1 .. 4 |-> v[n] \o Dealt(s, n, W)]
  BY RoundsAre
<1> HIDE DEF A
<1>5. \A n \in 1 .. 4 : v[n] \o Dealt(s, n, W) \in Seq(A)
  BY <1>3, ConcatFacts
<1>6. Rounds(v, s, W) \in [1 .. 4 -> Seq(A)]
  BY <1>4, <1>5
<1> QED
  BY <1>3, <1>4, <1>6 DEF Accumulators, A

LEMMA RoundsConcat ==
  ASSUME NEW W, NEW B, Sizes(W, B), NEW v \in Accumulators,
         NEW a \in Seq(Nat), NEW b \in Seq(Nat), Striped(a, B)
  PROVE  Rounds(Rounds(v, a, W), b, W) = Rounds(v, a \o b, W)
<1> DEFINE A == {0} \cup Seq(Nat)
           u == Rounds(v, a, W)
<1>1. u \in Accumulators /\ a \o b \in Seq(Nat)
  BY AccumulatorFacts, ConcatFacts
<1>2. ASSUME NEW n \in 1 .. 4
      PROVE  u[n] \o Dealt(b, n, W) = v[n] \o Dealt(a \o b, n, W)
  <2>1. /\ v[n] \in Seq(A) /\ Dealt(a, n, W) \in Seq(A) /\ Dealt(b, n, W) \in Seq(A)
        /\ u[n] = v[n] \o Dealt(a, n, W)
    BY AccumulatorFacts
  <2>2. Dealt(a \o b, n, W) = Dealt(a, n, W) \o Dealt(b, n, W)
    BY DealtConcat
  <2> HIDE DEF A, u
  <2>3. Associates(v[n], Dealt(a, n, W), Dealt(b, n, W))
    BY <2>1, Regrouped
  <2> QED
    BY <2>1, <2>2, <2>3, Zenon DEF Associates
<1>3. Rounds(u, b, W) = [n \in 1 .. 4 |-> u[n] \o Dealt(b, n, W)]
  BY RoundsAre
<1>4. Rounds(v, a \o b, W) = [n \in 1 .. 4 |-> v[n] \o Dealt(a \o b, n, W)]
  BY <1>1, RoundsAre
<1> HIDE DEF u
<1> QED
  BY <1>2, <1>3, <1>4 DEF u

LEMMA RoundsShort ==
  ASSUME NEW W, NEW B, Sizes(W, B), NEW v \in Accumulators, NEW s \in Seq(Nat), Len(s) < B
  PROVE  Rounds(v, s, W) = v
<1>1. Len(s) \in Nat /\ (Len(s) \div W) \div 4 = 0
  BY StripeFacts
<1>2. ASSUME NEW n \in 1 .. 4
      PROVE  v[n] \o Dealt(s, n, W) = v[n]
  <2>1. Dealt(s, n, W) \in Seq(Seq(Nat)) /\ Len(Dealt(s, n, W)) = 0
    BY <1>1, DealtIs
  <2>2. Dealt(s, n, W) = <<>>
    BY <2>1
  <2>3. v[n] \in Seq({0} \cup Seq(Nat))
    BY AccumulatorFacts
  <2>4. \A C : \A r \in Seq(C) : r \o <<>> = r
    OBVIOUS
  <2> QED
    BY <2>2, <2>3, <2>4
<1>3. Rounds(v, s, W) = [n \in 1 .. 4 |-> v[n] \o Dealt(s, n, W)]
  BY RoundsAre
<1>4. v = [n \in 1 .. 4 |-> v[n]]
  BY DEF Accumulators
<1> QED
  BY <1>2, <1>3, <1>4

LEMMA Cut ==
  ASSUME NEW s \in Seq(Nat), NEW k \in 0 .. Len(s)
  PROVE  /\ SubSeq(s, 1, k) \in Seq(Nat) /\ Len(SubSeq(s, 1, k)) = k
         /\ SubSeq(s, k + 1, Len(s)) \in Seq(Nat)
         /\ Len(SubSeq(s, k + 1, Len(s))) = Len(s) - k
         /\ s = SubSeq(s, 1, k) \o SubSeq(s, k + 1, Len(s))
<1>1. SubSeq(s, 1, k) \in Seq(Nat) /\ Len(SubSeq(s, 1, k)) = k
  OBVIOUS
<1>2. /\ SubSeq(s, k + 1, Len(s)) \in Seq(Nat)
      /\ Len(SubSeq(s, k + 1, Len(s))) = Len(s) - k
  OBVIOUS
<1>3. s = SubSeq(s, 1, k) \o SubSeq(s, k + 1, Len(s))
  <2> DEFINE a == SubSeq(s, 1, k)
             b == SubSeq(s, k + 1, Len(s))
  <2>1. \A n \in 1 .. Len(s) : s[n] = IF n <= k THEN a[n] ELSE b[n - k]
    OBVIOUS
  <2> HIDE DEF a, b
  <2>3. a \in Seq(Nat) /\ Len(a) = k /\ b \in Seq(Nat) /\ Len(b) = Len(s) - k
    BY <1>1, <1>2 DEF a, b
  <2>4. Len(s) = Len(a) + Len(b)
    BY <2>3
  <2>5. \A n \in 1 .. Len(a) + Len(b) : s[n] = IF n <= Len(a) THEN a[n] ELSE b[n - Len(a)]
    BY <2>1, <2>3, <2>4
  <2>6. s = a \o b
    BY <2>3, <2>4, <2>5, Joined
  <2> QED
    BY <2>6 DEF a, b
<1> QED
  BY <1>1, <1>2, <1>3

LEMMA RestIs ==
  ASSUME NEW W, NEW B, Sizes(W, B), NEW s \in Seq(Nat)
  PROVE  /\ Rest(s, B) \in Seq(Nat) /\ Len(Rest(s, B)) < B /\ Len(Rest(s, B)) = Len(s) % B
         /\ Len(s) < B => Rest(s, B) = s
         /\ \E a \in Seq(Nat) : Striped(a, B) /\ s = a \o Rest(s, B)
<1> DEFINE q == Len(s) \div B
           k == q * B
<1>1. /\ q \in Nat /\ k \in Nat /\ k = B * q
      /\ k <= Len(s) /\ Len(s) - k < B /\ Len(s) % B = Len(s) - k
      /\ Len(s) < B => q = 0
  <2> DEFINE m == Len(s)
  <2>1. m \in Nat
    OBVIOUS
  <2> HIDE DEF m
  <2>2. /\ m \div B \in Nat /\ (m \div B) * B \in Nat
        /\ (m \div B) * B = B * (m \div B)
        /\ (m \div B) * B <= m /\ m - (m \div B) * B < B
        /\ m % B = m - (m \div B) * B
        /\ m < B => m \div B = 0
    <3>1. CASE W = 4 /\ B = 16
      BY <2>1, <3>1
    <3>2. CASE W = 8 /\ B = 32
      BY <2>1, <3>2
    <3> QED
      BY <3>1, <3>2 DEF Sizes
  <2> QED
    BY <2>2, Zenon DEF m
<1>2. Rest(s, B) = SubSeq(s, k + 1, Len(s))
  BY Zenon DEF Rest
<1> HIDE DEF q, k
<1>3. k \in 0 .. Len(s)
  BY <1>1
<1>4. /\ SubSeq(s, 1, k) \in Seq(Nat) /\ Len(SubSeq(s, 1, k)) = k
      /\ Rest(s, B) \in Seq(Nat)
      /\ Len(Rest(s, B)) = Len(s) - k
      /\ s = SubSeq(s, 1, k) \o Rest(s, B)
  BY <1>2, <1>3, Cut
<1>5. ASSUME Len(s) < B
      PROVE  Rest(s, B) = s
  <2>1. k = 0
    <3>1. q = 0
      BY <1>1, <1>5
    <3> QED
      BY <3>1 DEF k, q, Sizes
  <2>2. SubSeq(s, 0 + 1, Len(s)) = s
    OBVIOUS
  <2> QED
    BY <1>2, <2>1, <2>2
<1>6. Striped(SubSeq(s, 1, k), B)
  BY <1>1, <1>4 DEF Striped
<1> QED
  BY <1>1, <1>4, <1>5, <1>6

LEMMA RestConcat ==
  ASSUME NEW W, NEW B, Sizes(W, B), NEW a \in Seq(Nat), NEW b \in Seq(Nat),
         Striped(a, B)
  PROVE  Rest(a \o b, B) = Rest(b, B)
<1> DEFINE i == (Len(b) \div B) * B + 1
<1>1. /\ a \o b \in Seq(Nat) /\ Len(a \o b) = Len(a) + Len(b)
      /\ Len(b) \in Nat /\ Len(a) \in Nat
  BY ConcatFacts
<1>2. PICK q \in Nat : Len(a) = B * q
  BY DEF Striped
<1>3. i \in Nat /\ i >= 1 /\ (Len(a \o b) \div B) * B + 1 = Len(a) + i
  <2>1. ASSUME NEW m \in Nat
        PROVE  /\ (m \div B) * B + 1 \in Nat /\ (m \div B) * B + 1 >= 1
               /\ ((B * q + m) \div B) * B + 1 = B * q + ((m \div B) * B + 1)
    <3>1. CASE W = 4 /\ B = 16
      BY <3>1
    <3>2. CASE W = 8 /\ B = 32
      BY <3>2
    <3> QED
      BY <3>1, <3>2 DEF Sizes
  <2> QED
    BY <1>1, <1>2, <2>1
<1>4. Rest(a \o b, B) = SubSeq(a \o b, (Len(a \o b) \div B) * B + 1, Len(a \o b))
  BY Zenon DEF Rest
<1>5. Rest(b, B) = SubSeq(b, i, Len(b))
  BY Zenon DEF Rest
<1> HIDE DEF i
<1>6. SameAfter(a, b, i, Len(b))
  BY <1>1, <1>3, SubSeqAfter
<1> QED
  BY <1>1, <1>3, <1>4, <1>5, <1>6 DEF SameAfter

(* One piece after others: it fills the buffer up, or what was there and   *)
(* the beginning of it make a stripe.                                      *)
Missing(mem, B) == IF mem = <<>> THEN 0 ELSE B - Len(mem)

PieceTaken(W, B, v, s, p) ==
  LET mem == Rest(s, B)
      fill == Missing(mem, B)
      rest == SubSeq(p, fill + 1, Len(p))
  IN /\ Len(mem) + Len(p) < B =>
          /\ Rest(s \o p, B) = mem \o p
          /\ Rounds(v, s \o p, W) = Rounds(v, s, W)
     /\ ~(Len(mem) + Len(p) < B) =>
          /\ Rest(s \o p, B) = Rest(rest, B)
          /\ Rounds(v, s \o p, W)
               = Rounds(Rounds(Rounds(v, s, W), mem \o SubSeq(p, 1, fill), W), rest, W)

LEMMA OnePiece ==
  ASSUME NEW W, NEW B, Sizes(W, B), NEW v \in Accumulators,
         NEW s \in Seq(Nat), NEW p \in Seq(Nat)
  PROVE  PieceTaken(W, B, v, s, p)
<1> DEFINE mem == Rest(s, B)
           fill == Missing(mem, B)
           rest == SubSeq(p, fill + 1, Len(p))
<1>0. rest = SubSeq(p, fill + 1, Len(p)) /\ fill = Missing(mem, B)
  OBVIOUS
<1> HIDE DEF rest, fill
<1>1. mem \in Seq(Nat) /\ Len(mem) < B
  BY RestIs
<1>9. PieceTaken(W, B, v, s, p) <=>
        /\ Len(mem) + Len(p) < B =>
              /\ Rest(s \o p, B) = mem \o p
              /\ Rounds(v, s \o p, W) = Rounds(v, s, W)
        /\ ~(Len(mem) + Len(p) < B) =>
              /\ Rest(s \o p, B) = Rest(rest, B)
              /\ Rounds(v, s \o p, W)
                   = Rounds(Rounds(Rounds(v, s, W), mem \o SubSeq(p, 1, fill), W), rest, W)
  BY Zenon DEF PieceTaken, rest, fill
<1>2. PICK a \in Seq(Nat) : Striped(a, B) /\ s = a \o mem
  BY RestIs
<1> HIDE DEF mem
<1> DEFINE u == Rounds(v, a, W)
<1>3. u \in Accumulators
  BY AccumulatorFacts
<1>4. Rounds(v, s, W) = u
  <2>1. Rounds(u, mem, W) = u
    BY <1>1, <1>3, RoundsShort
  <2> QED
    BY <1>1, <1>2, <2>1, RoundsConcat
<1>5. Len(mem) \in Nat /\ Len(p) \in Nat /\ B \in Nat /\ B > 0
  BY <1>1, ConcatFacts DEF Sizes
<1> HIDE DEF u
<1>6. ASSUME Len(mem) + Len(p) < B
      PROVE  /\ Rest(s \o p, B) = mem \o p
             /\ Rounds(v, s \o p, W) = Rounds(v, s, W)
  <2> DEFINE c == mem \o p
  <2>1. c \in Seq(Nat) /\ Len(c) < B
    BY <1>1, <1>6, ConcatFacts
  <2>2. s \o p = a \o c
    <3>1. Associates(a, mem, p)
      BY <1>1, Regrouped
    <3> QED
      BY <1>2, <3>1, Zenon DEF Associates
  <2> HIDE DEF c
  <2>3. Rest(a \o c, B) = c
    BY <1>2, <2>1, RestConcat, RestIs
  <2>4. Rounds(v, a \o c, W) = Rounds(u, c, W)
    BY <1>2, <2>1, RoundsConcat DEF u
  <2>5. Rounds(u, c, W) = u
    BY <1>3, <2>1, RoundsShort
  <2> QED
    BY <1>4, <2>2, <2>3, <2>4, <2>5 DEF c
<1>7. ASSUME ~(Len(mem) + Len(p) < B)
      PROVE  /\ Rest(s \o p, B) = Rest(rest, B)
             /\ Rounds(v, s \o p, W)
                  = Rounds(Rounds(Rounds(v, s, W), mem \o SubSeq(p, 1, fill), W), rest, W)
  <2> DEFINE h == SubSeq(p, 1, fill)
             c == mem \o h
  <2>1. fill \in 0 .. Len(p)
    BY <1>0, <1>1, <1>5, <1>7 DEF Missing
  <2>2. h \in Seq(Nat) /\ Len(h) = fill /\ rest \in Seq(Nat) /\ p = h \o rest
    BY <1>0, <2>1, Cut
  <2> HIDE DEF h
  <2>3. c \in Seq(Nat) /\ Len(c) = Len(mem) + fill
    BY <1>1, <2>2, ConcatFacts
  <2>4. Striped(c, B)
    <3>1. CASE mem = <<>>
      <4>1. Len(c) = B * 0
        BY <1>0, <1>5, <2>3, <3>1 DEF Missing
      <4> QED
        BY <4>1 DEF Striped
    <3>2. CASE mem # <<>>
      <4>1. Len(c) = B
        BY <1>0, <1>5, <2>3, <3>2 DEF Missing
      <4>2. Len(c) = B * 1
        BY <1>5, <4>1
      <4> QED
        BY <4>2 DEF Striped
    <3> QED
      BY <3>1, <3>2
  <2>5. s \o p = a \o (c \o rest)
    <3>1. h \o rest \in Seq(Nat)
      BY <2>2, ConcatFacts
    <3>2. Associates(a, mem, h \o rest) /\ Associates(mem, h, rest)
      BY <1>1, <2>2, <3>1, Regrouped
    <3> QED
      BY <1>2, <2>2, <3>2, Zenon DEF Associates
  <2> HIDE DEF c
  <2>6. c \o rest \in Seq(Nat)
    BY <2>2, <2>3, ConcatFacts
  <2>7. Rest(a \o (c \o rest), B) = Rest(c \o rest, B)
    BY <1>2, <2>6, RestConcat
  <2>8. Rest(c \o rest, B) = Rest(rest, B)
    BY <2>2, <2>3, <2>4, RestConcat
  <2>9. Rounds(Rounds(v, a, W), c \o rest, W) = Rounds(v, a \o (c \o rest), W)
    <3> DEFINE d == c \o rest
    <3> HIDE DEF d
    <3>1. d \in Seq(Nat)
      BY <2>6 DEF d
    <3>2. Rounds(Rounds(v, a, W), d, W) = Rounds(v, a \o d, W)
      BY <1>2, <3>1, RoundsConcat
    <3> QED
      BY <3>2 DEF d
  <2>10. Rounds(Rounds(u, c, W), rest, W) = Rounds(u, c \o rest, W)
    BY <1>3, <2>2, <2>3, <2>4, RoundsConcat
  <2> QED
    BY <1>4, <2>5, <2>7, <2>8, <2>9, <2>10 DEF u, c, h
<1> QED
  BY <1>6, <1>7, <1>9, Zenon DEF mem

-----------------------------------------------------------------------------
(* The states after an input s, whatever the pieces it came in.            *)
State32(s) ==
  [total_len |-> Len(s) % LENGTHS, large_len |-> Len(s) >= 16,
   v |-> Rounds(Seeds(0), s, 4), mem |-> Rest(s, 16)]
State64(s) ==
  [total_len |-> Len(s), v |-> Rounds(Seeds(0), s, 8), mem |-> Rest(s, 32)]

LEMMA SeedsType == Seeds(0) \in Accumulators
<1>1. <<0>> \in Seq({0} \cup Seq(Nat))
  OBVIOUS
<1> QED
  BY <1>1 DEF Seeds, Accumulators

(* Whether there were 16 bytes, from a length that has been counted modulo *)
(* LENGTHS and a flag.                                                     *)
LEMMA LargeIs ==
  ASSUME NEW m \in Nat, NEW n \in Nat
  PROVE  ((m >= 16 \/ n >= 16 \/ (m + n) % LENGTHS >= 16) <=> m + n >= 16)
<1>1. LENGTHS \in Nat /\ LENGTHS > 30
  BY LengthsAssumption
<1>2. \A x \in Nat : x % LENGTHS \in Nat /\ x % LENGTHS <= x /\ (x < LENGTHS => x % LENGTHS = x)
  BY <1>1
<1>3. (m + n) % LENGTHS <= m + n /\ (m + n) % LENGTHS \in Nat
      /\ (m + n < LENGTHS => (m + n) % LENGTHS = m + n)
  <2>1. m + n \in Nat
    OBVIOUS
  <2> QED
    BY <1>2, <2>1
<1> QED
  BY <1>1, <1>3

LEMMA Update32 ==
  ASSUME NEW s \in Seq(Nat), NEW p \in Seq(Nat)
  PROVE  XXH32_update(State32(s), p) = State32(s \o p)
<1> DEFINE st == State32(s)
           total == (st.total_len + Len(p)) % LENGTHS
           fill == IF st.mem = <<>> THEN 0 ELSE 16 - Len(st.mem)
           rest == SubSeq(p, fill + 1, Len(p))
           counted == [st EXCEPT !.total_len = total, !.large_len = Large(st, p, total)]
<1>1. Len(s \o p) = Len(s) + Len(p) /\ Len(s) \in Nat /\ Len(p) \in Nat
  BY ConcatFacts
<1>2. total = Len(s \o p) % LENGTHS
  <2>1. LENGTHS \in Nat /\ LENGTHS > 0
    BY LengthsAssumption
  <2>2. ((Len(s) % LENGTHS) + Len(p)) % LENGTHS = (Len(s) + Len(p)) % LENGTHS
    BY <1>1, <2>1, SumModulo
  <2> QED
    BY <1>1, <2>2 DEF State32
<1>3. Large(st, p, total) = (Len(s \o p) >= 16)
  <2>1. Large(st, p, total) <=> (Len(s) >= 16 \/ Len(p) >= 16 \/ total >= 16)
    <3> HIDE DEF total
    <3> QED
      BY DEF Large, State32
  <2>2. (Len(s) >= 16 \/ Len(p) >= 16 \/ total >= 16) <=> Len(s) + Len(p) >= 16
    BY <1>1, <1>2, LargeIs
  <2>3. Large(st, p, total) \in BOOLEAN /\ (Len(s \o p) >= 16) \in BOOLEAN
    BY DEF Large, State32
  <2> QED
    BY <1>1, <2>1, <2>2, <2>3
<1>4. st.mem = Rest(s, 16) /\ st.v = Rounds(Seeds(0), s, 4) /\ fill = Missing(Rest(s, 16), 16)
  BY DEF State32, Missing
<1>5. counted = [total_len |-> Len(s \o p) % LENGTHS, large_len |-> Len(s \o p) >= 16,
                 v |-> Rounds(Seeds(0), s, 4), mem |-> Rest(s, 16)]
  <2> DEFINE large == Large(st, p, total)
  <2>1. large = (Len(s \o p) >= 16)
    BY <1>3
  <2> HIDE DEF large
  <2>2. counted = [st EXCEPT !.total_len = total, !.large_len = large]
    BY Zenon DEF large
  <2> HIDE DEF total, counted
  <2> QED
    BY <1>2, <2>1, <2>2 DEF State32
<1>6. XXH32_update(st, p) =
        IF Len(st.mem) + Len(p) < 16
        THEN [counted EXCEPT !.mem = @ \o p]
        ELSE [counted EXCEPT
                !.v = Rounds(Rounds(@, st.mem \o SubSeq(p, 1, fill), 4), rest, 4),
                !.mem = Rest(rest, 16)]
  BY Zenon DEF XXH32_update
<1>7. Sizes(4, 16)
  BY DEF Sizes
<1>8. /\ Len(Rest(s, 16)) + Len(p) < 16 =>
           /\ Rest(s \o p, 16) = Rest(s, 16) \o p
           /\ Rounds(Seeds(0), s \o p, 4) = Rounds(Seeds(0), s, 4)
      /\ ~(Len(Rest(s, 16)) + Len(p) < 16) =>
           /\ Rest(s \o p, 16) = Rest(rest, 16)
           /\ Rounds(Seeds(0), s \o p, 4)
                = Rounds(Rounds(Rounds(Seeds(0), s, 4), Rest(s, 16) \o SubSeq(p, 1, fill), 4),
                         rest, 4)
  <2>1. PieceTaken(4, 16, Seeds(0), s, p)
    BY <1>7, SeedsType, OnePiece
  <2>2. fill = Missing(Rest(s, 16), 16)
    BY <1>4
  <2> HIDE DEF fill
  <2> QED
    BY <2>1, <2>2 DEF PieceTaken
<1> HIDE DEF st, fill, rest, counted
<1>9. CASE Len(st.mem) + Len(p) < 16
  <2>1. XXH32_update(st, p) = [counted EXCEPT !.mem = @ \o p]
    BY <1>6, <1>9
  <2> QED
    BY <1>4, <1>5, <1>8, <1>9, <2>1 DEF State32, st
<1>10. CASE ~(Len(st.mem) + Len(p) < 16)
  <2>1. XXH32_update(st, p) =
          [counted EXCEPT
             !.v = Rounds(Rounds(@, st.mem \o SubSeq(p, 1, fill), 4), rest, 4),
             !.mem = Rest(rest, 16)]
    BY <1>6, <1>10
  <2> QED
    BY <1>4, <1>5, <1>8, <1>10, <2>1 DEF State32, st
<1> QED
  BY <1>9, <1>10 DEF st

LEMMA Update64 ==
  ASSUME NEW s \in Seq(Nat), NEW p \in Seq(Nat)
  PROVE  XXH64_update(State64(s), p) = State64(s \o p)
<1> DEFINE st == State64(s)
           fill == IF st.mem = <<>> THEN 0 ELSE 32 - Len(st.mem)
           rest == SubSeq(p, fill + 1, Len(p))
           counted == [st EXCEPT !.total_len = @ + Len(p)]
<1>1. Len(s \o p) = Len(s) + Len(p)
  BY ConcatFacts
<1>2. st.mem = Rest(s, 32) /\ st.v = Rounds(Seeds(0), s, 8) /\ fill = Missing(Rest(s, 32), 32)
  BY DEF State64, Missing
<1>3. counted = [total_len |-> Len(s \o p), v |-> Rounds(Seeds(0), s, 8), mem |-> Rest(s, 32)]
  BY <1>1 DEF State64
<1>4. XXH64_update(st, p) =
        IF Len(st.mem) + Len(p) < 32
        THEN [counted EXCEPT !.mem = @ \o p]
        ELSE [counted EXCEPT
                !.v = Rounds(Rounds(@, st.mem \o SubSeq(p, 1, fill), 8), rest, 8),
                !.mem = Rest(rest, 32)]
  BY Zenon DEF XXH64_update
<1>5. Sizes(8, 32)
  BY DEF Sizes
<1>6. /\ Len(Rest(s, 32)) + Len(p) < 32 =>
           /\ Rest(s \o p, 32) = Rest(s, 32) \o p
           /\ Rounds(Seeds(0), s \o p, 8) = Rounds(Seeds(0), s, 8)
      /\ ~(Len(Rest(s, 32)) + Len(p) < 32) =>
           /\ Rest(s \o p, 32) = Rest(rest, 32)
           /\ Rounds(Seeds(0), s \o p, 8)
                = Rounds(Rounds(Rounds(Seeds(0), s, 8), Rest(s, 32) \o SubSeq(p, 1, fill), 8),
                         rest, 8)
  <2>1. PieceTaken(8, 32, Seeds(0), s, p)
    BY <1>5, SeedsType, OnePiece
  <2>2. fill = Missing(Rest(s, 32), 32)
    BY <1>2
  <2> HIDE DEF fill
  <2> QED
    BY <2>1, <2>2 DEF PieceTaken
<1> HIDE DEF st, fill, rest, counted
<1>7. CASE Len(st.mem) + Len(p) < 32
  <2>1. XXH64_update(st, p) = [counted EXCEPT !.mem = @ \o p]
    BY <1>4, <1>7
  <2> QED
    BY <1>2, <1>3, <1>6, <1>7, <2>1 DEF State64, st
<1>8. CASE ~(Len(st.mem) + Len(p) < 32)
  <2>1. XXH64_update(st, p) =
          [counted EXCEPT
             !.v = Rounds(Rounds(@, st.mem \o SubSeq(p, 1, fill), 8), rest, 8),
             !.mem = Rest(rest, 32)]
    BY <1>4, <1>8
  <2> QED
    BY <1>2, <1>3, <1>6, <1>8, <2>1 DEF State64, st
<1> QED
  BY <1>7, <1>8 DEF st

-----------------------------------------------------------------------------
(* The two states are functions of the input alone.                        *)
StreamInv ==
  /\ fed \in Seq(Nat)
  /\ st32 = State32(fed)
  /\ st64 = State64(fed)

LEMMA Empty ==
  /\ <<>> \in Seq(Nat)
  /\ XXH32_reset(0) = State32(<<>>)
  /\ XXH64_reset(0) = State64(<<>>)
<1>1. <<>> \in Seq(Nat) /\ Len(<<>>) = 0
  OBVIOUS
<1>2. Sizes(4, 16) /\ Sizes(8, 32)
  BY DEF Sizes
<1>3. ASSUME NEW e \in Seq(Nat), Len(e) = 0
      PROVE  /\ Rounds(Seeds(0), e, 4) = Seeds(0) /\ Rounds(Seeds(0), e, 8) = Seeds(0)
             /\ Rest(e, 16) = e /\ Rest(e, 32) = e
  <2>1. Len(e) < 16 /\ Len(e) < 32
    BY <1>3
  <2> QED
    BY <1>2, <2>1, SeedsType, RoundsShort, RestIs
<1>4. /\ Rounds(Seeds(0), <<>>, 4) = Seeds(0) /\ Rounds(Seeds(0), <<>>, 8) = Seeds(0)
      /\ Rest(<<>>, 16) = <<>> /\ Rest(<<>>, 32) = <<>>
  BY <1>1, <1>3, Zenon
<1>5. 0 % LENGTHS = 0
  BY LengthsAssumption
<1>6. ~(Len(<<>>) >= 16)
  BY <1>1
<1>7. (Len(<<>>) >= 16) = FALSE
  BY <1>6
<1>8. XXH32_reset(0) = State32(<<>>)
  BY <1>1, <1>4, <1>5, <1>7 DEF XXH32_reset, State32
<1>9. XXH64_reset(0) = State64(<<>>)
  BY <1>1, <1>4 DEF XXH64_reset, State64
<1> QED
  BY <1>1, <1>8, <1>9

LEMMA StreamInvariant == StreamSpec => []StreamInv
<1>1. StreamInit => StreamInv
  BY Empty DEF StreamInit, StreamInv
<1>2. StreamInv /\ [StreamNext]_stream => StreamInv'
  <2> SUFFICES ASSUME StreamInv, [StreamNext]_stream
               PROVE  StreamInv'
    OBVIOUS
  <2>1. CASE Reset
    BY <2>1, Empty DEF Reset, StreamInv
  <2>2. CASE Update
    <3>1. Len(fed) \in Nat /\ MaxLength \in Nat
      BY MaxLengthAssumption DEF StreamInv
    <3>2. PICK n \in 0 .. MaxLength - Len(fed) :
            /\ fed' = fed \o Piece(n)
            /\ st32' = XXH32_update(st32, Piece(n))
            /\ st64' = XXH64_update(st64, Piece(n))
      BY <2>2 DEF Update
    <3>3. Piece(n) \in Seq(Nat)
      <4>1. n \in Nat
        BY <3>1
      <4>2. Piece(n) \in [1 .. n -> Nat]
        BY <3>1, <4>1 DEF Piece
      <4> QED
        BY <4>1, <4>2
    <3> DEFINE p == Piece(n)
    <3> HIDE DEF p
    <3>4. p \in Seq(Nat) /\ fed \in Seq(Nat) /\ fed' = fed \o p
      BY <3>2, <3>3 DEF p, StreamInv
    <3>5. fed' \in Seq(Nat)
      BY <3>4, ConcatFacts
    <3>6. st32' = XXH32_update(State32(fed), p) /\ st64' = XXH64_update(State64(fed), p)
      BY <3>2, Zenon DEF p, StreamInv
    <3>7. st32' = State32(fed \o p) /\ st64' = State64(fed \o p)
      BY <3>4, <3>6, Update32, Update64
    <3>8. st32' = State32(fed') /\ st64' = State64(fed')
      BY <3>4, <3>7, Zenon
    <3> QED
      BY <3>5, <3>8 DEF StreamInv
  <2>3. CASE UNCHANGED stream
    BY <2>3 DEF stream, StreamInv
  <2> QED
    BY <2>1, <2>2, <2>3 DEF StreamNext
<1> QED
  BY <1>1, <1>2, PTL DEF StreamSpec

(* An input of any length, handed over in any pieces, has at any time the  *)
(* hash it has at once, in XXH32 and in XXH64: also where a piece ends     *)
(* inside a stripe or fills the buffer exactly, and where the length has   *)
(* passed what total_len_32 can hold (lines 2173-2244, 2588-2657).         *)
THEOREM PiecesDoNotMatter == StreamSpec => []StreamingAgrees
<1>1. StreamInv => StreamingAgrees
  <2> SUFFICES ASSUME StreamInv
               PROVE  StreamingAgrees
    OBVIOUS
  <2>1. fed \in Seq(Nat) /\ Sizes(8, 32)
    BY DEF StreamInv, Sizes
  <2>2. /\ st32.v = Rounds(Seeds(0), fed, 4) /\ st32.mem = Rest(fed, 16)
        /\ st32.total_len = Len(fed) % LENGTHS
        /\ st64.v = Rounds(Seeds(0), fed, 8) /\ st64.mem = Rest(fed, 32)
        /\ st64.total_len = Len(fed)
    BY DEF StreamInv, State32, State64
  <2>3. st32.large_len = (Len(fed) >= 16)
    BY DEF StreamInv, State32
  <2>4. XXH32_digest(st32) = XXH32(fed, 0)
    BY <2>2, <2>3, Zenon DEF XXH32_digest, XXH32
  <2>5. SubSeq(st64.mem, 1, st64.total_len % 32) = Rest(fed, 32)
    <3>1. Rest(fed, 32) \in Seq(Nat) /\ Len(Rest(fed, 32)) = Len(fed) % 32
      BY <2>1, RestIs
    <3>2. \A s \in Seq(Nat) : SubSeq(s, 1, Len(s)) = s
      OBVIOUS
    <3> QED
      BY <2>2, <3>1, <3>2
  <2>6. XXH64_digest(st64) = XXH64(fed, 0)
    BY <2>2, <2>5, Zenon DEF XXH64_digest, XXH64
  <2> QED
    BY <2>4, <2>6 DEF StreamingAgrees
<1> QED
  BY <1>1, StreamInvariant, PTL
=============================================================================
