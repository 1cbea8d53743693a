--------------------------- MODULE SequenceLemmas ---------------------------
(***************************************************************************)
(* What the proofs need to know of the sequences that the modules keep as  *)
(* stacks, caches and streams: of their ends, their windows, and of a      *)
(* sequence in which one part is replaced.                                 *)
(***************************************************************************)
EXTENDS SequencesExt, SequenceTheorems, TLAPS

LEMMA FrontLast ==
  ASSUME NEW S, NEW s \in Seq(S), s # <<>>
  PROVE  /\ Len(s) \in Nat \ {0}
         /\ Front(s) \in Seq(S)
         /\ Len(Front(s)) = Len(s) - 1
         /\ \A i \in 1 .. Len(s) - 1 : Front(s)[i] = s[i]
         /\ Last(s) = s[Len(s)]
         /\ Last(s) \in S
<1>1. PICK n \in Nat : n = Len(s) - 1 OBVIOUS
<1>2. 1 \in 1 .. Len(s) + 1 /\ n \in 1 - 1 .. Len(s) /\ \A i \in 1 .. n : s[i] \in S
  BY <1>1
<1>3. /\ SubSeq(s, 1, n) \in Seq(S)
      /\ Len(SubSeq(s, 1, n)) = IF 1 <= n THEN n - 1 + 1 ELSE 0
      /\ \A i \in 1 .. n - 1 + 1 : SubSeq(s, 1, n)[i] = s[1 + i - 1]
  BY <1>2, SubSeqProperties
<1>4. Len(SubSeq(s, 1, n)) = n /\ \A i \in 1 .. n : SubSeq(s, 1, n)[i] = s[i]
  BY <1>3
<1>5. Front(s) = SubSeq(s, 1, n) /\ Last(s) = s[Len(s)]
  BY <1>1 DEF Front, Last
<1> QED BY <1>1, <1>3, <1>4, <1>5

(* The tokens from the m-th to the n-th. *)
LEMMA Window ==
  ASSUME NEW S, NEW s \in Seq(S), NEW m \in 1 .. Len(s) + 1, NEW n \in m - 1 .. Len(s)
  PROVE  /\ SubSeq(s, m, n) \in Seq(S)
         /\ Len(SubSeq(s, m, n)) = n - m + 1
         /\ \A i \in 1 .. n - m + 1 : SubSeq(s, m, n)[i] = s[m + i - 1]
<1>1. m \in Int /\ n \in Int /\ \A i \in m .. n : s[i] \in S BY ElementOfSeq
<1>2. /\ SubSeq(s, m, n) \in Seq(S)
      /\ Len(SubSeq(s, m, n)) = IF m <= n THEN n - m + 1 ELSE 0
      /\ \A i \in 1 .. n - m + 1 : SubSeq(s, m, n)[i] = s[m + i - 1]
  BY <1>1, SubSeqProperties
<1> QED BY <1>1, <1>2

(* A window of a window. *)
LEMMA WindowOfWindow ==
  ASSUME NEW S, NEW s \in Seq(S), NEW m \in 1 .. Len(s) + 1, NEW n \in m - 1 .. Len(s),
         NEW k \in 0 .. n - m + 1
  PROVE  /\ SubSeq(SubSeq(s, m, n), k + 1, n - m + 1) = SubSeq(s, m + k, n)
         /\ SubSeq(SubSeq(s, m, n), 1, k) = SubSeq(s, m, m + k - 1)
<1> DEFINE w == SubSeq(s, m, n)
<1>1. /\ w \in Seq(S) /\ Len(w) = n - m + 1
      /\ \A i \in 1 .. n - m + 1 : w[i] = s[m + i - 1]
  BY Window
<1>2. /\ Len(s) \in Nat /\ m \in Int /\ n \in Int /\ k \in Int
      /\ m + k \in 1 .. Len(s) + 1 /\ n \in (m + k) - 1 .. Len(s)
      /\ m + k - 1 \in m - 1 .. Len(s)
  OBVIOUS
<1> HIDE DEF w
<1>3. /\ SubSeq(w, k + 1, n - m + 1) \in Seq(S)
      /\ Len(SubSeq(w, k + 1, n - m + 1)) = n - m - k + 1
      /\ \A i \in 1 .. n - m - k + 1 : SubSeq(w, k + 1, n - m + 1)[i] = w[k + i]
  <2>1. k + 1 \in 1 .. Len(w) + 1 /\ n - m + 1 \in (k + 1) - 1 .. Len(w) BY <1>1, <1>2
  <2>2. /\ SubSeq(w, k + 1, n - m + 1) \in Seq(S)
        /\ Len(SubSeq(w, k + 1, n - m + 1)) = (n - m + 1) - (k + 1) + 1
        /\ \A i \in 1 .. (n - m + 1) - (k + 1) + 1 :
             SubSeq(w, k + 1, n - m + 1)[i] = w[(k + 1) + i - 1]
    BY <1>1, <2>1, Window
  <2> QED BY <2>2, <1>2
<1>4. /\ SubSeq(s, m + k, n) \in Seq(S)
      /\ Len(SubSeq(s, m + k, n)) = n - (m + k) + 1
      /\ \A i \in 1 .. n - (m + k) + 1 : SubSeq(s, m + k, n)[i] = s[(m + k) + i - 1]
  BY <1>2, Window
<1>5. SubSeq(w, k + 1, n - m + 1) = SubSeq(s, m + k, n)
  <2>1. \A i \in 1 .. n - m - k + 1 : w[k + i] = s[(m + k) + i - 1]
    <3> TAKE i \in 1 .. n - m - k + 1
    <3>1. k + i \in 1 .. n - m + 1 /\ m + (k + i) - 1 = (m + k) + i - 1 BY <1>2
    <3> QED BY <3>1, <1>1
  <2> DEFINE a == SubSeq(w, k + 1, n - m + 1)
             b == SubSeq(s, m + k, n)
  <2>2. /\ a \in Seq(S) /\ b \in Seq(S) /\ Len(a) = n - m - k + 1 /\ Len(b) = Len(a)
        /\ \A i \in 1 .. n - m - k + 1 : a[i] = b[i]
    <3>1. n - (m + k) + 1 = n - m - k + 1 BY <1>2
    <3>2. Len(a) = n - m - k + 1 /\ Len(b) = n - m - k + 1 BY <3>1, <1>3, <1>4
    <3>3. \A i \in 1 .. n - m - k + 1 : a[i] = w[k + i] /\ b[i] = s[(m + k) + i - 1]
      BY <3>1, <1>3, <1>4
    <3> QED BY <3>2, <3>3, <2>1, <1>3, <1>4
  <2> HIDE DEF a, b
  <2>3. a = b BY <2>2, SeqEqual
  <2> QED BY <2>3 DEF a, b
<1>6. /\ SubSeq(w, 1, k) \in Seq(S)
      /\ Len(SubSeq(w, 1, k)) = k
      /\ \A i \in 1 .. k : SubSeq(w, 1, k)[i] = w[i]
  <2>1. 1 \in 1 .. Len(w) + 1 /\ k \in 1 - 1 .. Len(w) BY <1>1, <1>2
  <2>2. /\ SubSeq(w, 1, k) \in Seq(S)
        /\ Len(SubSeq(w, 1, k)) = k - 1 + 1
        /\ \A i \in 1 .. k - 1 + 1 : SubSeq(w, 1, k)[i] = w[1 + i - 1]
    BY <1>1, <2>1, Window
  <2> QED BY <2>2, <1>2
<1>7. /\ SubSeq(s, m, m + k - 1) \in Seq(S)
      /\ Len(SubSeq(s, m, m + k - 1)) = (m + k - 1) - m + 1
      /\ \A i \in 1 .. (m + k - 1) - m + 1 : SubSeq(s, m, m + k - 1)[i] = s[m + i - 1]
  BY <1>2, Window
<1>8. SubSeq(w, 1, k) = SubSeq(s, m, m + k - 1)
  <2>1. \A i \in 1 .. k : w[i] = s[m + i - 1] BY <1>1, <1>2
  <2> DEFINE a == SubSeq(w, 1, k)
             b == SubSeq(s, m, m + k - 1)
  <2>2. /\ a \in Seq(S) /\ b \in Seq(S) /\ Len(a) = k /\ Len(b) = k
        /\ \A i \in 1 .. k : a[i] = b[i]
    BY <2>1, <1>2, <1>6, <1>7
  <2> HIDE DEF a, b
  <2>3. a = b BY <2>2, SeqEqual
  <2> QED BY <2>3 DEF a, b
<1> QED BY <1>5, <1>8 DEF w

(* Windows of two sequences that agree, one d places from the other. *)
LEMMA EqualWindows ==
  ASSUME NEW S, NEW s \in Seq(S), NEW t \in Seq(S), NEW d \in Int,
         NEW m \in 1 .. Len(s) + 1, NEW n \in m - 1 .. Len(s),
         m + d \in 1 .. Len(t) + 1, n + d \in (m + d) - 1 .. Len(t),
         \A i \in m .. n : s[i] = t[i + d]
  PROVE  SubSeq(s, m, n) = SubSeq(t, m + d, n + d)
<1> DEFINE a == SubSeq(s, m, n)
           b == SubSeq(t, m + d, n + d)
<1>1. a \in Seq(S) /\ Len(a) = n - m + 1 /\ \A i \in 1 .. n - m + 1 : a[i] = s[m + i - 1]
  BY Window
<1>2. /\ b \in Seq(S) /\ Len(b) = (n + d) - (m + d) + 1
      /\ \A i \in 1 .. (n + d) - (m + d) + 1 : b[i] = t[(m + d) + i - 1]
  BY Window
<1>3. (n + d) - (m + d) + 1 = n - m + 1 OBVIOUS
<1>4. \A i \in 1 .. n - m + 1 : a[i] = b[i]
  <2> TAKE i \in 1 .. n - m + 1
  <2>1. m + i - 1 \in m .. n /\ (m + i - 1) + d = (m + d) + i - 1 OBVIOUS
  <2>2. s[m + i - 1] = t[(m + d) + i - 1] BY <2>1
  <2> QED BY <1>1, <1>2, <1>3, <2>2
<1> HIDE DEF a, b
<1>5. a = b BY <1>1, <1>2, <1>3, <1>4, SeqEqual
<1> QED BY <1>5 DEF a, b

LEMMA SameWindow ==
  ASSUME NEW S, NEW s \in Seq(S), NEW t \in Seq(S),
         NEW m \in 1 .. Len(s) + 1, NEW n \in m - 1 .. Len(s), n <= Len(t),
         \A i \in m .. n : s[i] = t[i]
  PROVE  SubSeq(s, m, n) = SubSeq(t, m, n)
<1>1. /\ 0 \in Int /\ m + 0 = m /\ n + 0 = n
      /\ m + 0 \in 1 .. Len(t) + 1 /\ n + 0 \in (m + 0) - 1 .. Len(t)
  OBVIOUS
<1>2. \A i \in m .. n : s[i] = t[i + 0] OBVIOUS
<1>3. SubSeq(s, m, n) = SubSeq(t, m + 0, n + 0) BY <1>1, <1>2, EqualWindows
<1> QED BY <1>1, <1>3

(* A token put between the first p and the ones after the q-th. *)
IsSplice(S, s, p, q, t, c) ==
  /\ c \in Seq(S) /\ Len(c) = Len(s) + p + 1 - q
  /\ \A i \in 1 .. p : c[i] = s[i]
  /\ c[p + 1] = t
  /\ \A i \in q + 1 .. Len(s) : c[i + p + 1 - q] = s[i]

LEMMA Spliced ==
  ASSUME NEW S, NEW s \in Seq(S), NEW q \in 0 .. Len(s), NEW p \in 0 .. q, NEW t \in S, NEW c,
         c = SubSeq(s, 1, p) \o <<t>> \o SubSeq(s, q + 1, Len(s))
  PROVE  IsSplice(S, s, p, q, t, c)
<1> DEFINE a == SubSeq(s, 1, p)
           b == SubSeq(s, q + 1, Len(s))
           at == a \o <<t>>
<1>0. Len(s) \in Nat /\ p \in Nat /\ q \in Nat /\ p <= q /\ q <= Len(s) OBVIOUS
<1>1. a \in Seq(S) /\ Len(a) = p /\ \A i \in 1 .. p : a[i] = s[i]
  <2>1. 1 \in 1 .. Len(s) + 1 /\ p \in 1 - 1 .. Len(s) BY <1>0
  <2>2. a \in Seq(S) /\ Len(a) = p - 1 + 1 /\ \A i \in 1 .. p - 1 + 1 : a[i] = s[1 + i - 1]
    BY <2>1, Window
  <2> QED BY <2>2
<1>2. b \in Seq(S) /\ Len(b) = Len(s) - q /\ \A i \in 1 .. Len(s) - q : b[i] = s[q + i]
  <2>1. q + 1 \in 1 .. Len(s) + 1 /\ Len(s) \in (q + 1) - 1 .. Len(s) BY <1>0
  <2>2. /\ b \in Seq(S) /\ Len(b) = Len(s) - (q + 1) + 1
        /\ \A i \in 1 .. Len(s) - (q + 1) + 1 : b[i] = s[(q + 1) + i - 1]
    BY <2>1, Window
  <2> QED BY <2>2
<1>3. c = at \o b OBVIOUS
<1> HIDE DEF a, b
<1>4. at \in Seq(S) /\ Len(at) = p + 1 /\ (\A i \in 1 .. p : at[i] = a[i]) /\ at[p + 1] = t
  BY <1>1
<1> HIDE DEF at
<1>5. /\ at \o b \in Seq(S) /\ Len(at \o b) = Len(at) + Len(b)
      /\ \A i \in 1 .. Len(at) + Len(b) :
           (at \o b)[i] = IF i <= Len(at) THEN at[i] ELSE b[i - Len(at)]
  BY <1>2, <1>4, ConcatProperties
<1>6. \A i \in q + 1 .. Len(s) : c[i + p + 1 - q] = s[i]
  <2> TAKE i \in q + 1 .. Len(s)
  <2>1. i - q \in 1 .. Len(s) - q /\ q + (i - q) = i BY <1>0
  <2>2. b[i - q] = s[i] BY <1>2, <2>1
  <2>3. /\ i + p + 1 - q \in 1 .. Len(at) + Len(b) /\ ~(i + p + 1 - q <= Len(at))
        /\ (i + p + 1 - q) - Len(at) = i - q
    BY <1>0, <1>2, <1>4
  <2> QED BY <1>3, <1>5, <2>2, <2>3
<1>7. \A i \in 1 .. p + 1 : c[i] = at[i]
  <2> TAKE i \in 1 .. p + 1
  <2>1. i \in 1 .. Len(at) + Len(b) /\ i <= Len(at) BY <1>0, <1>2, <1>4
  <2> QED BY <1>3, <1>5, <2>1
<1>8. Len(c) = Len(s) + p + 1 - q /\ c \in Seq(S)
  <2>1. Len(at) + Len(b) = Len(s) + p + 1 - q BY <1>0, <1>2, <1>4
  <2> QED BY <2>1, <1>3, <1>5
<1>9. \A i \in 1 .. p : c[i] = s[i]
  <2> TAKE i \in 1 .. p
  <2>1. i \in 1 .. p + 1 BY <1>0
  <2> QED BY <2>1, <1>1, <1>4, <1>7
<1>10. c[p + 1] = t
  <2>1. p + 1 \in 1 .. p + 1 BY <1>0
  <2> QED BY <2>1, <1>4, <1>7
<1> QED BY <1>6, <1>8, <1>9, <1>10 DEF IsSplice

LEMMA WindowAppend ==
  ASSUME NEW S, NEW s \in Seq(S), NEW m \in 1 .. Len(s), NEW n \in m .. Len(s)
  PROVE  SubSeq(s, m, n) = Append(SubSeq(s, m, n - 1), s[n])
<1>1. SubSeq(s, m, n) = SubSeq(s, m, n - 1) \o << s[n] >> BY SubSeqRecursiveSecond
<1>2. m \in 1 .. Len(s) + 1 /\ n - 1 \in m - 1 .. Len(s) OBVIOUS
<1>3. SubSeq(s, m, n - 1) \in Seq(S) BY <1>2, Window
<1>4. s[n] \in S BY ElementOfSeq
<1>5. Append(SubSeq(s, m, n - 1), s[n]) = SubSeq(s, m, n - 1) \o << s[n] >>
  BY <1>3, <1>4, AppendIsConcat
<1> QED BY <1>1, <1>5

(* The windows of a splice: what follows the new token, and what is before. *)
SplicesWindows(s, p, q, t, c) ==
  /\ SubSeq(c, p + 2, Len(c)) = SubSeq(s, q + 1, Len(s))
  /\ SubSeq(c, p + 1, Len(c)) = <<t>> \o SubSeq(s, q + 1, Len(s))
  /\ \A b \in 0 .. p : SubSeq(c, b + 1, p) = SubSeq(s, b + 1, p)

LEMMA SpliceWindows ==
  ASSUME NEW S, NEW s \in Seq(S), NEW q \in 0 .. Len(s), NEW p \in 0 .. q, NEW t \in S, NEW c,
         IsSplice(S, s, p, q, t, c)
  PROVE  SplicesWindows(s, p, q, t, c)
<1>1. /\ c \in Seq(S) /\ Len(c) = Len(s) + p + 1 - q /\ c[p + 1] = t
      /\ \A i \in 1 .. p : c[i] = s[i]
      /\ \A i \in q + 1 .. Len(s) : c[i + p + 1 - q] = s[i]
  BY DEF IsSplice
<1>2. Len(s) \in Nat /\ p \in Nat /\ q \in Nat /\ p <= q /\ q <= Len(s) OBVIOUS
<1>3. SubSeq(c, p + 2, Len(c)) = SubSeq(s, q + 1, Len(s))
  <2> DEFINE d == p + 1 - q
  <2>1. /\ d \in Int /\ q + 1 \in 1 .. Len(s) + 1 /\ Len(s) \in (q + 1) - 1 .. Len(s)
        /\ (q + 1) + d = p + 2 /\ Len(s) + d = Len(c)
        /\ (q + 1) + d \in 1 .. Len(c) + 1 /\ Len(s) + d \in ((q + 1) + d) - 1 .. Len(c)
    BY <1>1, <1>2
  <2>2. \A i \in q + 1 .. Len(s) : s[i] = c[i + d]
    <3> TAKE i \in q + 1 .. Len(s)
    <3>1. i + d = i + p + 1 - q BY <1>2
    <3> QED BY <1>1, <3>1
  <2> HIDE DEF d
  <2>3. SubSeq(s, q + 1, Len(s)) = SubSeq(c, (q + 1) + d, Len(s) + d)
    BY <1>1, <2>1, <2>2, EqualWindows
  <2> QED BY <2>1, <2>3
<1>4. SubSeq(c, p + 1, Len(c)) = <<t>> \o SubSeq(s, q + 1, Len(s))
  <2>1. p + 1 \in 1 .. Len(c) /\ Len(c) \in p + 1 .. Len(c) BY <1>1, <1>2
  <2>2. SubSeq(c, p + 1, Len(c)) = << c[p + 1] >> \o SubSeq(c, (p + 1) + 1, Len(c))
    BY <1>1, <2>1, SubSeqRecursiveFirst
  <2>3. (p + 1) + 1 = p + 2 BY <1>2
  <2> QED BY <1>1, <1>3, <2>2, <2>3
<1>5. \A b \in 0 .. p : SubSeq(c, b + 1, p) = SubSeq(s, b + 1, p)
  <2> TAKE b \in 0 .. p
  <2>1. b + 1 \in 1 .. Len(s) + 1 /\ p \in (b + 1) - 1 .. Len(s) /\ p <= Len(c)
    BY <1>1, <1>2
  <2>2. \A i \in b + 1 .. p : s[i] = c[i]
    <3> TAKE i \in b + 1 .. p
    <3>1. i \in 1 .. p BY <1>2
    <3> QED BY <1>1, <3>1
  <2> QED BY <1>1, <2>1, <2>2, SameWindow
<1> QED BY <1>3, <1>4, <1>5 DEF SplicesWindows

LEMMA ConsHeadTail ==
  ASSUME NEW S, NEW e \in S, NEW r \in Seq(S)
  PROVE  /\ <<e>> \o r \in Seq(S) /\ <<e>> \o r # <<>> /\ Len(<<e>> \o r) = Len(r) + 1
         /\ Head(<<e>> \o r) = e /\ Tail(<<e>> \o r) = r
<1> DEFINE s == <<e>> \o r
<1>1. <<e>> \in Seq(S) /\ Len(<<e>>) = 1 /\ <<e>>[1] = e OBVIOUS
<1>2. /\ s \in Seq(S) /\ Len(s) = 1 + Len(r)
      /\ \A i \in 1 .. 1 + Len(r) : s[i] = IF i <= 1 THEN <<e>>[i] ELSE r[i - 1]
  BY <1>1, ConcatProperties
<1>3. Len(r) \in Nat OBVIOUS
<1> HIDE DEF s
<1>4. s # <<>> BY <1>2, <1>3
<1>5. s[1] = e BY <1>1, <1>2, <1>3
<1>6. Head(s) = e BY <1>2, <1>4, <1>5
<1>7. Tail(s) \in Seq(S) /\ Len(Tail(s)) = Len(r) /\ \A i \in 1 .. Len(r) : Tail(s)[i] = s[i + 1]
  BY <1>2, <1>3, <1>4, HeadTailProperties
<1>8. \A i \in 1 .. Len(r) : Tail(s)[i] = r[i]
  <2> TAKE i \in 1 .. Len(r)
  <2>1. i + 1 \in 1 .. 1 + Len(r) /\ ~(i + 1 <= 1) /\ (i + 1) - 1 = i BY <1>3
  <2> QED BY <1>2, <1>7, <2>1
<1>9. Tail(s) = r BY <1>7, <1>8, SeqEqual
<1> QED BY <1>2, <1>3, <1>4, <1>6, <1>9 DEF s
=============================================================================
