------------------------ MODULE PresumedLocs_proofs ------------------------
(***************************************************************************)
(* Proofs about module PresumedLocs, for every text, every ascending list  *)
(* of windows, and any number of directives with any flags: the hint of    *)
(* getLineNumber is right, and one include offset for each note recovers   *)
(* the stack of presumed includes.                                         *)
(***************************************************************************)
EXTENDS PresumedLocs, SequenceLemmas, FiniteSetTheorems, WellFoundedInduction

-----------------------------------------------------------------------------
(* Least and greatest elements.                                            *)

LEMMA LeastNatural ==
  ASSUME NEW T, T \subseteq Nat, T # {}
  PROVE  \E m \in T : \A n \in T : m <= n
<1>1. PICK m \in T : \A n \in T : ~ (<<n, m>> \in OpToRel(<, Nat))
  BY NatLessThanWellFounded, WFMin, Zenon
<1>2. \A n \in T : <<n, m>> \in Nat \X Nat /\ <<n, m>>[1] = n /\ <<n, m>>[2] = m
  OBVIOUS
<1>3. \A n \in T : ~ (n < m)
  BY <1>1, <1>2, Zenon DEF OpToRel
<1>4. \A n \in T : m <= n
  BY <1>3
<1> QED BY <1>4

LEMMA GreatestNatural ==
  ASSUME NEW T, T \subseteq Nat, T # {}, NEW b \in Nat, \A n \in T : n <= b
  PROVE  /\ Max(T) \in T
         /\ \A n \in T : n <= Max(T)
<1> DEFINE U == {u \in Nat : \A n \in T : n <= u}
<1>1. PICK m \in U : \A u \in U : m <= u
  BY LeastNatural
<1>2. m \in T
  <2>1. SUFFICES ASSUME m \notin T PROVE FALSE OBVIOUS
  <2>2. PICK x \in T : TRUE OBVIOUS
  <2>3. x <= m /\ x # m /\ m \in Nat /\ x \in Nat BY <2>1
  <2>4. \A n \in T : n <= m - 1 BY <2>1
  <2>5. m - 1 \in Nat BY <2>3
  <2>6. m - 1 \in U BY <2>4, <2>5
  <2> QED BY <2>6, <1>1
<1>3. \A n \in T : m >= n BY <1>1
<1> QED BY <1>2, <1>3 DEF Max

(* Max and Min of a set of natural numbers: the one number that says so.   *)
LEMMA MaxIs ==
  ASSUME NEW T, T \subseteq Int, NEW m \in T, \A n \in T : n <= m
  PROVE  Max(T) = m
<1>1. \A n \in T : m >= n OBVIOUS
<1>2. Max(T) \in T /\ \A n \in T : Max(T) >= n BY <1>1, Zenon DEF Max
<1>3. PICK x \in Int : x = Max(T) BY <1>2
<1>4. m \in Int /\ x >= m /\ x <= m BY <1>2, <1>3
<1>5. x = m BY <1>4
<1> QED BY <1>3, <1>5

LEMMA MinIs ==
  ASSUME NEW T, T \subseteq Int, NEW m \in T, \A n \in T : m <= n
  PROVE  Min(T) = m
<1>2. Min(T) \in T /\ \A n \in T : Min(T) =< n BY Zenon DEF Min
<1>3. PICK x \in Int : x = Min(T) BY <1>2
<1>4. m \in Int /\ x >= m /\ x <= m BY <1>2, <1>3
<1>5. x = m BY <1>4
<1> QED BY <1>3, <1>5

-----------------------------------------------------------------------------
(* ComputeLineNumbers from the offset o, when f are the starts after it.   *)
StartsStep(t, f, o) ==
  IF o = Len(t) THEN <<>>
  ELSE IF IsNewline(t[o + 1]) THEN <<o + NewlineWidth(t, o)>> \o f[o + NewlineWidth(t, o)]
  ELSE f[o + 1]

StartsFrom(t) == CHOOSE f : f = [o \in 0 .. Len(t) |-> StartsStep(t, f, o)]

LEMMA ComputeFrom ==
  ASSUME NEW t
  PROVE  ComputeLineNumbers(t) = <<0>> \o StartsFrom(t)[0]
BY DEF ComputeLineNumbers, StartsFrom, StartsStep

LEMMA WidthType ==
  ASSUME NEW t \in Seq({"c", "n", "r"}), NEW o \in 0 .. Len(t) - 1
  PROVE  NewlineWidth(t, o) \in 1 .. 2 /\ o + NewlineWidth(t, o) <= Len(t)
<1>1. Len(t) \in Nat /\ o \in Nat /\ o < Len(t) OBVIOUS
<1>2. NewlineWidth(t, o) = 1 \/ (NewlineWidth(t, o) = 2 /\ o + 2 <= Len(t)) BY DEF NewlineWidth
<1> QED BY <1>1, <1>2

(* The recursion comes to its end. *)
LEMMA StartsUnfold ==
  ASSUME NEW t \in Seq({"c", "n", "r"})
  PROVE  StartsFrom(t) = [o \in 0 .. Len(t) |-> StartsStep(t, StartsFrom(t), o)]
<1> DEFINE N == Len(t)
           Good(n) == \E f : f = [o \in N - n .. N |-> StartsStep(t, f, o)]
           Bad == {n \in 0 .. N : ~ Good(n)}
<1>1. N \in Nat OBVIOUS
<1>2. Good(0)
  <2> DEFINE g == [o \in N - 0 .. N |-> <<>>]
  <2>1. \A o \in N - 0 .. N : o = N BY <1>1
  <2>2. g = [o \in N - 0 .. N |-> StartsStep(t, g, o)] BY <2>1 DEF StartsStep
  <2> QED BY <2>2
<1>3. ASSUME NEW n \in 0 .. N - 1, Good(n) PROVE Good(n + 1)
  <2>1. PICK f : f = [o \in N - n .. N |-> StartsStep(t, f, o)] BY <1>3
  <2> DEFINE g == [o \in N - (n + 1) .. N |-> IF o = N - (n + 1) THEN StartsStep(t, f, o) ELSE f[o]]
  <2>2. ASSUME NEW o \in N - n .. N PROVE g[o] = f[o] /\ f[o] = StartsStep(t, f, o)
    <3>1. o \in N - (n + 1) .. N /\ o # N - (n + 1) BY <1>1
    <3>2. g[o] = f[o] BY <3>1, Zenon
    <3>3. f[o] = StartsStep(t, f, o) BY <2>1, Zenon
    <3> QED BY <3>2, <3>3
  <2>3. ASSUME NEW o \in N - (n + 1) .. N PROVE StartsStep(t, g, o) = StartsStep(t, f, o)
    <3>1. o \in 0 .. N BY <1>1
    <3>2. CASE o = N BY <3>2 DEF StartsStep
    <3>3. CASE o # N
      <4>1. o \in 0 .. Len(t) - 1 BY <1>1, <3>1, <3>3
      <4>2. NewlineWidth(t, o) \in 1 .. 2 /\ o + NewlineWidth(t, o) <= N BY <4>1, WidthType
      <4>3. o + NewlineWidth(t, o) \in N - n .. N /\ o + 1 \in N - n .. N BY <1>1, <4>1, <4>2
      <4>4. g[o + NewlineWidth(t, o)] = f[o + NewlineWidth(t, o)] /\ g[o + 1] = f[o + 1]
        BY <2>2, <4>3
      <4> HIDE DEF g
      <4>5. PICK w \in 1 .. 2 : w = NewlineWidth(t, o) BY <4>2
      <4>6. g[o + w] = f[o + w] BY <4>4, <4>5
      <4>7. <<o + w>> \o g[o + w] = <<o + w>> \o f[o + w] BY <4>6
      <4> QED BY <4>4, <4>5, <4>7, Zenon DEF StartsStep
    <3> QED BY <3>2, <3>3
  <2>4. ASSUME NEW o \in N - (n + 1) .. N PROVE g[o] = StartsStep(t, g, o)
    <3>1. CASE o = N - (n + 1) BY <2>3, <3>1
    <3>2. CASE o # N - (n + 1)
      <4>1. o \in N - n .. N BY <1>1, <3>2
      <4> QED BY <2>2, <2>3, <4>1
    <3> QED BY <3>1, <3>2
  <2>5. g = [o \in N - (n + 1) .. N |-> StartsStep(t, g, o)] BY <2>4
  <2> QED BY <2>5
<1>4. Bad = {}
  <2>1. SUFFICES ASSUME Bad # {} PROVE FALSE OBVIOUS
  <2>2. Bad \subseteq Nat BY <1>1
  <2>3. PICK m \in Bad : \A n \in Bad : m <= n BY <2>1, <2>2, LeastNatural
  <2>4. m # 0 BY <1>2, <2>3
  <2>5. m - 1 \in 0 .. N - 1 /\ m - 1 + 1 = m BY <1>1, <2>3, <2>4
  <2>6. m - 1 \in 0 .. N /\ ~ (m <= m - 1) BY <1>1, <2>3, <2>5
  <2>9. m - 1 \notin Bad BY <2>3, <2>6, Zenon
  <2>7. Good(m - 1) BY <2>6, <2>9, Zenon
  <2>8. Good(m - 1 + 1) BY <1>3, <2>5, <2>7
  <2> QED BY <2>3, <2>5, <2>8
<1>5. Good(N) BY <1>1, <1>4
<1>6. N - N = 0 BY <1>1
<1>7. \E f : f = [o \in 0 .. Len(t) |-> StartsStep(t, f, o)] BY <1>5, <1>6
<1> QED BY <1>7 DEF StartsFrom

LEMMA ConsIs ==
  ASSUME NEW S, NEW x \in S, NEW r \in Seq(S)
  PROVE  /\ <<x>> \o r \in Seq(S)
         /\ Len(<<x>> \o r) = Len(r) + 1
         /\ (<<x>> \o r)[1] = x
         /\ \A k \in 1 .. Len(r) : (<<x>> \o r)[k + 1] = r[k]
         /\ \A k \in 2 .. Len(<<x>> \o r) : k - 1 \in 1 .. Len(r) /\ (<<x>> \o r)[k] = r[k - 1]
<1>1. <<x>> \in Seq(S) /\ Len(<<x>>) = 1 /\ <<x>>[1] = x OBVIOUS
<1>2. <<x>> \o r \in Seq(S) /\ Len(<<x>> \o r) = 1 + Len(r) BY <1>1
<1>3. Len(r) \in Nat OBVIOUS
<1>4. (<<x>> \o r)[1] = x BY <1>1, <1>2, <1>3
<1>5. \A k \in 1 .. Len(r) : (<<x>> \o r)[k + 1] = r[k] BY <1>1, <1>2, <1>3
<1>6. \A k \in 2 .. Len(<<x>> \o r) : k - 1 \in 1 .. Len(r) /\ k - 1 + 1 = k BY <1>2, <1>3
<1> QED BY <1>2, <1>3, <1>4, <1>5, <1>6

(* What is asked of the line starts r after the offset o.                  *)
StartsAfter(t, o, r) ==
  /\ r \in Seq(o + 1 .. Len(t))
  /\ \A k \in 1 .. Len(r) : IsNewline(t[r[k]])
  /\ \A j, k \in 1 .. Len(r) : j < k => r[j] < r[k]
  /\ \A p \in o + 1 .. Len(t) :
       IsNewline(t[p]) /\ (p = Len(t) \/ ~ IsNewline(t[p + 1])) => \E k \in 1 .. Len(r) : r[k] = p

(* The end of a line is put before the starts that follow it.              *)
LEMMA StartsAfterNewline ==
  ASSUME NEW t \in Seq({"c", "n", "r"}), NEW o \in 0 .. Len(t) - 1, IsNewline(t[o + 1]),
         NEW r, StartsAfter(t, o + NewlineWidth(t, o), r)
  PROVE  StartsAfter(t, o, <<o + NewlineWidth(t, o)>> \o r)
<1>1. PICK w \in 1 .. 2 : w = NewlineWidth(t, o) /\ o + w <= Len(t) BY WidthType
<1>2. PICK N \in Nat : N = Len(t) OBVIOUS
<1> DEFINE s == <<o + w>> \o r
<1>3. o \in Nat /\ o < N /\ o + w \in o + 1 .. N BY <1>1, <1>2
<1>4. StartsAfter(t, o + w, r) BY <1>1
<1>5. r \in Seq(o + w + 1 .. N) BY <1>2, <1>4 DEF StartsAfter
<1>6. o + w + 1 .. N \subseteq o + 1 .. N BY <1>3
<1>7. r \in Seq(o + 1 .. N) BY <1>5, <1>6
<1>8. /\ s \in Seq(o + 1 .. N) /\ Len(s) = Len(r) + 1 /\ s[1] = o + w
      /\ \A k \in 1 .. Len(r) : s[k + 1] = r[k]
      /\ \A k \in 2 .. Len(s) : k - 1 \in 1 .. Len(r) /\ s[k] = r[k - 1]
  BY <1>3, <1>7, ConsIs
<1>9. IsNewline(t[o + w])
  <2>1. CASE w = 1 BY <2>1
  <2>2. CASE w = 2 BY <1>1, <2>2 DEF NewlineWidth
  <2> QED BY <2>1, <2>2
<1> HIDE DEF s
<1>10. ASSUME NEW k \in 1 .. Len(s) PROVE IsNewline(t[s[k]])
  <2>1. CASE k = 1 BY <1>8, <1>9, <2>1
  <2>2. CASE k # 1
    <3>1. k \in 2 .. Len(s) BY <2>2
    <3> QED BY <1>4, <1>8, <3>1 DEF StartsAfter
  <2> QED BY <2>1, <2>2
<1>11. ASSUME NEW j \in 1 .. Len(s), NEW k \in 1 .. Len(s), j < k PROVE s[j] < s[k]
  <2>1. k \in 2 .. Len(s) BY <1>11
  <2>2. k - 1 \in 1 .. Len(r) /\ s[k] = r[k - 1] BY <1>8, <2>1
  <2>3. r[k - 1] \in o + w + 1 .. N BY <1>5, <2>2
  <2>4. CASE j = 1 BY <1>3, <1>8, <2>2, <2>3, <2>4
  <2>5. CASE j # 1
    <3>1. j \in 2 .. Len(s) BY <2>5
    <3>2. j - 1 \in 1 .. Len(r) /\ s[j] = r[j - 1] /\ j - 1 < k - 1 BY <1>8, <1>11, <3>1
    <3> QED BY <1>4, <2>2, <3>2 DEF StartsAfter
  <2> QED BY <2>4, <2>5
<1>12. ASSUME NEW p \in o + 1 .. N, IsNewline(t[p]), p = N \/ ~ IsNewline(t[p + 1])
       PROVE  \E k \in 1 .. Len(s) : s[k] = p
  <2>1. CASE p = o + w
    <3>1. 1 \in 1 .. Len(s) BY <1>8
    <3> QED BY <1>8, <2>1, <3>1
  <2>2. CASE p > o + w
    <3>1. p \in o + w + 1 .. N BY <1>3, <2>2
    <3>2. PICK k \in 1 .. Len(r) : r[k] = p BY <1>2, <1>4, <1>12, <3>1 DEF StartsAfter
    <3>3. k + 1 \in 1 .. Len(s) /\ s[k + 1] = p BY <1>8, <3>2
    <3> QED BY <3>3
  <2>3. CASE p < o + w
    <3>1. w = 2 /\ p = o + 1 BY <1>1, <1>3, <2>3
    <3>2. IsNewline(t[p + 1]) /\ p < N BY <1>1, <1>2, <1>3, <1>9, <3>1
    <3> QED BY <1>12, <3>2
  <2>4. p \in Int /\ o + w \in Int BY <1>3
  <2> QED BY <2>1, <2>2, <2>3, <2>4
<1>13. StartsAfter(t, o, s) BY <1>2, <1>8, <1>10, <1>11, <1>12 DEF StartsAfter
<1> QED BY <1>1, <1>13 DEF s

LEMMA StartsAfterOther ==
  ASSUME NEW t \in Seq({"c", "n", "r"}), NEW o \in 0 .. Len(t) - 1, ~ IsNewline(t[o + 1]),
         NEW r, StartsAfter(t, o + 1, r)
  PROVE  StartsAfter(t, o, r)
<1>1. PICK N \in Nat : N = Len(t) OBVIOUS
<1>2. r \in Seq(o + 1 + 1 .. N) /\ o + 1 + 1 .. N \subseteq o + 1 .. N
  BY <1>1 DEF StartsAfter
<1>3. r \in Seq(o + 1 .. N) BY <1>2
<1>4. \A p \in o + 1 .. N : p # o + 1 => p \in o + 1 + 1 .. N BY <1>1
<1> QED BY <1>1, <1>3, <1>4 DEF StartsAfter

LEMMA StartsFromOffset ==
  ASSUME NEW t \in Seq({"c", "n", "r"}), NEW o \in 0 .. Len(t)
  PROVE  StartsAfter(t, o, StartsFrom(t)[o])
<1> DEFINE f == StartsFrom(t)
           Bad == {n \in 0 .. Len(t) : ~ StartsAfter(t, Len(t) - n, f[Len(t) - n])}
<1>1. PICK N \in Nat : N = Len(t) OBVIOUS
<1>2. \A p \in 0 .. N : f[p] = StartsStep(t, f, p) BY <1>1, StartsUnfold, Zenon
<1> HIDE DEF f
<1>3. StartsAfter(t, N, f[N])
  <2>1. N \in 0 .. N /\ N + 1 .. N = {} BY <1>1
  <2>2. f[N] = <<>> BY <1>1, <1>2, <2>1 DEF StartsStep
  <2> QED BY <1>1, <2>1, <2>2 DEF StartsAfter
<1>4. ASSUME NEW p \in 0 .. N - 1, \A q \in p + 1 .. N : StartsAfter(t, q, f[q])
      PROVE  StartsAfter(t, p, f[p])
  <2>1. p \in 0 .. Len(t) - 1 /\ p \in 0 .. N /\ p # Len(t) BY <1>1
  <2>2. f[p] = StartsStep(t, f, p) BY <1>2, <2>1
  <2>3. CASE IsNewline(t[p + 1])
    <3>1. PICK w \in 1 .. 2 : w = NewlineWidth(t, p) /\ p + w <= Len(t) BY <2>1, WidthType
    <3>2. p + w \in p + 1 .. N BY <1>1, <3>1
    <3>3. StartsAfter(t, p + w, f[p + w]) BY <1>4, <3>2
    <3>4. f[p] = <<p + w>> \o f[p + w] BY <2>1, <2>2, <2>3, <3>1 DEF StartsStep
    <3> QED BY <2>1, <2>3, <3>1, <3>3, <3>4, StartsAfterNewline
  <2>4. CASE ~ IsNewline(t[p + 1])
    <3>1. p + 1 \in p + 1 .. N BY <1>1
    <3>2. StartsAfter(t, p + 1, f[p + 1]) BY <1>4, <3>1
    <3>3. f[p] = f[p + 1] BY <2>1, <2>2, <2>4 DEF StartsStep
    <3> QED BY <2>1, <2>4, <3>2, <3>3, StartsAfterOther
  <2> QED BY <2>3, <2>4
<1>5. Bad = {}
  <2>1. SUFFICES ASSUME Bad # {} PROVE FALSE OBVIOUS
  <2>2. Bad \subseteq Nat BY <1>1
  <2>3. PICK m \in Bad : \A n \in Bad : m <= n BY <2>1, <2>2, LeastNatural
  <2>4. m \in 0 .. N /\ ~ StartsAfter(t, N - m, f[N - m]) BY <1>1, <2>3
  <2>5. m # 0
    <3>1. N - 0 = N BY <1>1
    <3> QED BY <1>3, <2>4, <3>1
  <2>6. N - m \in 0 .. N - 1 BY <1>1, <2>4, <2>5
  <2>7. ASSUME NEW q \in N - m + 1 .. N PROVE StartsAfter(t, q, f[q])
    <3>1. N - q \in 0 .. N /\ ~ (m <= N - q) /\ N - (N - q) = q BY <1>1, <2>4
    <3>2. N - q \notin Bad BY <2>3, <3>1, Zenon
    <3> QED BY <1>1, <3>1, <3>2
  <2> QED BY <1>4, <2>4, <2>6, <2>7
<1>6. Len(t) - o \in 0 .. Len(t) /\ Len(t) - (Len(t) - o) = o BY <1>1
<1>7. StartsAfter(t, o, f[o]) BY <1>5, <1>6
<1> QED BY <1>7 DEF f

-----------------------------------------------------------------------------
(* What a table of line starts is: the lines begin at 0 and after each end *)
(* of a line, and nowhere else.                                            *)
LineTable(t, s) ==
  /\ s \in Seq(0 .. Len(t))
  /\ Len(s) >= 1 /\ s[1] = 0
  /\ \A j, k \in 1 .. Len(s) : j < k => s[j] < s[k]
  /\ \A k \in 2 .. Len(s) : s[k] \in 1 .. Len(t) /\ IsNewline(t[s[k]])
  /\ \A p \in 1 .. Len(t) :
       IsNewline(t[p]) /\ (p = Len(t) \/ ~ IsNewline(t[p + 1])) => \E k \in 1 .. Len(s) : s[k] = p

LEMMA LineNumbersAreLineStarts ==
  ASSUME NEW t \in Seq({"c", "n", "r"})
  PROVE  LineTable(t, ComputeLineNumbers(t))
<1>1. PICK N \in Nat : N = Len(t) OBVIOUS
<1>2. PICK r : r = StartsFrom(t)[0] OBVIOUS
<1>3. ComputeLineNumbers(t) = <<0>> \o r BY <1>2, ComputeFrom
<1> DEFINE s == <<0>> \o r
<1>4. StartsAfter(t, 0, r) BY <1>1, <1>2, StartsFromOffset
<1>5. r \in Seq(0 + 1 .. N) BY <1>1, <1>4 DEF StartsAfter
<1>6. 0 + 1 .. N = 1 .. N /\ 1 .. N \subseteq 0 .. N /\ 0 \in 0 .. N BY <1>1
<1>7. r \in Seq(0 .. N) BY <1>5, <1>6
<1>8. /\ s \in Seq(0 .. N) /\ Len(s) = Len(r) + 1 /\ s[1] = 0
      /\ \A k \in 1 .. Len(r) : s[k + 1] = r[k]
      /\ \A k \in 2 .. Len(s) : k - 1 \in 1 .. Len(r) /\ s[k] = r[k - 1]
  BY <1>6, <1>7, ConsIs
<1>9. Len(r) \in Nat BY <1>7
<1> HIDE DEF s
<1>10. ASSUME NEW k \in 2 .. Len(s) PROVE s[k] \in 1 .. N /\ IsNewline(t[s[k]])
  <2>1. k - 1 \in 1 .. Len(r) /\ s[k] = r[k - 1] BY <1>8
  <2>2. r[k - 1] \in 1 .. N BY <1>5, <1>6, <2>1
  <2> QED BY <1>4, <2>1, <2>2 DEF StartsAfter
<1>11. ASSUME NEW j \in 1 .. Len(s), NEW k \in 1 .. Len(s), j < k PROVE s[j] < s[k]
  <2>1. k \in 2 .. Len(s) BY <1>11
  <2>2. CASE j = 1 BY <1>8, <1>10, <2>1, <2>2
  <2>3. CASE j # 1
    <3>1. j \in 2 .. Len(s) BY <2>3
    <3>2. /\ j - 1 \in 1 .. Len(r) /\ k - 1 \in 1 .. Len(r) /\ j - 1 < k - 1
          /\ s[j] = r[j - 1] /\ s[k] = r[k - 1]
      BY <1>8, <1>11, <2>1, <3>1
    <3> QED BY <1>4, <3>2 DEF StartsAfter
  <2> QED BY <2>2, <2>3
<1>12. ASSUME NEW p \in 1 .. N, IsNewline(t[p]), p = N \/ ~ IsNewline(t[p + 1])
       PROVE  \E k \in 1 .. Len(s) : s[k] = p
  <2>1. PICK k \in 1 .. Len(r) : r[k] = p BY <1>1, <1>4, <1>6, <1>12 DEF StartsAfter
  <2>2. k + 1 \in 1 .. Len(s) /\ s[k + 1] = p BY <1>8, <1>9, <2>1
  <2> QED BY <2>2
<1>13. LineTable(t, s) BY <1>1, <1>8, <1>9, <1>10, <1>11, <1>12 DEF LineTable
<1> QED BY <1>3, <1>13 DEF s

(* The offset o is in the m-th of the lines that start at s.               *)
InLine(s, o, m) ==
  /\ m \in 1 .. Len(s)
  /\ s[m] <= o
  /\ m < Len(s) => s[m + 1] > o

LEMMA EveryOffsetHasLine ==
  ASSUME NEW t \in Seq({"c", "n", "r"}), NEW s, LineTable(t, s), NEW o \in Nat
  PROVE  \E m \in 1 .. Len(s) : InLine(s, o, m)
<1>1. s \in Seq(0 .. Len(t)) /\ Len(s) >= 1 /\ s[1] = 0 BY DEF LineTable
<1>2. PICK K \in Nat : K = Len(s) BY <1>1
<1>3. \A k \in 1 .. K : s[k] \in Nat BY <1>1, <1>2
<1> DEFINE T == {k \in 1 .. K : s[k] <= o}
<1>4. T \subseteq Nat /\ (\A k \in T : k <= K) /\ 1 \in T BY <1>1, <1>2
<1>5. PICK m : m = Max(T) OBVIOUS
<1>6. m \in T /\ \A k \in T : k <= m BY <1>2, <1>4, <1>5, GreatestNatural
<1>7. ASSUME m < K PROVE s[m + 1] > o
  <2>1. m + 1 \in 1 .. K /\ ~ (m + 1 <= m) BY <1>2, <1>6, <1>7
  <2>2. m + 1 \notin T BY <1>6, <2>1
  <2> QED BY <1>3, <2>1, <2>2
<1> QED BY <1>2, <1>6, <1>7 DEF InLine

(* A start is at or before the offset when its line is not after the line  *)
(* of the offset.                                                          *)
LEMMA StartsUpTo ==
  ASSUME NEW t \in Seq({"c", "n", "r"}), NEW s, LineTable(t, s), NEW o \in Nat, NEW m, InLine(s, o, m)
  PROVE  /\ s \in Seq(Nat) /\ Len(s) \in Nat
         /\ m \in 1 .. Len(s)
         /\ \A k \in 1 .. Len(s) : s[k] \in Nat
         /\ \A k \in 1 .. Len(s) : s[k] <= o <=> k <= m
<1>1. /\ s \in Seq(0 .. Len(t)) /\ \A j, k \in 1 .. Len(s) : j < k => s[j] < s[k]
  BY DEF LineTable
<1>2. PICK K \in Nat : K = Len(s) BY <1>1
<1>3. \A k \in 1 .. K : s[k] \in Nat BY <1>1, <1>2
<1>4. m \in 1 .. K /\ s[m] <= o /\ (m < K => s[m + 1] > o) BY <1>2 DEF InLine
<1>5. ASSUME NEW k \in 1 .. K PROVE s[k] <= o <=> k <= m
  <2>1. CASE k = m BY <1>4, <2>1
  <2>2. CASE k < m
    <3>1. s[k] < s[m] BY <1>1, <1>2, <1>4, <2>2
    <3> QED BY <1>3, <1>4, <2>2, <3>1
  <2>3. CASE k > m
    <3>1. m + 1 \in 1 .. K /\ s[m + 1] > o BY <1>4, <2>3
    <3>2. CASE k = m + 1
      <4>1. s[k] \in Nat /\ s[k] > o BY <1>3, <3>1, <3>2
      <4> QED BY <1>4, <2>3, <4>1
    <3>3. CASE k # m + 1
      <4>1. m + 1 < k BY <1>4, <2>3, <3>3
      <4>2. s[m + 1] < s[k] BY <1>1, <1>2, <3>1, <4>1
      <4> QED BY <1>3, <1>4, <2>3, <3>1, <4>2
    <3> QED BY <3>2, <3>3
  <2> QED BY <1>4, <2>1, <2>2, <2>3
<1>6. s \in Seq(Nat) BY <1>1
<1> QED BY <1>2, <1>3, <1>4, <1>5, <1>6

(* The physical line of an offset is the number of the line it is in.      *)
LEMMA PhysicalLineIs ==
  ASSUME text \in Seq({"c", "n", "r"}), NEW o \in Nat, NEW m,
         InLine(ComputeLineNumbers(text), o, m)
  PROVE  /\ PhysicalLine(o) = m
         /\ {p \in StartsOf(text) : p <= o} = {ComputeLineNumbers(text)[k] : k \in 1 .. m}
<1>1. PICK s : s = ComputeLineNumbers(text) OBVIOUS
<1>2. LineTable(text, s) BY <1>1, LineNumbersAreLineStarts
<1>3. /\ s \in Seq(Nat) /\ Len(s) \in Nat /\ m \in 1 .. Len(s)
      /\ \A k \in 1 .. Len(s) : s[k] \in Nat
      /\ \A k \in 1 .. Len(s) : s[k] <= o <=> k <= m
  BY <1>1, <1>2, StartsUpTo
<1>4. \A j, k \in 1 .. Len(s) : j < k => s[j] < s[k] BY <1>2 DEF LineTable
<1> DEFINE P == {p \in StartsOf(text) : p <= o}
           f == [k \in 1 .. m |-> s[k]]
<1>5. StartsOf(text) = {s[k] : k \in 1 .. Len(s)} BY <1>1, <1>3 DEF StartsOf, ToSet
<1>6. P = {s[k] : k \in 1 .. m}
  <2>1. ASSUME NEW p \in P PROVE p \in {s[k] : k \in 1 .. m}
    <3>1. PICK k \in 1 .. Len(s) : p = s[k] /\ s[k] <= o BY <1>5
    <3>2. k \in 1 .. m BY <1>3, <3>1
    <3> QED BY <3>1, <3>2
  <2>2. ASSUME NEW k \in 1 .. m PROVE s[k] \in P
    <3>1. k \in 1 .. Len(s) /\ k <= m BY <1>3
    <3> QED BY <1>3, <1>5, <3>1
  <2> QED BY <2>1, <2>2
<1>7. \A k \in 1 .. m : k \in 1 .. Len(s) /\ f[k] = s[k] BY <1>3
<1>8. f \in [1 .. m -> P] BY <1>6
<1>9. ASSUME NEW j \in 1 .. m, NEW k \in 1 .. m, f[j] = f[k] PROVE j = k
  <2>1. s[j] = s[k] /\ s[j] \in Nat BY <1>3, <1>7, <1>9
  <2>2. ~ (s[j] < s[k]) /\ ~ (s[k] < s[j]) BY <2>1
  <2>3. ~ (j < k) /\ ~ (k < j) BY <1>4, <1>7, <2>2
  <2> QED BY <1>3, <2>3
<1>10. \A p \in P : \E k \in 1 .. m : f[k] = p BY <1>6, <1>7
<1>11. f \in Bijection(1 .. m, P)
  BY <1>8, <1>9, <1>10 DEF Bijection, Injection, Surjection, IsInjective
<1>12. ExistsBijection(1 .. m, P) BY <1>11 DEF ExistsBijection
<1>13. m \in Nat BY <1>3
<1>14. Cardinality(P) = m BY <1>12, <1>13, FS_CountingElements
<1> QED BY <1>1, <1>6, <1>14 DEF PhysicalLine

-----------------------------------------------------------------------------
(* The hint is the line of the position that it remembers.                 *)
RightHint(s, h) ==
  /\ h \in [pos : Nat, line : Nat]
  /\ h.line = 0 => h = NoHint
  /\ h.line # 0 => h.pos >= 1 /\ InLine(s, h.pos - 1, h.line)

(* The line is found between any two bounds around it.                     *)
LEMMA LowerBoundIs ==
  ASSUME NEW t \in Seq({"c", "n", "r"}), NEW s, LineTable(t, s), NEW o \in Nat, NEW m, InLine(s, o, m),
         NEW first \in 0 .. m, NEW last \in m .. Len(s)
  PROVE  LowerBound(s, first, last, o + 1) = m
<1>1. /\ s \in Seq(Nat) /\ Len(s) \in Nat /\ m \in 1 .. Len(s)
      /\ \A k \in 1 .. Len(s) : s[k] \in Nat
      /\ \A k \in 1 .. Len(s) : s[k] <= o <=> k <= m
  BY StartsUpTo
<1> DEFINE P == {p \in first .. last - 1 : s[p + 1] >= o + 1}
           T == P \cup {last}
<1>2. first \in Nat /\ last \in Nat /\ m \in Nat /\ m <= last /\ last <= Len(s) /\ first <= m BY <1>1
<1>3. T \subseteq Int BY <1>2
<1>4. ASSUME NEW p \in P PROVE m <= p
  <2>1. p \in Nat /\ p + 1 \in 1 .. Len(s) /\ s[p + 1] >= o + 1 BY <1>2
  <2>2. ~ (s[p + 1] <= o) BY <1>1, <2>1
  <2>3. ~ (p + 1 <= m) BY <1>1, <2>1, <2>2
  <2> QED BY <1>2, <2>1, <2>3
<1>5. m \in T
  <2>1. CASE m = last BY <2>1
  <2>2. CASE m # last
    <3>1. m \in first .. last - 1 /\ m + 1 \in 1 .. Len(s) /\ ~ (m + 1 <= m) BY <1>2, <2>2
    <3>2. ~ (s[m + 1] <= o) /\ s[m + 1] \in Nat BY <1>1, <3>1
    <3>3. s[m + 1] >= o + 1 BY <3>2
    <3> QED BY <3>1, <3>3
  <2> QED BY <2>1, <2>2
<1>6. \A n \in T : m <= n BY <1>2, <1>4
<1>7. Min(T) = m BY <1>3, <1>5, <1>6, MinIs
<1> QED BY <1>7 DEF LowerBound

(* None of the windows ends before the line.                               *)
LEMMA WindowEndIs ==
  ASSUME NEW t \in Seq({"c", "n", "r"}), NEW s, LineTable(t, s), NEW o \in Nat, NEW m, InLine(s, o, m),
         NEW first \in Nat
  PROVE  WindowEnd(s, first, o + 1) \in m .. Len(s)
<1>1. /\ s \in Seq(Nat) /\ Len(s) \in Nat /\ m \in 1 .. Len(s)
      /\ \A k \in 1 .. Len(s) : s[k] \in Nat
      /\ \A k \in 1 .. Len(s) : s[k] <= o <=> k <= m
  BY StartsUpTo
<1> DEFINE past == {k \in DOMAIN Windows : /\ first + Windows[k] < Len(s)
                                           /\ s[first + Windows[k] + 1] > o + 1}
<1>2. CASE past = {}
  <2>1. WindowEnd(s, first, o + 1) = Len(s) BY <1>2 DEF WindowEnd
  <2> QED BY <1>1, <2>1
<1>3. CASE past # {}
  <2>1. Windows \in Seq(Nat \ {0}) BY WindowsAssumption
  <2>2. past \subseteq Nat BY <2>1
  <2>3. PICK k \in past : \A j \in past : k <= j BY <1>3, <2>2, LeastNatural
  <2>4. Min(past) = k
    <3> HIDE DEF past
    <3>1. past \subseteq Int BY <2>2
    <3> QED BY <2>3, <3>1, MinIs
  <2>5. PICK w \in Nat : w = Windows[k] BY <2>1, <2>3
  <2>6. first + w < Len(s) /\ s[first + w + 1] > o + 1 BY <2>3, <2>5
  <2>7. first + w + 1 \in 1 .. Len(s) BY <1>1, <2>6
  <2>8. ~ (s[first + w + 1] <= o) BY <1>1, <2>6, <2>7
  <2>9. ~ (first + w + 1 <= m) BY <1>1, <2>7, <2>8
  <2>10. WindowEnd(s, first, o + 1) = first + w BY <1>3, <2>4, <2>5 DEF WindowEnd
  <2> QED BY <1>1, <2>6, <2>9, <2>10
<1> QED BY <1>2, <1>3

(* Whatever was asked before, getLineNumber finds the line.                *)
LEMMA GetLineNumberIs ==
  ASSUME NEW t \in Seq({"c", "n", "r"}), NEW s, LineTable(t, s), NEW o \in Nat, NEW m, InLine(s, o, m),
         NEW h, RightHint(s, h)
  PROVE  GetLineNumber(s, h, o) = [pos |-> o + 1, line |-> m]
<1>1. /\ s \in Seq(Nat) /\ Len(s) \in Nat /\ m \in 1 .. Len(s)
      /\ \A k \in 1 .. Len(s) : s[k] \in Nat
      /\ \A k \in 1 .. Len(s) : s[k] <= o <=> k <= m
  BY StartsUpTo
<1>2. PICK q \in Nat : q = o + 1 OBVIOUS
<1>3. h.pos \in Nat /\ h.line \in Nat BY DEF RightHint
<1> DEFINE after == h.line # 0 /\ q >= h.pos
           first == IF after THEN h.line - 1 ELSE 0
           last == IF h.line = 0 THEN Len(s)
                   ELSE IF after THEN WindowEnd(s, first, q)
                   ELSE IF h.line < Len(s) THEN h.line + 1
                   ELSE Len(s)
<1>4. GetLineNumber(s, h, o) = [pos |-> q, line |-> LowerBound(s, first, last, q)]
  BY <1>2 DEF GetLineNumber
<1>5. first \in 0 .. m /\ last \in m .. Len(s)
  <2>1. CASE h.line = 0 BY <1>1, <2>1
  <2>2. CASE h.line # 0
    <3>1. h.pos - 1 \in Nat /\ h.pos >= 1 /\ InLine(s, h.pos - 1, h.line) BY <1>3, <2>2 DEF RightHint
    <3>2. /\ h.line \in 1 .. Len(s)
          /\ \A k \in 1 .. Len(s) : s[k] <= h.pos - 1 <=> k <= h.line
      BY <3>1, StartsUpTo
    <3>3. CASE q >= h.pos
      <4>1. s[h.line] <= h.pos - 1 BY <1>3, <3>2
      <4>2. s[h.line] <= o BY <1>1, <1>2, <1>3, <3>2, <3>3, <4>1
      <4>3. h.line <= m BY <1>1, <3>2, <4>2
      <4>4. first = h.line - 1 /\ last = WindowEnd(s, first, o + 1) BY <1>2, <2>2, <3>3
      <4>5. h.line - 1 \in Nat BY <1>3, <3>2
      <4>6. WindowEnd(s, h.line - 1, o + 1) \in m .. Len(s) BY <4>5, WindowEndIs
      <4>7. last \in m .. Len(s)
        <5>1. last = WindowEnd(s, h.line - 1, o + 1) BY <4>4, Zenon
        <5> QED BY <4>6, <5>1, Zenon
      <4>8. h.line - 1 \in 0 .. m
        <5>1. PICK l \in Nat, n \in Nat : l = h.line /\ n = m BY <1>1, <3>2
        <5>2. l <= n /\ l - 1 \in Nat BY <4>3, <4>5, <5>1, Zenon
        <5>3. l - 1 \in 0 .. n BY <5>2
        <5> QED BY <5>1, <5>3, Zenon
      <4>9. first \in 0 .. m BY <4>4, <4>8, Zenon
      <4> QED BY <4>7, <4>9
    <3>4. CASE ~ (q >= h.pos)
      <4>1. s[m] <= o BY <1>1
      <4>2. s[m] <= h.pos - 1 BY <1>1, <1>2, <1>3, <3>4, <4>1
      <4>3. m <= h.line BY <1>1, <3>2, <4>2
      <4>4. first = 0 /\ last = IF h.line < Len(s) THEN h.line + 1 ELSE Len(s) BY <2>2, <3>4
      <4> QED BY <1>1, <1>3, <3>2, <4>3, <4>4
    <3> QED BY <3>3, <3>4
  <2> QED BY <2>1, <2>2
<1> HIDE DEF first, last
<1>6. LowerBound(s, first, last, o + 1) = m BY <1>5, LowerBoundIs
<1> QED BY <1>2, <1>4, <1>6

-----------------------------------------------------------------------------
LEMMA PhysicalLineMeans ==
  ASSUME text \in Seq({"c", "n", "r"}), NEW o \in Nat, NEW m
  PROVE  /\ PhysicalLine(o) = m <=> InLine(ComputeLineNumbers(text), o, m)
         /\ InLine(ComputeLineNumbers(text), o, PhysicalLine(o))
<1>1. LineTable(text, ComputeLineNumbers(text)) BY LineNumbersAreLineStarts
<1>2. PICK n \in 1 .. Len(ComputeLineNumbers(text)) : InLine(ComputeLineNumbers(text), o, n)
  BY <1>1, EveryOffsetHasLine
<1>3. PhysicalLine(o) = n BY <1>2, PhysicalLineIs
<1>4. ASSUME InLine(ComputeLineNumbers(text), o, m) PROVE PhysicalLine(o) = m
  BY <1>4, PhysicalLineIs
<1> QED BY <1>2, <1>3, <1>4

(* getColumnNumber counts from the start of the line.                      *)
LEMMA ColumnIs ==
  ASSUME text \in Seq({"c", "n", "r"}), NEW o \in 0 .. Len(text) - 1, text[o + 1] = "c"
  PROVE  ColumnNumber(o) = o - Max({p \in StartsOf(text) : p <= o}) + 1
<1>1. PICK s : s = ComputeLineNumbers(text) OBVIOUS
<1>2. LineTable(text, s) BY <1>1, LineNumbersAreLineStarts
<1>3. o \in Nat /\ Len(text) \in Nat OBVIOUS
<1>4. PICK m \in 1 .. Len(s) : InLine(s, o, m) BY <1>2, <1>3, EveryOffsetHasLine
<1>5. /\ s \in Seq(Nat) /\ Len(s) \in Nat
      /\ \A k \in 1 .. Len(s) : s[k] \in Nat
      /\ \A k \in 1 .. Len(s) : s[k] <= o <=> k <= m
  BY <1>2, <1>3, <1>4, StartsUpTo
<1>6. \A j, k \in 1 .. Len(s) : j < k => s[j] < s[k] BY <1>2 DEF LineTable
<1>7. ASSUME NEW k \in 1 .. m PROVE s[k] \in Nat /\ s[k] <= s[m]
  <2>1. k \in 1 .. Len(s) /\ m \in 1 .. Len(s) BY <1>4, <1>5
  <2>2. CASE k = m BY <1>5, <2>1, <2>2
  <2>3. CASE k < m
    <3>1. s[k] < s[m] BY <1>6, <2>1, <2>3
    <3> QED BY <1>5, <2>1, <3>1
  <2> QED BY <2>1, <2>2, <2>3
<1>8. Max({p \in StartsOf(text) : p <= o}) = s[m]
  <2> DEFINE T == {s[k] : k \in 1 .. m}
  <2>1. {p \in StartsOf(text) : p <= o} = T BY <1>1, <1>3, <1>4, PhysicalLineIs
  <2>2. T \subseteq Int BY <1>7
  <2>3. m \in 1 .. m BY <1>4, <1>5
  <2>4. s[m] \in T BY <2>3
  <2>5. \A n \in T : n <= s[m] BY <1>7
  <2> HIDE DEF T
  <2>6. Max(T) = s[m] BY <2>2, <2>4, <2>5, MaxIs
  <2> QED BY <2>1, <2>6
<1> DEFINE ends == {p \in 1 .. o : IsNewline(text[p])}
           U == ends \cup {0}
<1>9. U \subseteq Nat /\ U # {} /\ \A n \in U : n <= o BY <1>3
<1>10. PICK x \in U : x = Max(U) /\ \A n \in U : n <= x
  <2> HIDE DEF U
  <2>1. Max(U) \in U /\ \A n \in U : n <= Max(U) BY <1>3, <1>9, GreatestNatural
  <2> QED BY <2>1
<1>11. s[m] \in U
  <2>1. CASE m = 1 BY <1>2, <2>1 DEF LineTable
  <2>2. CASE m # 1
    <3>1. m \in 2 .. Len(s) BY <1>4, <1>5, <2>2
    <3>2. s[m] \in 1 .. Len(text) /\ IsNewline(text[s[m]]) BY <1>2, <3>1 DEF LineTable
    <3>3. s[m] <= o BY <1>4 DEF InLine
    <3> QED BY <1>3, <3>2, <3>3
  <2> QED BY <2>1, <2>2
<1>12. x <= s[m]
  <2>1. CASE x = 0
    <3>1. m \in 1 .. m BY <1>4, <1>5
    <3> QED BY <1>7, <2>1, <3>1
  <2>2. CASE x # 0
    <3>1. x \in 1 .. o /\ IsNewline(text[x]) /\ x \in 1 .. Len(text) /\ x # Len(text) BY <1>3, <2>2
    <3>2. ~ IsNewline(text[x + 1])
      <4>1. CASE x = o BY <4>1 DEF IsNewline
      <4>2. CASE x # o
        <5>1. x + 1 \in 1 .. o /\ ~ (x + 1 <= x) BY <1>3, <3>1, <4>2
        <5>2. x + 1 \notin U BY <1>10, <5>1
        <5> QED BY <5>1, <5>2
      <4> QED BY <4>1, <4>2
    <3>3. PICK k \in 1 .. Len(s) : s[k] = x BY <1>2, <3>1, <3>2 DEF LineTable
    <3>4. s[k] <= o BY <3>1, <3>3
    <3>5. k \in 1 .. m BY <1>4, <1>5, <3>3, <3>4
    <3>6. s[k] <= s[m] BY <1>7, <3>5, Zenon
    <3> QED BY <3>3, <3>6
  <2> QED BY <2>1, <2>2
<1>13. x = s[m]
  <2>1. x \in Nat BY <1>9, <1>10, Zenon
  <2>2. s[m] \in Nat /\ s[m] <= x BY <1>4, <1>5, <1>10, <1>11, Zenon
  <2> HIDE DEF U
  <2> QED BY <1>12, <2>1, <2>2
<1>14. ColumnNumber(o) = o - Max(U) + 1 BY DEF ColumnNumber
<1> QED BY <1>8, <1>10, <1>13, <1>14

(* getLocation finds the place again, and nothing where there is none.     *)
LEMMA GetLocationIs ==
  ASSUME text \in Seq({"c", "n", "r"}), NEW s, s = ComputeLineNumbers(text),
         NEW line \in 1 .. Len(s), NEW column \in 1 .. Len(text) + 1
  PROVE  LET found == GetLocation(s, line, column)
         IN IF \E o \in 0 .. Len(text) - 1 :
                 /\ PhysicalLine(o) = line /\ o = s[line] + column - 1
                 /\ \A p \in s[line] .. o - 1 : ~IsNewline(text[p + 1])
              THEN found = s[line] + column - 1
              ELSE s[line] < Len(text) => found = -1
<1>1. LineTable(text, s) BY LineNumbersAreLineStarts
<1>2. PICK N \in Nat : N = Len(text) OBVIOUS
<1>3. s \in Seq(0 .. N) /\ \A j, k \in 1 .. Len(s) : j < k => s[j] < s[k]
  BY <1>1, <1>2 DEF LineTable
<1>4. Len(s) \in Nat /\ ~ (line > Len(s)) BY <1>3
<1>5. PICK start \in 0 .. N : start = s[line] BY <1>3
<1>6. PICK e \in Nat : e = column - 1 BY <1>2
<1> DEFINE Q == {p - start : p \in {q \in start .. N - 1 : IsNewline(text[q + 1])}}
           T == {column - 1, N - start - 1} \cup Q
           Found == \E o \in 0 .. N - 1 :
                      /\ PhysicalLine(o) = line /\ o = start + column - 1
                      /\ \A p \in start .. o - 1 : ~IsNewline(text[p + 1])
<1>7. GetLocation(s, line, column)
        = IF column > 1 /\ start = N THEN "fault"
          ELSE IF column > 1 /\ Min(T) < column - 1 THEN -1
          ELSE start + column - 1
  BY <1>2, <1>4, <1>5 DEF GetLocation
<1>8. T \subseteq Int BY <1>2, <1>5, <1>6
<1>9. ASSUME Found PROVE GetLocation(s, line, column) = start + column - 1
  <2>1. PICK o \in 0 .. N - 1 : /\ o = start + column - 1
                                /\ \A p \in start .. o - 1 : ~IsNewline(text[p + 1])
    BY <1>9
  <2>7. column \in Int /\ start \in Int /\ o \in Int /\ N \in Int BY <1>2
  <2>8. o = start + e BY <1>6, <2>1, <2>7
  <2>9. start < N /\ e = o - start /\ e <= N - start - 1 BY <2>7, <2>8
  <2>2. start < N /\ column - 1 = o - start /\ column - 1 <= N - start - 1 BY <1>6, <2>9
  <2>3. ASSUME NEW p \in start .. N - 1, IsNewline(text[p + 1]) PROVE column - 1 <= p - start
    <3>1. p \notin start .. o - 1 BY <2>1, <2>3
    <3>2. p \in Int /\ start <= p BY <1>2
    <3>3. ~ (p <= o - 1) BY <2>7, <3>1, <3>2
    <3> QED BY <2>2, <2>7, <3>2, <3>3
  <2>4. \A n \in T : column - 1 <= n BY <2>2, <2>3, <1>6
  <2>5. Min(T) = column - 1
    <3>1. column - 1 \in T OBVIOUS
    <3> HIDE DEF T
    <3> QED BY <1>8, <2>4, <3>1, MinIs
  <2> HIDE DEF T
  <2>6. ~ (Min(T) < column - 1) BY <1>6, <2>5
  <2> QED BY <1>2, <1>5, <1>7, <2>2, <2>6
<1>10. ASSUME ~ Found, start < N PROVE GetLocation(s, line, column) = -1
  <2>1. PICK o \in Nat : o = start + column - 1 BY <1>5, <1>6
  <2>2. ASSUME o < N, \A p \in start .. o - 1 : ~IsNewline(text[p + 1])
        PROVE  FALSE
    <3>1. start <= o BY <1>5, <1>6, <2>1
    <3>2. ASSUME line < Len(s) PROVE s[line + 1] > o
      <4>1. line + 1 \in 2 .. Len(s) /\ line + 1 \in 1 .. Len(s) BY <1>4, <3>2
      <4>2. PICK p \in 1 .. N : p = s[line + 1] /\ IsNewline(text[p]) BY <1>1, <1>2, <4>1 DEF LineTable
      <4>3. s[line] < s[line + 1] BY <1>3, <4>1
      <4>4. start <= p - 1 BY <1>5, <4>2, <4>3
      <4>5. p - 1 \notin start .. o - 1
        <5>1. p - 1 + 1 = p BY <4>2
        <5> QED BY <2>2, <4>2, <5>1
      <4> QED BY <1>5, <4>2, <4>4, <4>5
    <3>3. InLine(s, o, line) BY <1>5, <3>1, <3>2 DEF InLine
    <3>4. PhysicalLine(o) = line BY <3>3, PhysicalLineMeans
    <3>5. o \in 0 .. N - 1 BY <1>2, <2>2
    <3> QED BY <1>10, <2>1, <2>2, <3>4, <3>5
  <2>3. PICK x \in T : x < column - 1
    <3>1. CASE o < N
      <4>1. PICK p \in start .. o - 1 : IsNewline(text[p + 1]) BY <2>2, <3>1
      <4>2. p \in start .. N - 1 BY <1>2, <1>5, <3>1, <4>1
      <4>3. p - start \in T BY <4>1, <4>2
      <4>4. p - start < column - 1 BY <1>5, <1>6, <2>1, <4>1
      <4> QED BY <4>3, <4>4
    <3>2. CASE ~ (o < N)
      <4>1. N - start - 1 \in T /\ N - start - 1 < column - 1 BY <1>2, <1>5, <1>6, <2>1, <3>2
      <4> QED BY <4>1
    <3> QED BY <3>1, <3>2
  <2>4. \A n \in T : n >= -1
    <3>1. \A n \in Q : n >= 0 BY <1>5
    <3> QED BY <1>2, <1>5, <1>6, <3>1
  <2>5. Min(T) < column - 1
    <3> DEFINE S == {n + 1 : n \in T}
    <3>1. S \subseteq Nat /\ S # {} BY <1>8, <2>4
    <3>2. PICK y \in S : \A n \in S : y <= n BY <3>1, LeastNatural
    <3>3. PICK z \in T : y = z + 1 BY <3>2
    <3>4. ASSUME NEW n \in T PROVE z <= n
      <4>1. n + 1 \in S BY <3>4
      <4>2. z + 1 <= n + 1 BY <3>2, <3>3, <4>1
      <4> QED BY <1>8, <4>2
    <3>5. Min(T) = z
      <4> HIDE DEF T
      <4> QED BY <1>8, <3>4, MinIs
    <3>6. z <= x /\ x \in Int /\ z \in Int BY <1>8, <3>4
    <3> HIDE DEF T
    <3> QED BY <1>6, <2>3, <3>5, <3>6
  <2>6. column > 1
    <3>1. CASE column = 1
      <4>1. o = start /\ start .. o - 1 = {} BY <1>5, <2>1, <3>1
      <4> QED BY <1>10, <2>2, <4>1
    <3> QED BY <1>2, <3>1
  <2> HIDE DEF T
  <2> QED BY <1>5, <1>7, <1>10, <2>5, <2>6
<1> HIDE DEF T
<1> QED BY <1>2, <1>5, <1>9, <1>10

-----------------------------------------------------------------------------
(***************************************************************************)
(* What each variable holds.                                               *)
(***************************************************************************)
MaybeNames == Names \cup {None}
Note == [offset : Nat, line : Nat, name : MaybeNames, kind : Kinds, include : Nat]
Directive == [offset : Nat, line : Nat, name : MaybeNames, marker : BOOLEAN, flags : Seq(Nat)]
ReaderState == [offset : Nat, base : Nat, mark : Nat, name : MaybeNames, stack : Seq(Nat), kind : Kinds]

TypeOK ==
  /\ text \in Seq({"c", "n", "r"})
  /\ fileKind \in Kinds
  /\ lexed \in 0 .. Len(text)
  /\ entries \in Seq(Note)
  /\ climb \in [macro : Climbers \cup {"none"}, at : Nat, depth : Nat]
  /\ asked \in Nat
  /\ directives \in Seq(Directive)
  /\ readers \in Seq(ReaderState) /\ readers # <<>>

(* The table of the lines is there or is not, and the hint is right.       *)
HintOK ==
  /\ lineStarts \in {<<>>, ComputeLineNumbers(text)}
  /\ RightHint(ComputeLineNumbers(text), hint)

LEMMA NearestEntryIs ==
  ASSUME entries \in Seq(Note), NEW o \in Nat
  PROVE  /\ NearestEntry(o) \in 0 .. Len(entries)
         /\ NearestEntry(o) # 0 =>
              /\ NearestEntry(o) \in DOMAIN entries
              /\ entries[NearestEntry(o)] \in Note
              /\ entries[NearestEntry(o)].offset <= o
         /\ \A k \in DOMAIN entries : entries[k].offset <= o => k <= NearestEntry(o)
<1> DEFINE T == {0} \cup {k \in DOMAIN entries : entries[k].offset <= o}
<1>1. Len(entries) \in Nat /\ DOMAIN entries = 1 .. Len(entries) OBVIOUS
<1>2. T \subseteq Nat /\ T # {} /\ \A k \in T : k <= Len(entries) BY <1>1
<1>3. PICK m : m = Max(T) OBVIOUS
<1>4. m \in T /\ \A k \in T : k <= m
  <2> HIDE DEF T
  <2> QED BY <1>1, <1>2, <1>3, GreatestNatural
<1>5. NearestEntry(o) = m BY <1>3 DEF NearestEntry
<1>6. m \in 0 .. Len(entries) BY <1>1, <1>4
<1>7. m # 0 => m \in DOMAIN entries /\ entries[m] \in Note /\ entries[m].offset <= o BY <1>4
<1>8. \A k \in DOMAIN entries : entries[k].offset <= o => k <= m BY <1>4
<1> QED BY <1>5, <1>6, <1>7, <1>8

LEMMA GetLineNumberFinds ==
  ASSUME TypeOK, NEW h, RightHint(ComputeLineNumbers(text), h), NEW o \in Nat
  PROVE  /\ GetLineNumber(ComputeLineNumbers(text), h, o) = [pos |-> o + 1, line |-> PhysicalLine(o)]
         /\ RightHint(ComputeLineNumbers(text), GetLineNumber(ComputeLineNumbers(text), h, o))
         /\ PhysicalLine(o) \in Nat \ {0}
<1>1. text \in Seq({"c", "n", "r"}) BY DEF TypeOK
<1>2. PICK s : s = ComputeLineNumbers(text) OBVIOUS
<1>3. LineTable(text, s) BY <1>1, <1>2, LineNumbersAreLineStarts
<1>4. PICK m : m = PhysicalLine(o) /\ InLine(s, o, m) BY <1>1, <1>2, PhysicalLineMeans
<1>5. GetLineNumber(s, h, o) = [pos |-> o + 1, line |-> m] BY <1>1, <1>2, <1>3, <1>4, GetLineNumberIs
<1>6. Len(s) \in Nat BY <1>3 DEF LineTable
<1>7. m \in Nat \ {0} BY <1>4, <1>6 DEF InLine
<1>8. o + 1 - 1 = o /\ o + 1 \in Nat /\ o + 1 >= 1 OBVIOUS
<1>9. RightHint(s, [pos |-> o + 1, line |-> m]) BY <1>4, <1>7, <1>8 DEF RightHint
<1> QED BY <1>2, <1>4, <1>5, <1>7, <1>9

(* getPresumedLoc, without the table and the hint that it finds lines with.*)
LEMMA PresumedLocIs ==
  ASSUME TypeOK, HintOK, NEW o \in Nat, NEW k, k = NearestEntry(o)
  PROVE  /\ RightHint(ComputeLineNumbers(text), HintAfter(o))
         /\ Starts = ComputeLineNumbers(text)
         /\ k = 0 => PresumedLoc(o) = [line |-> PhysicalLine(o), column |-> ColumnNumber(o), name |-> None,
                                       include |-> 0, kind |-> fileKind]
         /\ k # 0 => PresumedLoc(o) =
              [line |-> (entries[k].line + PhysicalLine(o) - PhysicalLine(entries[k].offset) - 1) % LineModulus,
               column |-> ColumnNumber(o), name |-> entries[k].name,
               include |-> entries[k].include, kind |-> entries[k].kind]
<1>1. PICK s : s = ComputeLineNumbers(text) OBVIOUS
<1>2. Starts = s BY <1>1 DEF HintOK, Starts
<1>3. PICK h : h = GetLineNumber(s, hint, o) OBVIOUS
<1>4. h = [pos |-> o + 1, line |-> PhysicalLine(o)] /\ RightHint(s, h)
  BY <1>1, <1>3, GetLineNumberFinds DEF HintOK
<1>5. CASE k = 0
  <2>1. HintAfter(o) = h BY <1>2, <1>3, <1>5 DEF HintAfter
  <2>2. PresumedLoc(o) = [line |-> h.line, column |-> ColumnNumber(o), name |-> None,
                          include |-> 0, kind |-> fileKind]
    BY <1>2, <1>3, <1>5 DEF PresumedLoc
  <2>3. h.line = PhysicalLine(o) BY <1>4
  <2> QED BY <1>1, <1>2, <1>4, <1>5, <2>1, <2>2, <2>3
<1>6. CASE k # 0
  <2>1. entries[k].offset \in Nat BY <1>6, NearestEntryIs DEF TypeOK, Note
  <2>2. PICK e : e = GetLineNumber(s, h, entries[k].offset) OBVIOUS
  <2>3. e = [pos |-> entries[k].offset + 1, line |-> PhysicalLine(entries[k].offset)] /\ RightHint(s, e)
    BY <1>1, <1>4, <2>1, <2>2, GetLineNumberFinds
  <2>4. HintAfter(o) = e BY <1>2, <1>3, <1>6, <2>2 DEF HintAfter
  <2>5. PresumedLoc(o) =
              [line |-> (entries[k].line + h.line - e.line - 1) % LineModulus,
               column |-> ColumnNumber(o), name |-> entries[k].name,
               include |-> entries[k].include, kind |-> entries[k].kind]
    BY <1>2, <1>3, <1>6, <2>4 DEF PresumedLoc
  <2>6. h.line = PhysicalLine(o) /\ e.line = PhysicalLine(entries[k].offset) BY <1>4, <2>3
  <2> QED BY <1>1, <1>2, <1>6, <2>3, <2>4, <2>5, <2>6
<1> QED BY <1>5, <1>6

LEMMA LookUpKeepsHint ==
  ASSUME TypeOK, HintOK, NEW o \in Nat, LookUp(o), text' = text
  PROVE  HintOK'
<1>1. RightHint(ComputeLineNumbers(text), HintAfter(o)) /\ Starts = ComputeLineNumbers(text)
  BY PresumedLocIs
<1>2. hint' = HintAfter(o) /\ lineStarts' = Starts BY DEF LookUp
<1>3. ComputeLineNumbers(text)' = ComputeLineNumbers(text) BY DEF ComputeLineNumbers
<1>4. RightHint(ComputeLineNumbers(text), hint)' = RightHint(ComputeLineNumbers(text), hint') BY <1>3
<1> QED BY <1>1, <1>2, <1>3, <1>4 DEF HintOK

-----------------------------------------------------------------------------
(***************************************************************************)
(* The variables keep their types.                                         *)
(***************************************************************************)
LEMMA LineEndIs ==
  ASSUME text \in Seq({"c", "n", "r"}), NEW o \in 0 .. Len(text)
  PROVE  /\ LineEnd(o) \in o .. Len(text)
         /\ o < Len(text) /\ text[o + 1] = "c" => LineEnd(o) > o
<1> DEFINE P == {p \in o .. Len(text) - 1 : IsNewline(text[p + 1])}
           T == P \cup {Len(text)}
<1>1. Len(text) \in Nat /\ o \in Nat /\ o <= Len(text) OBVIOUS
<1>2. T \subseteq Nat /\ T # {} /\ \A n \in T : o <= n /\ n <= Len(text) BY <1>1
<1>3. PICK m \in T : \A n \in T : m <= n
  <2> HIDE DEF T
  <2> QED BY <1>2, LeastNatural
<1>4. Min(T) = m
  <2> HIDE DEF T
  <2>1. T \subseteq Int BY <1>2
  <2> QED BY <1>3, <2>1, MinIs
<1>5. LineEnd(o) = m BY <1>4 DEF LineEnd
<1>6. m \in Nat /\ o <= m /\ m <= Len(text) BY <1>2
<1>7. ASSUME o < Len(text), text[o + 1] = "c" PROVE m # o
  <2>1. o \notin P BY <1>7 DEF IsNewline
  <2> QED BY <1>7, <2>1
<1> QED BY <1>1, <1>5, <1>6, <1>7

LEMMA DirectiveAtOK ==
  ASSUME TypeOK, NEW o \in Nat, DirectiveAt(o)
  PROVE  /\ o = lexed /\ o \in 1 .. Len(text) /\ o < Len(text) /\ Idle
         /\ lexed' \in o + 1 .. Len(text) /\ lexed' = LineEnd(o)
         /\ text' = text /\ fileKind' = fileKind /\ climb' = climb
         /\ asked' = 0 /\ answer' = NoAnswer
<1>1. /\ text \in Seq({"c", "n", "r"}) /\ o = lexed /\ o > 0 /\ o < Len(text) /\ text[o + 1] = "c"
      /\ Idle /\ lexed' = LineEnd(o) /\ text' = text /\ fileKind' = fileKind /\ climb' = climb
      /\ asked' = 0 /\ answer' = NoAnswer
  BY DEF TypeOK, DirectiveAt, NoQuestion
<1>2. o \in 0 .. Len(text) /\ Len(text) \in Nat BY <1>1
<1>3. LineEnd(o) \in o .. Len(text) /\ LineEnd(o) > o BY <1>1, <1>2, LineEndIs
<1> QED BY <1>1, <1>2, <1>3

LEMMA LastNote ==
  ASSUME entries \in Seq(Note), entries # <<>>
  PROVE  /\ Last(entries) \in Note /\ Last(entries) = entries[Len(entries)]
         /\ Len(entries) \in DOMAIN entries /\ Len(entries) \in Nat \ {0}
BY FrontLast

LEMMA LineNoteType ==
  ASSUME TypeOK, NEW o \in Nat, NEW line \in LineNos, NEW name \in MaybeNames
  PROVE  LineNote(o, line, name) \in Note
<1>1. line \in Nat BY LinesAssumption
<1>2. entries \in Seq(Note) BY DEF TypeOK
<1>3. CASE entries = <<>> BY <1>1, <1>3 DEF LineNote, Note, Kinds
<1>4. CASE entries # <<>>
  <2>1. Last(entries) \in Note BY <1>2, <1>4, LastNote
  <2> QED BY <1>1, <1>4, <2>1 DEF LineNote, Note
<1> QED BY <1>3, <1>4

LEMMA MarkerNoteType ==
  ASSUME TypeOK, NEW o \in Nat \ {0}, NEW line \in LineNos, NEW name \in MaybeNames,
         NEW op \in {"none", "enter", "exit"}, NEW kind \in Kinds, op = "exit" => entries # <<>>
  PROVE  MarkerNote(o, line, name, op, kind) \in Note
<1>1. line \in Nat BY LinesAssumption
<1>2. entries \in Seq(Note) BY DEF TypeOK
<1>3. IncludeOffset(o, op) \in Nat
  <2>1. CASE op = "none"
    <3>1. entries # <<>> => Last(entries).include \in Nat BY <1>2, LastNote DEF Note
    <3> QED BY <2>1, <3>1 DEF IncludeOffset
  <2>2. CASE op = "enter" BY <2>2 DEF IncludeOffset
  <2>3. CASE op = "exit"
    <3>1. Last(entries).include \in Nat BY <1>2, <2>3, LastNote DEF Note
    <3>2. PICK k : k = NearestEntry(Last(entries).include) OBVIOUS
    <3>3. k # 0 => entries[k] \in Note BY <1>2, <3>1, <3>2, NearestEntryIs
    <3>4. IncludeOffset(o, op) = IF k = 0 THEN 0 ELSE entries[k].include BY <2>3, <3>2 DEF IncludeOffset
    <3> QED BY <3>3, <3>4 DEF Note
  <2> QED BY <2>1, <2>2, <2>3
<1> QED BY <1>1, <1>3 DEF MarkerNote, Note

(* The reader takes a directive in.                                        *)
LEMMA MetType ==
  ASSUME TypeOK, NEW d \in Directive, d.offset >= 1, Met(d)
  PROVE  /\ directives' \in Seq(Directive)
         /\ readers' \in Seq(ReaderState) /\ readers' # <<>>
<1>1. directives \in Seq(Directive) /\ readers \in Seq(ReaderState) /\ readers # <<>> BY DEF TypeOK
<1>2. directives' \in Seq(Directive) BY <1>1 DEF Met
<1>3. PICK s : s = Last(readers) OBVIOUS
<1>4. s \in ReaderState BY <1>1, <1>3, FrontLast
<1>5. CASE Ignored(s, d) BY <1>1, <1>2, <1>3, <1>5 DEF Met
<1>6. CASE ~ Ignored(s, d)
  <2>1. readers' = Append(readers, Read(s, d)) BY <1>3, <1>6 DEF Met
  <2>2. PICK r : r = Read(s, d) OBVIOUS
  <2>3. r = [offset |-> d.offset, base |-> d.line, mark |-> PhysicalLine(d.offset),
             name |-> IF d.name = None THEN s.name ELSE d.name, stack |-> r.stack, kind |-> r.kind]
    BY <2>2 DEF Read
  <2>4. d.offset \in Nat /\ d.line \in Nat /\ d.name \in MaybeNames BY DEF Directive
  <2>5. s.name \in MaybeNames /\ s.stack \in Seq(Nat) /\ s.kind \in Kinds BY <1>4 DEF ReaderState
  <2>6. PhysicalLine(d.offset) \in Nat
    <3>1. text \in Seq({"c", "n", "r"}) BY DEF TypeOK
    <3>2. LineTable(text, ComputeLineNumbers(text)) BY <3>1, LineNumbersAreLineStarts
    <3>3. InLine(ComputeLineNumbers(text), d.offset, PhysicalLine(d.offset)) BY <2>4, <3>1, PhysicalLineMeans
    <3> QED BY <3>2, <3>3 DEF LineTable, InLine
  <2>7. r.stack \in Seq(Nat)
    <3>1. CASE Enters(d)
      <4>1. d.offset - 1 \in Nat BY <2>4
      <4>2. r.stack = Append(s.stack, d.offset - 1) BY <2>2, <3>1 DEF Read
      <4> QED BY <2>5, <4>1, <4>2
    <3>2. CASE ~ Enters(d) /\ Leaves(d)
      <4>1. s.stack # <<>> BY <1>6, <3>2 DEF Ignored
      <4>2. r.stack = Front(s.stack) BY <2>2, <3>2 DEF Read
      <4> QED BY <2>5, <4>1, <4>2, FrontLast
    <3>3. CASE ~ Enters(d) /\ ~ Leaves(d)
      <4>1. r.stack = s.stack BY <2>2, <3>3 DEF Read
      <4> QED BY <2>5, <4>1
    <3> QED BY <3>1, <3>2, <3>3
  <2>8. r.kind \in Kinds BY <2>2, <2>5 DEF Read, Kinds
  <2>9. r \in ReaderState BY <2>3, <2>4, <2>5, <2>6, <2>7, <2>8 DEF ReaderState
  <2>10. readers' \in Seq(ReaderState) /\ readers' # <<>> BY <1>1, <2>1, <2>2, <2>9
  <2> QED BY <1>2, <2>10
<1> QED BY <1>5, <1>6

LEMMA FlagsType ==
  ASSUME NEW flags \in Seq(Nat), NEW f, f = ReadLineMarkerFlags(flags)
  PROVE  f.op \in {"none", "enter", "exit"} /\ f.kind \in Kinds /\ f.hadError \in BOOLEAN
BY DEF ReadLineMarkerFlags, Kinds

LEMMA ReachType ==
  ASSUME TypeOK, HintOK, NEW p \in Nat, NEW macro, NEW depth \in Nat, Reach(p, macro, depth)
  PROVE  climb' \in [macro : Climbers \cup {"none"}, at : Nat, depth : Nat]
<1>1. PICK k : k = NearestEntry(p) OBVIOUS
<1>2. k # 0 => entries[k] \in Note BY <1>1, NearestEntryIs DEF TypeOK
<1>3. PresumedLoc(p).include \in Nat
  <2>1. CASE k = 0
    <3>1. PresumedLoc(p) = [line |-> PhysicalLine(p), column |-> ColumnNumber(p), name |-> None,
                            include |-> 0, kind |-> fileKind]
      BY <1>1, <2>1, PresumedLocIs
    <3> QED BY <3>1
  <2>2. CASE k # 0
    <3>1. PresumedLoc(p) =
              [line |-> (entries[k].line + PhysicalLine(p) - PhysicalLine(entries[k].offset) - 1) % LineModulus,
               column |-> ColumnNumber(p), name |-> entries[k].name,
               include |-> entries[k].include, kind |-> entries[k].kind]
      BY <1>1, <2>2, PresumedLocIs
    <3>2. PresumedLoc(p).include = entries[k].include BY <3>1
    <3> QED BY <1>2, <2>2, <3>2 DEF Note
  <2> QED BY <2>1, <2>2
<1>4. \/ climb' = NoClimb
      \/ macro \in Climbers /\ climb' = [macro |-> macro, at |-> PresumedLoc(p).include, depth |-> depth + 1]
  BY DEF Reach
<1> QED BY <1>3, <1>4 DEF NoClimb

-----------------------------------------------------------------------------
(***************************************************************************)
(* The entries and the readers.                                            *)
(***************************************************************************)
(* The notes are in the order of the file.                                 *)
InOrder ==
  /\ \A k \in DOMAIN entries : 1 <= entries[k].offset /\ entries[k].offset < lexed
  /\ \A j, k \in DOMAIN entries : j < k => entries[j].offset < entries[k].offset

(* A note is missing only where a marker leaves no file or is malformed.   *)
NothingNoted ==
  entries = <<>> => \A d \in DOMAIN directives : Leaves(directives[d]) \/ directives[d].flags \notin WellFormed

Regular == ~ EntersAtStart /\ ~ LineInSystemHeader

Top(stack) == IF stack = <<>> THEN 0 ELSE Last(stack)

(* An entry is what a reader knows, with the top of his stack.             *)
Agrees(e, r) ==
  /\ e.offset = r.offset /\ e.line = r.base /\ PhysicalLine(e.offset) = r.mark
  /\ e.name = r.name /\ e.kind = r.kind
  /\ e.include = Top(r.stack)

Agreement ==
  /\ Len(readers) = Len(entries) + 1
  /\ readers[1] = Reader
  /\ \A k \in DOMAIN entries : Agrees(entries[k], readers[k + 1])

(* A presumed include was read by a reader with the rest of the stack.     *)
StackOK(r) ==
  \A i \in 1 .. Len(r.stack) :
    /\ 1 <= r.stack[i] /\ r.stack[i] < r.offset
    /\ ReaderAt(r.stack[i]).stack = SubSeq(r.stack, 1, i - 1)

StacksOK == \A k \in DOMAIN readers : StackOK(readers[k])

(* The macro has come down from the top of the stack.                      *)
ClimbOK ==
  ~ Idle =>
    LET S == ReaderAt(asked).stack
    IN /\ climb.macro \in Climbers
       /\ climb.depth \in 1 .. Len(S)
       /\ climb.at = S[Len(S) - climb.depth + 1]

NotesOK ==
  /\ InOrder
  /\ NothingNoted
  /\ Regular => Agreement /\ StacksOK /\ ClimbOK
  /\ PresumedIsRight

IInv == TypeOK /\ HintOK /\ NotesOK

LEMMA LastReader ==
  ASSUME TypeOK
  PROVE  /\ Last(readers) \in ReaderState /\ Last(readers) = readers[Len(readers)]
         /\ Len(readers) \in Nat \ {0} /\ DOMAIN readers = 1 .. Len(readers)
         /\ \A k \in DOMAIN readers : readers[k] \in ReaderState
BY FrontLast DEF TypeOK

(* Every reader but the first one is the reader of an entry.               *)
LEMMA ReaderOffsets ==
  ASSUME TypeOK, InOrder, Agreement
  PROVE  /\ \A k \in DOMAIN readers : readers[k].offset \in Nat /\ (readers[k].offset < lexed \/ k = 1)
         /\ readers[1].offset = 0 /\ 1 \in DOMAIN readers
<1>1. /\ Len(readers) \in Nat \ {0} /\ DOMAIN readers = 1 .. Len(readers)
      /\ \A k \in DOMAIN readers : readers[k] \in ReaderState
  BY LastReader
<1>2. readers[1].offset = 0 BY DEF Agreement, Reader
<1>3. Len(entries) \in Nat /\ DOMAIN entries = 1 .. Len(entries) BY DEF TypeOK
<1>4. ASSUME NEW k \in DOMAIN readers, k # 1 PROVE readers[k].offset < lexed
  <2>1. k - 1 \in DOMAIN entries /\ k - 1 + 1 = k BY <1>1, <1>3, <1>4 DEF Agreement
  <2>2. entries[k - 1].offset = readers[k].offset BY <2>1 DEF Agreement, Agrees
  <2> QED BY <2>1, <2>2 DEF InOrder
<1>5. \A k \in DOMAIN readers : readers[k].offset \in Nat BY <1>1 DEF ReaderState
<1> QED BY <1>1, <1>2, <1>4, <1>5

LEMMA ReaderAtIs ==
  ASSUME TypeOK, InOrder, Agreement, NEW o \in Nat, NEW n, n = NearestEntry(o)
  PROVE  /\ n \in 0 .. Len(entries) /\ n + 1 \in DOMAIN readers
         /\ ReaderAt(o) = readers[n + 1] /\ ReaderAt(o) \in ReaderState
         /\ n # 0 => n \in DOMAIN entries /\ Agrees(entries[n], ReaderAt(o))
<1> DEFINE R == {k \in DOMAIN readers : readers[k].offset <= o}
<1>1. entries \in Seq(Note) BY DEF TypeOK
<1>2. /\ n \in 0 .. Len(entries)
      /\ n # 0 => n \in DOMAIN entries /\ entries[n].offset <= o
      /\ \A k \in DOMAIN entries : entries[k].offset <= o => k <= n
  BY <1>1, NearestEntryIs
<1>3. /\ Len(readers) \in Nat \ {0} /\ DOMAIN readers = 1 .. Len(readers)
      /\ \A k \in DOMAIN readers : readers[k] \in ReaderState
  BY LastReader
<1>4. Len(readers) = Len(entries) + 1 /\ \A k \in DOMAIN entries : Agrees(entries[k], readers[k + 1])
  BY DEF Agreement
<1>5. Len(entries) \in Nat /\ DOMAIN entries = 1 .. Len(entries) BY <1>1
<1>6. n + 1 \in DOMAIN readers BY <1>2, <1>3, <1>4, <1>5
<1>7. readers[n + 1].offset <= o
  <2>1. CASE n = 0 BY <2>1, ReaderOffsets
  <2>2. CASE n # 0 BY <1>2, <1>4, <2>2 DEF Agrees
  <2> QED BY <2>1, <2>2
<1>8. ASSUME NEW k \in R PROVE k <= n + 1
  <2>1. CASE k = 1 BY <1>2, <1>5, <2>1
  <2>2. CASE k # 1
    <3>1. k - 1 \in DOMAIN entries /\ k - 1 + 1 = k BY <1>3, <1>4, <1>5, <2>2
    <3>2. entries[k - 1].offset = readers[k].offset BY <1>4, <3>1 DEF Agrees
    <3>3. k - 1 <= n BY <1>2, <3>1, <3>2
    <3> QED BY <1>2, <1>5, <3>1, <3>3
  <2> QED BY <2>1, <2>2
<1>9. R \subseteq Int /\ n + 1 \in R BY <1>3, <1>6, <1>7
<1>10. Max(R) = n + 1
  <2> HIDE DEF R
  <2> QED BY <1>8, <1>9, MaxIs
<1>11. ReaderAt(o) = readers[n + 1] BY <1>10 DEF ReaderAt
<1> QED BY <1>2, <1>3, <1>4, <1>6, <1>11

(* What was read before a new directive is read as before.                 *)
LEMMA ReaderAtKept ==
  ASSUME TypeOK, InOrder, Agreement, NEW r, readers' = Append(readers, r),
         NEW a \in Nat, r.offset \in Nat, a < r.offset
  PROVE  ReaderAt(a)' = ReaderAt(a)
<1>1. /\ Len(readers) \in Nat \ {0} /\ DOMAIN readers = 1 .. Len(readers)
      /\ \A k \in DOMAIN readers : readers[k] \in ReaderState /\ readers[k].offset \in Nat
  BY LastReader, ReaderOffsets
<1>2. PICK n \in Nat : n = Len(readers) BY <1>1
<1>3. /\ DOMAIN readers' = 1 .. n + 1 /\ readers'[n + 1] = r
      /\ \A k \in 1 .. n : readers'[k] = readers[k]
  BY <1>1, <1>2 DEF TypeOK
<1> DEFINE R == {k \in DOMAIN readers : readers[k].offset <= a}
           T == {k \in DOMAIN readers' : readers'[k].offset <= a}
<1>4. ASSUME NEW k \in R PROVE k \in T BY <1>1, <1>2, <1>3
<1>5. ASSUME NEW k \in T PROVE k \in R
  <2>1. k \in 1 .. n + 1 /\ readers'[k].offset <= a BY <1>3
  <2>2. k # n + 1
    <3>1. SUFFICES ASSUME k = n + 1 PROVE FALSE OBVIOUS
    <3>2. r.offset <= a /\ a < r.offset BY <1>3, <2>1, <3>1
    <3> QED BY <3>2
  <2>3. k \in 1 .. n BY <1>2, <2>1, <2>2
  <2> QED BY <1>1, <1>2, <1>3, <2>1, <2>3
<1>6. T = R BY <1>4, <1>5
<1>7. R \subseteq Nat /\ R # {} /\ \A k \in R : k <= n
  <2>1. 1 \in R BY ReaderOffsets
  <2> QED BY <1>1, <1>2, <2>1
<1>8. Max(R) \in R
  <2> HIDE DEF R
  <2> QED BY <1>7, GreatestNatural
<1>9. PICK m \in 1 .. n : m = Max(R) BY <1>1, <1>2, <1>8
<1>10. ReaderAt(a) = readers[m] BY <1>9 DEF ReaderAt
<1>11. ReaderAt(a)' = readers'[Max(T)] BY DEF ReaderAt
<1>12. Max(T) = m BY <1>6, <1>9
<1> QED BY <1>3, <1>9, <1>10, <1>11, <1>12

(* After the last directive its reader goes on.                            *)
LEMMA ReaderAtEnd ==
  ASSUME TypeOK, InOrder, Agreement, NEW o \in Nat, o >= lexed - 1
  PROVE  /\ ReaderAt(o) = Last(readers)
         /\ NearestEntry(o) = Len(entries)
<1>1. entries \in Seq(Note) /\ lexed \in Nat BY DEF TypeOK
<1>2. PICK n : n = NearestEntry(o) OBVIOUS
<1>3. /\ n \in 0 .. Len(entries) /\ \A k \in DOMAIN entries : entries[k].offset <= o => k <= n
  BY <1>1, <1>2, NearestEntryIs
<1>4. Len(entries) \in Nat /\ DOMAIN entries = 1 .. Len(entries) BY <1>1
<1>5. n = Len(entries)
  <2>1. CASE Len(entries) = 0 BY <1>3, <1>4, <2>1
  <2>2. CASE Len(entries) # 0
    <3>1. Len(entries) \in DOMAIN entries BY <1>4, <2>2
    <3>2. entries[Len(entries)].offset < lexed /\ entries[Len(entries)] \in Note BY <1>1, <3>1 DEF InOrder
    <3>3. PICK e \in Nat : e = entries[Len(entries)].offset BY <3>2 DEF Note
    <3>4. e <= o BY <1>1, <3>2, <3>3
    <3>5. entries[Len(entries)].offset <= o BY <3>3, <3>4
    <3>6. Len(entries) <= n BY <1>3, <3>1, <3>5, Zenon
    <3>7. PICK l \in Nat : l = Len(entries) BY <1>4, Zenon
    <3>8. n \in 0 .. l /\ l <= n BY <1>3, <3>6, <3>7, Zenon
    <3>9. n = l BY <3>8
    <3> QED BY <3>7, <3>9, Zenon
  <2> QED BY <2>1, <2>2
<1>6. ReaderAt(o) = readers[n + 1] BY <1>2, ReaderAtIs
<1>7. n + 1 = Len(readers) BY <1>5 DEF Agreement
<1> QED BY <1>2, <1>5, <1>6, <1>7, LastReader

-----------------------------------------------------------------------------
(***************************************************************************)
(* The answers.                                                            *)
(***************************************************************************)
(* An answer says what the reader at that place knows.                     *)
LEMMA PresumedAgrees ==
  ASSUME TypeOK, HintOK, InOrder, Agreement, NEW o \in Nat
  PROVE  /\ PresumedLoc(o) = [line |-> Reference(o).line, column |-> ColumnNumber(o),
                              name |-> ReaderAt(o).name, include |-> Top(ReaderAt(o).stack),
                              kind |-> ReaderAt(o).kind]
         /\ ReaderAt(o) \in ReaderState
<1>1. PICK n : n = NearestEntry(o) OBVIOUS
<1>2. PICK s \in ReaderState : s = ReaderAt(o) BY <1>1, ReaderAtIs
<1>3. Reference(o).line = IF s.mark = 0 THEN PhysicalLine(o)
                          ELSE (s.base + PhysicalLine(o) - s.mark - 1) % LineModulus
  BY <1>2 DEF Reference
<1>4. CASE n = 0
  <2>1. s = readers[0 + 1] BY <1>1, <1>2, <1>4, ReaderAtIs
  <2>2. s = Reader BY <2>1 DEF Agreement
  <2>3. s.mark = 0 /\ s.name = None /\ s.stack = <<>> /\ s.kind = fileKind BY <2>2 DEF Reader
  <2>4. PresumedLoc(o) = [line |-> PhysicalLine(o), column |-> ColumnNumber(o), name |-> None,
                          include |-> 0, kind |-> fileKind]
    BY <1>1, <1>4, PresumedLocIs
  <2>5. Top(s.stack) = 0 BY <2>3 DEF Top
  <2> QED BY <1>2, <1>3, <2>3, <2>4, <2>5
<1>5. CASE n # 0
  <2>1. n \in DOMAIN entries /\ Agrees(entries[n], s) BY <1>1, <1>2, <1>5, ReaderAtIs
  <2>2. PICK e \in Note : e = entries[n] BY <2>1 DEF TypeOK
  <2>3. /\ e.offset = s.offset /\ e.line = s.base /\ PhysicalLine(e.offset) = s.mark
        /\ e.name = s.name /\ e.kind = s.kind /\ e.include = Top(s.stack)
    BY <2>1, <2>2 DEF Agrees
  <2>4. PresumedLoc(o) = [line |-> (e.line + PhysicalLine(o) - PhysicalLine(e.offset) - 1) % LineModulus,
                          column |-> ColumnNumber(o), name |-> e.name,
                          include |-> e.include, kind |-> e.kind]
    BY <1>1, <1>5, <2>2, PresumedLocIs
  <2>5. s.mark # 0
    <3>1. e.offset \in Nat /\ RightHint(ComputeLineNumbers(text), hint) BY DEF Note, HintOK
    <3>2. PhysicalLine(e.offset) \in Nat \ {0} BY <3>1, GetLineNumberFinds
    <3> QED BY <2>3, <3>2
  <2> QED BY <1>2, <1>3, <2>3, <2>4, <2>5
<1> QED BY <1>4, <1>5

LEMMA PresumedIsReference ==
  ASSUME TypeOK, HintOK, InOrder, Agreement, NEW o \in Nat, IsLocation(o)
  PROVE  PresumedLoc(o) = Reference(o)
<1>1. text \in Seq({"c", "n", "r"}) /\ lexed \in 0 .. Len(text) BY DEF TypeOK
<1>2. o \in 0 .. Len(text) - 1 /\ text[o + 1] = "c" BY <1>1 DEF IsLocation
<1>3. ColumnNumber(o) = o - Max({p \in StartsOf(text) : p <= o}) + 1 BY <1>1, <1>2, ColumnIs
<1>4. PresumedLoc(o) = [line |-> Reference(o).line, column |-> ColumnNumber(o),
                        name |-> ReaderAt(o).name, include |-> Top(ReaderAt(o).stack),
                        kind |-> ReaderAt(o).kind]
  BY PresumedAgrees
<1>5. PICK line : line = Reference(o).line OBVIOUS
<1>6. Reference(o) = [line |-> line, column |-> o - Max({p \in StartsOf(text) : p <= o}) + 1,
                      name |-> ReaderAt(o).name, include |-> Top(ReaderAt(o).stack),
                      kind |-> ReaderAt(o).kind]
  BY <1>5 DEF Reference, Top
<1> QED BY <1>3, <1>4, <1>5, <1>6

(* Where the macro that was met at o is, depth includes outwards.          *)
On(o, p, depth, macro) ==
  LET S == ReaderAt(o).stack
  IN \/ depth = 0 /\ p = o
     \/ /\ macro \in Climbers /\ depth \in 1 .. Len(S)
        /\ p = S[Len(S) - depth + 1]

LEMMA OnStack ==
  ASSUME TypeOK, InOrder, Agreement, StacksOK, NEW o \in Nat, NEW p \in Nat, NEW depth \in Nat, NEW macro,
         On(o, p, depth, macro)
  PROVE  /\ ReaderAt(o).stack \in Seq(Nat) /\ Len(ReaderAt(o).stack) \in Nat
         /\ depth \in 0 .. Len(ReaderAt(o).stack)
         /\ ReaderAt(p).stack = SubSeq(ReaderAt(o).stack, 1, Len(ReaderAt(o).stack) - depth)
         /\ \A i \in 1 .. Len(ReaderAt(o).stack) : ReaderAt(o).stack[i] >= 1
<1>1. PICK n : n = NearestEntry(o) OBVIOUS
<1>2. PICK k \in DOMAIN readers : ReaderAt(o) = readers[k] /\ ReaderAt(o) \in ReaderState
  BY <1>1, ReaderAtIs
<1>3. PICK S \in Seq(Nat) : S = ReaderAt(o).stack BY <1>2 DEF ReaderState
<1>4. \A i \in 1 .. Len(S) : S[i] >= 1 /\ ReaderAt(S[i]).stack = SubSeq(S, 1, i - 1)
  BY <1>2, <1>3 DEF StacksOK, StackOK
<1>5. Len(S) \in Nat BY <1>3
<1>6. CASE depth = 0 /\ p = o
  <2>1. SubSeq(S, 1, Len(S)) = S BY <1>3, Zenon, SubSeqFull
  <2>2. Len(S) - depth = Len(S) /\ depth \in 0 .. Len(S) BY <1>5, <1>6
  <2> QED BY <1>3, <1>4, <1>5, <1>6, <2>1, <2>2
<1>7. CASE depth \in 1 .. Len(S) /\ p = S[Len(S) - depth + 1]
  <2>1. PICK i \in 1 .. Len(S) : i = Len(S) - depth + 1 BY <1>5, <1>7
  <2>2. ReaderAt(p).stack = SubSeq(S, 1, i - 1) BY <1>4, <1>7, <2>1
  <2>3. i - 1 = Len(S) - depth /\ depth \in 0 .. Len(S) BY <1>5, <1>7, <2>1
  <2> QED BY <1>3, <1>4, <1>5, <2>2, <2>3
<1> QED BY <1>3, <1>6, <1>7 DEF On

(* A macro goes on to the next include, or has come to what it stands for. *)
LEMMA ReachIs ==
  ASSUME TypeOK, HintOK, InOrder, Agreement, StacksOK,
         NEW o \in Nat, NEW p \in Nat, NEW depth \in Nat, NEW macro \in Builtins,
         On(o, p, depth, macro), Reach(p, macro, depth)
  PROVE  \/ climb' = NoClimb /\ answer' = MacroReference(o, macro)
         \/ /\ answer' = NoAnswer /\ climb'.macro = macro
            /\ climb'.at \in Nat /\ climb'.depth \in Nat \ {0}
            /\ On(o, climb'.at, climb'.depth, macro)
<1>1. PICK S \in Seq(Nat) : S = ReaderAt(o).stack /\ Len(S) \in Nat BY OnStack
<1>2. /\ depth \in 0 .. Len(S) /\ ReaderAt(p).stack = SubSeq(S, 1, Len(S) - depth)
      /\ \A i \in 1 .. Len(S) : S[i] >= 1
  BY <1>1, OnStack
<1>3. PICK r \in ReaderState : r = ReaderAt(p) BY PresumedAgrees
<1>4. PresumedLoc(p) = [line |-> Reference(p).line, column |-> ColumnNumber(p),
                        name |-> r.name, include |-> Top(r.stack), kind |-> r.kind]
  BY <1>3, PresumedAgrees
<1>11. PICK L \in Nat : L = Len(S) BY <1>1
<1>12. depth \in Nat /\ depth <= L BY <1>2, <1>11
<1>15. PICK n \in Nat : n = L - depth BY <1>12
<1>5. n = Len(S) - depth BY <1>11, <1>15
<1>16. 1 \in 1 .. L + 1 /\ n \in 1 - 1 .. L /\ n = L - depth BY <1>12, <1>15
<1>6. 1 \in 1 .. Len(S) + 1 /\ n \in 1 - 1 .. Len(S) BY <1>11, <1>16
<1>13. r.stack = SubSeq(S, 1, n) BY <1>2, <1>3, <1>5
<1>14. Len(SubSeq(S, 1, n)) = n - 1 + 1 /\ \A i \in 1 .. n - 1 + 1 : SubSeq(S, 1, n)[i] = S[1 + i - 1]
  BY <1>6, Window
<1>7. Len(r.stack) = n - 1 + 1 /\ \A i \in 1 .. n - 1 + 1 : r.stack[i] = S[1 + i - 1]
  BY <1>13, <1>14
<1>8. r.stack \in Seq(Nat) BY <1>3 DEF ReaderState
<1>9. CASE macro \in Climbers /\ n # 0
  <2>1. n \in 1 .. n - 1 + 1 /\ n \in 1 .. Len(S) /\ 1 + n - 1 = n /\ n - 1 + 1 = n BY <1>5, <1>6, <1>9
  <2>2. r.stack # <<>> /\ Last(r.stack) = S[n] BY <1>7, <1>8, <2>1 DEF Last
  <2>3. Top(r.stack) = S[n] /\ S[n] \in Nat /\ S[n] >= 1 BY <1>1, <1>2, <2>1, <2>2 DEF Top
  <2>4. PresumedLoc(p).include = S[n] BY <1>4, <2>3
  <2>5. climb' = [macro |-> macro, at |-> S[n], depth |-> depth + 1] /\ answer' = NoAnswer
    BY <1>9, <2>3, <2>4 DEF Reach
  <2>8. depth + 1 \in 1 .. L /\ L - (depth + 1) + 1 = n BY <1>9, <1>12, <1>16
  <2>6. depth + 1 \in 1 .. Len(S) /\ Len(S) - (depth + 1) + 1 = n BY <1>11, <2>8
  <2>7. On(o, S[n], depth + 1, macro) BY <1>1, <1>9, <2>6 DEF On
  <2> QED BY <2>3, <2>5, <2>7
<1>10. CASE ~ (macro \in Climbers /\ n # 0)
  <2>1. climb' = NoClimb /\ answer' = MacroAnswer(macro, p, depth)
    <3>1. n = 0 => PresumedLoc(p).include = 0
      <4>1. n = 0 => r.stack = <<>> BY <1>7, <1>8
      <4> QED BY <1>4, <4>1 DEF Top
    <3> QED BY <1>10, <3>1 DEF Reach
  <2>2. PresumedLoc(p).line = Reference(p).line /\ PresumedLoc(p).name = r.name BY <1>4
  <2>3. macro \notin Climbers => depth = 0 /\ p = o BY DEF On
  <2>4. macro \in Climbers => depth = Len(S) BY <1>1, <1>2, <1>5, <1>10
  <2>5. CASE macro = "__LINE__"
    <3>1. macro \notin Climbers /\ macro \in Numbers BY <2>5 DEF Climbers, Numbers
    <3>2. answer' = [macro |-> macro, number |-> Reference(o).line, name |-> None]
      BY <2>1, <2>2, <2>3, <2>5, <3>1 DEF MacroAnswer
    <3>3. MacroReference(o, macro) = [macro |-> macro, number |-> Reference(o).line, name |-> None]
      BY <2>5, <3>1 DEF MacroReference
    <3> QED BY <2>1, <3>2, <3>3
  <2>6. CASE macro = "__INCLUDE_LEVEL__"
    <3>1. macro \in Climbers /\ macro \in Numbers BY <2>6 DEF Climbers, Numbers
    <3>2. answer' = [macro |-> macro, number |-> Len(S), name |-> None]
      BY <2>1, <2>4, <2>6, <3>1 DEF MacroAnswer
    <3>3. MacroReference(o, macro) = [macro |-> macro, number |-> Len(S), name |-> None]
      BY <1>1, <2>6, <3>1 DEF MacroReference
    <3> QED BY <2>1, <3>2, <3>3
  <2>7. CASE macro = "__FILE__"
    <3>1. macro \notin Climbers /\ macro \notin Numbers BY <2>7 DEF Climbers, Numbers
    <3>2. answer' = [macro |-> macro, number |-> 0, name |-> r.name]
      BY <2>1, <2>2, <2>7, <3>1 DEF MacroAnswer
    <3>3. MacroReference(o, macro) = [macro |-> macro, number |-> 0, name |-> ReaderAt(o).name]
      BY <2>7, <3>1 DEF MacroReference
    <3> QED BY <1>3, <2>1, <2>3, <3>1, <3>2, <3>3
  <2>8. CASE macro = "__BASE_FILE__"
    <3>1. macro \in Climbers /\ macro \notin Numbers BY <2>8 DEF Climbers, Numbers
    <3>2. answer' = [macro |-> macro, number |-> 0, name |-> r.name]
      BY <2>1, <2>2, <2>8, <3>1 DEF MacroAnswer
    <3>3. CASE S = <<>>
      <4>1. depth = 0 BY <2>4, <3>1, <3>3
      <4>2. p = o BY <1>1, <3>3, <4>1 DEF On
      <4>3. MacroReference(o, macro) = [macro |-> macro, number |-> 0, name |-> ReaderAt(o).name]
        BY <1>1, <2>8, <3>1, <3>3 DEF MacroReference
      <4> QED BY <1>3, <2>1, <3>2, <4>2, <4>3
    <3>4. CASE S # <<>>
      <4>1. depth = Len(S) /\ depth # 0 BY <1>1, <2>4, <3>1, <3>4
      <4>2. Len(S) - depth + 1 = 1 BY <1>1, <4>1
      <4>3. p = S[1] BY <1>1, <4>1, <4>2 DEF On
      <4>4. MacroReference(o, macro) = [macro |-> macro, number |-> 0, name |-> ReaderAt(S[1]).name]
        BY <1>1, <2>8, <3>1, <3>4 DEF MacroReference
      <4> QED BY <1>3, <2>1, <3>2, <4>3, <4>4
    <3> QED BY <3>3, <3>4
  <2> QED BY <2>5, <2>6, <2>7, <2>8 DEF Builtins
<1> QED BY <1>9, <1>10

-----------------------------------------------------------------------------
(***************************************************************************)
(* The flags of a marker.                                                  *)
(***************************************************************************)
(* What ReadLineMarkerFlags makes of each of the well-formed lists.        *)
LEMMA FlagsWellFormed ==
  ASSUME NEW flags \in WellFormed, NEW f, f = ReadLineMarkerFlags(flags)
  PROVE  /\ ~ f.hadError
         /\ f.op = "enter" <=> Contains(flags, 1)
         /\ f.op = "exit" <=> Contains(flags, 2)
         /\ f.kind = IF Contains(flags, 3) THEN "system" ELSE "user"
         /\ ~ (Contains(flags, 1) /\ Contains(flags, 2))
<1>1. CASE flags = <<>> BY <1>1 DEF ReadLineMarkerFlags, Contains
<1>2. CASE flags = <<1>> BY <1>2 DEF ReadLineMarkerFlags, Contains
<1>3. CASE flags = <<2>> BY <1>3 DEF ReadLineMarkerFlags, Contains
<1>4. CASE flags = <<3>> BY <1>4 DEF ReadLineMarkerFlags, Contains
<1>5. CASE flags = <<1, 3>> BY <1>5 DEF ReadLineMarkerFlags, Contains
<1>6. CASE flags = <<2, 3>> BY <1>6 DEF ReadLineMarkerFlags, Contains
<1>7. CASE flags = <<3, 4>> BY <1>7 DEF ReadLineMarkerFlags, Contains
<1>8. CASE flags = <<1, 3, 4>> BY <1>8 DEF ReadLineMarkerFlags, Contains
<1>9. CASE flags = <<2, 3, 4>> BY <1>9 DEF ReadLineMarkerFlags, Contains
<1> QED BY <1>1, <1>2, <1>3, <1>4, <1>5, <1>6, <1>7, <1>8, <1>9 DEF WellFormed

LEMMA EmptyIs ==
  ASSUME NEW S, NEW s \in Seq(S)
  PROVE  s = <<>> <=> Len(s) = 0
OBVIOUS

(* A list of up to three flags is its flags.                               *)
LEMMA ShortSequences ==
  ASSUME NEW S, NEW s \in Seq(S)
  PROVE  /\ Len(s) = 1 => s = <<s[1]>>
         /\ Len(s) = 2 => s = <<s[1], s[2]>>
         /\ Len(s) = 3 => s = <<s[1], s[2], s[3]>>
<1>2. ASSUME Len(s) = 1 PROVE s = <<s[1]>>
  <2>1. s[1] \in S BY <1>2
  <2>5. \A x \in S : <<x>> \in Seq(S) /\ Len(<<x>>) = 1 /\ <<x>>[1] = x OBVIOUS
  <2>2. PICK t \in Seq(S) : t = <<s[1]>> /\ Len(t) = 1 /\ t[1] = s[1] BY <2>1, <2>5, Zenon
  <2>3. \A i \in 1 .. Len(s) : i = 1 BY <1>2
  <2>4. \A i \in 1 .. Len(s) : s[i] = t[i] BY <2>2, <2>3
  <2> QED BY <1>2, <2>2, <2>4, SeqEqual
<1>3. ASSUME Len(s) = 2 PROVE s = <<s[1], s[2]>>
  <2>1. s[1] \in S /\ s[2] \in S
    <3>1. 1 \in 1 .. Len(s) /\ 2 \in 1 .. Len(s) BY <1>3
    <3> QED BY <3>1, ElementOfSeq
  <2>5. \A x, y \in S : <<x, y>> \in Seq(S) /\ Len(<<x, y>>) = 2 /\ <<x, y>>[1] = x /\ <<x, y>>[2] = y
    OBVIOUS
  <2>2. PICK t \in Seq(S) : t = <<s[1], s[2]>> /\ Len(t) = 2 /\ t[1] = s[1] /\ t[2] = s[2]
    <3>1. PICK x \in S, y \in S : x = s[1] /\ y = s[2] BY <2>1, Zenon
    <3>2. PICK t : t = <<x, y>> OBVIOUS
    <3>3. t \in Seq(S) /\ Len(t) = 2 /\ t[1] = x /\ t[2] = y BY <2>5, <3>2, Zenon
    <3>4. t = <<s[1], s[2]>> BY <3>1, <3>2
    <3> QED BY <3>1, <3>3, <3>4, Zenon
  <2>3. \A i \in 1 .. Len(s) : i = 1 \/ i = 2 BY <1>3
  <2>4. ASSUME NEW i \in 1 .. Len(s) PROVE s[i] = t[i]
    <3>1. CASE i = 1 BY <2>2, <3>1, Zenon
    <3>2. CASE i = 2 BY <2>2, <3>2, Zenon
    <3> QED BY <2>3, <3>1, <3>2
  <2> QED BY <1>3, <2>2, <2>4, SeqEqual
<1>4. ASSUME Len(s) = 3 PROVE s = <<s[1], s[2], s[3]>>
  <2>1. s[1] \in S /\ s[2] \in S /\ s[3] \in S
    <3>1. 1 \in 1 .. Len(s) /\ 2 \in 1 .. Len(s) /\ 3 \in 1 .. Len(s) BY <1>4
    <3> QED BY <3>1, ElementOfSeq
  <2>2. PICK t \in Seq(S) : /\ t = <<s[1], s[2], s[3]>> /\ Len(t) = 3
                            /\ t[1] = s[1] /\ t[2] = s[2] /\ t[3] = s[3]
    <3>1. ASSUME NEW x \in S, NEW y \in S, NEW z \in S
          PROVE  /\ <<x, y, z>> \in Seq(S) /\ Len(<<x, y, z>>) = 3
                 /\ <<x, y, z>>[1] = x /\ <<x, y, z>>[2] = y /\ <<x, y, z>>[3] = z
      <4>1. <<x, y, z>> \in Seq(S) OBVIOUS
      <4>2. Len(<<x, y, z>>) = 3 OBVIOUS
      <4>3. <<x, y, z>>[1] = x OBVIOUS
      <4>4. <<x, y, z>>[2] = y OBVIOUS
      <4>5. <<x, y, z>>[3] = z OBVIOUS
      <4> QED BY <4>1, <4>2, <4>3, <4>4, <4>5
    <3>2. PICK x \in S, y \in S, z \in S : x = s[1] /\ y = s[2] /\ z = s[3] BY <2>1, Zenon
    <3>3. PICK t \in Seq(S) : t = <<x, y, z>> /\ Len(t) = 3 /\ t[1] = x /\ t[2] = y /\ t[3] = z
      <4>1. PICK t : t = <<x, y, z>> OBVIOUS
      <4>2. t \in Seq(S) /\ Len(t) = 3 BY <3>1, <4>1, Zenon
      <4>3. t[1] = x /\ t[2] = y /\ t[3] = z BY <3>1, <4>1, Zenon
      <4> QED BY <4>1, <4>2, <4>3, Zenon
    <3>4. t = <<s[1], s[2], s[3]>> /\ Len(t) = 3 /\ t[1] = s[1] /\ t[2] = s[2] /\ t[3] = s[3]
      BY <3>2, <3>3, Zenon
    <3> QED BY <3>4, Zenon
  <2>3. \A i \in 1 .. 3 : i = 1 \/ i = 2 \/ i = 3 OBVIOUS
  <2>4. \A i \in 1 .. Len(s) : s[i] = t[i] BY <1>4, <2>2, <2>3
  <2> QED BY <1>4, <2>2, <2>4, SeqEqual
<1> QED BY <1>2, <1>3, <1>4

(* Every other list is an error.                                           *)
LEMMA FlagsMalformed ==
  ASSUME NEW flags \in Seq(Nat), ~ ReadLineMarkerFlags(flags).hadError
  PROVE  flags \in WellFormed
<1>1. PICK n \in Nat : n = Len(flags) OBVIOUS
<1>2. PICK rest : rest = IF flags # <<>> /\ flags[1] \in {1, 2} THEN Tail(flags) ELSE flags OBVIOUS
<1>3. ReadLineMarkerFlags(flags).hadError
        = (rest # <<>> /\ (rest[1] # 3 \/ (Len(rest) > 1 /\ rest[2] # 4) \/ Len(rest) > 2))
  BY <1>2 DEF ReadLineMarkerFlags
<1>4. rest # <<>> => rest[1] = 3 /\ (Len(rest) > 1 => rest[2] = 4) /\ ~ (Len(rest) > 2) BY <1>3
<1>5. CASE flags # <<>> /\ flags[1] \in {1, 2}
  <2>1. rest = Tail(flags) /\ n >= 1 BY <1>1, <1>2, <1>5
  <2>2. /\ rest \in Seq(Nat) /\ Len(rest) = n - 1
        /\ \A i \in 1 .. n - 1 : rest[i] = flags[i + 1]
    BY <1>1, <2>1
  <2>7. rest # <<>> <=> n # 1 BY <1>1, <2>2, EmptyIs, SMTT(30)
  <2>3. CASE n = 1
    <3>1. flags = <<flags[1]>> BY <1>1, <2>3, ShortSequences
    <3> QED BY <1>5, <3>1 DEF WellFormed
  <2>4. CASE n = 2
    <3>1. rest[1] = flags[2] /\ rest # <<>>
      <4>1. 1 \in 1 .. n - 1 /\ 1 + 1 = 2 BY <2>4
      <4> QED BY <2>2, <2>4, <2>7, <4>1
    <3>2. flags = <<flags[1], flags[2]>> BY <1>1, <2>4, ShortSequences
    <3> QED BY <1>4, <1>5, <3>1, <3>2 DEF WellFormed
  <2>5. CASE n = 3
    <3>1. rest[1] = flags[2] /\ rest[2] = flags[3] /\ rest # <<>> /\ Len(rest) > 1
      <4>1. 1 \in 1 .. n - 1 /\ 2 \in 1 .. n - 1 /\ 1 + 1 = 2 /\ 2 + 1 = 3 /\ n - 1 = 2 BY <2>5
      <4> QED BY <2>2, <2>5, <2>7, <4>1
    <3>2. flags = <<flags[1], flags[2], flags[3]>> BY <1>1, <2>5, ShortSequences
    <3> QED BY <1>4, <1>5, <3>1, <3>2 DEF WellFormed
  <2>6. CASE n > 3
    <3>1. rest # <<>> /\ Len(rest) > 2 BY <1>1, <2>2, <2>6
    <3> QED BY <1>4, <3>1
  <2> QED BY <1>1, <2>1, <2>3, <2>4, <2>5, <2>6
<1>6. CASE ~ (flags # <<>> /\ flags[1] \in {1, 2})
  <2>1. rest = flags BY <1>2, <1>6
  <2>6. ASSUME flags = <<>> PROVE n = 0
    <3>1. Len(flags) = 0 BY <2>6
    <3> QED BY <1>1, <3>1
  <2>2. CASE n = 0
    <3>1. flags = <<>> BY <1>1, <2>2, EmptyIs
    <3> QED BY <3>1 DEF WellFormed
  <2>3. CASE n = 1
    <3>1. flags # <<>> BY <2>3, <2>6
    <3>2. flags = <<flags[1]>> BY <1>1, <2>3, ShortSequences
    <3>3. flags[1] = 3 BY <1>4, <2>1, <3>1, Zenon
    <3>4. flags = <<3>> BY <3>2, <3>3, Zenon
    <3> QED BY <3>4 DEF WellFormed
  <2>4. CASE n = 2
    <3>1. flags # <<>> /\ Len(flags) > 1 BY <1>1, <2>4, <2>6
    <3>2. flags = <<flags[1], flags[2]>> BY <1>1, <2>4, ShortSequences
    <3>3. flags[1] = 3 /\ flags[2] = 4 BY <1>4, <2>1, <3>1, Zenon
    <3>4. flags = <<3, 4>> BY <3>2, <3>3, Zenon
    <3> QED BY <3>4 DEF WellFormed
  <2>5. CASE n > 2
    <3>1. flags # <<>> /\ Len(flags) > 2 BY <1>1, <2>5
    <3> QED BY <1>4, <2>1, <3>1
  <2> QED BY <1>1, <2>2, <2>3, <2>4, <2>5
<1> QED BY <1>5, <1>6

-----------------------------------------------------------------------------
(***************************************************************************)
(* The steps.                                                              *)
(***************************************************************************)
(* A step that meets no directive.                                         *)
Quiet == /\ UNCHANGED <<text, fileKind, entries, directives, readers>>
         /\ lexed' \in lexed .. Len(text)

LEMMA QuietKeeps ==
  ASSUME TypeOK, InOrder, NothingNoted, Quiet
  PROVE  /\ InOrder' /\ NothingNoted'
         /\ Regular' <=> Regular
         /\ Agreement' <=> Agreement
         /\ StacksOK' <=> StacksOK
         /\ \A o \in Nat : /\ ReaderAt(o)' = ReaderAt(o)
                           /\ Reference(o)' = Reference(o)
                           /\ \A macro : MacroReference(o, macro)' = MacroReference(o, macro)
<1>1. UNCHANGED <<text, fileKind, entries, directives, readers>> BY DEF Quiet
<1>2. InOrder'
  <2>1. lexed \in Nat /\ lexed' \in Nat /\ lexed <= lexed' BY DEF TypeOK, Quiet
  <2>2. ASSUME NEW k \in DOMAIN entries PROVE entries[k].offset < lexed'
    <3>3. entries[k] \in Note BY DEF TypeOK
    <3>1. PICK e \in Nat : e = entries[k].offset BY <3>3 DEF Note
    <3>2. e < lexed BY <3>1 DEF InOrder
    <3> QED BY <2>1, <3>1, <3>2
  <2> QED BY <1>1, <2>2 DEF InOrder
<1>3. NothingNoted' BY <1>1 DEF NothingNoted
<1>4. EntersAtStart' <=> EntersAtStart BY <1>1 DEF EntersAtStart
<1>5. LineInSystemHeader' <=> LineInSystemHeader BY <1>1 DEF LineInSystemHeader
<1>6. \A o : PhysicalLine(o)' = PhysicalLine(o) BY <1>1 DEF PhysicalLine, StartsOf, ComputeLineNumbers
<1>7. \A o : ReaderAt(o)' = ReaderAt(o) BY <1>1 DEF ReaderAt
<1>8. \A o : Reference(o)' = Reference(o)
  BY <1>1, <1>6, <1>7 DEF Reference, StartsOf, ComputeLineNumbers
<1>9. \A o, macro : MacroReference(o, macro)' = MacroReference(o, macro)
  BY <1>7, <1>8 DEF MacroReference
<1>10. \A e, r : Agrees(e, r)' <=> Agrees(e, r) BY <1>6 DEF Agrees
<1>11. Agreement' <=> Agreement BY <1>1, <1>10 DEF Agreement, Reader
<1>12. StacksOK' <=> StacksOK BY <1>1, <1>7 DEF StacksOK, StackOK
<1> QED BY <1>2, <1>3, <1>4, <1>5, <1>7, <1>8, <1>9, <1>11, <1>12 DEF Regular

(* What is regular after a directive was so before it.                     *)
LEMMA RegularBefore ==
  ASSUME TypeOK, NEW d \in Directive, directives' = Append(directives, d), fileKind' = fileKind, Regular'
  PROVE  /\ Regular
         /\ ~ (Enters(d) /\ d.offset = 1)
         /\ \/ fileKind = "user" \/ d.marker
            \/ \E e \in DOMAIN directives : ~ Leaves(directives[e]) /\ directives[e].flags \in WellFormed
<1>1. directives \in Seq(Directive) BY DEF TypeOK
<1>2. PICK n \in Nat : n = Len(directives) BY <1>1
<1>3. /\ DOMAIN directives = 1 .. n /\ DOMAIN directives' = 1 .. n + 1
      /\ directives'[n + 1] = d /\ \A e \in 1 .. n : directives'[e] = directives[e]
  BY <1>1, <1>2
<1>4. n + 1 \in 1 .. n + 1 /\ \A e \in 1 .. n : e \in 1 .. n + 1 BY <1>2
<1>5. \A k \in 1 .. n + 1 : ~ (Enters(directives'[k]) /\ directives'[k].offset = 1)
  BY <1>3 DEF Regular, EntersAtStart
<1>6. fileKind # "user" =>
        \A k \in 1 .. n + 1 : \/ directives'[k].marker
                              \/ \E e \in 1 .. k - 1 : ~ Leaves(directives'[e]) /\ directives'[e].flags \in WellFormed
  BY <1>3 DEF Regular, LineInSystemHeader
<1>7. ~ EntersAtStart BY <1>3, <1>4, <1>5 DEF EntersAtStart
<1>8. ~ LineInSystemHeader
  <2>1. SUFFICES ASSUME fileKind # "user", NEW k \in 1 .. n, ~ directives[k].marker
                 PROVE  \E e \in 1 .. k - 1 : ~ Leaves(directives[e]) /\ directives[e].flags \in WellFormed
    BY <1>3 DEF LineInSystemHeader
  <2>2. k \in 1 .. n + 1 /\ directives'[k] = directives[k] BY <1>3, <1>4
  <2>3. PICK e \in 1 .. k - 1 : ~ Leaves(directives'[e]) /\ directives'[e].flags \in WellFormed
    BY <1>6, <2>1, <2>2
  <2>4. e \in 1 .. n BY <1>2
  <2> QED BY <1>3, <2>3, <2>4
<1>9. ~ (Enters(d) /\ d.offset = 1) BY <1>3, <1>4, <1>5
<1>10. ASSUME fileKind # "user", ~ d.marker
       PROVE  \E e \in DOMAIN directives : ~ Leaves(directives[e]) /\ directives[e].flags \in WellFormed
  <2>1. PICK e \in 1 .. n + 1 - 1 : ~ Leaves(directives'[e]) /\ directives'[e].flags \in WellFormed
    BY <1>3, <1>4, <1>6, <1>10
  <2>2. e \in 1 .. n BY <1>2
  <2> QED BY <1>3, <2>1, <2>2
<1> QED BY <1>7, <1>8, <1>9, <1>10 DEF Regular

(* A directive of which no note is taken: the reader ignores it as well.   *)
LEMMA DirectiveSkipped ==
  ASSUME TypeOK, NotesOK, NEW o \in Nat, DirectiveAt(o), NEW d \in Directive, Met(d), entries' = entries,
         \/ d.flags \notin WellFormed
         \/ Leaves(d) /\ (Regular => Last(readers).stack = <<>>)
  PROVE  NotesOK'
<1>1. /\ text' = text /\ fileKind' = fileKind /\ climb' = climb /\ Idle /\ answer' = NoAnswer
      /\ lexed \in Nat /\ lexed' \in Nat /\ lexed < lexed'
  BY DirectiveAtOK DEF TypeOK
<1>2. InOrder'
  <2>1. ASSUME NEW k \in DOMAIN entries PROVE entries[k].offset < lexed'
    <3>1. entries[k] \in Note /\ entries[k].offset < lexed BY DEF TypeOK, NotesOK, InOrder
    <3>2. PICK e \in Nat : e = entries[k].offset BY <3>1 DEF Note
    <3> QED BY <1>1, <3>1, <3>2
  <2> QED BY <2>1 DEF NotesOK, InOrder
<1>3. NothingNoted'
  <2>1. directives \in Seq(Directive) /\ directives' = Append(directives, d) BY DEF TypeOK, Met
  <2>2. ASSUME entries = <<>>, NEW k \in DOMAIN directives'
        PROVE  Leaves(directives'[k]) \/ directives'[k].flags \notin WellFormed
    <3>1. CASE k \in DOMAIN directives
      <4>1. directives'[k] = directives[k] BY <2>1, <3>1
      <4> QED BY <2>2, <3>1, <4>1 DEF NotesOK, NothingNoted
    <3>2. CASE k \notin DOMAIN directives
      <4>1. directives'[k] = d BY <2>1, <2>2, <3>2
      <4> QED BY <4>1
    <3> QED BY <3>1, <3>2
  <2> QED BY <2>2 DEF NothingNoted
<1>4. ASSUME Regular' PROVE Agreement' /\ StacksOK' /\ ClimbOK'
  <2>1. Regular BY <1>1, <1>4, RegularBefore DEF Met
  <2>2. Ignored(Last(readers), d) BY <2>1 DEF Ignored
  <2>3. readers' = readers BY <2>2 DEF Met
  <2>4. Agreement /\ StacksOK BY <2>1 DEF NotesOK
  <2>8. \A a : PhysicalLine(a)' = PhysicalLine(a) BY <1>1 DEF PhysicalLine, StartsOf, ComputeLineNumbers
  <2>9. \A e, r : Agrees(e, r)' <=> Agrees(e, r) BY <2>8 DEF Agrees
  <2>5. Agreement' BY <1>1, <2>3, <2>4, <2>9 DEF Agreement, Reader
  <2>6. StacksOK' BY <2>3, <2>4 DEF StacksOK, StackOK, ReaderAt
  <2>7. ClimbOK' BY <1>1 DEF ClimbOK, Idle
  <2> QED BY <2>5, <2>6, <2>7
<1>5. PresumedIsRight' BY <1>1 DEF PresumedIsRight
<1> QED BY <1>2, <1>3, <1>4, <1>5 DEF NotesOK

(* The new reader's stack was there before him.                            *)
LEMMA ReadStack ==
  ASSUME TypeOK, InOrder, Agreement, StacksOK, NEW d \in Directive, d.offset = lexed, lexed >= 1,
         ~ (Enters(d) /\ d.offset = 1), ~ Ignored(Last(readers), d), NEW r, r = Read(Last(readers), d)
  PROVE  StackOK(r)
<1>1. PICK s \in ReaderState : /\ s = Last(readers) /\ s = readers[Len(readers)]
                               /\ Len(readers) \in DOMAIN readers
  BY LastReader
<1>2. PICK S \in Seq(Nat) : S = s.stack BY DEF ReaderState
<1>3. PICK o \in Nat : o = lexed /\ o >= 1 BY DEF TypeOK
<1>4. r.offset = o BY <1>3 DEF Read
<1>5. s.offset \in Nat /\ (s.offset < o \/ s.offset = 0) BY <1>1, <1>3, ReaderOffsets
<1>12. StackOK(s) BY <1>1 DEF StacksOK
<1>13. \A i \in 1 .. Len(S) : S[i] \in Nat BY <1>2
<1>6. \A i \in 1 .. Len(S) : /\ 1 <= S[i] /\ S[i] < s.offset /\ S[i] \in Nat
                             /\ ReaderAt(S[i]).stack = SubSeq(S, 1, i - 1)
  BY <1>2, <1>12, <1>13 DEF StackOK
<1>7. \A i \in 1 .. Len(S) : S[i] < o
  <2>1. ASSUME NEW i \in 1 .. Len(S) PROVE S[i] < o
    <3>1. PICK a \in Nat : a = S[i] /\ 1 <= a /\ a < s.offset BY <1>6
    <3> QED BY <1>3, <1>5, <3>1
  <2> QED BY <2>1
<1>8. PICK L \in Nat : L = Len(S) BY <1>2
<1>9. CASE Enters(d)
  <2>1. PICK T : T = r.stack OBVIOUS
  <2>6. r.stack = Append(s.stack, d.offset - 1) BY <1>1, <1>9 DEF Read
  <2>7. o - 1 \in Nat /\ d.offset - 1 = o - 1 BY <1>3
  <2>2. T = Append(S, o - 1) /\ o - 1 \in Nat BY <1>2, <2>1, <2>6, <2>7
  <2>3. /\ T \in Seq(Nat) /\ Len(T) = L + 1 /\ T[L + 1] = o - 1
        /\ \A i \in 1 .. L : T[i] = S[i]
    BY <1>8, <2>2
  <2>4. ASSUME NEW k \in 0 .. L PROVE SubSeq(T, 1, k) = SubSeq(S, 1, k)
    <3>1. 1 \in 1 .. Len(S) + 1 /\ k \in 1 - 1 .. Len(S) /\ k <= Len(T) BY <1>8, <2>3
    <3>2. \A i \in 1 .. k : S[i] = T[i] BY <2>3
    <3> QED BY <2>3, <3>1, <3>2, SameWindow
  <2>5. ASSUME NEW i \in 1 .. Len(T)
        PROVE  1 <= T[i] /\ T[i] < r.offset /\ ReaderAt(T[i]).stack = SubSeq(T, 1, i - 1)
    <3>1. CASE i = L + 1
      <4>1. d.offset = o BY <1>3
      <4>2. o # 1 BY <1>9, <4>1
      <4>3. 1 <= o - 1 /\ o - 1 < o /\ o - 1 >= lexed - 1 BY <1>3, <4>2
      <4>4. ReaderAt(o - 1) = s BY <1>1, <1>3, <2>2, <4>3, ReaderAtEnd
      <4>5. L \in 0 .. L /\ i - 1 = L BY <3>1
      <4>6. SubSeq(S, 1, L) = S BY <1>8, SubSeqFull
      <4>7. SubSeq(T, 1, i - 1) = S BY <2>4, <4>5, <4>6
      <4> QED BY <1>2, <1>4, <2>3, <3>1, <4>3, <4>4, <4>7
    <3>2. CASE i # L + 1
      <4>1. i \in 1 .. L /\ i - 1 \in 0 .. L BY <2>3, <3>2
      <4>2. SubSeq(T, 1, i - 1) = SubSeq(S, 1, i - 1) BY <2>4, <4>1
      <4> QED BY <1>4, <1>6, <1>7, <1>8, <2>3, <4>1, <4>2
    <3> QED BY <3>1, <3>2
  <2> QED BY <2>1, <2>5 DEF StackOK
<1>10. CASE ~ Enters(d) /\ Leaves(d)
  <2>1. PICK T : T = r.stack OBVIOUS
  <2>2. S # <<>> BY <1>1, <1>2, <1>10 DEF Ignored
  <2>3. T = Front(S) BY <1>1, <1>2, <1>10, <2>1 DEF Read
  <2>6. /\ Len(S) \in Nat \ {0} /\ Front(S) \in Seq(Nat) /\ Len(Front(S)) = Len(S) - 1
        /\ \A i \in 1 .. Len(S) - 1 : Front(S)[i] = S[i]
    BY <2>2, FrontLast
  <2>4. L >= 1 /\ Len(T) = L - 1 /\ T \in Seq(Nat) /\ \A i \in 1 .. L - 1 : T[i] = S[i]
    BY <1>8, <2>3, <2>6
  <2>5. ASSUME NEW i \in 1 .. Len(T)
        PROVE  1 <= T[i] /\ T[i] < r.offset /\ ReaderAt(T[i]).stack = SubSeq(T, 1, i - 1)
    <3>1. i \in 1 .. L - 1 /\ i \in 1 .. Len(S) BY <1>8, <2>4
    <3>2. 1 \in 1 .. Len(S) + 1 /\ i - 1 \in 1 - 1 .. Len(S) /\ i - 1 <= Len(T) BY <1>8, <2>4, <3>1
    <3>3. \A j \in 1 .. i - 1 : S[j] = T[j] BY <2>4, <3>1
    <3>4. SubSeq(S, 1, i - 1) = SubSeq(T, 1, i - 1) BY <2>4, <3>2, <3>3, SameWindow
    <3> QED BY <1>4, <1>6, <1>7, <2>4, <3>1, <3>4
  <2> QED BY <2>1, <2>5 DEF StackOK
<1>11. CASE ~ Enters(d) /\ ~ Leaves(d)
  <2>1. r.stack = S BY <1>1, <1>2, <1>11 DEF Read
  <2> QED BY <1>4, <1>6, <1>7, <2>1 DEF StackOK
<1> QED BY <1>9, <1>10, <1>11


(* A directive of which a note is taken: the reader reads it as well.      *)
LEMMA DirectiveNoted ==
  ASSUME TypeOK, NotesOK, NEW o \in Nat, DirectiveAt(o), NEW d \in Directive, d.offset = o, Met(d),
         NEW e \in Note, e.offset = o, entries' = Append(entries, e),
         Regular' => ~ Ignored(Last(readers), d) /\ Agrees(e, Read(Last(readers), d))
  PROVE  NotesOK'
<1>1. /\ text' = text /\ fileKind' = fileKind /\ climb' = climb /\ Idle /\ answer' = NoAnswer
      /\ o = lexed /\ o >= 1 /\ lexed \in Nat /\ lexed' \in Nat /\ lexed < lexed'
  BY DirectiveAtOK DEF TypeOK
<1>2. entries \in Seq(Note) BY DEF TypeOK
<1>3. PICK n \in Nat : n = Len(entries) BY <1>2
<1>4. /\ DOMAIN entries = 1 .. n /\ DOMAIN entries' = 1 .. n + 1 /\ Len(entries') = n + 1
      /\ entries'[n + 1] = e /\ \A k \in 1 .. n : entries'[k] = entries[k]
  BY <1>2, <1>3
<1>5. InOrder'
  <2>1. ASSUME NEW k \in 1 .. n
        PROVE  entries[k].offset \in Nat /\ 1 <= entries[k].offset /\ entries[k].offset < o
    <3>1. entries[k] \in Note BY <1>2, <1>4
    <3>2. 1 <= entries[k].offset /\ entries[k].offset < lexed BY <1>4 DEF NotesOK, InOrder
    <3> QED BY <1>1, <3>1, <3>2 DEF Note
  <2>2. ASSUME NEW k \in 1 .. n + 1 PROVE 1 <= entries'[k].offset /\ entries'[k].offset < lexed'
    <3>1. CASE k = n + 1 BY <1>1, <1>4, <3>1
    <3>2. CASE k # n + 1
      <4>1. k \in 1 .. n BY <3>2
      <4>2. PICK a \in Nat : a = entries[k].offset /\ 1 <= a /\ a < o BY <2>1, <4>1
      <4>3. a < lexed' BY <1>1, <4>2
      <4> QED BY <1>4, <4>1, <4>2, <4>3
    <3> QED BY <3>1, <3>2
  <2>3. ASSUME NEW j \in 1 .. n + 1, NEW k \in 1 .. n + 1, j < k
        PROVE  entries'[j].offset < entries'[k].offset
    <3>1. j \in 1 .. n BY <2>3
    <3>2. CASE k = n + 1 BY <1>4, <2>1, <3>1, <3>2
    <3>3. CASE k # n + 1
      <4>1. k \in 1 .. n BY <3>3
      <4>2. entries[j].offset < entries[k].offset BY <1>4, <2>3, <3>1, <4>1 DEF NotesOK, InOrder
      <4> QED BY <1>4, <3>1, <4>1, <4>2
    <3> QED BY <3>2, <3>3
  <2> QED BY <1>4, <2>2, <2>3 DEF InOrder
<1>6. NothingNoted'
  <2>1. entries' # <<>> BY <1>2
  <2> QED BY <2>1 DEF NothingNoted
<1>7. ASSUME Regular' PROVE Agreement' /\ StacksOK' /\ ClimbOK'
  <2>1. Regular /\ ~ (Enters(d) /\ d.offset = 1) BY <1>1, <1>7, RegularBefore DEF Met
  <2>2. InOrder /\ Agreement /\ StacksOK BY <2>1 DEF NotesOK
  <2>3. PICK r : r = Read(Last(readers), d) OBVIOUS
  <2>4. ~ Ignored(Last(readers), d) /\ Agrees(e, r) BY <1>7, <2>3
  <2>5. readers' = Append(readers, r) BY <2>3, <2>4 DEF Met
  <2>6. r.offset = o BY <2>3 DEF Read
  <2>7. /\ DOMAIN readers = 1 .. n + 1 /\ DOMAIN readers' = 1 .. n + 2 /\ Len(readers') = n + 2
        /\ readers'[n + 2] = r /\ \A k \in 1 .. n + 1 : readers'[k] = readers[k]
        /\ \A k \in 1 .. n + 1 : readers[k] \in ReaderState
    <3>1. readers \in Seq(ReaderState) /\ Len(readers) = n + 1 BY <1>3, <2>2 DEF TypeOK, Agreement
    <3> QED BY <2>5, <3>1
  <2>8. Agreement'
    <3>1. \A a : PhysicalLine(a)' = PhysicalLine(a) BY <1>1 DEF PhysicalLine, StartsOf, ComputeLineNumbers
    <3>2. \A x, y : Agrees(x, y)' <=> Agrees(x, y) BY <3>1 DEF Agrees
    <3>3. readers'[1] = Reader'
      <4>1. 1 \in 1 .. n + 1 /\ readers[1] = Reader BY <2>2 DEF Agreement
      <4> QED BY <1>1, <2>7, <4>1 DEF Reader
    <3>4. ASSUME NEW k \in 1 .. n + 1 PROVE Agrees(entries'[k], readers'[k + 1])
      <4>1. CASE k = n + 1
        <5>1. k + 1 = n + 2 BY <4>1
        <5> QED BY <1>4, <2>4, <2>7, <4>1, <5>1
      <4>2. CASE k # n + 1
        <5>1. k \in 1 .. n /\ k + 1 \in 1 .. n + 1 BY <4>2
        <5>2. Agrees(entries[k], readers[k + 1]) BY <1>4, <2>2, <5>1 DEF Agreement
        <5> QED BY <1>4, <2>7, <5>1, <5>2
      <4> QED BY <4>1, <4>2
    <3>5. \A k \in DOMAIN entries' : Agrees(entries[k], readers[k + 1])' BY <1>4, <3>2, <3>4, Zenon
    <3>6. Len(readers') = Len(entries') + 1 BY <1>4, <2>7
    <3> QED BY <3>3, <3>5, <3>6 DEF Agreement
  <2>9. StacksOK'
    <3>1. StackOK(r) BY <1>1, <2>1, <2>2, <2>3, <2>4, ReadStack
    <3>2. ASSUME NEW q \in ReaderState, StackOK(q), q.offset <= o PROVE StackOK(q)'
      <4>1. PICK S \in Seq(Nat) : S = q.stack BY DEF ReaderState
      <4>2. ASSUME NEW i \in 1 .. Len(S)
            PROVE  1 <= S[i] /\ S[i] < q.offset /\ ReaderAt(S[i])' = ReaderAt(S[i])
                   /\ ReaderAt(S[i]).stack = SubSeq(S, 1, i - 1)
        <5>1. 1 <= S[i] /\ S[i] < q.offset /\ ReaderAt(S[i]).stack = SubSeq(S, 1, i - 1)
          BY <3>2, <4>1 DEF StackOK
        <5>2. S[i] \in Nat /\ q.offset \in Nat BY DEF ReaderState
        <5>3. PICK a \in Nat : a = S[i] BY <5>2
        <5>4. a < r.offset /\ r.offset \in Nat BY <2>6, <3>2, <5>1, <5>2, <5>3
        <5>5. ReaderAt(a)' = ReaderAt(a) BY <2>2, <2>5, <5>4, ReaderAtKept
        <5> QED BY <5>1, <5>3, <5>5
      <4> QED BY <4>1, <4>2 DEF StackOK
    <3>3. ASSUME NEW k \in 1 .. n + 2 PROVE StackOK(readers[k])'
      <4>1. CASE k = n + 2
        <5>1. readers' \in Seq(ReaderState)
          <6>1. d.offset >= 1 BY <1>1
          <6> QED BY <6>1, MetType
        <5>2. r \in ReaderState BY <2>7, <4>1, <5>1
        <5>3. r.offset <= o BY <2>6
        <5> QED BY <2>7, <3>1, <3>2, <4>1, <5>2, <5>3
      <4>2. CASE k # n + 2
        <5>1. k \in 1 .. n + 1 BY <4>2
        <5>2. readers[k] \in ReaderState /\ StackOK(readers[k]) BY <2>2, <2>7, <5>1 DEF StacksOK
        <5>3. readers[k].offset \in Nat /\ (readers[k].offset < lexed \/ k = 1) /\ readers[1].offset = 0
          BY <2>2, <2>7, <5>1, ReaderOffsets
        <5>4. readers[k].offset <= o BY <1>1, <5>3
        <5> QED BY <2>7, <3>2, <5>1, <5>2, <5>4
      <4> QED BY <4>1, <4>2
    <3> QED BY <2>7, <3>3 DEF StacksOK
  <2>10. ClimbOK' BY <1>1 DEF ClimbOK, Idle
  <2> QED BY <2>8, <2>9, <2>10
<1>8. PresumedIsRight' BY <1>1 DEF PresumedIsRight
<1> QED BY <1>5, <1>6, <1>7, <1>8 DEF NotesOK


-----------------------------------------------------------------------------
(***************************************************************************)
(* Each action keeps the invariant: first the questions.                   *)
(***************************************************************************)
LEMMA QuietNotes ==
  ASSUME TypeOK, NotesOK, Quiet, Regular => ClimbOK', PresumedIsRight'
  PROVE  NotesOK'
<1>1. InOrder' /\ NothingNoted' BY QuietKeeps DEF NotesOK
<1>2. Regular' => Agreement' /\ StacksOK' /\ ClimbOK' BY QuietKeeps DEF NotesOK
<1> QED BY <1>1, <1>2 DEF NotesOK

(* The hint may be kept, or forgotten.                                     *)
LEMMA HintKept ==
  ASSUME HintOK, UNCHANGED <<text, lineStarts>>, hint' \in {hint, NoHint}
  PROVE  HintOK'
<1>1. ComputeLineNumbers(text)' = ComputeLineNumbers(text) BY DEF ComputeLineNumbers
<1>2. RightHint(ComputeLineNumbers(text), hint') BY DEF HintOK, RightHint, NoHint
<1>3. \A s, h : RightHint(s, h)' <=> RightHint(s, h) BY DEF RightHint, InLine
<1> QED BY <1>1, <1>2, <1>3 DEF HintOK

(* Lexing on answers nothing.                                              *)
LEMMA LexKeeps ==
  ASSUME IInv, Lex
  PROVE  IInv'
<1>1. TypeOK /\ HintOK /\ NotesOK BY DEF IInv
<1>2. /\ UNCHANGED <<text, fileKind, lineStarts, hint, entries, climb, directives, readers>>
      /\ lexed' = lexed + 1 /\ lexed < Len(text) /\ asked' = 0 /\ answer' = NoAnswer /\ Idle
  BY DEF Lex, NoQuestion, history
<1>3. lexed' \in 0 .. Len(text) /\ lexed' \in lexed .. Len(text) BY <1>1, <1>2 DEF TypeOK
<1>4. TypeOK' BY <1>1, <1>2, <1>3 DEF TypeOK
<1>5. HintOK' BY <1>1, <1>2, HintKept
<1>6. Quiet BY <1>2, <1>3 DEF Quiet
<1>7. ClimbOK' BY <1>2 DEF ClimbOK, Idle
<1>8. PresumedIsRight' BY <1>2 DEF PresumedIsRight
<1>9. NotesOK' BY <1>1, <1>6, <1>7, <1>8, QuietNotes
<1> QED BY <1>4, <1>5, <1>9 DEF IInv

LEMMA GetOtherPresumedLocKeeps ==
  ASSUME IInv, GetOtherPresumedLoc
  PROVE  IInv'
<1>1. TypeOK /\ HintOK /\ NotesOK BY DEF IInv
<1>2. /\ UNCHANGED <<text, fileKind, lexed, lineStarts, entries, climb, directives, readers>>
      /\ hint' = NoHint /\ asked' = 0 /\ answer' = NoAnswer /\ Idle
  BY DEF GetOtherPresumedLoc, NoQuestion, file, history
<1>3. lexed' \in lexed .. Len(text) BY <1>1, <1>2 DEF TypeOK
<1>4. TypeOK' BY <1>1, <1>2 DEF TypeOK
<1>5. HintOK' BY <1>1, <1>2, HintKept
<1>6. Quiet BY <1>2, <1>3 DEF Quiet
<1>7. ClimbOK' BY <1>2 DEF ClimbOK, Idle
<1>8. PresumedIsRight' BY <1>2 DEF PresumedIsRight
<1>9. NotesOK' BY <1>1, <1>6, <1>7, <1>8, QuietNotes
<1> QED BY <1>4, <1>5, <1>9 DEF IInv

(* A question about a location of the file.                                *)
LEMMA GetPresumedLocKeeps ==
  ASSUME IInv, NEW o \in Nat, GetPresumedLoc(o)
  PROVE  IInv'
<1>1. TypeOK /\ HintOK /\ NotesOK BY DEF IInv
<1>2. /\ UNCHANGED <<text, fileKind, lexed, entries, climb, directives, readers>>
      /\ asked' = o /\ answer' = PresumedLoc(o) /\ LookUp(o) /\ Idle /\ IsLocation(o)
  BY DEF GetPresumedLoc, file, history
<1>3. lexed' \in lexed .. Len(text) BY <1>1, <1>2 DEF TypeOK
<1>4. TypeOK' BY <1>1, <1>2 DEF TypeOK
<1>5. HintOK' BY <1>1, <1>2, LookUpKeepsHint
<1>6. Quiet BY <1>2, <1>3 DEF Quiet
<1>7. ClimbOK' BY <1>2 DEF ClimbOK, Idle
<1>8. PresumedIsRight'
  <2>1. SUFFICES ASSUME Regular' PROVE answer' = Reference(asked)' /\ ~ IsMacro'
    BY DEF PresumedIsRight, Regular
  <2>2. InOrder /\ Agreement BY <1>1, <1>6, <2>1, QuietKeeps DEF NotesOK
  <2>3. answer' = Reference(o) BY <1>1, <1>2, <2>2, PresumedIsReference
  <2>4. Reference(o)' = Reference(o) BY <1>1, <1>6, QuietKeeps DEF NotesOK
  <2>5. answer' = [line |-> Reference(o).line, column |-> ColumnNumber(o),
                   name |-> ReaderAt(o).name, include |-> Top(ReaderAt(o).stack),
                   kind |-> ReaderAt(o).kind]
    BY <1>1, <1>2, <2>2, PresumedAgrees
  <2>6. "macro" \notin DOMAIN answer' BY <2>5
  <2>7. answer' = Reference(asked)' BY <1>2, <2>3, <2>4
  <2> QED BY <2>6, <2>7 DEF IsMacro
<1>9. NotesOK' BY <1>1, <1>6, <1>7, <1>8, QuietNotes
<1> QED BY <1>4, <1>5, <1>9 DEF IInv

(* A macro looks up the location p, which it has reached from o.           *)
LEMMA ReachKeeps ==
  ASSUME IInv, NEW o \in Nat, asked' = o, NEW p \in Nat, NEW depth \in Nat, NEW macro,
         Regular => macro \in Builtins /\ On(o, p, depth, macro), Reach(p, macro, depth), LookUp(p),
         UNCHANGED <<text, fileKind, lexed, entries, directives, readers>>
  PROVE  IInv'
<1>1. TypeOK /\ HintOK /\ NotesOK BY DEF IInv
<1>2. lexed' \in lexed .. Len(text) BY <1>1 DEF TypeOK
<1>3. climb' \in [macro : Climbers \cup {"none"}, at : Nat, depth : Nat] BY <1>1, ReachType
<1>4. TypeOK' BY <1>1, <1>3 DEF TypeOK
<1>5. HintOK' BY <1>1, LookUpKeepsHint
<1>6. Quiet BY <1>2 DEF Quiet
<1>7. ASSUME Regular
      PROVE  \/ climb' = NoClimb /\ answer' = MacroReference(o, macro) /\ macro \in Builtins
             \/ /\ answer' = NoAnswer /\ climb'.macro = macro
                /\ climb'.at \in Nat /\ climb'.depth \in Nat \ {0}
                /\ On(o, climb'.at, climb'.depth, macro)
  <2>1. InOrder /\ Agreement /\ StacksOK BY <1>1, <1>7 DEF NotesOK
  <2>2. macro \in Builtins /\ On(o, p, depth, macro) BY <1>7
  <2> QED BY <1>1, <2>1, <2>2, ReachIs
<1>8. ReaderAt(o)' = ReaderAt(o) /\ \A m \in Builtins : MacroReference(o, m)' = MacroReference(o, m)
  BY <1>1, <1>6, QuietKeeps DEF NotesOK
<1>9. ASSUME Regular PROVE ClimbOK'
  <2>1. SUFFICES ASSUME ~ Idle' PROVE ClimbOK' BY DEF ClimbOK
  <2>2. climb' # NoClimb BY <2>1 DEF Idle
  <2>3. /\ climb'.macro = macro /\ climb'.depth \in Nat \ {0}
        /\ On(o, climb'.at, climb'.depth, macro)
    BY <1>7, <1>9, <2>2
  <2>4. /\ macro \in Climbers /\ climb'.depth \in 1 .. Len(ReaderAt(o).stack)
        /\ climb'.at = ReaderAt(o).stack[Len(ReaderAt(o).stack) - climb'.depth + 1]
    BY <2>3 DEF On
  <2>5. ReaderAt(asked)' = ReaderAt(o) BY <1>8
  <2> QED BY <2>3, <2>4, <2>5 DEF ClimbOK
<1>10. PresumedIsRight'
  <2>1. SUFFICES ASSUME Regular', answer' # NoAnswer
                 PROVE  IsMacro' /\ answer' = MacroReference(asked, answer.macro)'
    BY DEF PresumedIsRight, Regular
  <2>2. Regular BY <1>1, <1>6, <2>1, QuietKeeps DEF NotesOK
  <2>3. answer' = MacroReference(o, macro) /\ macro \in Builtins BY <1>7, <2>1, <2>2
  <2>4. "macro" \in DOMAIN answer' /\ answer'.macro = macro BY <2>3 DEF MacroReference
  <2>5. MacroReference(o, macro)' = MacroReference(o, macro) BY <1>8, <2>3
  <2> QED BY <2>3, <2>4, <2>5 DEF IsMacro
<1>11. NotesOK' BY <1>1, <1>6, <1>9, <1>10, QuietNotes
<1> QED BY <1>4, <1>5, <1>11 DEF IInv

LEMMA ExpandBuiltinMacroKeeps ==
  ASSUME IInv, NEW o, NEW macro \in Builtins, ExpandBuiltinMacro(o, macro)
  PROVE  IInv'
<1>1. /\ UNCHANGED <<text, fileKind, lexed, entries, directives, readers>>
      /\ asked' = o /\ Reach(o, macro, 0) /\ LookUp(o)
  BY DEF ExpandBuiltinMacro, file, history
<1>2. o \in Nat BY DEF ExpandBuiltinMacro, IsLocation, IInv, TypeOK
<1>3. On(o, o, 0, macro) BY DEF On
<1> QED BY <1>1, <1>2, <1>3, ReachKeeps

LEMMA ClimbToIncludeKeeps ==
  ASSUME IInv, ClimbToInclude
  PROVE  IInv'
<1>1. /\ UNCHANGED <<text, fileKind, lexed, entries, asked, directives, readers>>
      /\ Reach(climb.at, climb.macro, climb.depth) /\ LookUp(climb.at) /\ ~ Idle
  BY DEF ClimbToInclude, file, history
<1>2. climb.at \in Nat /\ climb.depth \in Nat /\ asked \in Nat BY DEF IInv, TypeOK
<1>3. ASSUME Regular PROVE climb.macro \in Builtins /\ On(asked, climb.at, climb.depth, climb.macro)
  <2>1. ClimbOK BY <1>3 DEF IInv, NotesOK
  <2> QED BY <1>1, <2>1 DEF ClimbOK, On, Climbers, Builtins
<1> QED BY <1>1, <1>2, <1>3, ReachKeeps


-----------------------------------------------------------------------------
(***************************************************************************)
(* The directives.                                                         *)
(***************************************************************************)
LEMMA DirectiveTypes ==
  ASSUME TypeOK, NEW o \in Nat, DirectiveAt(o), NEW d \in Directive, d.offset = o, Met(d),
         entries' \in Seq(Note)
  PROVE  TypeOK'
<1>1. /\ text' = text /\ fileKind' = fileKind /\ climb' = climb /\ asked' = 0
      /\ o \in 1 .. Len(text) /\ lexed' \in o + 1 .. Len(text)
  BY DirectiveAtOK
<1>2. Len(text) \in Nat BY DEF TypeOK
<1>3. d.offset >= 1 BY <1>1
<1>4. directives' \in Seq(Directive) /\ readers' \in Seq(ReaderState) /\ readers' # <<>> BY <1>3, MetType
<1>5. lexed' \in 0 .. Len(text) BY <1>1, <1>2
<1> QED BY <1>1, <1>4, <1>5 DEF TypeOK

(* The last entry and the last reader.                                     *)
LEMMA LastAgrees ==
  ASSUME TypeOK, Agreement
  PROVE  /\ entries = <<>> => Last(readers) = Reader
         /\ entries # <<>> => Last(entries) \in Note /\ Agrees(Last(entries), Last(readers))
<1>1. entries \in Seq(Note) BY DEF TypeOK
<1>2. Last(readers) = readers[Len(readers)] BY LastReader
<1>3. CASE entries = <<>>
  <2>1. Len(entries) = 0 BY <1>3
  <2>2. Len(readers) = 1 BY <2>1 DEF Agreement
  <2> QED BY <1>2, <1>3, <2>2 DEF Agreement
<1>4. CASE entries # <<>>
  <2>1. Last(entries) \in Note /\ Last(entries) = entries[Len(entries)] /\ Len(entries) \in DOMAIN entries
    BY <1>1, <1>4, LastNote
  <2>2. Agrees(entries[Len(entries)], readers[Len(entries) + 1]) BY <2>1 DEF Agreement
  <2>3. Len(readers) = Len(entries) + 1 BY DEF Agreement
  <2> QED BY <1>2, <1>4, <2>1, <2>2, <2>3
<1> QED BY <1>3, <1>4

(* A #line takes over what it does not give from the note before it.       *)
LEMMA HandleLineDirectiveKeeps ==
  ASSUME IInv, NEW line \in LineNos, NEW name \in MaybeNames, HandleLineDirective(lexed, line, name)
  PROVE  IInv'
<1>1. TypeOK /\ HintOK /\ NotesOK BY DEF IInv
<1>2. PICK o \in Nat : o = lexed BY <1>1 DEF TypeOK
<1>3. PICK e : e = LineNote(o, line, name) OBVIOUS
<1>4. PICK d : d = [offset |-> o, line |-> line, name |-> name, marker |-> FALSE, flags |-> <<>>]
  OBVIOUS
<1>5. /\ DirectiveAt(o) /\ entries' = Append(entries, e) /\ Met(d)
      /\ lineStarts' = lineStarts /\ hint' = hint
  BY <1>2, <1>3, <1>4 DEF HandleLineDirective
<1>6. e \in Note /\ e.offset = o BY <1>1, <1>3, LineNoteType DEF LineNote
<1>7. d \in Directive /\ d.offset = o
  <2>1. line \in Nat BY LinesAssumption
  <2>2. <<>> \in Seq(Nat) OBVIOUS
  <2> QED BY <1>4, <2>1, <2>2 DEF Directive
<1>8. entries' \in Seq(Note) BY <1>1, <1>5, <1>6 DEF TypeOK
<1>9. TypeOK' BY <1>1, <1>5, <1>7, <1>8, DirectiveTypes
<1>10. text' = text /\ fileKind' = fileKind BY <1>1, <1>5, DirectiveAtOK
<1>11. HintOK' BY <1>1, <1>5, <1>10, HintKept
<1>12. ~ Contains(d.flags, 1) /\ ~ Contains(d.flags, 2) /\ d.flags \in WellFormed /\ ~ d.marker
  BY <1>4 DEF WellFormed, Contains
<1>13. ASSUME Regular' PROVE ~ Ignored(Last(readers), d) /\ Agrees(e, Read(Last(readers), d))
  <2>1. /\ Regular
        /\ \/ fileKind = "user" \/ d.marker
           \/ \E k \in DOMAIN directives : ~ Leaves(directives[k]) /\ directives[k].flags \in WellFormed
    BY <1>1, <1>5, <1>7, <1>10, <1>13, RegularBefore DEF Met
  <2>2. Agreement /\ NothingNoted BY <1>1, <2>1 DEF NotesOK
  <2>3. PICK s : s = Last(readers) OBVIOUS
  <2>4. ~ Ignored(s, d) BY <1>12 DEF Ignored, Leaves
  <2>5. PICK r : r = Read(s, d) OBVIOUS
  <2>6. /\ r.offset = o /\ r.base = line /\ r.mark = PhysicalLine(o)
        /\ r.name = (IF name = None THEN s.name ELSE name)
        /\ r.stack = s.stack /\ r.kind = s.kind
    BY <1>4, <1>12, <2>5 DEF Read, Enters, Leaves
  <2>7. e.line = line /\ PhysicalLine(e.offset) = PhysicalLine(o) BY <1>3 DEF LineNote
  <2>8. e.name = r.name /\ e.kind = r.kind /\ e.include = Top(r.stack)
    <3>1. CASE entries = <<>>
      <4>1. s.name = None /\ s.stack = <<>> /\ s.kind = fileKind
        BY <1>1, <2>2, <2>3, <3>1, LastAgrees DEF Reader
      <4>2. fileKind = "user" BY <1>12, <2>1, <2>2, <3>1 DEF NothingNoted
      <4>3. e.name = name /\ e.kind = "user" /\ e.include = 0 BY <1>3, <3>1 DEF LineNote
      <4> QED BY <2>6, <4>1, <4>2, <4>3 DEF Top
    <3>2. CASE entries # <<>>
      <4>1. PICK l : l = Last(entries) OBVIOUS
      <4>2. l.name = s.name /\ l.kind = s.kind /\ l.include = Top(s.stack)
        BY <1>1, <2>2, <2>3, <3>2, <4>1, LastAgrees DEF Agrees
      <4>3. /\ e.name = (IF name = None THEN l.name ELSE name) /\ e.kind = l.kind
            /\ e.include = l.include
        BY <1>3, <3>2, <4>1 DEF LineNote
      <4> QED BY <2>6, <4>2, <4>3
    <3> QED BY <3>1, <3>2
  <2>9. Agrees(e, r) BY <1>6, <2>6, <2>7, <2>8 DEF Agrees
  <2> QED BY <2>3, <2>4, <2>5, <2>9
<1>14. NotesOK' BY <1>1, <1>5, <1>6, <1>7, <1>13, DirectiveNoted
<1> QED BY <1>9, <1>11, <1>14 DEF IInv

(* A marker, when its flags are well-formed and it leaves a file only if   *)
(* the reader is in one: the include offset is the only thing to be shown. *)
LEMMA MarkerNoted ==
  ASSUME TypeOK, NotesOK, NEW o \in Nat, DirectiveAt(o), NEW line \in LineNos, NEW name \in Names,
         NEW flags \in WellFormed, NEW f, f = ReadLineMarkerFlags(flags),
         MetMarker(o, line, name, flags),
         NEW e, e = MarkerNote(o, line, name, f.op, f.kind), e \in Note, entries' = Append(entries, e),
         ASSUME Regular
         PROVE  /\ f.op = "exit" => Last(readers).stack # <<>>
                /\ f.op = "enter" => e.include = o - 1
                /\ f.op = "exit" => e.include = Top(Front(Last(readers).stack))
                /\ f.op = "none" => e.include = Top(Last(readers).stack)
  PROVE  NotesOK'
<1>1. PICK d : d = [offset |-> o, line |-> line, name |-> name, marker |-> TRUE, flags |-> flags]
  OBVIOUS
<1>2. Met(d) BY <1>1 DEF MetMarker
<1>3. flags \in Seq(Nat)
  <2>1. \A x, y, z \in Nat : <<>> \in Seq(Nat) /\ <<x>> \in Seq(Nat) /\ <<x, y>> \in Seq(Nat)
                              /\ <<x, y, z>> \in Seq(Nat)
    OBVIOUS
  <2>2. 1 \in Nat /\ 2 \in Nat /\ 3 \in Nat /\ 4 \in Nat OBVIOUS
  <2> QED BY <2>1, <2>2, Zenon DEF WellFormed
<1>4. d \in Directive /\ d.offset = o
  <2>1. line \in Nat BY LinesAssumption
  <2> QED BY <1>1, <1>3, <2>1 DEF Directive, MaybeNames
<1>5. /\ (f.op = "enter" <=> Contains(flags, 1)) /\ (f.op = "exit" <=> Contains(flags, 2))
      /\ f.kind = IF Contains(flags, 3) THEN "system" ELSE "user"
      /\ f.op \in {"none", "enter", "exit"}
  BY <1>3, FlagsWellFormed, FlagsType
<1>6. (Enters(d) <=> f.op = "enter") /\ (Leaves(d) <=> f.op = "exit")
  BY <1>1, <1>5 DEF Enters, Leaves
<1>7. fileKind' = fileKind BY DirectiveAtOK
<1>8. e.offset = o BY DEF MarkerNote
<1>9. ASSUME Regular' PROVE ~ Ignored(Last(readers), d) /\ Agrees(e, Read(Last(readers), d))
  <2>1. Regular BY <1>2, <1>4, <1>7, <1>9, RegularBefore DEF Met
  <2>2. PICK s : s = Last(readers) OBVIOUS
  <2>3. /\ f.op = "exit" => s.stack # <<>>
        /\ f.op = "enter" => e.include = o - 1
        /\ f.op = "exit" => e.include = Top(Front(s.stack))
        /\ f.op = "none" => e.include = Top(s.stack)
    BY <2>1, <2>2
  <2>4. ~ Ignored(s, d) BY <1>1, <1>6, <2>3 DEF Ignored
  <2>5. PICK r : r = Read(s, d) OBVIOUS
  <2>6. /\ r.offset = o /\ r.base = line /\ r.mark = PhysicalLine(o)
        /\ r.name = (IF name = None THEN s.name ELSE name)
        /\ r.stack = IF Enters(d) THEN Append(s.stack, o - 1)
                     ELSE IF Leaves(d) THEN Front(s.stack)
                     ELSE s.stack
        /\ r.kind = IF Contains(flags, 3) THEN "system" ELSE "user"
    BY <1>1, <2>5 DEF Read
  <2>7. e.line = line /\ e.name = name /\ e.kind = f.kind BY DEF MarkerNote
  <2>8. name # None BY NamesAssumption
  <2>9. e.include = Top(r.stack)
    <3>1. CASE f.op = "enter"
      <4>1. r.stack = Append(s.stack, o - 1) BY <1>6, <2>6, <3>1
      <4>2. s \in ReaderState BY <2>2, LastReader
      <4>3. PICK S \in Seq(Nat) : S = s.stack BY <4>2 DEF ReaderState
      <4>4. PICK T : T = r.stack OBVIOUS
      <4>5. o - 1 \in Nat BY DirectiveAtOK
      <4>6. T \in Seq(Nat) /\ Len(T) = Len(S) + 1 /\ T # <<>> /\ T[Len(S) + 1] = o - 1
        BY <4>1, <4>3, <4>4, <4>5
      <4>7. Last(T) = o - 1 BY <4>6 DEF Last
      <4> QED BY <2>3, <3>1, <4>4, <4>6, <4>7 DEF Top
    <3>2. CASE f.op = "exit" BY <1>6, <2>3, <2>6, <3>2
    <3>3. CASE f.op = "none" BY <1>6, <2>3, <2>6, <3>3
    <3> QED BY <1>5, <3>1, <3>2, <3>3
  <2>10. Agrees(e, r) BY <1>5, <1>8, <2>6, <2>7, <2>8, <2>9 DEF Agrees
  <2> QED BY <2>2, <2>4, <2>5, <2>10
<1> QED BY <1>2, <1>4, <1>8, <1>9, DirectiveNoted


(* A malformed marker, or one that leaves no file, is dropped by both.     *)
LEMMA MarkerSkipped ==
  ASSUME TypeOK, NotesOK, NEW o \in Nat, DirectiveAt(o), NEW line \in LineNos, NEW name \in Names,
         NEW flags \in Seq(Nat), MetMarker(o, line, name, flags), entries' = entries,
         \/ ReadLineMarkerFlags(flags).hadError
         \/ ReadLineMarkerFlags(flags).op = "exit" /\ (Regular => Last(readers).stack = <<>>)
  PROVE  NotesOK' /\ TypeOK'
<1>1. PICK d : d = [offset |-> o, line |-> line, name |-> name, marker |-> TRUE, flags |-> flags]
  OBVIOUS
<1>2. Met(d) BY <1>1 DEF MetMarker
<1>3. d \in Directive /\ d.offset = o
  <2>1. line \in Nat BY LinesAssumption
  <2> QED BY <1>1, <2>1 DEF Directive, MaybeNames
<1>4. \/ d.flags \notin WellFormed
      \/ Leaves(d) /\ (Regular => Last(readers).stack = <<>>)
  <2>1. SUFFICES ASSUME flags \in WellFormed
                 PROVE  Leaves(d) /\ (Regular => Last(readers).stack = <<>>)
    BY <1>1
  <2>2. ~ ReadLineMarkerFlags(flags).hadError BY <2>1, FlagsWellFormed
  <2>3. ReadLineMarkerFlags(flags).op = "exit" => Contains(flags, 2) BY <2>1, FlagsWellFormed
  <2> QED BY <1>1, <2>2, <2>3 DEF Leaves
<1>5. NotesOK' BY <1>2, <1>3, <1>4, DirectiveSkipped
<1>6. entries' \in Seq(Note) BY DEF TypeOK
<1> QED BY <1>2, <1>3, <1>5, <1>6, DirectiveTypes

(* The types, whatever becomes of a marker.                                *)
LEMMA MarkerTypes ==
  ASSUME TypeOK, NEW o \in Nat, DirectiveAt(o), NEW line \in LineNos, NEW name \in Names,
         NEW flags \in Seq(Nat), MetMarker(o, line, name, flags), entries' \in Seq(Note)
  PROVE  TypeOK'
<1>1. PICK d : d = [offset |-> o, line |-> line, name |-> name, marker |-> TRUE, flags |-> flags]
  OBVIOUS
<1>2. Met(d) BY <1>1 DEF MetMarker
<1>3. line \in Nat BY LinesAssumption
<1>4. d \in Directive /\ d.offset = o BY <1>1, <1>3 DEF Directive, MaybeNames
<1> QED BY <1>2, <1>4, DirectiveTypes

(* A marker without the flag 2.                                            *)
LEMMA HandleMarkerKeeps ==
  ASSUME IInv, NEW line \in LineNos, NEW name \in Names, NEW flags \in Flags,
         HandleMarker(lexed, line, name, flags)
  PROVE  IInv'
<1>1. TypeOK /\ HintOK /\ NotesOK BY DEF IInv
<1>2. PICK o \in Nat : o = lexed BY <1>1 DEF TypeOK
<1>3. PICK f : f = ReadLineMarkerFlags(flags) OBVIOUS
<1>4. /\ DirectiveAt(o) /\ f.op # "exit" /\ MetMarker(o, line, name, flags)
      /\ entries' = (IF f.hadError THEN entries
                     ELSE Append(entries, MarkerNote(o, line, name, f.op, f.kind)))
      /\ lineStarts' = lineStarts /\ hint' = hint
  BY <1>2, <1>3 DEF HandleMarker
<1>5. flags \in Seq(Nat) BY TextsAssumption
<1>6. f.op \in {"none", "enter"} /\ f.kind \in Kinds BY <1>3, <1>4, <1>5, FlagsType
<1>7. text' = text /\ o \in Nat \ {0} BY <1>1, <1>4, DirectiveAtOK
<1>8. HintOK' BY <1>1, <1>4, <1>7, HintKept
<1>9. CASE f.hadError
  <2>1. entries' = entries BY <1>4, <1>9
  <2> QED BY <1>1, <1>3, <1>4, <1>5, <1>8, <1>9, <2>1, MarkerSkipped DEF IInv
<1>10. CASE ~ f.hadError
  <2>1. flags \in WellFormed BY <1>3, <1>5, <1>10, FlagsMalformed
  <2>2. PICK e : e = MarkerNote(o, line, name, f.op, f.kind) OBVIOUS
  <2>3. e \in Note
    <3>1. name \in MaybeNames BY DEF MaybeNames
    <3> QED BY <1>1, <1>6, <1>7, <2>2, <3>1, MarkerNoteType
  <2>4. entries' = Append(entries, e) BY <1>4, <1>10, <2>2
  <2>5. TypeOK'
    <3>1. entries' \in Seq(Note) BY <1>1, <2>3, <2>4 DEF TypeOK
    <3> QED BY <1>1, <1>4, <1>5, <3>1, MarkerTypes
  <2>6. e.include = IncludeOffset(o, f.op) BY <2>2 DEF MarkerNote
  <2>7. f.op = "enter" => e.include = o - 1 BY <2>6 DEF IncludeOffset
  <2>8. ASSUME Regular, f.op = "none" PROVE e.include = Top(Last(readers).stack)
    <3>1. Agreement BY <1>1, <2>8 DEF NotesOK
    <3>2. CASE entries = <<>>
      <4>1. e.include = 0 BY <2>6, <2>8, <3>2 DEF IncludeOffset
      <4>2. Last(readers).stack = <<>> BY <1>1, <3>1, <3>2, LastAgrees DEF Reader
      <4> QED BY <4>1, <4>2 DEF Top
    <3>3. CASE entries # <<>>
      <4>1. e.include = Last(entries).include BY <2>6, <2>8, <3>3 DEF IncludeOffset
      <4>2. Agrees(Last(entries), Last(readers)) BY <1>1, <3>1, <3>3, LastAgrees
      <4> QED BY <4>1, <4>2 DEF Agrees
    <3> QED BY <3>2, <3>3
  <2>9. NotesOK' BY <1>1, <1>3, <1>4, <1>6, <2>1, <2>2, <2>3, <2>4, <2>7, <2>8, MarkerNoted
  <2> QED BY <1>8, <2>5, <2>9 DEF IInv
<1> QED BY <1>9, <1>10

(* Where the last presumed file was entered, the reader had the rest of    *)
(* his stack.                                                              *)
LEMMA ExitIncludeIs ==
  ASSUME TypeOK, InOrder, Agreement, StacksOK, entries # <<>>, NEW o, Last(readers).stack # <<>>
  PROVE  IncludeOffset(o, "exit") = Top(Front(Last(readers).stack))
<1>1. PICK s \in ReaderState : s = Last(readers) /\ StackOK(s) BY LastReader DEF StacksOK
<1>2. PICK S \in Seq(Nat) : S = s.stack /\ S # <<>> BY <1>1 DEF ReaderState
<1>3. PICK L \in Nat \ {0} : L = Len(S) BY <1>2
<1>4. PICK a \in Nat : a = S[L] BY <1>3
<1>5. Last(S) = a BY <1>3, <1>4 DEF Last
<1>6. L \in 1 .. Len(S) BY <1>3
<1>7. ReaderAt(a).stack = SubSeq(S, 1, L - 1) BY <1>1, <1>2, <1>4, <1>6 DEF StackOK
<1>8. ReaderAt(a).stack = Front(S) BY <1>3, <1>7 DEF Front
<1>9. Last(entries).include = Top(S) BY <1>1, <1>2, LastAgrees DEF Agrees
<1>10. Last(entries).include = a BY <1>2, <1>5, <1>9 DEF Top
<1>11. PICK k : k = NearestEntry(a) OBVIOUS
<1>12. IncludeOffset(o, "exit") = IF k = 0 THEN 0 ELSE entries[k].include
  BY <1>10, <1>11 DEF IncludeOffset
<1>13. CASE k = 0
  <2>1. ReaderAt(a) = readers[0 + 1] BY <1>11, <1>13, ReaderAtIs
  <2>2. ReaderAt(a).stack = <<>> BY <2>1 DEF Agreement, Reader
  <2> QED BY <1>1, <1>2, <1>8, <1>12, <1>13, <2>2 DEF Top
<1>14. CASE k # 0
  <2>1. Agrees(entries[k], ReaderAt(a)) BY <1>11, <1>14, ReaderAtIs
  <2>2. entries[k].include = Top(Front(S)) BY <1>8, <2>1 DEF Agrees
  <2> QED BY <1>1, <1>2, <1>12, <1>14, <2>2
<1> QED BY <1>13, <1>14

(* A marker with the flag 2, which asks for its own presumed location.     *)
LEMMA HandleExitMarkerKeeps ==
  ASSUME IInv, NEW line \in LineNos, NEW name \in Names, NEW flags \in Flags,
         HandleExitMarker(lexed, line, name, flags)
  PROVE  IInv'
<1>1. TypeOK /\ HintOK /\ NotesOK BY DEF IInv
<1>2. PICK o \in Nat : o = lexed BY <1>1 DEF TypeOK
<1>3. PICK f : f = ReadLineMarkerFlags(flags) OBVIOUS
<1>4. PICK flag \in o + 1 .. LineEnd(o) - 1 :
        /\ DirectiveAt(o) /\ f.op = "exit" /\ LookUp(flag) /\ MetMarker(o, line, name, flags)
        /\ entries' = (IF PresumedLoc(flag).include = 0 \/ f.hadError THEN entries
                       ELSE Append(entries, MarkerNote(o, line, name, "exit", f.kind)))
  BY <1>2, <1>3 DEF HandleExitMarker
<1>5. flags \in Seq(Nat) BY TextsAssumption
<1>6. f.kind \in Kinds BY <1>3, <1>5, FlagsType
<1>7. text' = text /\ o \in Nat \ {0} /\ lexed' = LineEnd(o) /\ lexed' \in o + 1 .. Len(text)
  BY <1>1, <1>4, DirectiveAtOK
<1>8. flag \in Nat /\ flag >= lexed - 1
  <2>1. Len(text) \in Nat BY <1>1 DEF TypeOK
  <2>2. LineEnd(o) \in Int BY <1>7, <2>1
  <2> QED BY <1>2, <2>2
<1>9. HintOK' BY <1>1, <1>4, <1>7, <1>8, LookUpKeepsHint
<1>10. ASSUME Regular PROVE PresumedLoc(flag).include = Top(Last(readers).stack)
  <2>1. InOrder /\ Agreement BY <1>1, <1>10 DEF NotesOK
  <2>2. PresumedLoc(flag) = [line |-> Reference(flag).line, column |-> ColumnNumber(flag),
                             name |-> ReaderAt(flag).name, include |-> Top(ReaderAt(flag).stack),
                             kind |-> ReaderAt(flag).kind]
    BY <1>1, <1>8, <2>1, PresumedAgrees
  <2>3. PresumedLoc(flag).include = Top(ReaderAt(flag).stack) BY <2>2
  <2> QED BY <1>1, <1>8, <2>1, <2>3, ReaderAtEnd
<1>11. CASE PresumedLoc(flag).include = 0 \/ f.hadError
  <2>1. entries' = entries BY <1>4, <1>11
  <2>2. ASSUME Regular, PresumedLoc(flag).include = 0 PROVE Last(readers).stack = <<>>
    <3>1. SUFFICES ASSUME Last(readers).stack # <<>> PROVE FALSE OBVIOUS
    <3>2. PICK s \in ReaderState : s = Last(readers) /\ StackOK(s)
      BY <1>1, <2>2, LastReader DEF NotesOK, StacksOK
    <3>3. PICK S \in Seq(Nat) : S = s.stack /\ S # <<>> BY <3>1, <3>2 DEF ReaderState
    <3>4. Len(S) \in 1 .. Len(S) BY <3>3
    <3>5. 1 <= S[Len(S)] BY <3>2, <3>3, <3>4 DEF StackOK
    <3>6. Top(S) = S[Len(S)] BY <3>3 DEF Top, Last
    <3>7. Top(S) = 0 BY <1>10, <2>2, <3>2, <3>3
    <3> QED BY <3>5, <3>6, <3>7
  <2>3. \/ f.hadError
        \/ f.op = "exit" /\ (Regular => Last(readers).stack = <<>>)
    BY <1>4, <1>11, <2>2
  <2>4. NotesOK' /\ TypeOK' BY <1>1, <1>3, <1>4, <1>5, <2>1, <2>3, MarkerSkipped
  <2> QED BY <1>9, <2>4 DEF IInv
<1>12. CASE PresumedLoc(flag).include # 0 /\ ~ f.hadError
  <2>1. flags \in WellFormed BY <1>3, <1>5, <1>12, FlagsMalformed
  <2>2. PICK e : e = MarkerNote(o, line, name, "exit", f.kind) OBVIOUS
  <2>3. entries # <<>>
    <3>1. SUFFICES ASSUME entries = <<>> PROVE PresumedLoc(flag).include = 0 BY <1>12
    <3>2. entries \in Seq(Note) /\ Len(entries) = 0 BY <3>1
    <3>3. NearestEntry(flag) = 0 BY <1>8, <3>2, NearestEntryIs
    <3>4. PresumedLoc(flag) = [line |-> PhysicalLine(flag), column |-> ColumnNumber(flag),
                               name |-> None, include |-> 0, kind |-> fileKind]
      BY <1>1, <1>8, <3>3, PresumedLocIs
    <3> QED BY <3>4
  <2>4. e \in Note
    <3>1. name \in MaybeNames BY DEF MaybeNames
    <3> QED BY <1>1, <1>6, <1>7, <2>2, <2>3, <3>1, MarkerNoteType
  <2>5. entries' = Append(entries, e) BY <1>4, <1>12, <2>2
  <2>6. TypeOK'
    <3>1. entries' \in Seq(Note) BY <1>1, <2>4, <2>5 DEF TypeOK
    <3> QED BY <1>1, <1>4, <1>5, <3>1, MarkerTypes
  <2>7. ASSUME Regular
        PROVE  Last(readers).stack # <<>> /\ e.include = Top(Front(Last(readers).stack))
    <3>1. InOrder /\ Agreement /\ StacksOK BY <1>1, <2>7 DEF NotesOK
    <3>2. Last(readers).stack # <<>> BY <1>10, <1>12, <2>7 DEF Top
    <3>3. e.include = IncludeOffset(o, "exit") BY <2>2 DEF MarkerNote
    <3> QED BY <1>1, <2>3, <3>1, <3>2, <3>3, ExitIncludeIs
  <2>8. e = MarkerNote(o, line, name, f.op, f.kind) BY <1>4, <2>2
  <2>9. NotesOK' BY <1>1, <1>3, <1>4, <2>1, <2>4, <2>5, <2>7, <2>8, MarkerNoted
  <2> QED BY <1>9, <2>6, <2>9 DEF IInv
<1> QED BY <1>11, <1>12


-----------------------------------------------------------------------------
(***************************************************************************)
(* The invariant, and what follows from it.                                *)
(***************************************************************************)
LEMMA InitIInv == Init => IInv
<1> SUFFICES ASSUME Init PROVE IInv OBVIOUS
<1>1. /\ text \in Seq({"c", "n", "r"}) /\ fileKind \in Kinds /\ lexed = 0 /\ lineStarts = <<>>
      /\ hint = NoHint /\ entries = <<>> /\ climb = NoClimb /\ asked = 0 /\ answer = NoAnswer
      /\ directives = <<>> /\ readers = <<Reader>>
  BY TextsAssumption DEF Init
<1>2. Reader \in ReaderState
  <2>1. <<>> \in Seq(Nat) OBVIOUS
  <2> QED BY <1>1, <2>1 DEF Reader, ReaderState, MaybeNames
<1>3. readers \in Seq(ReaderState) /\ readers # <<>> /\ Len(readers) = 1 /\ readers[1] = Reader
      /\ DOMAIN readers = {1}
  BY <1>1, <1>2
<1>4. Len(entries) = 0 /\ DOMAIN entries = {} /\ DOMAIN directives = {} BY <1>1
<1>5. TypeOK
  <2>1. lexed \in 0 .. Len(text) /\ asked \in Nat BY <1>1
  <2>2. entries \in Seq(Note) /\ directives \in Seq(Directive) BY <1>1
  <2>3. climb \in [macro : Climbers \cup {"none"}, at : Nat, depth : Nat] BY <1>1 DEF NoClimb
  <2> QED BY <1>1, <1>3, <2>1, <2>2, <2>3 DEF TypeOK
<1>6. HintOK BY <1>1 DEF HintOK, RightHint, NoHint
<1>7. InOrder /\ NothingNoted BY <1>4 DEF InOrder, NothingNoted
<1>8. Agreement BY <1>3, <1>4 DEF Agreement
<1>9. StacksOK
  <2>1. Reader.stack = <<>> /\ 1 .. Len(Reader.stack) = {} BY DEF Reader
  <2>2. StackOK(Reader) BY <2>1 DEF StackOK
  <2> QED BY <1>3, <2>2 DEF StacksOK
<1>10. ClimbOK BY <1>1 DEF ClimbOK, Idle
<1>11. PresumedIsRight BY <1>1 DEF PresumedIsRight
<1> QED BY <1>5, <1>6, <1>7, <1>8, <1>9, <1>10, <1>11 DEF IInv, NotesOK

LEMMA StutterKeeps ==
  ASSUME IInv, UNCHANGED vars
  PROVE  IInv'
<1>1. TypeOK /\ HintOK /\ NotesOK BY DEF IInv
<1>2. UNCHANGED <<text, fileKind, lexed, lineStarts, hint, entries, climb, asked, answer, directives, readers>>
  BY DEF vars, file, history
<1>3. lexed' \in lexed .. Len(text) BY <1>1, <1>2 DEF TypeOK
<1>4. TypeOK' BY <1>1, <1>2 DEF TypeOK
<1>5. HintOK' BY <1>1, <1>2, HintKept
<1>6. Quiet BY <1>2, <1>3 DEF Quiet
<1>7. asked \in Nat BY <1>1 DEF TypeOK
<1>8. /\ ReaderAt(asked)' = ReaderAt(asked) /\ Reference(asked)' = Reference(asked)
      /\ MacroReference(asked, answer.macro)' = MacroReference(asked, answer.macro)
      /\ (Regular' <=> Regular)
  <2>1. PICK o \in Nat : o = asked BY <1>7
  <2>2. PICK m : m = answer.macro OBVIOUS
  <2>3. ReaderAt(o)' = ReaderAt(o) /\ Reference(o)' = Reference(o) /\ MacroReference(o, m)' = MacroReference(o, m)
        /\ (Regular' <=> Regular)
    BY <1>1, <1>6, QuietKeeps DEF NotesOK
  <2>4. asked' = o /\ answer'.macro = m BY <1>2, <2>1, <2>2
  <2> QED BY <2>1, <2>2, <2>3, <2>4
<1>9. Regular => ClimbOK' BY <1>1, <1>2, <1>8 DEF NotesOK, ClimbOK, Idle
<1>10. PresumedIsRight'
  <2>1. PresumedIsRight BY <1>1 DEF NotesOK
  <2>2. IsMacro' <=> IsMacro BY <1>2 DEF IsMacro
  <2> QED BY <1>2, <1>8, <2>1, <2>2 DEF PresumedIsRight, Regular
<1>11. NotesOK' BY <1>1, <1>6, <1>9, <1>10, QuietNotes
<1> QED BY <1>4, <1>5, <1>11 DEF IInv

LEMMA NextIInv == IInv /\ [Next]_vars => IInv'
<1> SUFFICES ASSUME IInv, [Next]_vars PROVE IInv' OBVIOUS
<1>1. lexed \in Nat BY DEF IInv, TypeOK
<1>2. CASE Lex BY <1>2, LexKeeps
<1>3. ASSUME NEW o \in 0 .. lexed - 1, GetPresumedLoc(o) PROVE IInv'
  <2>1. o \in Nat BY <1>1
  <2> QED BY <1>3, <2>1, GetPresumedLocKeeps
<1>4. ASSUME NEW macro \in Builtins, ExpandBuiltinMacro(lexed - 1, macro) PROVE IInv'
  <2>1. PICK o : o = lexed - 1 OBVIOUS
  <2> QED BY <1>4, <2>1, ExpandBuiltinMacroKeeps
<1>5. CASE ClimbToInclude BY <1>5, ClimbToIncludeKeeps
<1>6. CASE GetOtherPresumedLoc BY <1>6, GetOtherPresumedLocKeeps
<1>7. ASSUME NEW line \in LineNos, NEW name \in Names \cup {None}, HandleLineDirective(lexed, line, name)
      PROVE  IInv'
  BY <1>7, HandleLineDirectiveKeeps DEF MaybeNames
<1>8. ASSUME NEW line \in LineNos, NEW name \in Names, NEW flags \in Flags,
             HandleMarker(lexed, line, name, flags)
      PROVE  IInv'
  BY <1>8, HandleMarkerKeeps
<1>9. ASSUME NEW line \in LineNos, NEW name \in Names, NEW flags \in Flags,
             HandleExitMarker(lexed, line, name, flags)
      PROVE  IInv'
  BY <1>9, HandleExitMarkerKeeps
<1>10. CASE UNCHANGED vars BY <1>10, StutterKeeps
<1> QED BY <1>2, <1>3, <1>4, <1>5, <1>6, <1>7, <1>8, <1>9, <1>10 DEF Next

LEMMA IInvHint == IInv => HintIsRight
<1> SUFFICES ASSUME IInv PROVE HintIsRight OBVIOUS
<1>1. TypeOK /\ HintOK BY DEF IInv
<1>2. PICK s : s = ComputeLineNumbers(text) OBVIOUS
<1>3. text \in Seq({"c", "n", "r"}) BY <1>1 DEF TypeOK
<1>4. Starts = s BY <1>1, <1>2 DEF HintOK, Starts
<1>5. ASSUME hint # NoHint PROVE hint.line = PhysicalLine(hint.pos - 1)
  <2>1. hint.pos \in Nat /\ hint.pos >= 1 /\ InLine(s, hint.pos - 1, hint.line)
    BY <1>1, <1>2, <1>5 DEF HintOK, RightHint
  <2>2. PICK o \in Nat : o = hint.pos - 1 BY <2>1
  <2> QED BY <1>2, <1>3, <2>1, <2>2, PhysicalLineMeans
<1>6. ASSUME NEW line \in 1 .. Len(Starts), NEW column \in 1 .. Len(text) + 1
      PROVE  LET found == GetLocation(Starts, line, column)
             IN IF \E o \in 0 .. Len(text) - 1 :
                     /\ PhysicalLine(o) = line /\ o = Starts[line] + column - 1
                     /\ \A p \in Starts[line] .. o - 1 : ~IsNewline(text[p + 1])
                  THEN found = Starts[line] + column - 1
                  ELSE Starts[line] < Len(text) => found = -1
  BY <1>2, <1>3, <1>4, GetLocationIs
<1> QED BY <1>5, <1>6 DEF HintIsRight

(* The variables keep their types, in every file and with whatever flags   *)
(* its markers have.                                                       *)
THEOREM TypeCorrect == Spec => []TypeOK
<1>1. IInv => TypeOK BY DEF IInv
<1> QED BY InitIInv, NextIInv, <1>1, PTL DEF Spec

(* getLineNumber, for every text, every ascending list of windows and      *)
(* every order of the questions: the line that it remembers is the line of *)
(* the position that it remembers.  getLocation undoes it.                 *)
THEOREM HintCorrect == Spec => []HintIsRight
BY InitIInv, NextIInv, IInvHint, PTL DEF Spec

(* getPresumedLoc and the builtin macros, for every text and every list of *)
(* directives: they answer as a reader does who keeps the presumed         *)
(* includes on a stack.                                                    *)
THEOREM PresumedCorrect == Spec => []PresumedIsRight
<1>1. IInv => PresumedIsRight BY DEF IInv, NotesOK
<1> QED BY InitIInv, NextIInv, <1>1, PTL DEF Spec

=============================================================================
