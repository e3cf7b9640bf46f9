------------------------- MODULE BoardShardsProofs -------------------------
(***************************************************************************)
(* Lemmas about the shards of a board: what they hold is read back as it   *)
(* was written, and the generation an operation derives from one that      *)
(* stands for a board stands for the board after the operation.            *)
(***************************************************************************)
EXTENDS BoardShards, Iteration

-----------------------------------------------------------------------------
(* Sequences of anything *)

IsSeq(s) == \E S : s \in Seq(S)

\* What is known of a sequence, whatever it is of.
LEMMA SeqFacts ==
  ASSUME NEW s, IsSeq(s)
  PROVE  /\ Len(s) \in Nat
         /\ DOMAIN s = 1..Len(s)
         /\ s = [i \in 1..Len(s) |-> s[i]]
<1>1. PICK S : s \in Seq(S) BY DEF IsSeq
<1>. QED BY <1>1

\* What appending one entry makes of a sequence.
LEMMA AppendFacts ==
  ASSUME NEW s, IsSeq(s), NEW x
  PROVE  /\ IsSeq(Append(s, x))
         /\ Len(Append(s, x)) = Len(s) + 1
         /\ \A i \in 1..Len(s) : Append(s, x)[i] = s[i]
         /\ Append(s, x)[Len(s) + 1] = x
<1>1. PICK S : s \in Seq(S) BY DEF IsSeq
<1>. DEFINE T == S \cup {x}
<1>2. s \in Seq(T) /\ x \in T
  <2>1. S \subseteq T OBVIOUS
  <2>. QED BY <1>1, <2>1
<1>3. Append(s, x) \in Seq(T) BY <1>2
<1>4. IsSeq(Append(s, x)) BY <1>3 DEF IsSeq
<1>. QED BY <1>1, <1>2, <1>4

-----------------------------------------------------------------------------
(* Pages *)

\* The quotient is where the multiple is the last not above.
LEMMA Quotient ==
  ASSUME NEW a \in Nat, NEW size \in Nat \ {0}
  PROVE  /\ a \div size \in Nat
         /\ (a \div size) * size <= a
         /\ a < (a \div size) * size + size
         /\ a % size = a - (a \div size) * size
         /\ \A q \in Nat : q * size <= a /\ a < q * size + size => a \div size = q
<1>. DEFINE d == a \div size
<1>1. d \in Nat /\ d * size <= a /\ a < d * size + size
  <2>1. d \in Nat
    OBVIOUS
  <2>2. d * size <= a
    BY <2>1
  <2>3. a < (d + 1) * size
    BY <2>1
  <2>4. (d + 1) * size = d * size + size
    BY <2>1
  <2>. HIDE DEF d
  <2>. QED BY <2>1, <2>2, <2>3, <2>4
<1>2. a % size = a - d * size
  OBVIOUS
<1>3. ASSUME NEW q \in Nat, q * size <= a, a < q * size + size PROVE d = q
  <2>. HIDE DEF d
  <2>1. CASE d < q
    <3>1. (d + 1) * size <= q * size
      BY <1>1, <2>1
    <3>2. (d + 1) * size = d * size + size
      BY <1>1
    <3>. QED BY <1>1, <1>3, <3>1, <3>2
  <2>2. CASE q < d
    <3>1. (q + 1) * size <= d * size
      BY <1>1, <2>2
    <3>2. (q + 1) * size = q * size + size
      OBVIOUS
    <3>. QED BY <1>1, <1>3, <3>1, <3>2
  <2>. QED BY <1>1, <2>1, <2>2
<1>. QED BY <1>1, <1>2, <1>3

\* How many pages a number of entries fills.
PageCount(length, size) == (length + size - 1) \div size

\* The last page begins before the end, and the pages hold everything.
LEMMA PageCounts ==
  ASSUME NEW length \in Nat, NEW size \in Nat \ {0}
  PROVE  /\ PageCount(length, size) \in Nat
         /\ length <= PageCount(length, size) * size
         /\ PageCount(length, size) * size < length + size
         /\ \A p \in 1..PageCount(length, size) : (p - 1) * size < length
         /\ \A n \in Nat : length <= n * size /\ n * size < length + size => PageCount(length, size) = n
<1>. DEFINE a == length + size - 1
            n == a \div size
<1>1. a \in Nat
  OBVIOUS
<1>2. /\ n \in Nat /\ n * size <= a /\ a < n * size + size
      /\ \A q \in Nat : q * size <= a /\ a < q * size + size => n = q
  <2>. HIDE DEF a
  <2>. QED BY <1>1, Quotient
<1>3. PageCount(length, size) = n
  BY DEF PageCount
<1>. HIDE DEF n
<1>4. n * size \in Nat /\ length <= n * size /\ n * size < length + size
  <2>1. n * size \in Nat
    BY <1>2
  <2>. QED BY <1>2, <2>1
<1>5. ASSUME NEW p \in 1..n PROVE (p - 1) * size < length
  <2>1. p - 1 \in Nat /\ p <= n
    BY <1>2
  <2>2. p * size <= n * size
    BY <1>2, <2>1
  <2>3. p * size = (p - 1) * size + size /\ (p - 1) * size \in Nat
    BY <2>1
  <2>. QED BY <1>4, <2>2, <2>3
<1>6. ASSUME NEW q \in Nat, length <= q * size, q * size < length + size PROVE n = q
  <2>1. q * size \in Nat
    OBVIOUS
  <2>2. q * size <= a /\ a < q * size + size
    BY <1>6, <2>1
  <2>. QED BY <1>2, <2>2
<1>. QED BY <1>2, <1>3, <1>4, <1>5, <1>6

\* The pages of a sequence: how many there are, and where each entry goes.
PagesOf(pages, s, size, L, n) ==
  /\ L = Len(s) /\ n = PageCount(L, size) /\ pages = Paginate(s, size)
  /\ IsSeq(pages) /\ Len(pages) = n
  /\ \A p \in 1..n :
       /\ (p - 1) * size \in Nat
       /\ p * size = (p - 1) * size + size
       /\ pages[p] = SubSeq(s, (p - 1) * size + 1, IF p * size <= L THEN p * size ELSE L)
       /\ IsSeq(pages[p])
       /\ Len(pages[p]) = (IF p * size <= L THEN size ELSE L - (p - 1) * size)
       /\ Len(pages[p]) \in 1..size
       /\ \A i \in 1..Len(pages[p]) : /\ (p - 1) * size + i \in 1..L
                                      /\ pages[p][i] = s[(p - 1) * size + i]

\* paginate: where each entry goes.
LEMMA PaginateFacts ==
  ASSUME NEW s, IsSeq(s), NEW size \in Nat \ {0}
  PROVE  \E L \in Nat, n \in Nat : \E pages : PagesOf(pages, s, size, L, n)
<1>. DEFINE pages == Paginate(s, size)
<1>1. PICK S : s \in Seq(S)
  BY DEF IsSeq
<1>2. PICK length \in Nat : length = Len(s)
  BY <1>1
<1>3. PICK n \in Nat : /\ n = PageCount(length, size)
                       /\ \A p \in 1..n : (p - 1) * size < length
  BY PageCounts
<1>4. pages = [p \in 1..n |-> SubSeq(s, (p - 1) * size + 1, IF p * size <= length THEN p * size ELSE length)]
  BY <1>2, <1>3 DEF Paginate, PageCount
<1>. HIDE DEF pages
<1>5. ASSUME NEW p \in 1..n
      PROVE  /\ p \in Nat
             /\ (p - 1) * size \in Nat
             /\ p * size = (p - 1) * size + size
             /\ pages[p] = SubSeq(s, (p - 1) * size + 1, IF p * size <= length THEN p * size ELSE length)
             /\ pages[p] \in Seq(S)
             /\ Len(pages[p]) = (IF p * size <= length THEN size ELSE length - (p - 1) * size)
             /\ Len(pages[p]) \in 1..size
             /\ \A i \in 1..Len(pages[p]) : /\ (p - 1) * size + i \in 1..length
                                            /\ pages[p][i] = s[(p - 1) * size + i]
  <2>1. p \in Nat /\ p - 1 \in Nat /\ (p - 1) * size < length
    BY <1>3
  <2>2. PICK b \in Nat : b = (p - 1) * size
    BY <2>1
  <2>3. p * size = b + size /\ b < length
    BY <2>1, <2>2
  <2>4. PICK e \in 1..length : e = (IF p * size <= length THEN p * size ELSE length)
    BY <2>3
  <2>5. pages[p] = SubSeq(s, b + 1, e) /\ b + 1 \in 1..e
    BY <1>4, <2>2, <2>3, <2>4
  <2>6. e \in (b + 1)..Len(s) /\ b + 1 \in 1..Len(s)
    BY <1>2, <2>4, <2>5
  <2>7. /\ pages[p] \in Seq(S)
        /\ Len(pages[p]) = e - b
        /\ \A i \in 1..(e - b) : pages[p][i] = s[b + i]
    <3>1. /\ SubSeq(s, b + 1, e) \in Seq(S) /\ Len(SubSeq(s, b + 1, e)) = e - b
          /\ \A i \in 1..(e - b) : SubSeq(s, b + 1, e)[i] = s[b + i]
      BY <1>1, <2>6
    <3>. QED BY <2>5, <3>1
  <2>8. e - b = (IF p * size <= length THEN size ELSE length - b) /\ e - b \in 1..size
    BY <2>3, <2>4
  <2>. QED BY <2>1, <2>2, <2>3, <2>4, <2>5, <2>7, <2>8
<1>6. pages \in Seq(Seq(S)) /\ Len(pages) = n
  <2>1. pages \in [1..n -> Seq(S)]
    <3>1. \A p \in 1..n : pages[p] \in Seq(S)
      BY <1>5
    <3>. QED BY <1>4, <3>1
  <2>. QED BY <2>1
<1>7. IsSeq(pages) /\ \A p \in 1..n : IsSeq(pages[p])
  BY <1>5, <1>6 DEF IsSeq
<1>8. pages = Paginate(s, size)
  BY DEF pages
<1>9. PagesOf(pages, s, size, length, n)
  BY <1>2, <1>3, <1>5, <1>6, <1>7, <1>8 DEF PagesOf
<1>. QED BY <1>9

-----------------------------------------------------------------------------
(* Sequences made of pieces *)

\* A function on the first numbers is a sequence.
LEMMA MadeSeq ==
  ASSUME NEW n \in Nat, NEW s, s = [i \in 1..n |-> s[i]]
  PROVE  IsSeq(s) /\ Len(s) = n
<1>. DEFINE S == {s[i] : i \in 1..n}
<1>1. s \in [1..n -> S]
  OBVIOUS
<1>2. s \in Seq(S)
  BY <1>1
<1>. HIDE DEF S
<1>3. IsSeq(s)
  BY <1>2 DEF IsSeq
<1>. QED BY <1>1, <1>2, <1>3

\* Two sequences of one length with the same entries are one.
LEMMA SameSeq ==
  ASSUME NEW s, IsSeq(s), NEW t, IsSeq(t), Len(s) = Len(t),
         \A i \in 1..Len(s) : s[i] = t[i]
  PROVE  s = t
<1>1. s = [i \in 1..Len(s) |-> s[i]] /\ t = [i \in 1..Len(t) |-> t[i]]
  BY SeqFacts
<1>. QED BY <1>1

\* A sequence is one of its entries.
LEMMA SeqOfEntries ==
  ASSUME NEW s, IsSeq(s)
  PROVE  s \in Seq(ToSet(s)) /\ ToSet(s) = {s[i] : i \in 1..Len(s)}
<1>1. Len(s) \in Nat /\ DOMAIN s = 1..Len(s) /\ s = [i \in 1..Len(s) |-> s[i]]
  BY SeqFacts
<1>2. ToSet(s) = {s[i] : i \in 1..Len(s)}
  BY <1>1 DEF ToSet
<1>3. PICK n \in Nat : n = Len(s)
  BY <1>1
<1>4. s \in [1..n -> ToSet(s)]
  BY <1>1, <1>2, <1>3
<1>. QED BY <1>2, <1>4

\* What is selected of a sequence is a sequence of what it is selected for.
LEMMA OnlyInFacts ==
  ASSUME NEW s, IsSeq(s), NEW S
  PROVE  /\ OnlyIn(s, S) \in Seq(ToSet(s) \cap S)
         /\ ToSet(OnlyIn(s, S)) = ToSet(s) \cap S
<1>. DEFINE T == Seq(ToSet(s) \cap S)
            Pass(f) == [i \in 0..Len(s) |->
                          IF i = 0 THEN << >>
                          ELSE IF s[i] \in S THEN Append(f[i - 1], s[i]) ELSE f[i - 1]]
            found == CHOOSE f : f = Pass(f)
            Step == [p \in (1..Len(s)) \X T |->
                       IF s[p[1]] \in S THEN Append(p[2], s[p[1]]) ELSE p[2]]
<1>1. OnlyIn(s, S) = found[Len(s)]
  BY DEF OnlyIn
<1>2. Len(s) \in Nat /\ \A i \in 1..Len(s) : s[i] \in ToSet(s)
  BY SeqFacts, SeqOfEntries
<1>3. \A i \in 1..Len(s) : \A t \in T : s[i] \in S => Append(t, s[i]) \in T
  <2>1. ASSUME NEW i \in 1..Len(s), NEW t \in T, s[i] \in S PROVE Append(t, s[i]) \in T
    <3>1. s[i] \in ToSet(s) \cap S BY <1>2, <2>1
    <3>. QED BY <3>1
  <2>. QED BY <2>1
<1>4. << >> \in T
  OBVIOUS
<1>. HIDE DEF T
<1>5. Step \in [(1..Len(s)) \X T -> T]
  BY <1>3
<1>6. \A i \in 1..Len(s) : \A t \in T :
         Step[<<i, t>>] = IF s[i] \in S THEN Append(t, s[i]) ELSE t
  OBVIOUS
<1>. HIDE DEF Step
<1>7. PICK v \in [0..Len(s) -> T] : Turns(v, Len(s), << >>, Step)
  BY <1>2, <1>4, <1>5, IterationExists
<1>8. v = Pass(v)
  <2>1. ASSUME NEW i \in 0..Len(s) PROVE v[i] = Pass(v)[i]
    <3>1. CASE i = 0 BY <1>7, <3>1 DEF Turns
    <3>2. CASE i # 0
      <4>1. i \in 1..Len(s) /\ v[i - 1] \in T BY <1>2, <3>2
      <4>. QED BY <1>6, <1>7, <3>2, <4>1 DEF Turns
    <3>. QED BY <3>1, <3>2
  <2>. QED BY <2>1
<1>9. found = Pass(found)
  BY <1>8
<1>. HIDE DEF found
<1>10. found[0] = v[0] /\ \A i \in 1..Len(s) : found[i - 1] = v[i - 1] => found[i] = v[i]
  <2>0. PICK N \in Nat : N = Len(s)
    BY <1>2
  <2>1. ASSUME NEW f, f = Pass(f)
        PROVE  /\ f[0] = << >>
               /\ \A i \in 1..N : f[i] = IF s[i] \in S THEN Append(f[i - 1], s[i]) ELSE f[i - 1]
    <3>1. \A i \in 0..N : f[i] = IF i = 0 THEN << >>
                                ELSE IF s[i] \in S THEN Append(f[i - 1], s[i]) ELSE f[i - 1]
      BY <2>0, <2>1
    <3>. QED BY <3>1
  <2>2. /\ found[0] = << >> /\ v[0] = << >>
        /\ \A i \in 1..N : found[i] = IF s[i] \in S THEN Append(found[i - 1], s[i]) ELSE found[i - 1]
        /\ \A i \in 1..N : v[i] = IF s[i] \in S THEN Append(v[i - 1], s[i]) ELSE v[i - 1]
    BY <1>8, <1>9, <2>1
  <2>. QED BY <2>0, <2>2
<1>11. \A i \in 0..Len(s) : found[i] = v[i]
  <2>1. ASSUME NEW f, NEW g, f[0] = g[0],
               \A i \in 1..Len(s) : f[i - 1] = g[i - 1] => f[i] = g[i]
        PROVE  \A i \in 0..Len(s) : f[i] = g[i]
    BY <1>2, <2>1, IterationIsOne
  <2>. QED BY <1>10, <2>1
<1>12. OnlyIn(s, S) = v[Len(s)] /\ v[Len(s)] \in T
  BY <1>1, <1>2, <1>11
<1>13. PICK N \in Nat : N = Len(s)
  BY <1>2
<1>14. /\ v[0] = << >>
       /\ \A i \in 1..N : v[i] = IF s[i] \in S THEN Append(v[i - 1], s[i]) ELSE v[i - 1]
  <2>1. \A i \in 0..N : v[i] = IF i = 0 THEN << >>
                               ELSE IF s[i] \in S THEN Append(v[i - 1], s[i]) ELSE v[i - 1]
    BY <1>8, <1>13
  <2>. QED BY <2>1
<1>. DEFINE Holds == {n \in 0..N : \A i \in 1..n : s[i] \in S =>
                                      \E j \in 1..Len(v[n]) : v[n][j] = s[i]}
<1>15. 0 \in Holds
  OBVIOUS
<1>16. ASSUME NEW n \in 1..N, n - 1 \in Holds PROVE n \in Holds
  <2>1. /\ \A i \in 1..(n - 1) : s[i] \in S => \E j \in 1..Len(v[n - 1]) : v[n - 1][j] = s[i]
        /\ n - 1 \in 0..N
    BY <1>16
  <2>2. IsSeq(v[n - 1])
    BY <1>13, <2>1 DEF T, IsSeq
  <2>3. CASE s[n] \in S
    <3>1. v[n] = Append(v[n - 1], s[n]) BY <1>14, <2>3
    <3>2. PICK m \in Nat : m = Len(v[n - 1]) BY <2>2, SeqFacts
    <3>3. /\ Len(v[n]) = m + 1 /\ v[n][m + 1] = s[n]
          /\ \A j \in 1..m : v[n][j] = v[n - 1][j]
      BY <2>2, <3>1, <3>2, AppendFacts
    <3>4. ASSUME NEW i \in 1..n, s[i] \in S PROVE \E j \in 1..Len(v[n]) : v[n][j] = s[i]
      <4>1. CASE i = n BY <3>3, <4>1
      <4>2. CASE i # n
        <5>1. PICK j \in 1..m : v[n - 1][j] = s[i] BY <2>1, <3>2, <3>4, <4>2
        <5>2. j \in 1..(m + 1) BY <5>1
        <5>. QED BY <3>3, <5>1, <5>2
      <4>. QED BY <4>1, <4>2
    <3>. QED BY <3>4
  <2>4. CASE s[n] \notin S
    <3>1. v[n] = v[n - 1] BY <1>14, <2>4
    <3>2. ASSUME NEW i \in 1..n, s[i] \in S PROVE \E j \in 1..Len(v[n]) : v[n][j] = s[i]
      <4>1. i \in 1..(n - 1) BY <2>4, <3>2
      <4>. QED BY <2>1, <3>1, <3>2, <4>1
    <3>. QED BY <3>2
  <2>. QED BY <2>3, <2>4
<1>. HIDE DEF Holds
<1>17. 0..N \subseteq Holds
  BY <1>15, <1>16, EveryTurn
<1>18. \A i \in 1..N : s[i] \in S => \E j \in 1..Len(v[N]) : v[N][j] = s[i]
  BY <1>17 DEF Holds
<1>19. ToSet(v[N]) = ToSet(s) \cap S
  <2>1. v[N] \in Seq(ToSet(s) \cap S) /\ IsSeq(v[N])
    BY <1>12, <1>13 DEF T, IsSeq
  <2>2. /\ ToSet(v[N]) = {v[N][j] : j \in 1..Len(v[N])}
        /\ ToSet(s) = {s[i] : i \in 1..N}
    BY <1>13, <2>1, SeqOfEntries
  <2>3. \A j \in 1..Len(v[N]) : v[N][j] \in ToSet(s) \cap S
    BY <2>1
  <2>4. ASSUME NEW x \in ToSet(s) \cap S PROVE x \in ToSet(v[N])
    <3>1. PICK i \in 1..N : x = s[i] BY <2>2
    <3>. QED BY <1>18, <2>2, <3>1
  <2>. QED BY <2>2, <2>3, <2>4
<1>. QED BY <1>12, <1>13, <1>19 DEF T

\* FlattenSeq: where a join of the pieces is known turn by turn, it is the last.
LEMMA FlattenIs ==
  ASSUME NEW pages, IsSeq(pages), Len(pages) # 0, NEW v,
         v = [p \in 1..Len(pages) |-> IF p = 1 THEN pages[p] ELSE v[p - 1] \o pages[p]]
  PROVE  FlattenSeq(pages) = v[Len(pages)]
<1>. DEFINE Pass(f) == [p \in 1..Len(pages) |-> IF p = 1 THEN pages[p] ELSE f[p - 1] \o pages[p]]
            found == CHOOSE f : f = Pass(f)
<1>1. FlattenSeq(pages) = found[Len(pages)]
  BY DEF FlattenSeq
<1>2. found = Pass(found)
  <2>1. v = Pass(v) OBVIOUS
  <2>. QED BY <2>1
<1>. HIDE DEF found
<1>3. PICK N \in Nat : N = Len(pages)
  BY SeqFacts
<1>. DEFINE Holds == {n \in 0..N : n = 0 \/ found[n] = v[n]}
<1>4. 0 \in Holds
  OBVIOUS
<1>5. ASSUME NEW n \in 1..N, n - 1 \in Holds PROVE n \in Holds
  <2>1. /\ found[n] = IF n = 1 THEN pages[n] ELSE found[n - 1] \o pages[n]
        /\ v[n] = IF n = 1 THEN pages[n] ELSE v[n - 1] \o pages[n]
    BY <1>2, <1>3
  <2>2. CASE n = 1 BY <1>3, <2>1, <2>2
  <2>3. CASE n # 1
    <3>1. found[n - 1] = v[n - 1] BY <1>5, <2>3
    <3>2. found[n] = found[n - 1] \o pages[n] /\ v[n] = v[n - 1] \o pages[n]
      BY <2>1, <2>3
    <3>3. found[n] = v[n]
      BY <3>1, <3>2, Zenon
    <3>. QED BY <3>3
  <2>. QED BY <2>2, <2>3
<1>. HIDE DEF Holds
<1>6. 0..N \subseteq Holds
  BY <1>4, <1>5, EveryTurn
<1>7. found[N] = v[N]
  <2>1. N \in Holds /\ N # 0 BY <1>3, <1>6
  <2>. QED BY <2>1 DEF Holds
<1>. QED BY <1>1, <1>3, <1>7

\* A sequence cut in two is what is joined again.
LEMMA JoinPieces ==
  ASSUME NEW s, IsSeq(s), NEW b \in Nat, NEW e \in Nat, b <= e, e <= Len(s)
  PROVE  SubSeq(s, 1, b) \o SubSeq(s, b + 1, e) = SubSeq(s, 1, e)
<1>1. PICK S : s \in Seq(S)
  BY DEF IsSeq
<1>2. /\ SubSeq(s, 1, b) \in Seq(S) /\ Len(SubSeq(s, 1, b)) = b
      /\ \A i \in 1..b : SubSeq(s, 1, b)[i] = s[i]
  BY <1>1
<1>3. /\ SubSeq(s, 1, e) \in Seq(S) /\ Len(SubSeq(s, 1, e)) = e
      /\ \A i \in 1..e : SubSeq(s, 1, e)[i] = s[i]
  BY <1>1
<1>4. /\ SubSeq(s, b + 1, e) \in Seq(S) /\ Len(SubSeq(s, b + 1, e)) = e - b
      /\ \A i \in 1..(e - b) : SubSeq(s, b + 1, e)[i] = s[b + i]
  BY <1>1
<1>. DEFINE t == SubSeq(s, 1, b) \o SubSeq(s, b + 1, e)
<1>5. /\ t \in Seq(S) /\ Len(t) = e
      /\ \A i \in 1..e : t[i] = IF i <= b THEN SubSeq(s, 1, b)[i] ELSE SubSeq(s, b + 1, e)[i - b]
  BY <1>2, <1>4
<1>. HIDE DEF t
<1>6. \A i \in 1..e : t[i] = SubSeq(s, 1, e)[i]
  <2>1. ASSUME NEW i \in 1..e PROVE t[i] = s[i]
    <3>1. CASE i <= b BY <1>2, <1>5, <3>1
    <3>2. CASE i > b
      <4>1. i - b \in 1..(e - b) /\ b + (i - b) = i BY <3>2
      <4>. QED BY <1>4, <1>5, <3>2, <4>1
    <3>. QED BY <3>1, <3>2
  <2>. QED BY <1>3, <2>1
<1>7. t = SubSeq(s, 1, e)
  <2>1. IsSeq(t) /\ IsSeq(SubSeq(s, 1, e)) BY <1>3, <1>5 DEF IsSeq
  <2>2. Len(t) = e /\ Len(SubSeq(s, 1, e)) = e BY <1>3, <1>5
  <2>. QED BY <1>6, <2>1, <2>2, SameSeq
<1>. QED BY <1>7 DEF t

\* The whole of a sequence is itself, whatever it is of.
LEMMA WholeSeq ==
  ASSUME NEW s, IsSeq(s)
  PROVE  SubSeq(s, 1, Len(s)) = s
<1>1. PICK S : s \in Seq(S)
  BY DEF IsSeq
<1>. QED BY <1>1

\* The pages of a sequence, read one after the other, are the sequence.
LEMMA FlattenPaginate ==
  ASSUME NEW s, IsSeq(s), NEW size \in Nat \ {0}
  PROVE  FlattenSeq(Paginate(s, size)) = s
<1>1. PICK L \in Nat, n \in Nat : \E pages : PagesOf(pages, s, size, L, n)
  BY PaginateFacts
<1>2. PICK pages : PagesOf(pages, s, size, L, n)
  BY <1>1
<1>3. L = Len(s) /\ n = PageCount(L, size) /\ pages = Paginate(s, size)
  BY <1>2 DEF PagesOf
<1>4. /\ IsSeq(pages) /\ Len(pages) = n
      /\ \A p \in 1..n :
           /\ (p - 1) * size \in Nat
           /\ p * size = (p - 1) * size + size
           /\ pages[p] = SubSeq(s, (p - 1) * size + 1, IF p * size <= L THEN p * size ELSE L)
  BY <1>2 DEF PagesOf
<1>5. /\ L <= n * size /\ \A p \in 1..n : (p - 1) * size < L
  BY <1>3, PageCounts
<1>6. CASE n = 0
  <2>1. L = 0 BY <1>5, <1>6
  <2>2. FlattenSeq(pages) = pages BY <1>4, <1>6 DEF FlattenSeq
  <2>3. pages = s
    <3>1. \A i \in 1..Len(pages) : pages[i] = s[i] BY <1>4, <1>6
    <3>. QED BY <1>3, <1>4, <1>6, <2>1, <3>1, SameSeq
  <2>. QED BY <1>3, <2>2, <2>3
<1>7. CASE n # 0
  <2>. DEFINE upto(p) == IF p * size <= L THEN p * size ELSE L
              v == [p \in 1..n |-> SubSeq(s, 1, upto(p))]
  <2>1. ASSUME NEW p \in 1..n
        PROVE  v[p] = IF p = 1 THEN pages[p] ELSE v[p - 1] \o pages[p]
    <3>1. PICK b \in Nat : b = (p - 1) * size
      BY <1>4
    <3>2. PICK e \in Nat : e = upto(p)
      <4>1. p * size = b + size BY <1>4, <3>1
      <4>. QED BY <4>1
    <3>3. b < L /\ b <= e /\ e <= L
      BY <1>4, <1>5, <3>1, <3>2
    <3>4. pages[p] = SubSeq(s, b + 1, e) /\ v[p] = SubSeq(s, 1, e)
      BY <1>4, <3>1, <3>2
    <3>5. CASE p = 1 BY <3>1, <3>4, <3>5
    <3>6. CASE p # 1
      <4>1. p - 1 \in 1..n /\ upto(p - 1) = b BY <3>1, <3>3, <3>6
      <4>2. v[p - 1] = SubSeq(s, 1, b) BY <4>1
      <4>3. SubSeq(s, 1, b) \o SubSeq(s, b + 1, e) = SubSeq(s, 1, e)
        BY <1>3, <3>3, JoinPieces
      <4>. QED BY <3>4, <3>6, <4>2, <4>3
    <3>. QED BY <3>5, <3>6
  <2>2. v = [p \in 1..Len(pages) |-> IF p = 1 THEN pages[p] ELSE v[p - 1] \o pages[p]]
    <3>1. v = [p \in 1..n |-> v[p]] OBVIOUS
    <3>. HIDE DEF v
    <3>. QED BY <1>4, <2>1, <3>1
  <2>3. v[n] = s
    <3>1. upto(n) = L
      <4>1. n * size \in Nat OBVIOUS
      <4>. QED BY <1>5, <4>1
    <3>2. n \in 1..n BY <1>7
    <3>. QED BY <1>3, <3>1, <3>2, WholeSeq
  <2>. HIDE DEF v
  <2>4. FlattenSeq(pages) = v[Len(pages)]
    BY <1>4, <1>7, <2>2, FlattenIs
  <2>. QED BY <1>3, <1>4, <2>3, <2>4
<1>. QED BY <1>6, <1>7

\* One entry more is on the last page, which is rewritten, or begins a page.
LEMMA PaginateAppend ==
  ASSUME NEW s, IsSeq(s), NEW x, NEW size \in Nat \ {0}
  PROVE  LET pages == Paginate(s, size)
             after == Paginate(Append(s, x), size)
             page  == (Len(s) \div size) + 1
         IN  /\ page \in Nat /\ Len(after) = page
             /\ Len(pages) = IF Len(s) % size = 0 THEN page - 1 ELSE page
             /\ \A p \in 1..(page - 1) : after[p] = pages[p]
             /\ after[page] = Append(IF Len(s) % size = 0 THEN << >> ELSE pages[page], x)
             /\ after[page] = SubSeq(Append(s, x), (page - 1) * size + 1, Len(s) + 1)
<1>1. PICK L \in Nat, n \in Nat : \E pages : PagesOf(pages, s, size, L, n)
  BY PaginateFacts
<1>2. PICK pages : PagesOf(pages, s, size, L, n)
  BY <1>1
<1>a. L = Len(s) /\ n = PageCount(L, size) /\ pages = Paginate(s, size)
  BY <1>2 DEF PagesOf
<1>b. PICK t : t = Append(s, x)
  OBVIOUS
<1>3. PICK q \in Nat : q = L \div size
  BY Quotient
<1>4. PICK b \in Nat : b = q * size
  OBVIOUS
<1>5. b <= L /\ L < b + size /\ L % size = L - b
  BY <1>3, <1>4, Quotient
<1>6. /\ IsSeq(t) /\ Len(t) = L + 1
      /\ \A i \in 1..L : t[i] = s[i]
      /\ t[L + 1] = x
  BY <1>a, <1>b, AppendFacts
<1>7. (q + 1) * size = b + size
  BY <1>4
<1>8. PageCount(L + 1, size) = q + 1
  <2>1. /\ q + 1 \in Nat /\ L + 1 \in Nat
        /\ L + 1 <= (q + 1) * size /\ (q + 1) * size < (L + 1) + size
    BY <1>5, <1>7
  <2>. QED BY <2>1, PageCounts
<1>9. PageCount(L, size) = IF L % size = 0 THEN q ELSE q + 1
  <2>1. CASE L % size = 0
    <3>1. L <= q * size /\ q * size < L + size BY <1>4, <1>5, <2>1
    <3>. QED BY <2>1, <3>1, PageCounts
  <2>2. CASE L % size # 0
    <3>1. L <= (q + 1) * size /\ (q + 1) * size < L + size BY <1>5, <1>7, <2>2
    <3>. QED BY <2>2, <3>1, PageCounts
  <2>. QED BY <2>1, <2>2
<1>c. PICK M \in Nat, m \in Nat : \E after : PagesOf(after, t, size, M, m)
  BY <1>6, PaginateFacts
<1>d. PICK after : PagesOf(after, t, size, M, m)
  BY <1>c
<1>e. M = L + 1 /\ m = q + 1 /\ after = Paginate(t, size) /\ Len(after) = m /\ Len(pages) = n
  BY <1>2, <1>6, <1>8, <1>d DEF PagesOf
<1>10. \A p \in 1..(q + 1) :
         /\ (p - 1) * size \in Nat
         /\ p * size = (p - 1) * size + size
         /\ after[p] = SubSeq(t, (p - 1) * size + 1, IF p * size <= L + 1 THEN p * size ELSE L + 1)
         /\ IsSeq(after[p])
         /\ Len(after[p]) = (IF p * size <= L + 1 THEN size ELSE (L + 1) - (p - 1) * size)
         /\ \A i \in 1..Len(after[p]) : after[p][i] = t[(p - 1) * size + i]
  BY <1>d, <1>e DEF PagesOf
<1>11. n = PageCount(L, size)
  BY <1>a
<1>12. \A p \in 1..n :
         /\ (p - 1) * size \in Nat
         /\ p * size = (p - 1) * size + size
         /\ IsSeq(pages[p])
         /\ Len(pages[p]) = (IF p * size <= L THEN size ELSE L - (p - 1) * size)
         /\ \A i \in 1..Len(pages[p]) : pages[p][i] = s[(p - 1) * size + i]
  BY <1>2 DEF PagesOf
<1>13. ASSUME NEW p \in 1..q PROVE after[p] = pages[p]
  <2>1. p \in 1..(q + 1) /\ p \in 1..n BY <1>9, <1>11
  <2>2. p * size <= b
    <3>1. p \in Nat /\ p <= q OBVIOUS
    <3>. QED BY <1>4, <3>1
  <2>3. PICK a \in Nat : a = (p - 1) * size BY <1>12, <2>1
  <2>4. /\ IsSeq(after[p]) /\ IsSeq(pages[p]) /\ Len(after[p]) = size /\ Len(pages[p]) = size
        /\ a + size <= L
        /\ \A i \in 1..size : after[p][i] = t[a + i] /\ pages[p][i] = s[a + i]
    <3>1. p * size = a + size /\ a + size <= L BY <1>5, <1>12, <2>1, <2>2, <2>3
    <3>. QED BY <1>10, <1>12, <2>1, <2>3, <3>1
  <2>5. \A i \in 1..size : a + i \in 1..L BY <2>4
  <2>6. \A i \in 1..size : after[p][i] = pages[p][i] BY <1>6, <2>4, <2>5
  <2>. QED BY <2>4, <2>6, SameSeq
<1>14. /\ after[q + 1] = SubSeq(t, b + 1, L + 1)
       /\ IsSeq(after[q + 1]) /\ Len(after[q + 1]) = (L + 1) - b
       /\ \A i \in 1..((L + 1) - b) : after[q + 1][i] = t[b + i]
  <2>1. q + 1 \in 1..(q + 1) /\ (q + 1) - 1 = q OBVIOUS
  <2>2. (IF b + size <= L + 1 THEN b + size ELSE L + 1) = L + 1
        /\ (IF b + size <= L + 1 THEN size ELSE (L + 1) - b) = (L + 1) - b
    BY <1>5
  <2>3. /\ after[q + 1] = SubSeq(t, q * size + 1, IF (q + 1) * size <= L + 1 THEN (q + 1) * size ELSE L + 1)
        /\ IsSeq(after[q + 1])
        /\ Len(after[q + 1]) = (IF (q + 1) * size <= L + 1 THEN size ELSE (L + 1) - q * size)
        /\ \A i \in 1..Len(after[q + 1]) : after[q + 1][i] = t[q * size + i]
    BY <1>10, <2>1
  <2>. QED BY <1>4, <1>7, <2>2, <2>3
<1>15. after[q + 1] = Append(IF L % size = 0 THEN << >> ELSE pages[q + 1], x)
  <2>. DEFINE old == IF L % size = 0 THEN << >> ELSE pages[q + 1]
  <2>1. IsSeq(old) /\ Len(old) = L - b /\ \A i \in 1..(L - b) : old[i] = s[b + i]
    <3>1. CASE L % size = 0
      <4>1. << >> \in Seq({}) OBVIOUS
      <4>. QED BY <1>5, <3>1, <4>1 DEF IsSeq
    <3>2. CASE L % size # 0
      <4>1. n = q + 1 /\ q + 1 \in 1..n /\ (q + 1) - 1 = q BY <1>9, <1>11, <3>2
      <4>2. IsSeq(pages[q + 1]) /\ Len(pages[q + 1]) = L - b
        <5>1. IsSeq(pages[q + 1]) BY <1>12, <4>1
        <5>2. Len(pages[q + 1]) = IF b + size <= L THEN size ELSE L - b
          BY <1>4, <1>7, <1>12, <4>1
        <5>. QED BY <1>5, <5>1, <5>2
      <4>3. \A i \in 1..(L - b) : pages[q + 1][i] = s[b + i]
        BY <1>4, <1>12, <4>1, <4>2
      <4>. QED BY <3>2, <4>2, <4>3
    <3>. QED BY <3>1, <3>2
  <2>. HIDE DEF old
  <2>2. /\ IsSeq(Append(old, x)) /\ Len(Append(old, x)) = (L + 1) - b
        /\ \A i \in 1..(L - b) : Append(old, x)[i] = old[i]
        /\ Append(old, x)[(L - b) + 1] = x
    BY <1>5, <2>1, AppendFacts
  <2>3. ASSUME NEW i \in 1..((L + 1) - b) PROVE after[q + 1][i] = Append(old, x)[i]
    <3>1. CASE i = (L - b) + 1
      <4>1. b + i = L + 1 BY <3>1
      <4>2. i \in 1..((L + 1) - b) OBVIOUS
      <4>. QED BY <1>6, <1>14, <2>2, <3>1, <4>1, <4>2
    <3>2. CASE i \in 1..(L - b)
      <4>1. b + i \in 1..L /\ i \in 1..((L + 1) - b) BY <1>5, <3>2
      <4>2. after[q + 1][i] = s[b + i] BY <1>6, <1>14, <4>1
      <4>3. Append(old, x)[i] = s[b + i] BY <2>1, <2>2, <3>2
      <4>. QED BY <4>2, <4>3
    <3>3. i = (L - b) + 1 \/ i \in 1..(L - b)
      OBVIOUS
    <3>. QED BY <3>1, <3>2, <3>3, Zenon
  <2>4. after[q + 1] = Append(old, x)
    BY <1>14, <2>2, <2>3, SameSeq
  <2>. QED BY <2>4 DEF old
<1>16. /\ n = (IF L % size = 0 THEN (q + 1) - 1 ELSE q + 1)
       /\ \A p \in 1..((q + 1) - 1) : after[p] = pages[p]
       /\ after[q + 1] = SubSeq(t, ((q + 1) - 1) * size + 1, L + 1)
  <2>1. (q + 1) - 1 = q OBVIOUS
  <2>. QED BY <1>4, <1>9, <1>11, <1>13, <1>14, <2>1
<1>. QED BY <1>a, <1>b, <1>e, <1>3, <1>15, <1>16

-----------------------------------------------------------------------------
(* Orders *)

\* The image of a finite set is finite.
LEMMA ImageFinite ==
  ASSUME NEW S, IsFiniteSet(S), NEW f
  PROVE  IsFiniteSet({f[x] : x \in S})
<1>. DEFINE T == {f[x] : x \in S}
            g == [x \in S |-> f[x]]
<1>1. g \in Surjection(S, T)
  BY DEF Surjection
<1>. HIDE DEF g, T
<1>2. IsFiniteSet(T)
  BY <1>1, FS_Surjection
<1>. QED BY <1>2 DEF T

\* A relation that orders a set.
Orders(R, S) ==
  /\ \A x \in S : <<x, x>> \notin R
  /\ \A x, y \in S : x # y => <<x, y>> \in R \/ <<y, x>> \in R
  /\ \A x, y, z \in S : <<x, y>> \in R /\ <<y, z>> \in R => <<x, z>> \in R

\* A finite set in an order has every member at one place.
LEMMA InOrderFacts ==
  ASSUME NEW S, IsFiniteSet(S), NEW R, Orders(R, S)
  PROVE  /\ IsSeq(InOrder(S, R)) /\ Len(InOrder(S, R)) = Cardinality(S)
         /\ \A i \in 1..Cardinality(S) : InOrder(S, R)[i] \in S
         /\ \A x \in S : \E i \in 1..Cardinality(S) : InOrder(S, R)[i] = x
         /\ \A i, j \in 1..Cardinality(S) : InOrder(S, R)[i] = InOrder(S, R)[j] => i = j
<1>1. PICK N \in Nat : N = Cardinality(S)
  BY FS_CardinalityType
<1>. DEFINE below(x) == {y \in S : <<y, x>> \in R}
            rank == [x \in S |-> Cardinality(below(x))]
            order == InOrder(S, R)
<1>2. ASSUME NEW x \in S PROVE IsFiniteSet(below(x)) /\ rank[x] \in 0..(N - 1)
  <2>1. below(x) \in SUBSET S /\ x \notin below(x) BY DEF Orders
  <2>. HIDE DEF below
  <2>2. /\ IsFiniteSet(below(x)) /\ Cardinality(below(x)) <= Cardinality(S)
        /\ Cardinality(S) = Cardinality(below(x)) => S = below(x)
    BY <2>1, FS_Subset
  <2>3. Cardinality(below(x)) \in Nat BY <2>2, FS_CardinalityType
  <2>. QED BY <1>1, <2>1, <2>2, <2>3
<1>3. ASSUME NEW x \in S, NEW y \in S, <<x, y>> \in R PROVE rank[x] < rank[y]
  <2>1. below(x) \in SUBSET below(y) /\ x \in below(y) /\ x \notin below(x)
    BY <1>3 DEF Orders
  <2>2. IsFiniteSet(below(x)) /\ IsFiniteSet(below(y)) BY <1>2
  <2>. HIDE DEF below
  <2>3. /\ Cardinality(below(x)) <= Cardinality(below(y))
        /\ Cardinality(below(y)) = Cardinality(below(x)) => below(y) = below(x)
    BY <2>1, <2>2, FS_Subset
  <2>4. Cardinality(below(x)) \in Nat /\ Cardinality(below(y)) \in Nat
    BY <2>2, FS_CardinalityType
  <2>5. Cardinality(below(x)) < Cardinality(below(y)) BY <2>1, <2>3, <2>4
  <2>. QED BY <2>5
<1>4. order = [i \in 1..N |-> CHOOSE x \in S : Cardinality(below(x)) = i - 1]
  BY <1>1 DEF InOrder
<1>5. \A x, y \in S : rank[x] = rank[y] => x = y
  <2>1. ASSUME NEW x \in S, NEW y \in S, rank[x] = rank[y], x # y PROVE FALSE
    <3>. HIDE DEF rank, below
    <3>1. rank[x] \in 0..(N - 1) /\ rank[y] \in 0..(N - 1) BY <1>2
    <3>2. <<x, y>> \in R \/ <<y, x>> \in R BY <2>1 DEF Orders
    <3>. QED BY <1>3, <2>1, <3>1, <3>2
  <2>. QED BY <2>1
<1>6. \A x \in S : rank[x] = Cardinality(below(x))
  OBVIOUS
<1>7. rank \in [S -> 0..(N - 1)]
  BY <1>2
<1>. HIDE DEF rank, below
<1>8. rank \in Surjection(S, 0..(N - 1))
  <2>1. IsFiniteSet(0..(N - 1)) /\ Cardinality(0..(N - 1)) = N
    <3>1. 0 \in Int /\ N - 1 \in Int OBVIOUS
    <3>2. /\ IsFiniteSet(0..(N - 1))
          /\ Cardinality(0..(N - 1)) = IF 0 > N - 1 THEN 0 ELSE (N - 1) - 0 + 1
      BY <3>1, FS_Interval
    <3>. QED BY <3>2
  <2>2. rank \in Injection(S, 0..(N - 1)) BY <1>5, <1>7 DEF Injection, IsInjective
  <2>. QED BY <1>1, <2>1, <2>2, FS_Injection
<1>9. ASSUME NEW i \in 1..N PROVE order[i] \in S /\ rank[order[i]] = i - 1
  <2>1. i - 1 \in 0..(N - 1) OBVIOUS
  <2>2. \E x \in S : rank[x] = i - 1 BY <1>8, <2>1 DEF Surjection
  <2>3. \E x \in S : Cardinality(below(x)) = i - 1 BY <1>6, <2>2
  <2>4. order[i] = CHOOSE x \in S : Cardinality(below(x)) = i - 1
    BY <1>4
  <2>5. order[i] \in S /\ Cardinality(below(order[i])) = i - 1
    BY <2>3, <2>4
  <2>. QED BY <1>6, <2>5
<1>10. IsSeq(order) /\ Len(order) = N
  <2>1. order = [i \in 1..N |-> order[i]] BY <1>4
  <2>. HIDE DEF order
  <2>. QED BY <2>1, MadeSeq
<1>11. ASSUME NEW x \in S PROVE \E i \in 1..N : order[i] = x
  <2>1. rank[x] + 1 \in 1..N /\ (rank[x] + 1) - 1 = rank[x] BY <1>7
  <2>2. order[rank[x] + 1] \in S /\ rank[order[rank[x] + 1]] = rank[x] BY <1>9, <2>1
  <2>3. order[rank[x] + 1] = x BY <1>5, <2>2
  <2>. QED BY <2>1, <2>3
<1>12. ASSUME NEW i \in 1..N, NEW j \in 1..N, order[i] = order[j] PROVE i = j
  <2>1. i - 1 = j - 1 BY <1>9, <1>12
  <2>. QED BY <2>1
<1>. QED BY <1>1, <1>9, <1>10, <1>11, <1>12 DEF order

\* The order of numbers is one.
LEMMA NumbersOrdered ==
  ASSUME NEW S \in SUBSET Nat
  PROVE  Orders({pair \in S \X S : pair[1] < pair[2]}, S)
<1>. DEFINE R == {pair \in S \X S : pair[1] < pair[2]}
<1>1. \A x, y \in S : <<x, y>> \in R <=> x < y
  OBVIOUS
<1>2. S \subseteq Nat
  OBVIOUS
<1>. HIDE DEF R
<1>3. /\ \A x \in S : <<x, x>> \notin R
      /\ \A x, y \in S : x # y => <<x, y>> \in R \/ <<y, x>> \in R
      /\ \A x, y, z \in S : <<x, y>> \in R /\ <<y, z>> \in R => <<x, z>> \in R
  BY <1>1, <1>2
<1>4. Orders(R, S)
  BY <1>3 DEF Orders
<1>. QED BY <1>4 DEF R

-----------------------------------------------------------------------------
(* What a generation stands for *)

\* What TLC takes for a sequence is one.
LEMMA SequencesAgree ==
  ASSUME NEW s
  PROVE  IsSequence(s) <=> IsSeq(s)
<1>1. ASSUME IsSequence(s) PROVE IsSeq(s)
  <2>1. PICK n \in Nat : n = Len(s)
    BY <1>1 DEF IsSequence
  <2>2. s = [i \in 1..n |-> s[i]]
    BY <1>1, <2>1 DEF IsSequence
  <2>. QED BY <2>2, MadeSeq
<1>2. ASSUME IsSeq(s) PROVE IsSequence(s)
  BY <1>2, SeqFacts DEF IsSequence
<1>. QED BY <1>1, <1>2

\* The card of an issue as it is stored, and the cards of a board.
CardOf(issue, closedAt) ==
  [issue |-> issue, closedAt |-> closedAt, count |-> Len(issue.comments),
   activity |-> NewestComment(issue.comments)]

CardsAre(issues, closedAt) == [n \in DOMAIN issues |-> CardOf(issues[n], closedAt[n])]

\* The pages of a thread, the snapshot of a card and the entry that names it.
ThreadRefs(n, comments) ==
  [p \in DOMAIN Paginate(comments, CommentPageSize) |->
     CommentPageShard(n, p, Paginate(comments, CommentPageSize)[p])]

EntryFor(n, card) ==
  [number |-> n, ref |-> SnapshotShard(n, card, ThreadRefs(n, card.issue.comments))]

\* A directory holds every card at one place, and no page names nothing.
Named(cards, place, p) == {EntryFor(n, cards[n]) : n \in {n \in DOMAIN cards : place[n] = p}}

Directory(refs, cards, place) ==
  /\ IsSeq(refs)
  /\ place \in [DOMAIN cards -> 1..Len(refs)]
  /\ \A p \in 1..Len(refs) :
       refs[p] = IF Named(cards, place, p) = {} THEN NoRef
                 ELSE DirectoryShard(p, Named(cards, place, p))

\* List pages hold the rows in order; a page carried forward keeps the total it
\* was written with.
Lists(refs, state, rows) ==
  refs = [p \in DOMAIN Paginate(rows, IssuePageSize) |->
            ListShard(state, p, refs[p].total, Paginate(rows, IssuePageSize)[p])]

\* Feed pages hold the feed in order.
Feeds(refs, feed) ==
  refs = [p \in DOMAIN Paginate(feed, FeedPageSize) |->
            [type |-> "feed", page |-> p, entries |-> Paginate(feed, FeedPageSize)[p]]]

\* A generation is a board, its closing times and its feed, in shards.
Represents(meta, board, feed, closedAt) ==
  /\ IsBoard(board) /\ IsSeq(feed) /\ closedAt \in [DOMAIN board.issues -> Nat]
  /\ \E place : Directory(meta.directoryRefs, CardsAre(board.issues, closedAt), place)
  /\ Lists(meta.openPageRefs, "open",
           OrderedSummaries(CardsAre(board.issues, closedAt), board.queue, "open"))
  /\ Lists(meta.closedPageRefs, "closed",
           OrderedSummaries(CardsAre(board.issues, closedAt), board.queue, "closed"))
  /\ Feeds(meta.feedPageRefs, feed) /\ meta.feedCount = Len(feed)
  /\ meta.queueRef = QueueShard(board.queue) /\ meta.catalogRef = CatalogShard(FALSE)
  /\ meta.openIssueCount = CountOf(board, "open")
  /\ meta.closedIssueCount = CountOf(board, "closed")
  /\ meta.deleted = board.deleted

-----------------------------------------------------------------------------
(* Reading a generation *)

\* Pages whose entries are those of a sequence are read as that sequence.
LEMMA PagesRead ==
  ASSUME NEW s, IsSeq(s), NEW size \in Nat \ {0}, NEW t,
         t = [p \in DOMAIN Paginate(s, size) |-> Paginate(s, size)[p]]
  PROVE  FlattenSeq(t) = s
<1>1. IsSeq(Paginate(s, size))
  <2>1. PICK L \in Nat, n \in Nat : \E pages : PagesOf(pages, s, size, L, n)
    BY PaginateFacts
  <2>. QED BY <2>1 DEF PagesOf
<1>2. Paginate(s, size) = [p \in DOMAIN Paginate(s, size) |-> Paginate(s, size)[p]]
  BY <1>1, SeqFacts
<1>3. t = Paginate(s, size)
  BY <1>2
<1>. QED BY <1>3, FlattenPaginate

\* The thread of a stored snapshot is the thread that was stored.
LEMMA ThreadRead ==
  ASSUME NEW n, NEW card, IsIssue(card.issue)
  PROVE  Thread(SnapshotShard(n, card, ThreadRefs(n, card.issue.comments))) = card.issue.comments
<1>. DEFINE comments == card.issue.comments
            pages == Paginate(comments, CommentPageSize)
            refs == ThreadRefs(n, comments)
<1>1. IsSeq(comments)
  BY SequencesAgree DEF IsIssue
<1>2. CommentPageSize \in Nat \ {0}
  BY PageSizes
<1>3. SnapshotShard(n, card, refs).commentRefs = refs
  BY DEF SnapshotShard
<1>4. DOMAIN refs = DOMAIN pages /\ \A p \in DOMAIN pages : refs[p].messages = pages[p]
  BY DEF ThreadRefs, CommentPageShard
<1>. HIDE DEF comments, pages, refs
<1>5. [p \in DOMAIN refs |-> refs[p].messages] = [p \in DOMAIN pages |-> pages[p]]
  BY <1>4
<1>6. FlattenSeq([p \in DOMAIN refs |-> refs[p].messages]) = comments
  BY <1>1, <1>2, <1>5, PagesRead DEF pages
<1>7. Thread(SnapshotShard(n, card, refs)) = comments
  BY <1>3, <1>6 DEF Thread
<1>. QED BY <1>7 DEF comments, refs

\* A snapshot is read as the card it was written from.
LEMMA SnapshotRead ==
  ASSUME NEW n, NEW issue, IsIssue(issue), NEW closedAt
  PROVE  CardOfSnapshot(EntryFor(n, CardOf(issue, closedAt)).ref) = CardOf(issue, closedAt)
<1>1. PICK snapshot : snapshot = EntryFor(n, CardOf(issue, closedAt)).ref
  OBVIOUS
<1>2. snapshot = SnapshotShard(n, CardOf(issue, closedAt), ThreadRefs(n, issue.comments))
  BY <1>1 DEF EntryFor, CardOf
<1>3. Thread(snapshot) = issue.comments
  <2>1. CardOf(issue, closedAt).issue = issue BY DEF CardOf
  <2>. QED BY <1>2, <2>1, ThreadRead
<1>4. /\ snapshot.core = CoreOf(issue) /\ snapshot.closedAt = closedAt
      /\ snapshot.messageCount = Len(issue.comments)
      /\ snapshot.lastActivityAt = NewestComment(issue.comments)
  BY <1>2 DEF SnapshotShard, CardOf
<1>5. [snapshot.core EXCEPT !.comments = Thread(snapshot)] = issue
  <2>1. [CoreOf(issue) EXCEPT !.comments = issue.comments] = issue
    BY DEF CoreOf, IsIssue
  <2>. QED BY <1>3, <1>4, <2>1
<1>6. CardOfSnapshot(snapshot) = CardOf(issue, closedAt)
  BY <1>4, <1>5 DEF CardOfSnapshot, CardOf
<1>. QED BY <1>1, <1>6

\* What the directory names is an entry for each card.
LEMMA DirectoryRead ==
  ASSUME NEW meta, NEW cards, NEW place, Directory(meta.directoryRefs, cards, place)
  PROVE  DirectoryEntries(meta) = {EntryFor(n, cards[n]) : n \in DOMAIN cards}
<1>. DEFINE refs == meta.directoryRefs
<1>1. Len(refs) \in Nat /\ ToSet(refs) = {refs[p] : p \in 1..Len(refs)}
  BY SeqFacts, SeqOfEntries DEF Directory
<1>a. \A N, p : DirectoryShard(p, N).named = N /\ DirectoryShard(p, N) # NoRef
  <2>1. \A N, p : DirectoryShard(p, N).type # NoRef.type
    BY DEF DirectoryShard, NoRef
  <2>. QED BY <2>1 DEF DirectoryShard
<1>b. ASSUME NEW p \in 1..Len(refs)
      PROVE  refs[p] = IF Named(cards, place, p) = {} THEN NoRef
                       ELSE DirectoryShard(p, Named(cards, place, p))
  BY <1>b, Zenon DEF Directory
<1>2. ASSUME NEW p \in 1..Len(refs), refs[p] # NoRef PROVE refs[p].named = Named(cards, place, p)
  BY <1>a, <1>b, <1>2, Zenon
<1>3. ASSUME NEW p \in 1..Len(refs), Named(cards, place, p) # {} PROVE refs[p] # NoRef
  BY <1>a, <1>b, <1>3, Zenon
<1>. HIDE DEF refs
<1>4. ASSUME NEW e \in DirectoryEntries(meta) PROVE \E n \in DOMAIN cards : e = EntryFor(n, cards[n])
  <2>1. PICK p \in 1..Len(refs) : refs[p] # NoRef /\ e \in refs[p].named
    BY <1>1 DEF DirectoryEntries, refs
  <2>. QED BY <1>2, <2>1 DEF Named
<1>5. ASSUME NEW n \in DOMAIN cards PROVE EntryFor(n, cards[n]) \in DirectoryEntries(meta)
  <2>1. place[n] \in 1..Len(refs) BY DEF Directory, refs
  <2>2. EntryFor(n, cards[n]) \in Named(cards, place, place[n]) BY DEF Named
  <2>3. refs[place[n]] # NoRef /\ EntryFor(n, cards[n]) \in refs[place[n]].named
    BY <1>2, <1>3, <2>1, <2>2
  <2>. QED BY <1>1, <2>1, <2>3 DEF DirectoryEntries, refs
<1>. QED BY <1>4, <1>5

\* An entry is known by its number.
LEMMA EntryRead ==
  ASSUME NEW meta, NEW cards, NEW place, Directory(meta.directoryRefs, cards, place),
         NEW n \in DOMAIN cards
  PROVE  EntryOf(meta, n) = EntryFor(n, cards[n])
<1>1. DirectoryEntries(meta) = {EntryFor(i, cards[i]) : i \in DOMAIN cards}
  BY DirectoryRead
<1>2. \A i \in DOMAIN cards : EntryFor(i, cards[i]).number = i
  BY DEF EntryFor
<1>3. \A e \in DirectoryEntries(meta) : e.number = n <=> e = EntryFor(n, cards[n])
  BY <1>1, <1>2
<1>4. EntryFor(n, cards[n]) \in DirectoryEntries(meta)
  BY <1>1
<1>. QED BY <1>3, <1>4 DEF EntryOf

\* readBundle reads the cards that were stored.
LEMMA FullCardsRead ==
  ASSUME NEW meta, NEW board, IsBoard(board), NEW closedAt, NEW place,
         Directory(meta.directoryRefs, CardsAre(board.issues, closedAt), place)
  PROVE  FullCards(meta) = CardsAre(board.issues, closedAt)
<1>. DEFINE cards == CardsAre(board.issues, closedAt)
<1>1. /\ DirectoryEntries(meta) = {EntryFor(n, cards[n]) : n \in DOMAIN cards}
      /\ \A n \in DOMAIN cards : EntryOf(meta, n) = EntryFor(n, cards[n])
  BY DirectoryRead, EntryRead
<1>2. /\ DOMAIN cards = DOMAIN board.issues
      /\ \A n \in DOMAIN cards : cards[n] = CardOf(board.issues[n], closedAt[n])
      /\ cards = [n \in DOMAIN cards |-> cards[n]]
  BY DEF CardsAre
<1>. HIDE DEF cards
<1>3. {e.number : e \in DirectoryEntries(meta)} = DOMAIN cards
  <2>1. \A n \in DOMAIN cards : EntryFor(n, cards[n]).number = n BY DEF EntryFor
  <2>2. \A e \in DirectoryEntries(meta) : \E n \in DOMAIN cards : e = EntryFor(n, cards[n])
    BY <1>1
  <2>3. \A n \in DOMAIN cards : EntryFor(n, cards[n]) \in DirectoryEntries(meta)
    BY <1>1
  <2>4. ASSUME NEW k \in {e.number : e \in DirectoryEntries(meta)} PROVE k \in DOMAIN cards
    <3>1. PICK e \in DirectoryEntries(meta) : k = e.number
      OBVIOUS
    <3>. QED BY <2>1, <2>2, <3>1
  <2>5. ASSUME NEW n \in DOMAIN cards PROVE n \in {e.number : e \in DirectoryEntries(meta)}
    BY <2>1, <2>3
  <2>. QED BY <2>4, <2>5
<1>4. \A n \in DOMAIN cards : CardOfSnapshot(EntryOf(meta, n).ref) = cards[n]
  BY <1>1, <1>2, SnapshotRead DEF IsBoard
<1>5. FullCards(meta) = [n \in DOMAIN cards |-> CardOfSnapshot(EntryOf(meta, n).ref)]
  BY <1>3 DEF FullCards
<1>. QED BY <1>2, <1>4, <1>5 DEF cards

\* The pages of a sequence hold all its entries and nothing else.
LEMMA PagesCover ==
  ASSUME NEW s, IsSeq(s), NEW size \in Nat \ {0}
  PROVE  /\ DOMAIN Paginate(s, size) = 1..Len(Paginate(s, size))
         /\ \A p \in DOMAIN Paginate(s, size) : ToSet(Paginate(s, size)[p]) \subseteq ToSet(s)
         /\ \A x \in ToSet(s) : \E p \in DOMAIN Paginate(s, size) : x \in ToSet(Paginate(s, size)[p])
<1>1. PICK L \in Nat, n \in Nat : \E pages : PagesOf(pages, s, size, L, n)
  BY PaginateFacts
<1>2. PICK pages : PagesOf(pages, s, size, L, n)
  BY <1>1
<1>3. /\ L = Len(s) /\ pages = Paginate(s, size) /\ n = PageCount(L, size)
      /\ IsSeq(pages) /\ Len(pages) = n /\ DOMAIN pages = 1..n
  BY <1>2, SeqFacts DEF PagesOf
<1>4. ToSet(s) = {s[i] : i \in 1..L}
  BY <1>3, SeqOfEntries
<1>5. ASSUME NEW p \in 1..n
      PROVE  /\ ToSet(pages[p]) = {pages[p][i] : i \in 1..Len(pages[p])}
             /\ (p - 1) * size \in Nat /\ p * size = (p - 1) * size + size
             /\ Len(pages[p]) = (IF p * size <= L THEN size ELSE L - (p - 1) * size)
             /\ \A i \in 1..Len(pages[p]) : (p - 1) * size + i \in 1..L /\ pages[p][i] = s[(p - 1) * size + i]
  BY <1>2, SeqOfEntries DEF PagesOf
<1>6. ASSUME NEW p \in 1..n PROVE ToSet(pages[p]) \subseteq ToSet(s)
  <2>1. ASSUME NEW x \in ToSet(pages[p]) PROVE x \in ToSet(s)
    <3>0. ToSet(pages[p]) = {pages[p][i] : i \in 1..Len(pages[p])} BY <1>5
    <3>1. PICK i \in 1..Len(pages[p]) : x = pages[p][i] BY <3>0, Zenon
    <3>2. (p - 1) * size + i \in 1..L /\ x = s[(p - 1) * size + i] BY <1>5, <3>1
    <3>. QED BY <1>4, <3>2
  <2>. QED BY <2>1
<1>7. ASSUME NEW x \in ToSet(s) PROVE \E p \in 1..n : x \in ToSet(pages[p])
  <2>1. PICK k \in 1..L : x = s[k]
    BY <1>4
  <2>2. PICK q \in Nat : q = (k - 1) \div size
    <3>1. k - 1 \in Nat OBVIOUS
    <3>. QED BY <3>1, Quotient
  <2>3. PICK b \in Nat : b = q * size
    OBVIOUS
  <2>4. b <= k - 1 /\ k - 1 < b + size
    BY <2>2, <2>3, Quotient
  <2>5. q + 1 \in 1..n
    <3>1. L <= n * size BY <1>3, PageCounts
    <3>2. CASE n <= q
      <4>1. n * size <= q * size BY <3>2
      <4>. QED BY <2>3, <2>4, <3>1, <4>1
    <3>. QED BY <3>2
  <2>6. (q + 1) - 1 = q
    OBVIOUS
  <2>7. /\ ToSet(pages[q + 1]) = {pages[q + 1][i] : i \in 1..Len(pages[q + 1])}
        /\ (q + 1) * size = b + size
        /\ Len(pages[q + 1]) = (IF (q + 1) * size <= L THEN size ELSE L - b)
        /\ \A i \in 1..Len(pages[q + 1]) : pages[q + 1][i] = s[b + i]
    BY <1>5, <2>3, <2>5, <2>6
  <2>8. k - b \in 1..Len(pages[q + 1]) /\ b + (k - b) = k
    BY <2>4, <2>7
  <2>9. pages[q + 1][k - b] = x
    BY <2>1, <2>7, <2>8
  <2>. QED BY <2>5, <2>7, <2>8, <2>9
<1>. QED BY <1>3, <1>6, <1>7

\* Two ways to hold the cards of one board that say the same in the list pages.
SameRows(cards, others) ==
  /\ DOMAIN cards = DOMAIN others
  /\ \A n \in DOMAIN cards : Summary(n, cards[n]) = Summary(n, others[n])

\* Cards with the same rows have the same state, thread length and activity.
LEMMA SameRowsSameState ==
  ASSUME NEW cards, NEW others, SameRows(cards, others), NEW n \in DOMAIN cards
  PROVE  /\ cards[n].issue.state = others[n].issue.state
         /\ cards[n].count = others[n].count
         /\ cards[n].activity = others[n].activity
<1>1. \A c : /\ Summary(n, c).state = c.issue.state
             /\ Summary(n, c).messageCount = c.count
             /\ Summary(n, c).lastActivityAt = c.activity
  BY DEF Summary
<1>2. Summary(n, cards[n]) = Summary(n, others[n])
  BY DEF SameRows
<1>. QED BY <1>1, <1>2

\* orderedSummaries reads only what the rows say.
LEMMA SameOrder ==
  ASSUME NEW cards, NEW others, SameRows(cards, others), NEW queue, IsSeq(queue), NEW state
  PROVE  OrderedSummaries(cards, queue, state) = OrderedSummaries(others, queue, state)
<1>1. DOMAIN cards = DOMAIN others
  BY DEF SameRows
<1>2. \A x : {n \in DOMAIN cards : cards[n].issue.state = x}
              = {n \in DOMAIN others : others[n].issue.state = x}
  BY <1>1, SameRowsSameState
<1>. DEFINE In(x) == {n \in DOMAIN cards : cards[n].issue.state = x}
            rows(c) == {Summary(n, c[n]) : n \in In(state)}
            open == OnlyIn(queue, In("open"))
            sorted(R) == InOrder(R, {pair \in R \X R : ClosesBefore(pair[1], pair[2])})
<1>3. rows(cards) = rows(others)
  BY DEF SameRows
<1>4. [i \in DOMAIN open |-> Summary(open[i], cards[open[i]])]
        = [i \in DOMAIN open |-> Summary(open[i], others[open[i]])]
  <2>1. open \in Seq(ToSet(queue) \cap In("open"))
    BY OnlyInFacts
  <2>. HIDE DEF open
  <2>2. \A i \in DOMAIN open : open[i] \in In("open")
    <3>1. DOMAIN open = 1..Len(open) BY <2>1
    <3>. QED BY <2>1, <3>1
  <2>3. \A i \in DOMAIN open : Summary(open[i], cards[open[i]]) = Summary(open[i], others[open[i]])
    BY <2>2 DEF SameRows
  <2>. QED BY <2>3
<1>5. OrderedSummaries(cards, queue, state)
        = IF state = "closed"
          THEN sorted(rows(cards))
          ELSE [i \in DOMAIN open |-> Summary(open[i], cards[open[i]])]
  BY DEF OrderedSummaries
<1>6. OrderedSummaries(others, queue, state)
        = IF state = "closed"
          THEN sorted(rows(others))
          ELSE [i \in DOMAIN open |-> Summary(open[i], others[open[i]])]
  <2>1. {n \in DOMAIN others : others[n].issue.state = state} = In(state)
        /\ {n \in DOMAIN others : others[n].issue.state = "open"} = In("open")
    BY <1>2
  <2>. QED BY <2>1 DEF OrderedSummaries
<1>7. sorted(rows(cards)) = sorted(rows(others))
  <2>. HIDE DEF rows, sorted
  <2>. QED BY <1>3, Zenon
<1>. HIDE DEF rows, open, sorted
<1>. QED BY <1>4, <1>5, <1>6, <1>7

-----------------------------------------------------------------------------
(* List pages *)

InState(cards, state) == {n \in DOMAIN cards : cards[n].issue.state = state}

RowsIn(cards, state) == {Summary(n, cards[n]) : n \in InState(cards, state)}

\* Cards that can be put in order.
Orderly(cards) ==
  /\ DOMAIN cards \subseteq Nat /\ IsFiniteSet(DOMAIN cards)
  /\ \A n \in DOMAIN cards : /\ cards[n].issue.state \in {"open", "closed"}
                             /\ cards[n].issue.updatedAt \in Nat
                             /\ cards[n].closedAt \in Nat

\* The closing order is an order: two issues closed at one time differ by number.
LEMMA ClosingOrders ==
  ASSUME NEW cards, Orderly(cards), NEW state, NEW rows, rows = RowsIn(cards, state)
  PROVE  Orders({pair \in rows \X rows : ClosesBefore(pair[1], pair[2])}, rows)
<1>. DEFINE R == {pair \in rows \X rows : ClosesBefore(pair[1], pair[2])}
<1>1. \A x, y \in rows : <<x, y>> \in R <=> ClosesBefore(x, y)
  OBVIOUS
<1>2. ASSUME NEW x \in rows PROVE x.number \in Nat /\ x.closedAt \in Nat
                                  /\ x = Summary(x.number, cards[x.number])
  <2>1. PICK n \in InState(cards, state) : x = Summary(n, cards[n])
    BY DEF RowsIn
  <2>2. x.number = n /\ x.closedAt = IF cards[n].issue.state # "closed" THEN Never
                                     ELSE IF cards[n].closedAt # Never THEN cards[n].closedAt
                                     ELSE cards[n].issue.updatedAt
    BY <2>1 DEF Summary
  <2>3. n \in DOMAIN cards /\ n \in Nat /\ cards[n].closedAt \in Nat
        /\ cards[n].issue.updatedAt \in Nat
    BY DEF InState, Orderly
  <2>4. x.closedAt \in Nat
    BY <2>2, <2>3 DEF Never
  <2>. QED BY <2>1, <2>2, <2>3, <2>4
<1>3. \A x, y \in rows : x # y => x.number # y.number
  BY <1>2
<1>4. \A x, y \in rows : <<x, y>> \in R <=>
         x.closedAt > y.closedAt \/ (x.closedAt = y.closedAt /\ x.number > y.number)
  BY <1>1 DEF ClosesBefore
<1>. HIDE DEF R
<1>5. /\ \A x \in rows : <<x, x>> \notin R
      /\ \A x, y \in rows : x # y => <<x, y>> \in R \/ <<y, x>> \in R
      /\ \A x, y, z \in rows : <<x, y>> \in R /\ <<y, z>> \in R => <<x, z>> \in R
  <2>1. ASSUME NEW x \in rows PROVE <<x, x>> \notin R
    BY <1>2, <1>4
  <2>2. ASSUME NEW x \in rows, NEW y \in rows, x # y PROVE <<x, y>> \in R \/ <<y, x>> \in R
    <3>1. x.number # y.number BY <1>3, <2>2
    <3>2. /\ x.number \in Nat /\ x.closedAt \in Nat
          /\ y.number \in Nat /\ y.closedAt \in Nat BY <1>2
    <3>. QED BY <1>4, <3>1, <3>2
  <2>3. ASSUME NEW x \in rows, NEW y \in rows, NEW z \in rows, <<x, y>> \in R, <<y, z>> \in R
        PROVE  <<x, z>> \in R
    <3>1. /\ x.number \in Nat /\ x.closedAt \in Nat /\ y.number \in Nat /\ y.closedAt \in Nat
          /\ z.number \in Nat /\ z.closedAt \in Nat BY <1>2
    <3>. QED BY <1>4, <2>3, <3>1
  <2>. QED BY <2>1, <2>2, <2>3
<1>6. Orders(R, rows)
  BY <1>5 DEF Orders
<1>. QED BY <1>6 DEF R

\* The ordered summaries of one state are the rows of that state.
LEMMA OrderedRows ==
  ASSUME NEW cards, Orderly(cards), NEW queue, IsSeq(queue),
         ToSet(queue) = InState(cards, "open"), NEW state \in {"open", "closed"}
  PROVE  /\ IsSeq(OrderedSummaries(cards, queue, state))
         /\ ToSet(OrderedSummaries(cards, queue, state)) = RowsIn(cards, state)
<1>. DEFINE result == OrderedSummaries(cards, queue, state)
<1>1. CASE state = "closed"
  <2>1. PICK rows : rows = RowsIn(cards, state)
    OBVIOUS
  <2>2. PICK R : R = {pair \in rows \X rows : ClosesBefore(pair[1], pair[2])}
    OBVIOUS
  <2>3. result = InOrder(rows, R)
    BY <1>1, <2>1, <2>2 DEF OrderedSummaries, RowsIn, InState
  <2>4. IsFiniteSet(rows)
    <3>. DEFINE f == [n \in DOMAIN cards |-> Summary(n, cards[n])]
    <3>1. IsFiniteSet(InState(cards, state))
      <4>1. InState(cards, state) \subseteq DOMAIN cards BY DEF InState
      <4>. QED BY <4>1, FS_Subset DEF Orderly
    <3>2. rows = {f[n] : n \in InState(cards, state)}
      BY <2>1 DEF RowsIn, InState
    <3>. HIDE DEF f
    <3>. QED BY <3>1, <3>2, ImageFinite
  <2>5. Orders(R, rows)
    BY <2>1, <2>2, ClosingOrders
  <2>6. PICK order : order = InOrder(rows, R)
    OBVIOUS
  <2>7. /\ IsSeq(order) /\ Len(order) = Cardinality(rows)
        /\ \A i \in 1..Cardinality(rows) : order[i] \in rows
        /\ \A x \in rows : \E i \in 1..Cardinality(rows) : order[i] = x
    BY <2>4, <2>5, <2>6, InOrderFacts
  <2>8. ToSet(order) = {order[i] : i \in 1..Cardinality(rows)}
    BY <2>7, SeqOfEntries
  <2>9. ToSet(order) = rows
    BY <2>7, <2>8
  <2>. QED BY <2>1, <2>3, <2>6, <2>7, <2>9
<1>2. CASE state = "open"
  <2>1. PICK open : open = OnlyIn(queue, InState(cards, "open"))
    OBVIOUS
  <2>2. result = [i \in DOMAIN open |-> Summary(open[i], cards[open[i]])]
    BY <1>2, <2>1 DEF OrderedSummaries, InState
  <2>3. open \in Seq(InState(cards, "open")) /\ ToSet(open) = InState(cards, "open")
    <3>1. ToSet(queue) \cap InState(cards, "open") = InState(cards, "open")
      OBVIOUS
    <3>2. open \in Seq(ToSet(queue) \cap InState(cards, "open"))
          /\ ToSet(open) = ToSet(queue) \cap InState(cards, "open")
      BY <2>1, OnlyInFacts
    <3>. QED BY <3>1, <3>2
  <2>4. IsSeq(open)
    BY <2>3 DEF IsSeq
  <2>5. PICK n \in Nat : n = Len(open)
    BY <2>4, SeqFacts
  <2>6. DOMAIN open = 1..n /\ ToSet(open) = {open[i] : i \in 1..n}
    BY <2>4, <2>5, SeqFacts, SeqOfEntries
  <2>. HIDE DEF result
  <2>7. result = [i \in 1..n |-> result[i]]
    BY <2>2, <2>6
  <2>8. IsSeq(result) /\ Len(result) = n
    BY <2>7, MadeSeq
  <2>9. ToSet(result) = {result[i] : i \in 1..n}
    BY <2>8, SeqOfEntries
  <2>10. \A i \in 1..n : result[i] = Summary(open[i], cards[open[i]])
    BY <2>2, <2>6
  <2>11. ASSUME NEW x \in ToSet(result) PROVE x \in RowsIn(cards, "open")
    <3>1. PICK i \in 1..n : x = result[i] BY <2>9
    <3>2. open[i] \in InState(cards, "open") BY <2>3, <2>6
    <3>. QED BY <2>10, <3>1, <3>2 DEF RowsIn
  <2>12. ASSUME NEW x \in RowsIn(cards, "open") PROVE x \in ToSet(result)
    <3>1. PICK m \in InState(cards, "open") : x = Summary(m, cards[m]) BY DEF RowsIn
    <3>2. PICK i \in 1..n : m = open[i] BY <2>3, <2>6
    <3>. QED BY <2>9, <2>10, <3>1, <3>2
  <2>13. ToSet(result) = RowsIn(cards, "open")
    BY <2>11, <2>12
  <2>. QED BY <1>2, <2>8, <2>13 DEF result
<1>. QED BY <1>1, <1>2

\* The cards of a board can be put in order, its queue holds the open ones.
LEMMA BoardOrderly ==
  ASSUME NEW board, IsBoard(board), NEW closedAt \in [DOMAIN board.issues -> Nat]
  PROVE  /\ Orderly(CardsAre(board.issues, closedAt))
         /\ IsSeq(board.queue)
         /\ DOMAIN CardsAre(board.issues, closedAt) = DOMAIN board.issues
         /\ ToSet(board.queue) = InState(CardsAre(board.issues, closedAt), "open")
<1>1. PICK cards : cards = CardsAre(board.issues, closedAt)
  OBVIOUS
<1>2. /\ DOMAIN cards = DOMAIN board.issues
      /\ \A n \in DOMAIN cards : cards[n].issue = board.issues[n] /\ cards[n].closedAt = closedAt[n]
  BY <1>1 DEF CardsAre, CardOf
<1>3. Orderly(cards)
  BY <1>2 DEF Orderly, IsBoard, IsIssue
<1>4. ToSet(board.queue) = InState(cards, "open")
  BY <1>2 DEF InState, IsBoard, OpenIssues
<1>5. IsSeq(board.queue)
  BY SequencesAgree DEF IsBoard
<1>. QED BY <1>1, <1>2, <1>3, <1>4, <1>5

\* The rows on the pages of one state.
LEMMA ListRead ==
  ASSUME NEW refs, NEW state, NEW rows, IsSeq(rows), Lists(refs, state, rows)
  PROVE  /\ IsSeq(refs)
         /\ \A ref \in ToSet(refs) : ToSet(ref.rows) \subseteq ToSet(rows)
         /\ \A x \in ToSet(rows) : \E ref \in ToSet(refs) : x \in ToSet(ref.rows)
<1>1. PICK pages : pages = Paginate(rows, IssuePageSize)
  OBVIOUS
<1>2. IssuePageSize \in Nat \ {0}
  BY PageSizes
<1>3. PICK n \in Nat : n = Len(pages) /\ DOMAIN pages = 1..n
  <2>1. PICK L \in Nat, k \in Nat : \E ps : PagesOf(ps, rows, IssuePageSize, L, k)
    BY <1>2, PaginateFacts
  <2>2. IsSeq(pages) /\ Len(pages) = k
    BY <1>1, <2>1 DEF PagesOf
  <2>. QED BY <2>2, SeqFacts
<1>4. /\ \A p \in 1..n : ToSet(pages[p]) \subseteq ToSet(rows)
      /\ \A x \in ToSet(rows) : \E p \in 1..n : x \in ToSet(pages[p])
  BY <1>1, <1>2, <1>3, PagesCover
<1>5. refs = [p \in 1..n |-> ListShard(state, p, refs[p].total, pages[p])]
  BY <1>1, <1>3 DEF Lists
<1>6. refs = [p \in 1..n |-> refs[p]]
  BY <1>5
<1>7. IsSeq(refs) /\ Len(refs) = n
  BY <1>6, MadeSeq
<1>8. ToSet(refs) = {refs[p] : p \in 1..n}
  BY <1>7, SeqOfEntries
<1>9. \A p \in 1..n : refs[p].rows = pages[p]
  BY <1>5 DEF ListShard
<1>. QED BY <1>4, <1>7, <1>8, <1>9

\* The list pages of a generation hold the summary of every card.
LEMMA RowsRead ==
  ASSUME NEW meta, NEW board, NEW feed, NEW closedAt, Represents(meta, board, feed, closedAt)
  PROVE  Rows(meta) = {Summary(n, CardsAre(board.issues, closedAt)[n]) : n \in DOMAIN board.issues}
<1>1. PICK cards : cards = CardsAre(board.issues, closedAt)
  OBVIOUS
<1>2. /\ Orderly(cards) /\ IsSeq(board.queue) /\ DOMAIN cards = DOMAIN board.issues
      /\ ToSet(board.queue) = InState(cards, "open")
  BY <1>1, BoardOrderly DEF Represents
<1>. DEFINE order(s) == OrderedSummaries(cards, board.queue, s)
<1>3. \A s \in {"open", "closed"} : IsSeq(order(s)) /\ ToSet(order(s)) = RowsIn(cards, s)
  BY <1>2, OrderedRows
<1>4. /\ Lists(meta.openPageRefs, "open", order("open"))
      /\ Lists(meta.closedPageRefs, "closed", order("closed"))
  BY <1>1 DEF Represents
<1>. HIDE DEF order
<1>5. /\ \A ref \in ToSet(meta.openPageRefs) : ToSet(ref.rows) \subseteq RowsIn(cards, "open")
      /\ \A x \in RowsIn(cards, "open") : \E ref \in ToSet(meta.openPageRefs) : x \in ToSet(ref.rows)
  BY <1>3, <1>4, ListRead
<1>6. /\ \A ref \in ToSet(meta.closedPageRefs) : ToSet(ref.rows) \subseteq RowsIn(cards, "closed")
      /\ \A x \in RowsIn(cards, "closed") : \E ref \in ToSet(meta.closedPageRefs) : x \in ToSet(ref.rows)
  BY <1>3, <1>4, ListRead
<1>7. Rows(meta) = RowsIn(cards, "open") \cup RowsIn(cards, "closed")
  <2>1. Rows(meta) \subseteq RowsIn(cards, "open") \cup RowsIn(cards, "closed")
    BY <1>5, <1>6 DEF Rows, ListRefs
  <2>2. RowsIn(cards, "open") \cup RowsIn(cards, "closed") \subseteq Rows(meta)
    BY <1>5, <1>6 DEF Rows, ListRefs
  <2>. QED BY <2>1, <2>2
<1>8. InState(cards, "open") \cup InState(cards, "closed") = DOMAIN cards
  BY <1>2 DEF InState, Orderly
<1>9. RowsIn(cards, "open") \cup RowsIn(cards, "closed") = {Summary(n, cards[n]) : n \in DOMAIN cards}
  BY <1>8 DEF RowsIn
<1>. QED BY <1>1, <1>2, <1>7, <1>9

-----------------------------------------------------------------------------
(* What a mutation reads *)

\* A row says of its issue what the row of a card made from it says.
LEMMA SummaryKept ==
  ASSUME NEW n, NEW card
  PROVE  Summary(n, CardOfSummary(Summary(n, card))) = Summary(n, card)
<1>1. PICK row : row = Summary(n, card)
  OBVIOUS
<1>2. PICK other : other = CardOfSummary(row)
  OBVIOUS
<1>3. /\ row.state = card.issue.state /\ row.createdAt = card.issue.createdAt
      /\ row.updatedAt = card.issue.updatedAt /\ row.messageCount = card.count
      /\ row.lastActivityAt = card.activity
      /\ row.review = card.issue.review /\ row.blocks = card.issue.blocks
      /\ row.closedAt = IF card.issue.state # "closed" THEN Never
                        ELSE IF card.closedAt # Never THEN card.closedAt
                        ELSE card.issue.updatedAt
  BY <1>1 DEF Summary
<1>4. row.hasBody = (card.issue.body # "")
  BY <1>1 DEF Summary
<1>5. /\ other.issue.state = row.state /\ other.issue.createdAt = row.createdAt
      /\ other.issue.updatedAt = row.updatedAt /\ other.count = row.messageCount
      /\ other.activity = row.lastActivityAt /\ other.closedAt = row.closedAt
      /\ other.issue.review = row.review /\ other.issue.blocks = row.blocks
  BY <1>2 DEF CardOfSummary
<1>6. other.issue.body = IF row.hasBody THEN "materialized" ELSE ""
  BY <1>2 DEF CardOfSummary
<1>7. (other.issue.body # "") = (card.issue.body # "")
  <2>1. CASE card.issue.body = ""
    <3>1. other.issue.body = "" BY <1>4, <1>6, <2>1, Zenon
    <3>. QED BY <2>1, <3>1
  <2>2. CASE card.issue.body # ""
    <3>1. other.issue.body = "materialized" BY <1>4, <1>6, <2>2, Zenon
    <3>2. "materialized" # "" OBVIOUS
    <3>. QED BY <2>2, <3>1, <3>2
  <2>. QED BY <2>1, <2>2
<1>8. (IF other.issue.state # "closed" THEN Never
       ELSE IF other.closedAt # Never THEN other.closedAt ELSE other.issue.updatedAt)
        = (IF card.issue.state # "closed" THEN Never
           ELSE IF card.closedAt # Never THEN card.closedAt ELSE card.issue.updatedAt)
  BY <1>3, <1>5
<1>9. Summary(n, other) = Summary(n, card)
  BY <1>3, <1>5, <1>7, <1>8, Zenon DEF Summary
<1>. QED BY <1>1, <1>2, <1>9

\* The record of a card may be read from its snapshot instead.
LEMMA SummaryReread ==
  ASSUME NEW n, NEW card, NEW other,
         other = [CardOfSummary(Summary(n, card)) EXCEPT !.issue = card.issue]
  PROVE  Summary(n, other) = Summary(n, card)
<1>1. PICK row : row = Summary(n, card)
  OBVIOUS
<1>2. /\ row.messageCount = card.count /\ row.lastActivityAt = card.activity
      /\ row.closedAt = IF card.issue.state # "closed" THEN Never
                        ELSE IF card.closedAt # Never THEN card.closedAt
                        ELSE card.issue.updatedAt
  BY <1>1 DEF Summary
<1>3. /\ other.issue = card.issue /\ other.count = row.messageCount
      /\ other.activity = row.lastActivityAt /\ other.closedAt = row.closedAt
  BY <1>1 DEF CardOfSummary
<1>4. (IF other.issue.state # "closed" THEN Never
       ELSE IF other.closedAt # Never THEN other.closedAt ELSE other.issue.updatedAt)
        = (IF card.issue.state # "closed" THEN Never
           ELSE IF card.closedAt # Never THEN card.closedAt ELSE card.issue.updatedAt)
  BY <1>2, <1>3
<1>. QED BY <1>2, <1>3, <1>4, Zenon DEF Summary

\* What an operation is applied to: cards with the rows of the board, and the
\* record itself of the one issue it touches.
Held(held, cards, kind, number) ==
  /\ SameRows(held, cards)
  /\ \A n \in DOMAIN cards : held[n].closedAt \in Nat
  /\ TouchesIssue(kind) /\ number \in DOMAIN cards => held[number].issue = cards[number].issue

\* readBundle holds the cards themselves.
LEMMA FullHeld ==
  ASSUME NEW meta, NEW board, NEW feed, NEW closedAt, Represents(meta, board, feed, closedAt),
         NEW kind, NEW number
  PROVE  Held(FullCards(meta), CardsAre(board.issues, closedAt), kind, number)
<1>1. FullCards(meta) = CardsAre(board.issues, closedAt)
  <2>1. PICK place : Directory(meta.directoryRefs, CardsAre(board.issues, closedAt), place)
    BY DEF Represents
  <2>. QED BY <2>1, FullCardsRead DEF Represents
<1>2. Orderly(CardsAre(board.issues, closedAt))
  BY BoardOrderly DEF Represents
<1>. QED BY <1>1, <1>2 DEF Held, SameRows, Orderly

\* readMutationBundle holds the rows, and the record the mutation touches.
LEMMA CompactHeld ==
  ASSUME NEW meta, NEW board, NEW feed, NEW closedAt, Represents(meta, board, feed, closedAt),
         NEW req
  PROVE  Held(CompactCards(meta, req), CardsAre(board.issues, closedAt), req.kind, req.number)
<1>1. PICK cards : cards = CardsAre(board.issues, closedAt)
  OBVIOUS
<1>2. Orderly(cards) /\ DOMAIN cards = DOMAIN board.issues
  BY <1>1, BoardOrderly DEF Represents
<1>3. PICK rows : rows = Rows(meta)
  OBVIOUS
<1>4. rows = {Summary(n, cards[n]) : n \in DOMAIN cards}
  BY <1>1, <1>2, <1>3, RowsRead
<1>5. \A n, c : Summary(n, c).number = n
  BY DEF Summary
<1>6. {row.number : row \in rows} = DOMAIN cards
  <2>1. \A row \in rows : row.number \in DOMAIN cards
    BY <1>4, <1>5
  <2>2. ASSUME NEW n \in DOMAIN cards PROVE \E row \in rows : row.number = n
    <3>1. Summary(n, cards[n]) \in rows BY <1>4
    <3>. QED BY <1>5, <3>1
  <2>. QED BY <2>1, <2>2
<1>7. ASSUME NEW n \in DOMAIN cards
      PROVE  (CHOOSE r \in rows : r.number = n) = Summary(n, cards[n])
  <2>1. Summary(n, cards[n]) \in rows /\ Summary(n, cards[n]).number = n
    BY <1>4, <1>5
  <2>2. \A r \in rows : r.number = n => r = Summary(n, cards[n])
    BY <1>4, <1>5
  <2>. QED BY <2>1, <2>2
<1>8. PICK held : held = CompactCards(meta, req)
  OBVIOUS
<1>. DEFINE plain(n) == CardOfSummary(CHOOSE r \in rows : r.number = n)
            reread(n) == [plain(n) EXCEPT !.issue = CardOfSnapshot(EntryOf(meta, n).ref).issue]
<1>9. held = [n \in DOMAIN cards |->
                IF n = req.number /\ TouchesIssue(req.kind) THEN reread(n) ELSE plain(n)]
  BY <1>3, <1>6, <1>8 DEF CompactCards
<1>10. ASSUME NEW n \in DOMAIN cards
       PROVE  CardOfSnapshot(EntryOf(meta, n).ref).issue = cards[n].issue
  <2>1. PICK place : Directory(meta.directoryRefs, cards, place)
    BY <1>1 DEF Represents
  <2>2. EntryOf(meta, n) = EntryFor(n, cards[n])
    BY <2>1, EntryRead
  <2>3. IsIssue(board.issues[n]) /\ cards[n] = CardOf(board.issues[n], closedAt[n])
    BY <1>1, <1>2 DEF Represents, IsBoard, CardsAre
  <2>. QED BY <2>2, <2>3, SnapshotRead
<1>11. DOMAIN held = DOMAIN cards
  BY <1>9
<1>12. ASSUME NEW n \in DOMAIN cards
       PROVE  /\ Summary(n, held[n]) = Summary(n, cards[n])
              /\ held[n].closedAt \in Nat
              /\ n = req.number /\ TouchesIssue(req.kind) => held[n].issue = cards[n].issue
  <2>1. PICK row : row = Summary(n, cards[n])
    OBVIOUS
  <2>2. plain(n) = CardOfSummary(row)
    BY <1>7, <2>1, Zenon
  <2>3. row.closedAt \in Nat
    <3>1. row.closedAt = IF cards[n].issue.state # "closed" THEN Never
                         ELSE IF cards[n].closedAt # Never THEN cards[n].closedAt
                         ELSE cards[n].issue.updatedAt
      BY <2>1 DEF Summary
    <3>. QED BY <1>2, <3>1 DEF Orderly, Never
  <2>4. CardOfSummary(row).closedAt = row.closedAt
    BY DEF CardOfSummary
  <2>5. CASE n = req.number /\ TouchesIssue(req.kind)
    <3>1. held[n] = [CardOfSummary(row) EXCEPT !.issue = cards[n].issue]
      <4>1. held[n] = reread(n) BY <1>9, <2>5, Zenon
      <4>. QED BY <1>10, <2>2, <4>1, Zenon
    <3>2. Summary(n, held[n]) = Summary(n, cards[n])
      BY <2>1, <3>1, SummaryReread
    <3>3. held[n].issue = cards[n].issue /\ held[n].closedAt = row.closedAt
      BY <3>1 DEF CardOfSummary
    <3>. QED BY <2>3, <3>2, <3>3
  <2>6. CASE ~(n = req.number /\ TouchesIssue(req.kind))
    <3>1. held[n] = CardOfSummary(row)
      <4>1. held[n] = plain(n) BY <1>9, <2>6, Zenon
      <4>. QED BY <2>2, <4>1
    <3>2. Summary(n, held[n]) = Summary(n, cards[n])
      BY <2>1, <3>1, SummaryKept
    <3>. QED BY <2>3, <2>4, <2>6, <3>1, <3>2
  <2>. QED BY <2>5, <2>6
<1>. HIDE DEF plain, reread
<1>13. Held(held, cards, req.kind, req.number)
  BY <1>11, <1>12 DEF Held, SameRows
<1>. QED BY <1>1, <1>8, <1>13

-----------------------------------------------------------------------------
(* What a mutation does *)

Revises(kind) == kind \in {"edit", "comment", "close", "reopen", "review"}

\* What becomes of the issues.
LEMMA IssuesAfterFacts ==
  ASSUME NEW op, NEW issues, Revises(op.kind) => op.number \in DOMAIN issues
  PROVE  /\ DOMAIN IssuesAfter(op, issues)
              = (IF op.kind = "create" THEN DOMAIN issues \cup {op.number}
                 ELSE IF op.kind = "delete" THEN DOMAIN issues \ {op.number} ELSE DOMAIN issues)
         /\ \A n \in DOMAIN IssuesAfter(op, issues) :
              n # op.number \/ ~TouchesIssue(op.kind)
                => n \in DOMAIN issues /\ IssuesAfter(op, issues)[n] = issues[n]
         /\ op.kind = "create" => IssuesAfter(op, issues)[op.number] = NewIssue(op)
         /\ Revises(op.kind)
              => IssuesAfter(op, issues)[op.number] = IssueAfter(op, issues[op.number])
<1>. DEFINE after == IssuesAfter(op, issues)
<1>1. CASE op.kind = "create"
  <2>1. after = [i \in DOMAIN issues \union {op.number} |->
                   IF i = op.number THEN NewIssue(op) ELSE issues[i]]
    BY <1>1 DEF IssuesAfter
  <2>2. ~Revises(op.kind) /\ TouchesIssue(op.kind) /\ op.kind # "delete"
    BY <1>1 DEF Revises, TouchesIssue
  <2>. HIDE DEF after
  <2>. QED BY <1>1, <2>1, <2>2 DEF after
<1>2. CASE Revises(op.kind)
  <2>1. after = [issues EXCEPT ![op.number] = IssueAfter(op, issues[op.number])]
    BY <1>2 DEF IssuesAfter, Revises
  <2>2. op.kind # "create" /\ TouchesIssue(op.kind) /\ op.kind # "delete"
    BY <1>2 DEF Revises, TouchesIssue
  <2>3. op.number \in DOMAIN issues
    BY <1>2
  <2>. HIDE DEF after
  <2>. QED BY <1>2, <2>1, <2>2, <2>3 DEF after
<1>3. CASE op.kind = "delete"
  <2>1. after = [i \in DOMAIN issues \ {op.number} |-> issues[i]]
    BY <1>3 DEF IssuesAfter
  <2>2. ~Revises(op.kind) /\ TouchesIssue(op.kind) /\ op.kind # "create"
    BY <1>3 DEF Revises, TouchesIssue
  <2>. HIDE DEF after
  <2>. QED BY <1>3, <2>1, <2>2 DEF after
<1>4. CASE op.kind # "create" /\ ~Revises(op.kind) /\ op.kind # "delete"
  <2>1. after = issues
    BY <1>4 DEF IssuesAfter, Revises
  <2>2. ~TouchesIssue(op.kind)
    BY <1>4 DEF Revises, TouchesIssue
  <2>. HIDE DEF after
  <2>. QED BY <1>4, <2>1, <2>2 DEF after
<1>. QED BY <1>1, <1>2, <1>3, <1>4

\* What an operation leaves is the record of an issue.
LEMMA IssueStays ==
  ASSUME NEW op, op.at \in Nat, NEW issue, IsIssue(issue), Revises(op.kind)
  PROVE  /\ IsIssue(IssueAfter(op, issue))
         /\ IssueAfter(op, issue).state = (IF op.kind = "close" THEN "closed"
                                           ELSE IF op.kind = "reopen" THEN "open" ELSE issue.state)
         /\ IssueAfter(op, issue).comments
              = (IF op.kind = "comment" THEN Append(issue.comments, [id |-> op.id, at |-> op.at])
                 ELSE issue.comments)
         /\ IssueAfter(op, issue).updatedAt = op.at
<1>. DEFINE touched == [issue EXCEPT !.updatedAt = op.at]
<1>0. /\ touched = [state |-> issue.state, body |-> issue.body,
                    createdAt |-> issue.createdAt, updatedAt |-> op.at,
                    comments |-> issue.comments, review |-> issue.review,
                    blocks |-> issue.blocks]
      /\ issue.state \in {"open", "closed"} /\ IsSequence(issue.comments)
  BY DEF IsIssue
<1>. HIDE DEF touched
<1>1. CASE op.kind = "edit"
  <2>1. IssueAfter(op, issue) = [touched EXCEPT !.body = op.body]
    BY <1>1 DEF IssueAfter, touched
  <2>. QED BY <1>0, <1>1, <2>1 DEF IsIssue
<1>2. CASE op.kind = "comment"
  <2>1. IssueAfter(op, issue) = [touched EXCEPT !.comments = Append(@, [id |-> op.id, at |-> op.at])]
    BY <1>2 DEF IssueAfter, touched
  <2>2. IsSequence(Append(issue.comments, [id |-> op.id, at |-> op.at]))
    <3>1. IsSeq(issue.comments) BY <1>0, SequencesAgree
    <3>2. IsSeq(Append(issue.comments, [id |-> op.id, at |-> op.at])) BY <3>1, AppendFacts
    <3>. QED BY <3>2, SequencesAgree
  <2>. QED BY <1>0, <1>2, <2>1, <2>2 DEF IsIssue
<1>3. CASE op.kind = "close"
  <2>1. IssueAfter(op, issue) = [touched EXCEPT !.state = "closed"]
    BY <1>3 DEF IssueAfter, touched
  <2>. QED BY <1>0, <1>3, <2>1 DEF IsIssue
<1>4. CASE op.kind = "reopen"
  <2>1. IssueAfter(op, issue) = [touched EXCEPT !.state = "open"]
    BY <1>4 DEF IssueAfter, touched
  <2>. QED BY <1>0, <1>4, <2>1 DEF IsIssue
<1>5. CASE op.kind = "review"
  <2>1. IssueAfter(op, issue) = [touched EXCEPT !.review = op.review,
                                   !.blocks = OutstandingBlocksAfter(issue, op.review)]
    BY <1>5 DEF IssueAfter, touched
  <2>. QED BY <1>0, <1>5, <2>1 DEF IsIssue
<1>. QED BY <1>1, <1>2, <1>3, <1>4, <1>5 DEF Revises

\* A new issue is the record of one, open, with an empty thread.
LEMMA IssueMade ==
  ASSUME NEW op, op.at \in Nat
  PROVE  /\ IsIssue(NewIssue(op)) /\ NewIssue(op).state = "open"
         /\ NewIssue(op).comments = << >> /\ NewIssue(op).updatedAt = op.at
<1>1. IsSeq(<< >>)
  BY DEF IsSeq
<1>. QED BY <1>1, SequencesAgree DEF IsIssue, NewIssue

\* A queue with an issue at its end.
LEMMA QueuedFacts ==
  ASSUME NEW queue, IsSeq(queue), NEW number
  PROVE  /\ IsSeq(Append(queue, number))
         /\ ToSet(Append(queue, number)) = ToSet(queue) \cup {number}
<1>1. PICK n \in Nat : n = Len(queue)
  BY SeqFacts
<1>2. PICK after : after = Append(queue, number)
  OBVIOUS
<1>3. /\ IsSeq(after) /\ Len(after) = n + 1 /\ after[n + 1] = number
      /\ \A i \in 1..n : after[i] = queue[i]
  BY <1>1, <1>2, AppendFacts
<1>4. ToSet(queue) = {queue[i] : i \in 1..n} /\ ToSet(after) = {after[i] : i \in 1..n + 1}
  BY <1>1, <1>3, SeqOfEntries
<1>5. 1..n + 1 = (1..n) \cup {n + 1}
  OBVIOUS
<1>6. ToSet(after) = ToSet(queue) \cup {number}
  BY <1>3, <1>4, <1>5
<1>. QED BY <1>2, <1>3, <1>6

\* The board an accepted operation makes is a board.
LEMMA BoardStays ==
  ASSUME NEW op, op.at \in Nat, op.number \in Nat, IsSeq(op.numbers),
         NEW board, IsBoard(board), Applicable(op, board)
  PROVE  IsBoard(ApplyBoardMutation(op, board))
<1>1. PICK after : after = ApplyBoardMutation(op, board)
  OBVIOUS
<1>2. /\ after = [issues |-> IssuesAfter(op, board.issues), queue |-> QueueAfter(op, board.queue),
                  deleted |-> board.deleted \/ op.kind = "boardDelete"]
      /\ after.issues = IssuesAfter(op, board.issues) /\ after.queue = QueueAfter(op, board.queue)
  BY <1>1 DEF ApplyBoardMutation
<1>3. /\ IsSeq(board.queue) /\ ToSet(board.queue) = OpenIssues(board)
      /\ board.issues = [n \in DOMAIN board.issues |-> board.issues[n]]
      /\ DOMAIN board.issues \subseteq Nat /\ IsFiniteSet(DOMAIN board.issues)
      /\ \A n \in DOMAIN board.issues : IsIssue(board.issues[n])
  BY SequencesAgree DEF IsBoard
<1>4. Revises(op.kind) \/ op.kind = "delete" => op.number \in DOMAIN board.issues
  BY DEF Applicable, Revises
<1>5. /\ DOMAIN after.issues
           = (IF op.kind = "create" THEN DOMAIN board.issues \cup {op.number}
              ELSE IF op.kind = "delete" THEN DOMAIN board.issues \ {op.number}
              ELSE DOMAIN board.issues)
      /\ \A n \in DOMAIN after.issues :
           n # op.number \/ ~TouchesIssue(op.kind)
             => n \in DOMAIN board.issues /\ after.issues[n] = board.issues[n]
      /\ op.kind = "create" => after.issues[op.number] = NewIssue(op)
      /\ Revises(op.kind) => after.issues[op.number] = IssueAfter(op, board.issues[op.number])
  <2>1. PICK issues : issues = board.issues
    OBVIOUS
  <2>2. Revises(op.kind) => op.number \in DOMAIN issues
    BY <1>4, <2>1
  <2>3. /\ DOMAIN IssuesAfter(op, issues)
             = (IF op.kind = "create" THEN DOMAIN issues \cup {op.number}
                ELSE IF op.kind = "delete" THEN DOMAIN issues \ {op.number} ELSE DOMAIN issues)
        /\ \A n \in DOMAIN IssuesAfter(op, issues) : n # op.number \/ ~TouchesIssue(op.kind)
             => n \in DOMAIN issues /\ IssuesAfter(op, issues)[n] = issues[n]
        /\ op.kind = "create" => IssuesAfter(op, issues)[op.number] = NewIssue(op)
        /\ Revises(op.kind) => IssuesAfter(op, issues)[op.number] = IssueAfter(op, issues[op.number])
    BY <2>2, IssuesAfterFacts, Zenon
  <2>4. after.issues = IssuesAfter(op, issues)
    BY <1>2, <2>1, Zenon
  <2>. HIDE DEF IssuesAfter
  <2>. QED BY <2>1, <2>3, <2>4
<1>6. after.issues = [n \in DOMAIN after.issues |-> after.issues[n]]
  <2>1. CASE op.kind = "create"
    BY <1>2, <2>1 DEF IssuesAfter
  <2>2. CASE Revises(op.kind)
    <3>1. after.issues = [board.issues EXCEPT ![op.number] = IssueAfter(op, @)]
      BY <1>2, <2>2 DEF IssuesAfter, Revises
    <3>. QED BY <3>1
  <2>3. CASE op.kind = "delete"
    BY <1>2, <2>3 DEF IssuesAfter
  <2>4. CASE op.kind # "create" /\ ~Revises(op.kind) /\ op.kind # "delete"
    <3>1. after.issues = board.issues
      BY <1>2, <2>4 DEF IssuesAfter, Revises
    <3>. QED BY <1>3, <3>1
  <2>. QED BY <2>1, <2>2, <2>3, <2>4
<1>7. DOMAIN after.issues \subseteq Nat /\ IsFiniteSet(DOMAIN after.issues)
  <2>1. IsFiniteSet(DOMAIN board.issues \cup {op.number}) /\ IsFiniteSet(DOMAIN board.issues \ {op.number})
    BY <1>3, FS_AddElement, FS_RemoveElement
  <2>. QED BY <1>3, <1>5, <2>1
<1>8. ASSUME NEW n \in DOMAIN after.issues
      PROVE  /\ IsIssue(after.issues[n])
             /\ n # op.number \/ ~TouchesIssue(op.kind) => n \in DOMAIN board.issues
                  /\ after.issues[n].state = board.issues[n].state
             /\ n = op.number => after.issues[n].state
                  = (IF op.kind \in {"create", "reopen"} THEN "open"
                     ELSE IF op.kind = "close" THEN "closed" ELSE board.issues[n].state)
  <2>1. CASE n # op.number \/ ~TouchesIssue(op.kind)
    <3>1. n \in DOMAIN board.issues /\ after.issues[n] = board.issues[n] BY <1>5, <2>1
    <3>2. n = op.number => op.kind \notin {"create", "reopen", "close"}
      BY <2>1 DEF TouchesIssue
    <3>. QED BY <1>3, <3>1, <3>2
  <2>2. CASE n = op.number /\ op.kind = "create"
    BY <1>5, <2>2, IssueMade DEF TouchesIssue
  <2>3. CASE n = op.number /\ Revises(op.kind)
    <3>0. PICK issue : issue = board.issues[n] OBVIOUS
    <3>1. IsIssue(issue) BY <1>3, <1>4, <2>3, <3>0
    <3>2. after.issues[n] = IssueAfter(op, issue) BY <1>5, <2>3, <3>0
    <3>3. /\ IsIssue(IssueAfter(op, issue))
          /\ IssueAfter(op, issue).state = (IF op.kind = "close" THEN "closed"
               ELSE IF op.kind = "reopen" THEN "open" ELSE issue.state)
      BY <2>3, <3>1, IssueStays, Zenon
    <3>4. op.kind # "create" /\ TouchesIssue(op.kind) BY <2>3 DEF Revises, TouchesIssue
    <3>. QED BY <2>3, <3>0, <3>2, <3>3, <3>4 DEF Revises
  <2>4. op.kind = "delete" => n # op.number
    BY <1>5
  <2>. QED BY <2>1, <2>2, <2>3, <2>4 DEF TouchesIssue, Revises
<1>. DEFINE Open(b) == {n \in DOMAIN b.issues : b.issues[n].state = "open"}
<1>9. IsSeq(after.queue) /\ ToSet(after.queue) = Open(after)
  <2>0. ToSet(board.queue) = Open(board)
    BY <1>3 DEF OpenIssues
  <2>1. CASE op.kind = "create"
    <3>1. after.queue = Append(board.queue, op.number) BY <1>2, <2>1 DEF QueueAfter
    <3>2. Open(after) = Open(board) \cup {op.number}
      <4>1. op.number \notin DOMAIN board.issues BY <2>1 DEF Applicable
      <4>. QED BY <1>5, <1>8, <2>1, <4>1
    <3>. QED BY <1>3, <2>0, <3>1, <3>2, QueuedFacts
  <2>2. CASE op.kind \in {"close", "delete"}
    <3>1. after.queue = OnlyIn(board.queue, ToSet(board.queue) \ {op.number})
      BY <1>2, <2>2 DEF QueueAfter, Without
    <3>2. /\ after.queue \in Seq(ToSet(board.queue) \cap (ToSet(board.queue) \ {op.number}))
          /\ ToSet(after.queue) = ToSet(board.queue) \cap (ToSet(board.queue) \ {op.number})
      BY <1>3, <3>1, OnlyInFacts
    <3>3. Open(after) = Open(board) \ {op.number}
      BY <1>5, <1>8, <2>2
    <3>. QED BY <2>0, <3>2, <3>3 DEF IsSeq
  <2>3. CASE op.kind = "reopen"
    <3>1. after.queue = IF op.number \in ToSet(board.queue) THEN board.queue
                        ELSE Append(board.queue, op.number)
      BY <1>2, <2>3 DEF QueueAfter
    <3>2. Open(after) = Open(board) \cup {op.number}
      <4>1. op.number \in DOMAIN board.issues BY <1>4, <2>3 DEF Revises
      <4>. QED BY <1>5, <1>8, <2>3, <4>1
    <3>3. IsSeq(after.queue) /\ ToSet(after.queue) = ToSet(board.queue) \cup {op.number}
      BY <1>3, <3>1, QueuedFacts
    <3>. QED BY <2>0, <3>2, <3>3
  <2>4. CASE op.kind = "reorder"
    <3>1. after.queue = op.numbers BY <1>2, <2>4 DEF QueueAfter
    <3>2. ToSet(op.numbers) = Open(board)
      BY <2>4 DEF Applicable, ExactOpenIssueQueue, OpenIssues
    <3>3. Open(after) = Open(board)
      BY <1>5, <1>8, <2>4 DEF TouchesIssue
    <3>. QED BY <3>1, <3>2, <3>3
  <2>5. CASE op.kind \notin {"create", "close", "delete", "reopen", "reorder"}
    <3>1. after.queue = board.queue BY <1>2, <2>5 DEF QueueAfter
    <3>2. Open(after) = Open(board)
      BY <1>5, <1>8, <2>5
    <3>. QED BY <1>3, <2>0, <3>1, <3>2
  <2>. QED BY <2>1, <2>2, <2>3, <2>4, <2>5
<1>10. OpenIssues(after) = Open(after)
  BY DEF OpenIssues
<1>11. IsSequence(after.queue)
  BY <1>9, SequencesAgree
<1>12. after = [issues |-> [n \in DOMAIN after.issues |-> after.issues[n]],
                queue |-> after.queue, deleted |-> after.deleted]
  BY <1>2, <1>6
<1>13. \A n \in DOMAIN after.issues : IsIssue(after.issues[n])
  BY <1>8
<1>. HIDE DEF Open
<1>14. IsBoard(after)
  BY <1>7, <1>9, <1>10, <1>11, <1>12, <1>13, Zenon DEF IsBoard
<1>. QED BY <1>1, <1>14

-----------------------------------------------------------------------------
(* A mutation of what was read, and of the board *)

\* The board a client holds, where it differs from the one that is stored.
Beside(before, board, held, cards, op) ==
  /\ IsBoard(board)
  /\ before.issues = [n \in DOMAIN held |-> held[n].issue]
  /\ before.queue = board.queue /\ before.deleted = board.deleted
  /\ DOMAIN cards = DOMAIN board.issues
  /\ \A n \in DOMAIN cards : cards[n].issue = board.issues[n]
  /\ Held(held, cards, op.kind, op.number)

\* It has the same issues in the same states, and the touched one whole.
LEMMA BesideIssues ==
  ASSUME NEW before, NEW board, NEW held, NEW cards, NEW op,
         Beside(before, board, held, cards, op)
  PROVE  /\ DOMAIN before.issues = DOMAIN board.issues
         /\ \A n \in DOMAIN board.issues : /\ before.issues[n] = held[n].issue
                                           /\ before.issues[n].state = board.issues[n].state
         /\ OpenIssues(before) = OpenIssues(board)
         /\ TouchesIssue(op.kind) /\ op.number \in DOMAIN board.issues
              => before.issues[op.number] = board.issues[op.number]
<1>1. /\ DOMAIN held = DOMAIN board.issues /\ DOMAIN cards = DOMAIN board.issues
      /\ \A n \in DOMAIN board.issues : cards[n].issue = board.issues[n]
      /\ before.issues = [n \in DOMAIN held |-> held[n].issue]
      /\ SameRows(held, cards)
      /\ TouchesIssue(op.kind) /\ op.number \in DOMAIN cards
           => held[op.number].issue = cards[op.number].issue
  BY DEF Beside, Held, SameRows
<1>2. \A n \in DOMAIN board.issues : held[n].issue.state = board.issues[n].state
  <2>1. ASSUME NEW n \in DOMAIN held PROVE held[n].issue.state = cards[n].issue.state
    BY <1>1, SameRowsSameState
  <2>. QED BY <1>1, <2>1
<1>3. \A n \in DOMAIN board.issues : before.issues[n] = held[n].issue
  BY <1>1
<1>4. DOMAIN before.issues = DOMAIN board.issues
  BY <1>1
<1>5. OpenIssues(before) = OpenIssues(board)
  BY <1>2, <1>3, <1>4 DEF OpenIssues
<1>. QED BY <1>1, <1>2, <1>3, <1>4, <1>5

\* It accepts and refuses the same operations.
LEMMA SameVerdict ==
  ASSUME NEW before, NEW board, NEW held, NEW cards, NEW op,
         Beside(before, board, held, cards, op)
  PROVE  Applicable(op, before) <=> Applicable(op, board)
<1>1. /\ DOMAIN before.issues = DOMAIN board.issues
      /\ OpenIssues(before) = OpenIssues(board)
      /\ TouchesIssue(op.kind) /\ op.number \in DOMAIN board.issues
           => before.issues[op.number] = board.issues[op.number]
  BY BesideIssues
<1>2. ExactOpenIssueQueue(before, op.numbers) <=> ExactOpenIssueQueue(board, op.numbers)
  BY <1>1 DEF ExactOpenIssueQueue
<1>3. CASE op.kind = "reorder"
  BY <1>2, <1>3 DEF Applicable
<1>4. CASE op.kind = "create"
  BY <1>1, <1>4 DEF Applicable
<1>5. CASE Revises(op.kind) \/ op.kind = "delete"
  <2>1. TouchesIssue(op.kind)
    BY <1>5 DEF Revises, TouchesIssue
  <2>2. CASE op.number \notin DOMAIN board.issues
    BY <1>1, <1>5, <2>2 DEF Applicable, Revises
  <2>3. CASE op.number \in DOMAIN board.issues
    <3>1. PICK issue : issue = board.issues[op.number] /\ issue = before.issues[op.number]
      BY <1>1, <2>1, <2>3
    <3>2. op.number \in DOMAIN before.issues
      BY <1>1, <2>3
    <3>. QED BY <1>5, <2>3, <3>1, <3>2 DEF Applicable, Revises
  <2>. QED BY <2>2, <2>3
<1>6. CASE op.kind \notin {"create", "reorder", "delete"} /\ ~Revises(op.kind)
  BY <1>6 DEF Applicable, Revises
<1>. QED BY <1>3, <1>4, <1>5, <1>6

\* It becomes the same, so far as it was the same.
LEMMA BesideAfter ==
  ASSUME NEW before, NEW board, NEW held, NEW cards, NEW op,
         Beside(before, board, held, cards, op), Applicable(op, board),
         NEW after, after = ApplyBoardMutation(op, before),
         NEW real, real = ApplyBoardMutation(op, board)
  PROVE  /\ after.queue = real.queue /\ after.deleted = real.deleted
         /\ DOMAIN after.issues = DOMAIN real.issues
         /\ \A n \in DOMAIN real.issues :
              n # op.number \/ ~TouchesIssue(op.kind)
                => /\ n \in DOMAIN board.issues
                   /\ real.issues[n] = board.issues[n] /\ after.issues[n] = before.issues[n]
         /\ TouchesIssue(op.kind) /\ op.number \in DOMAIN real.issues
              => after.issues[op.number] = real.issues[op.number]
         /\ \A n \in DOMAIN real.issues : after.issues[n].state = real.issues[n].state
<1>1. /\ DOMAIN before.issues = DOMAIN board.issues
      /\ \A n \in DOMAIN board.issues : before.issues[n].state = board.issues[n].state
      /\ TouchesIssue(op.kind) /\ op.number \in DOMAIN board.issues
           => before.issues[op.number] = board.issues[op.number]
  BY BesideIssues
<1>2. PICK P : P = before.issues
  OBVIOUS
<1>3. PICK Q : Q = board.issues
  OBVIOUS
<1>4. /\ after.issues = IssuesAfter(op, P) /\ real.issues = IssuesAfter(op, Q)
      /\ after.queue = QueueAfter(op, before.queue) /\ real.queue = QueueAfter(op, board.queue)
      /\ after.deleted = (before.deleted \/ op.kind = "boardDelete")
      /\ real.deleted = (board.deleted \/ op.kind = "boardDelete")
  BY <1>2, <1>3, Zenon DEF ApplyBoardMutation
<1>5. before.queue = board.queue /\ before.deleted = board.deleted
  BY DEF Beside
<1>6. Revises(op.kind) \/ op.kind = "delete" => op.number \in DOMAIN Q
  BY <1>3 DEF Applicable, Revises
<1>7. DOMAIN P = DOMAIN Q
  BY <1>1, <1>2, <1>3
<1>8. /\ DOMAIN IssuesAfter(op, P)
           = (IF op.kind = "create" THEN DOMAIN P \cup {op.number}
              ELSE IF op.kind = "delete" THEN DOMAIN P \ {op.number} ELSE DOMAIN P)
      /\ \A n \in DOMAIN IssuesAfter(op, P) : n # op.number \/ ~TouchesIssue(op.kind)
           => n \in DOMAIN P /\ IssuesAfter(op, P)[n] = P[n]
      /\ op.kind = "create" => IssuesAfter(op, P)[op.number] = NewIssue(op)
      /\ Revises(op.kind) => IssuesAfter(op, P)[op.number] = IssueAfter(op, P[op.number])
  <2>1. Revises(op.kind) => op.number \in DOMAIN P BY <1>6, <1>7
  <2>. QED BY <2>1, IssuesAfterFacts, Zenon
<1>9. /\ DOMAIN IssuesAfter(op, Q)
           = (IF op.kind = "create" THEN DOMAIN Q \cup {op.number}
              ELSE IF op.kind = "delete" THEN DOMAIN Q \ {op.number} ELSE DOMAIN Q)
      /\ \A n \in DOMAIN IssuesAfter(op, Q) : n # op.number \/ ~TouchesIssue(op.kind)
           => n \in DOMAIN Q /\ IssuesAfter(op, Q)[n] = Q[n]
      /\ op.kind = "create" => IssuesAfter(op, Q)[op.number] = NewIssue(op)
      /\ Revises(op.kind) => IssuesAfter(op, Q)[op.number] = IssueAfter(op, Q[op.number])
  <2>1. Revises(op.kind) => op.number \in DOMAIN Q BY <1>6
  <2>. QED BY <2>1, IssuesAfterFacts, Zenon
<1>10. after.queue = real.queue /\ after.deleted = real.deleted
  BY <1>4, <1>5, Zenon
<1>11. DOMAIN after.issues = DOMAIN real.issues
  <2>1. DOMAIN IssuesAfter(op, P) = DOMAIN IssuesAfter(op, Q)
    BY <1>7, <1>8, <1>9, Zenon
  <2>. QED BY <1>4, <2>1, Zenon
<1>12. ASSUME NEW n \in DOMAIN real.issues, n # op.number \/ ~TouchesIssue(op.kind)
       PROVE  /\ n \in DOMAIN board.issues
              /\ real.issues[n] = board.issues[n] /\ after.issues[n] = before.issues[n]
  <2>1. n \in DOMAIN IssuesAfter(op, Q) /\ n \in DOMAIN IssuesAfter(op, P)
    BY <1>4, <1>11, Zenon
  <2>2. n \in DOMAIN Q /\ IssuesAfter(op, Q)[n] = Q[n] /\ IssuesAfter(op, P)[n] = P[n]
    BY <1>8, <1>9, <1>12, <2>1, Zenon
  <2>. QED BY <1>2, <1>3, <1>4, <2>2, Zenon
<1>13. ASSUME TouchesIssue(op.kind), op.number \in DOMAIN real.issues
       PROVE  after.issues[op.number] = real.issues[op.number]
  <2>1. CASE op.kind = "create"
    BY <1>4, <1>8, <1>9, <2>1, Zenon
  <2>2. CASE Revises(op.kind)
    <3>1. P[op.number] = Q[op.number]
      BY <1>1, <1>2, <1>3, <1>6, <1>13, <2>2
    <3>. QED BY <1>4, <1>8, <1>9, <2>2, <3>1, Zenon
  <2>3. op.kind # "delete"
    <3>1. op.kind = "delete" => op.number \notin DOMAIN IssuesAfter(op, Q)
      BY <1>9
    <3>. QED BY <1>4, <1>13, <3>1
  <2>. QED BY <1>13, <2>1, <2>2, <2>3 DEF TouchesIssue, Revises
<1>14. ASSUME NEW n \in DOMAIN real.issues
       PROVE  after.issues[n].state = real.issues[n].state
  <2>1. CASE n # op.number \/ ~TouchesIssue(op.kind)
    <3>1. after.issues[n] = before.issues[n] /\ real.issues[n] = board.issues[n]
          /\ n \in DOMAIN board.issues
      BY <1>12, <2>1
    <3>. QED BY <1>1, <3>1
  <2>2. CASE n = op.number /\ TouchesIssue(op.kind)
    BY <1>13, <2>2
  <2>. QED BY <2>1, <2>2
<1>. QED BY <1>10, <1>11, <1>12, <1>13, <1>14

\* The cards after the operation have the rows of the board after it, and the
\* card of the touched issue is the one it has there.
LEMMA NextCardsAre ==
  ASSUME NEW before, NEW board, NEW held, NEW cards, NEW op, op.at \in Nat,
         NEW closedAt \in [DOMAIN board.issues -> Nat], cards = CardsAre(board.issues, closedAt),
         Beside(before, board, held, cards, op), Applicable(op, board),
         NEW after, after = ApplyBoardMutation(op, before),
         NEW real, real = ApplyBoardMutation(op, board)
  PROVE  \E at \in [DOMAIN real.issues -> Nat] :
            /\ SameRows(NextCards(op, held, after), CardsAre(real.issues, at))
            /\ TouchesIssue(op.kind) /\ op.number \in DOMAIN real.issues
                 => NextCards(op, held, after)[op.number]
                      = CardOf(real.issues[op.number], at[op.number])
            /\ \A n \in DOMAIN real.issues :
                 n # op.number \/ ~TouchesIssue(op.kind) => at[n] = closedAt[n]
<1>1. PICK next : next = NextCards(op, held, after)
  OBVIOUS
<1>. DEFINE closing == CASE op.kind = "close" -> op.at
                         [] op.kind \in {"reopen", "create"} -> Never
                         [] OTHER -> held[op.number].closedAt
            counted == IF op.kind = "review" THEN held[op.number].count
                       ELSE Len(after.issues[op.number].comments)
            active == IF op.kind = "review" THEN held[op.number].activity
                      ELSE NewestComment(after.issues[op.number].comments)
<1>2. next = [n \in DOMAIN after.issues |->
                IF n # op.number \/ ~TouchesIssue(op.kind) THEN held[n]
                ELSE [issue |-> after.issues[op.number], closedAt |-> closing,
                      count |-> counted, activity |-> active]]
  BY <1>1 DEF NextCards
<1>3. /\ DOMAIN after.issues = DOMAIN real.issues
      /\ \A n \in DOMAIN real.issues :
           n # op.number \/ ~TouchesIssue(op.kind)
             => n \in DOMAIN board.issues /\ real.issues[n] = board.issues[n]
      /\ TouchesIssue(op.kind) /\ op.number \in DOMAIN real.issues
           => after.issues[op.number] = real.issues[op.number]
  BY BesideAfter
<1>4. /\ SameRows(held, cards) /\ DOMAIN held = DOMAIN board.issues
      /\ DOMAIN cards = DOMAIN board.issues
      /\ \A n \in DOMAIN board.issues : held[n].closedAt \in Nat
      /\ \A n \in DOMAIN board.issues : cards[n] = CardOf(board.issues[n], closedAt[n])
  BY DEF Beside, Held, SameRows, CardsAre
<1>5. closing \in Nat \/ ~TouchesIssue(op.kind) \/ op.number \notin DOMAIN real.issues
  <2>1. CASE op.kind \in {"close", "reopen", "create"}
    BY <2>1 DEF Never
  <2>2. CASE op.kind \notin {"close", "reopen", "create"} /\ TouchesIssue(op.kind)
    <3>1. op.number \in DOMAIN board.issues
      BY <2>2 DEF Applicable, TouchesIssue
    <3>2. closing = held[op.number].closedAt
      BY <2>2
    <3>. QED BY <1>4, <3>1, <3>2
  <2>. QED BY <2>1, <2>2
<1>6. PICK c : c = closing
  OBVIOUS
<1>. DEFINE at == [n \in DOMAIN real.issues |->
                     IF n # op.number \/ ~TouchesIssue(op.kind) THEN closedAt[n] ELSE c]
<1>. HIDE DEF closing
<1>7. at \in [DOMAIN real.issues -> Nat]
  BY <1>3, <1>5, <1>6
<1>8. ASSUME TouchesIssue(op.kind), op.number \in DOMAIN real.issues
      PROVE  next[op.number] = CardOf(real.issues[op.number], at[op.number])
  <2>1. next[op.number] = [issue |-> real.issues[op.number], closedAt |-> c,
                           count |-> counted, activity |-> active]
    BY <1>2, <1>3, <1>6, <1>8
  <2>2. counted = Len(real.issues[op.number].comments)
        /\ active = NewestComment(real.issues[op.number].comments)
    <3>1. CASE op.kind # "review"
      BY <1>3, <1>8, <3>1
    <3>2. CASE op.kind = "review"
      <4>1. op.number \in DOMAIN board.issues
        BY <3>2 DEF Applicable
      <4>2. PICK issue : issue = board.issues[op.number]
        OBVIOUS
      <4>3. IsIssue(issue)
        BY <4>1, <4>2 DEF Beside, IsBoard
      <4>4. /\ held[op.number].count = cards[op.number].count
            /\ held[op.number].activity = cards[op.number].activity
        BY <1>4, <4>1, SameRowsSameState
      <4>5. cards[op.number].count = Len(issue.comments)
            /\ cards[op.number].activity = NewestComment(issue.comments)
        <5>1. cards[op.number] = CardOf(issue, closedAt[op.number])
          BY <1>4, <4>1, <4>2, Zenon
        <5>2. /\ CardOf(issue, closedAt[op.number]).count = Len(issue.comments)
              /\ CardOf(issue, closedAt[op.number]).activity = NewestComment(issue.comments)
          BY DEF CardOf
        <5>. QED BY <5>1, <5>2, Zenon
      <4>6. real.issues[op.number] = IssueAfter(op, issue)
        <5>1. real.issues = [board.issues EXCEPT ![op.number] = IssueAfter(op, @)]
          BY <3>2 DEF ApplyBoardMutation, IssuesAfter
        <5>. QED BY <4>1, <4>2, <5>1
      <4>7. Revises(op.kind) /\ op.kind # "comment"
        BY <3>2 DEF Revises
      <4>8. IssueAfter(op, issue).comments = issue.comments
        BY <4>3, <4>7, IssueStays
      <4>. QED BY <3>2, <4>4, <4>5, <4>6, <4>8
    <3>. QED BY <3>1, <3>2
  <2>3. at[op.number] = c
    BY <1>8
  <2>. HIDE DEF at, counted, active
  <2>. QED BY <2>1, <2>2, <2>3 DEF CardOf
<1>9. \A n \in DOMAIN real.issues : n # op.number \/ ~TouchesIssue(op.kind) => at[n] = closedAt[n]
  OBVIOUS
<1>10. SameRows(next, CardsAre(real.issues, at))
  <2>. DEFINE then == CardsAre(real.issues, at)
  <2>1. DOMAIN next = DOMAIN real.issues /\ DOMAIN then = DOMAIN real.issues
    BY <1>2, <1>3 DEF CardsAre
  <2>2. \A n \in DOMAIN real.issues : then[n] = CardOf(real.issues[n], at[n])
    BY DEF CardsAre
  <2>. HIDE DEF then, at
  <2>3. ASSUME NEW n \in DOMAIN real.issues
        PROVE  Summary(n, next[n]) = Summary(n, then[n])
    <3>1. CASE n # op.number \/ ~TouchesIssue(op.kind)
      <4>1. next[n] = held[n] BY <1>2, <1>3, <3>1, Zenon
      <4>2. n \in DOMAIN board.issues /\ then[n] = cards[n]
        BY <1>3, <1>4, <1>9, <2>2, <3>1
      <4>3. Summary(n, held[n]) = Summary(n, cards[n])
        BY <1>4, <4>2 DEF SameRows
      <4>. QED BY <4>1, <4>2, <4>3
    <3>2. CASE n = op.number /\ TouchesIssue(op.kind)
      BY <1>8, <2>2, <3>2
    <3>. QED BY <3>1, <3>2
  <2>4. SameRows(next, then)
    BY <2>1, <2>3 DEF SameRows
  <2>. QED BY <2>4 DEF then
<1>. HIDE DEF at
<1>. QED BY <1>1, <1>7, <1>8, <1>9, <1>10

-----------------------------------------------------------------------------
(* The directory *)

\* An issue the directory names is looked for on the page that names it.
LEMMA PageFor ==
  ASSUME NEW meta, NEW cards, NEW place, Directory(meta.directoryRefs, cards, place), NEW number
  PROVE  /\ DirectoryPageFor(meta, number) \in 1..(Len(meta.directoryRefs) + 1)
         /\ number \in DOMAIN cards => DirectoryPageFor(meta, number) = place[number]
<1>1. PICK refs : refs = meta.directoryRefs
  OBVIOUS
<1>2. PICK count \in Nat : count = Len(refs)
  BY <1>1, SeqFacts DEF Directory
<1>3. place \in [DOMAIN cards -> 1..count]
  BY <1>1, <1>2 DEF Directory
<1>. DEFINE holds(p) == refs[p] # NoRef /\ \E e \in refs[p].named : e.number = number
<1>4. \A N, p : DirectoryShard(p, N).named = N /\ DirectoryShard(p, N) # NoRef
  <2>1. \A N, p : DirectoryShard(p, N).type # NoRef.type
    BY DEF DirectoryShard, NoRef
  <2>. QED BY <2>1 DEF DirectoryShard
<1>5. ASSUME NEW p \in 1..count
      PROVE  holds(p) <=> number \in DOMAIN cards /\ place[number] = p
  <2>1. refs[p] = IF Named(cards, place, p) = {} THEN NoRef
                  ELSE DirectoryShard(p, Named(cards, place, p))
    BY <1>1, <1>2, <1>5, Zenon DEF Directory
  <2>2. CASE Named(cards, place, p) = {}
    <3>1. ~holds(p) BY <2>1, <2>2
    <3>2. ~(number \in DOMAIN cards /\ place[number] = p)
      BY <2>2 DEF Named
    <3>. QED BY <3>1, <3>2
  <2>3. CASE Named(cards, place, p) # {}
    <3>1. refs[p] # NoRef /\ refs[p].named = Named(cards, place, p)
      BY <1>4, <2>1, <2>3, Zenon
    <3>2. \A n \in DOMAIN cards : EntryFor(n, cards[n]).number = n
      BY DEF EntryFor
    <3>3. \A e \in Named(cards, place, p) : \E n \in DOMAIN cards :
             place[n] = p /\ e = EntryFor(n, cards[n])
      BY DEF Named
    <3>4. \A n \in DOMAIN cards : place[n] = p => EntryFor(n, cards[n]) \in Named(cards, place, p)
      BY DEF Named
    <3>5. (\E e \in Named(cards, place, p) : e.number = number)
             <=> number \in DOMAIN cards /\ place[number] = p
      BY <3>2, <3>3, <3>4
    <3>. QED BY <3>1, <3>5
  <2>. QED BY <2>2, <2>3
<1>6. PICK page : page = DirectoryPageFor(meta, number)
  OBVIOUS
<1>7. page = IF \E p \in 1..count : holds(p) THEN CHOOSE p \in 1..count : holds(p)
             ELSE IF count = 0 THEN 1
             ELSE IF Cardinality(refs[count].named) < DirectoryPageSize
                  THEN count ELSE count + 1
  BY <1>1, <1>2, <1>6 DEF DirectoryPageFor
<1>. HIDE DEF holds
<1>8. CASE number \in DOMAIN cards
  <2>1. place[number] \in 1..count /\ holds(place[number])
    BY <1>3, <1>5, <1>8
  <2>2. page \in 1..count /\ holds(page)
    BY <1>7, <2>1
  <2>3. page = place[number]
    BY <1>5, <2>2
  <2>. QED BY <1>1, <1>2, <1>6, <2>2, <2>3
<1>9. CASE number \notin DOMAIN cards
  <2>1. ~\E p \in 1..count : holds(p)
    BY <1>5, <1>9
  <2>2. page \in 1..(count + 1)
    BY <1>7, <2>1
  <2>. QED BY <1>1, <1>2, <1>6, <1>9, <2>2
<1>. QED BY <1>8, <1>9

\* Dropping the pages at the end that hold nothing loses no entry.
LEMMA TailDropped ==
  ASSUME NEW refs, NEW cards, NEW place, Directory(refs, cards, place)
  PROVE  Directory(DropEmptyTail(refs), cards, place)
<1>1. PICK count \in Nat : count = Len(refs) /\ DOMAIN refs = 1..count
  BY SeqFacts DEF Directory
<1>. DEFINE kept == {p \in 1..count : refs[p] # NoRef}
            last == IF kept = {} THEN 0 ELSE CHOOSE p \in kept : \A q \in kept : q <= p
<1>2. \A n \in DOMAIN cards : place[n] \in kept
  <2>1. ASSUME NEW n \in DOMAIN cards PROVE place[n] \in kept
    <3>1. PICK p \in 1..count : p = place[n]
      BY <1>1 DEF Directory
    <3>2. Named(cards, place, p) # {}
      BY <3>1 DEF Named
    <3>3. refs[p] = DirectoryShard(p, Named(cards, place, p))
      <4>1. refs[p] = IF Named(cards, place, p) = {} THEN NoRef
                      ELSE DirectoryShard(p, Named(cards, place, p))
        BY <1>1, <3>1, Zenon DEF Directory
      <4>. QED BY <3>2, <4>1, Zenon
    <3>4. DirectoryShard(p, Named(cards, place, p)).type # NoRef.type
      BY DEF DirectoryShard, NoRef
    <3>. QED BY <3>1, <3>3, <3>4
  <2>. QED BY <2>1
<1>3. last \in 0..count /\ \A q \in kept : q <= last
  <2>1. CASE kept = {}
    BY <2>1
  <2>2. CASE kept # {}
    <3>1. \E p \in kept : \A q \in kept : q <= p
      <4>1. kept \subseteq 0..count
        OBVIOUS
      <4>. HIDE DEF kept
      <4>. QED BY <2>2, <4>1, LargestElement
    <3>2. last \in kept /\ \A q \in kept : q <= last
      BY <2>2, <3>1
    <3>. QED BY <3>2
  <2>. QED BY <2>1, <2>2
<1>4. PICK k \in 0..count : k = last
  BY <1>3
<1>5. PICK rest : rest = SubSeq(refs, 1, k)
  OBVIOUS
<1>6. DropEmptyTail(refs) = rest
  BY <1>1, <1>4, <1>5 DEF DropEmptyTail
<1>7. IsSeq(rest) /\ Len(rest) = k /\ \A p \in 1..k : rest[p] = refs[p]
  <2>1. PICK S : refs \in Seq(S) BY DEF Directory, IsSeq
  <2>2. rest \in Seq(S) /\ Len(rest) = k /\ \A p \in 1..k : rest[p] = refs[p]
    BY <1>1, <1>5, <2>1
  <2>. QED BY <2>2 DEF IsSeq
<1>8. place \in [DOMAIN cards -> 1..k]
  <2>1. \A n \in DOMAIN cards : place[n] \in 1..k
    BY <1>2, <1>3, <1>4
  <2>2. place \in [DOMAIN cards -> 1..count]
    BY <1>1 DEF Directory
  <2>. QED BY <2>1, <2>2
<1>. HIDE DEF last, kept
<1>9. \A p \in 1..k : rest[p] = IF Named(cards, place, p) = {} THEN NoRef
                                ELSE DirectoryShard(p, Named(cards, place, p))
  <2>1. ASSUME NEW p \in 1..k
        PROVE rest[p] = IF Named(cards, place, p) = {} THEN NoRef
                        ELSE DirectoryShard(p, Named(cards, place, p))
    <3>1. p \in 1..Len(refs) BY <1>1
    <3>2. refs[p] = IF Named(cards, place, p) = {} THEN NoRef
                    ELSE DirectoryShard(p, Named(cards, place, p))
      BY <3>1, Zenon DEF Directory
    <3>. QED BY <1>7, <3>2
  <2>. QED BY <2>1, Zenon
<1>10. Directory(rest, cards, place)
  BY <1>7, <1>8, <1>9, Zenon DEF Directory
<1>. QED BY <1>6, <1>10

\* The pages of a thread are a sequence.
LEMMA ThreadPages ==
  ASSUME NEW n, NEW comments, IsSeq(comments)
  PROVE  /\ IsSeq(ThreadRefs(n, comments))
         /\ Len(ThreadRefs(n, comments)) = Len(Paginate(comments, CommentPageSize))
         /\ \A p \in 1..Len(ThreadRefs(n, comments)) :
              ThreadRefs(n, comments)[p]
                = CommentPageShard(n, p, Paginate(comments, CommentPageSize)[p])
<1>1. PICK pages : pages = Paginate(comments, CommentPageSize)
  OBVIOUS
<1>2. IsSeq(pages)
  <2>1. CommentPageSize \in Nat \ {0} BY PageSizes
  <2>2. PICK L \in Nat, k \in Nat : \E ps : PagesOf(ps, comments, CommentPageSize, L, k)
    BY <2>1, PaginateFacts
  <2>. QED BY <1>1, <2>2 DEF PagesOf
<1>3. PICK k \in Nat : k = Len(pages) /\ DOMAIN pages = 1..k
  BY <1>2, SeqFacts
<1>4. PICK refs : refs = ThreadRefs(n, comments)
  OBVIOUS
<1>5. refs = [p \in 1..k |-> CommentPageShard(n, p, pages[p])]
  BY <1>1, <1>3, <1>4 DEF ThreadRefs
<1>6. refs = [p \in 1..k |-> refs[p]]
  BY <1>5
<1>7. IsSeq(refs) /\ Len(refs) = k
  BY <1>6, MadeSeq
<1>8. \A p \in 1..k : refs[p] = CommentPageShard(n, p, pages[p])
  BY <1>5
<1>. QED BY <1>1, <1>3, <1>4, <1>7, <1>8

\* A comment rewrites the tail page of its thread or begins one: the pages are
\* those of the thread with the comment.
TailOf(messages) == ((Len(messages) - 1) \div CommentPageSize) + 1

TailShard(n, messages) ==
  CommentPageShard(n, TailOf(messages),
    SubSeq(messages, (TailOf(messages) - 1) * CommentPageSize + 1, Len(messages)))

Grown(n, messages, refs) ==
  IF Len(refs) < TailOf(messages) THEN Append(refs, TailShard(n, messages))
  ELSE [refs EXCEPT ![TailOf(messages)] = TailShard(n, messages)]

\* materializeIssue: a comment rewrites or adds the tail page, and the thread is
\* that of all the messages.
LEMMA ThreadGrows ==
  ASSUME NEW n, NEW comments, IsSeq(comments), NEW m
  PROVE  Grown(n, Append(comments, m), ThreadRefs(n, comments))
           = ThreadRefs(n, Append(comments, m))
<1>a. PICK messages : messages = Append(comments, m)
  OBVIOUS
<1>b. PICK page : page = TailOf(messages)
  OBVIOUS
<1>c. PICK tail : tail = TailShard(n, messages)
  OBVIOUS
<1>d. PICK refs : refs = ThreadRefs(n, comments)
  OBVIOUS
<1>e. Grown(n, messages, refs) = IF Len(refs) < page THEN Append(refs, tail)
                                 ELSE [refs EXCEPT ![page] = tail]
  BY <1>b, <1>c, Zenon DEF Grown
<1>f. /\ page = ((Len(messages) - 1) \div CommentPageSize) + 1
      /\ tail = CommentPageShard(n, page,
                  SubSeq(messages, (page - 1) * CommentPageSize + 1, Len(messages)))
  BY <1>b, <1>c, Zenon DEF TailOf, TailShard
<1>g. SUFFICES ThreadRefs(n, messages) = IF Len(refs) < page THEN Append(refs, tail)
                                         ELSE [refs EXCEPT ![page] = tail]
  BY <1>a, <1>d, <1>e, Zenon
<1>1. CommentPageSize \in Nat \ {0}
  BY PageSizes
<1>2. PICK L \in Nat : L = Len(comments)
  BY SeqFacts
<1>3. IsSeq(messages) /\ Len(messages) = L + 1 /\ Len(messages) - 1 = L
  BY <1>2, <1>a, AppendFacts
<1>4. PICK pages : pages = Paginate(comments, CommentPageSize)
  OBVIOUS
<1>5. PICK after : after = Paginate(messages, CommentPageSize)
  OBVIOUS
<1>6. page = (L \div CommentPageSize) + 1
  BY <1>3, <1>f
<1>7. /\ page \in Nat /\ Len(after) = page
      /\ Len(pages) = (IF L % CommentPageSize = 0 THEN page - 1 ELSE page)
      /\ \A p \in 1..(page - 1) : after[p] = pages[p]
      /\ after[page] = SubSeq(messages, (page - 1) * CommentPageSize + 1, L + 1)
  <2>1. LET before == Paginate(comments, CommentPageSize)
            grown == Paginate(Append(comments, m), CommentPageSize)
            last == (Len(comments) \div CommentPageSize) + 1
        IN  /\ last \in Nat /\ Len(grown) = last
            /\ Len(before) = IF Len(comments) % CommentPageSize = 0 THEN last - 1 ELSE last
            /\ \A p \in 1..(last - 1) : grown[p] = before[p]
            /\ grown[last] = Append(IF Len(comments) % CommentPageSize = 0 THEN << >>
                                    ELSE before[last], m)
            /\ grown[last] = SubSeq(Append(comments, m), (last - 1) * CommentPageSize + 1,
                                    Len(comments) + 1)
    BY <1>1, PaginateAppend, Zenon
  <2>. QED BY <1>2, <1>4, <1>5, <1>6, <1>a, <2>1, Zenon
<1>8. /\ IsSeq(refs) /\ Len(refs) = Len(pages)
      /\ \A p \in 1..Len(refs) : refs[p] = CommentPageShard(n, p, pages[p])
  BY <1>4, <1>d, ThreadPages
<1>9. PICK whole : whole = ThreadRefs(n, messages)
  OBVIOUS
<1>10. /\ IsSeq(whole) /\ Len(whole) = page
       /\ \A p \in 1..page : whole[p] = CommentPageShard(n, p, after[p])
  BY <1>3, <1>5, <1>7, <1>9, ThreadPages
<1>11. tail = CommentPageShard(n, page, after[page])
  BY <1>3, <1>7, <1>f
<1>12. page >= 1
  <2>1. L \div CommentPageSize \in Nat BY <1>1, Quotient
  <2>. QED BY <1>6, <2>1
<1>13. CASE Len(refs) < page
  <2>1. Len(refs) = page - 1
    BY <1>7, <1>8, <1>13
  <2>2. PICK grown : grown = Append(refs, tail)
    OBVIOUS
  <2>3. /\ IsSeq(grown) /\ Len(grown) = page /\ grown[page] = tail
        /\ \A p \in 1..(page - 1) : grown[p] = refs[p]
    BY <1>7, <1>8, <2>1, <2>2, AppendFacts
  <2>4. \A p \in 1..page : grown[p] = whole[p]
    <3>1. ASSUME NEW p \in 1..page PROVE grown[p] = whole[p]
      <4>1. CASE p = page BY <1>10, <1>11, <2>3, <4>1
      <4>2. CASE p # page
        <5>1. p \in 1..(page - 1) /\ p \in 1..Len(refs) BY <1>7, <2>1, <4>2
        <5>2. grown[p] = CommentPageShard(n, p, pages[p]) BY <1>8, <2>3, <5>1
        <5>3. after[p] = pages[p] BY <1>7, <5>1
        <5>. QED BY <1>10, <5>2, <5>3
      <4>. QED BY <4>1, <4>2
    <3>. QED BY <3>1
  <2>5. whole = grown
    BY <1>10, <2>3, <2>4, SameSeq
  <2>. QED BY <1>9, <1>13, <2>2, <2>5
<1>14. CASE ~(Len(refs) < page)
  <2>1. Len(refs) = page
    BY <1>7, <1>8, <1>14
  <2>2. PICK grown : grown = [refs EXCEPT ![page] = tail]
    OBVIOUS
  <2>3. refs = [p \in 1..page |-> refs[p]]
    BY <1>8, <2>1, SeqFacts
  <2>4. /\ grown = [p \in 1..page |-> grown[p]] /\ grown[page] = tail
        /\ \A p \in 1..(page - 1) : grown[p] = refs[p]
    <3>1. DOMAIN refs = 1..page BY <2>3
    <3>2. DOMAIN grown = 1..page /\ grown = [p \in DOMAIN grown |-> grown[p]] BY <2>2, <3>1
    <3>3. page \in 1..page BY <1>7, <1>12
    <3>4. \A p \in 1..(page - 1) : p \in 1..page /\ p # page BY <1>7
    <3>. QED BY <2>2, <3>1, <3>2, <3>3, <3>4
  <2>5. IsSeq(grown) /\ Len(grown) = page
    BY <1>7, <2>4, MadeSeq
  <2>6. \A p \in 1..page : grown[p] = whole[p]
    <3>1. ASSUME NEW p \in 1..page PROVE grown[p] = whole[p]
      <4>1. CASE p = page BY <1>10, <1>11, <2>4, <4>1
      <4>2. CASE p # page
        <5>1. p \in 1..(page - 1) /\ p \in 1..Len(refs) BY <1>7, <2>1, <4>2
        <5>2. grown[p] = CommentPageShard(n, p, pages[p]) BY <1>8, <2>4, <5>1
        <5>3. after[p] = pages[p] BY <1>7, <5>1
        <5>. QED BY <1>10, <5>2, <5>3
      <4>. QED BY <4>1, <4>2
    <3>. QED BY <3>1
  <2>7. whole = grown
    BY <1>10, <2>5, <2>6, SameSeq
  <2>. QED BY <1>9, <1>14, <2>2, <2>7
<1>. QED BY <1>13, <1>14

\* An issue with no comment has no page.
LEMMA ThreadBegins ==
  ASSUME NEW n
  PROVE  ThreadRefs(n, << >>) = << >>
<1>1. CommentPageSize \in Nat \ {0}
  BY PageSizes
<1>2. IsSeq(<< >>) /\ Len(<< >>) = 0
  BY DEF IsSeq
<1>3. Len(Paginate(<< >>, CommentPageSize)) = 0
  <2>1. PICK L \in Nat, k \in Nat : \E ps : PagesOf(ps, << >>, CommentPageSize, L, k)
    BY <1>1, <1>2, PaginateFacts
  <2>2. L = 0 /\ k = PageCount(L, CommentPageSize) /\ Len(Paginate(<< >>, CommentPageSize)) = k
    BY <1>2, <2>1 DEF PagesOf
  <2>3. k = (CommentPageSize - 1) \div CommentPageSize
    BY <1>1, <2>2 DEF PageCount
  <2>4. k = 0
    <3>1. CommentPageSize - 1 \in Nat /\ CommentPageSize - 1 < CommentPageSize BY <1>1
    <3>2. k * CommentPageSize <= CommentPageSize - 1 BY <1>1, <2>3, <3>1, Quotient
    <3>3. CASE k >= 1
      <4>1. k * CommentPageSize >= CommentPageSize BY <1>1, <3>3
      <4>. QED BY <1>1, <3>2, <4>1
    <3>. QED BY <2>1, <3>3
  <2>. QED BY <2>2, <2>4
<1>4. IsSeq(ThreadRefs(n, << >>)) /\ Len(ThreadRefs(n, << >>)) = 0
  BY <1>2, <1>3, ThreadPages
<1>. QED BY <1>2, <1>4, SameSeq

\* materializeIssue: the snapshot of an issue is the one its whole record has.
LEMMA SnapshotWritten ==
  ASSUME NEW op, NEW card, NEW comments, IsSeq(comments), NEW m,
         card.issue.comments = IF op.kind = "comment" THEN Append(comments, m) ELSE comments
  PROVE  MaterializeIssue(op, card, ThreadRefs(op.number, comments)).ref = EntryFor(op.number, card).ref
<1>1. PICK refs : refs = ThreadRefs(op.number, comments)
  OBVIOUS
<1>2. PICK messages : messages = card.issue.comments
  OBVIOUS
<1>3. MaterializeIssue(op, card, refs).ref = SnapshotShard(op.number, card,
         IF op.kind # "comment" THEN refs ELSE Grown(op.number, messages, refs))
  BY <1>2 DEF MaterializeIssue, Grown, TailOf, TailShard
<1>4. EntryFor(op.number, card).ref = SnapshotShard(op.number, card, ThreadRefs(op.number, messages))
  BY <1>2 DEF EntryFor
<1>5. CASE op.kind = "comment"
  <2>1. messages = Append(comments, m)
    BY <1>2, <1>5
  <2>2. Grown(op.number, messages, refs) = ThreadRefs(op.number, messages)
    BY <1>1, <2>1, ThreadGrows
  <2>. QED BY <1>1, <1>3, <1>4, <1>5, <2>2
<1>6. CASE op.kind # "comment"
  <2>1. messages = comments
    BY <1>2, <1>6
  <2>. QED BY <1>1, <1>3, <1>4, <1>6, <2>1
<1>. QED BY <1>5, <1>6

-----------------------------------------------------------------------------
(* Writing the issue an operation touched *)

\* The issues an operation leaves, by what they were.
IssuesMade(op, issues, after) ==
  /\ DOMAIN after = (IF op.kind = "create" THEN DOMAIN issues \cup {op.number}
                     ELSE IF op.kind = "delete" THEN DOMAIN issues \ {op.number}
                     ELSE DOMAIN issues)
  /\ \A n \in DOMAIN after : n # op.number \/ ~TouchesIssue(op.kind)
       => n \in DOMAIN issues /\ after[n] = issues[n]
  /\ op.kind = "create" => op.number \notin DOMAIN issues /\ after[op.number] = NewIssue(op)
  /\ Revises(op.kind) => op.number \in DOMAIN issues
                         /\ after[op.number] = IssueAfter(op, issues[op.number])
  /\ op.kind = "delete" => op.number \in DOMAIN issues
  /\ ~TouchesIssue(op.kind) => after = issues

\* applyBoardMutation: which issues an accepted operation leaves.
LEMMA IssuesLeft ==
  ASSUME NEW op, NEW board, Applicable(op, board)
  PROVE  IssuesMade(op, board.issues, ApplyBoardMutation(op, board).issues)
<1>1. PICK Q : Q = board.issues
  OBVIOUS
<1>2. ApplyBoardMutation(op, board).issues = IssuesAfter(op, Q)
  BY <1>1, Zenon DEF ApplyBoardMutation
<1>3. /\ Revises(op.kind) \/ op.kind = "delete" => op.number \in DOMAIN Q
      /\ op.kind = "create" => op.number \notin DOMAIN Q
  BY <1>1 DEF Applicable, Revises
<1>4. /\ DOMAIN IssuesAfter(op, Q)
           = (IF op.kind = "create" THEN DOMAIN Q \cup {op.number}
              ELSE IF op.kind = "delete" THEN DOMAIN Q \ {op.number} ELSE DOMAIN Q)
      /\ \A n \in DOMAIN IssuesAfter(op, Q) : n # op.number \/ ~TouchesIssue(op.kind)
           => n \in DOMAIN Q /\ IssuesAfter(op, Q)[n] = Q[n]
      /\ op.kind = "create" => IssuesAfter(op, Q)[op.number] = NewIssue(op)
      /\ Revises(op.kind) => IssuesAfter(op, Q)[op.number] = IssueAfter(op, Q[op.number])
  <2>1. Revises(op.kind) => op.number \in DOMAIN Q BY <1>3
  <2>. QED BY <2>1, IssuesAfterFacts, Zenon
<1>5. ~TouchesIssue(op.kind) => IssuesAfter(op, Q) = Q
  BY DEF IssuesAfter, TouchesIssue
<1>6. IssuesMade(op, Q, IssuesAfter(op, Q))
  BY <1>3, <1>4, <1>5, Zenon DEF IssuesMade
<1>. QED BY <1>1, <1>2, <1>6, Zenon

\* What writeIssue and writeDirectory make of the refs, from the page.
WrittenPage(op, card, page, before, previous, thread) ==
  LET made    == MaterializeIssue(op, card, thread)
      entries == IF op.kind = "delete" THEN before \ previous
                 ELSE (before \ previous) \union {[number |-> op.number, ref |-> made.ref]}
  IN  IF entries = {} THEN NoRef ELSE DirectoryShard(page, entries)

WrittenRefs(refs, page, ref) ==
  IF page <= Len(refs) THEN [refs EXCEPT ![page] = ref] ELSE Append(refs, ref)

\* What they read: the page, and the thread of the issue on it.
ReadForWrite(op, meta, page, before, previous, threads, thread) ==
  /\ TouchesIssue(op.kind)
  /\ page = DirectoryPageFor(meta, op.number)
  /\ before = (IF page <= Len(meta.directoryRefs) /\ meta.directoryRefs[page] # NoRef
               THEN meta.directoryRefs[page].named ELSE {})
  /\ previous = {e \in before : e.number = op.number}
  /\ threads = {e.ref.commentRefs : e \in previous}
  /\ thread = (IF threads = {} THEN << >> ELSE CHOOSE t \in threads : TRUE)

\* writeIssue and writeDirectory: the directory they return.
LEMMA WriteIssueIs ==
  ASSUME NEW op, NEW meta, NEW next, NEW page, NEW before, NEW previous, NEW threads, NEW thread,
         ReadForWrite(op, meta, page, before, previous, threads, thread)
  PROVE  WriteIssue(op, meta, next).refs
           = DropEmptyTail(WrittenRefs(meta.directoryRefs, page,
               WrittenPage(op, next[op.number], page, before, previous, thread)))
BY DEF ReadForWrite, WriteIssue, WrittenRefs, WrittenPage

\* What the cards are after an operation: the touched one as the board has it,
\* the others with the closing time they had.
Settled(op, board, closedAt, real, at, next) ==
  /\ op.at \in Nat /\ IsBoard(board) /\ Applicable(op, board)
  /\ real = ApplyBoardMutation(op, board)
  /\ TouchesIssue(op.kind) /\ op.number \in DOMAIN real.issues
       => next[op.number] = CardOf(real.issues[op.number], at[op.number])
  /\ \A n \in DOMAIN real.issues :
       n # op.number \/ ~TouchesIssue(op.kind) => at[n] = closedAt[n]

-----------------------------------------------------------------------------
(* The generation an operation makes *)

\* writeIssueListPages: the pages hold the new rows, whichever were carried.
LEMMA ListsWritten ==
  ASSUME NEW state, NEW rows, NEW after, NEW refs, Lists(refs, state, rows)
  PROVE  Lists(WriteListPages(state, after, rows, refs).refs, state, after)
<1>1. PICK next : next = Paginate(after, IssuePageSize)
  OBVIOUS
<1>2. PICK previous : previous = Paginate(rows, IssuePageSize)
  OBVIOUS
<1>3. PICK carried : carried = Carried(next, previous, refs)
  OBVIOUS
<1>4. PICK written : written = [p \in DOMAIN next |-> IF p \in carried THEN refs[p]
                                  ELSE ListShard(state, p, Len(after), next[p])]
  OBVIOUS
<1>5. WriteListPages(state, after, rows, refs).refs = written
  BY <1>1, <1>2, <1>3, <1>4 DEF WriteListPages
<1>6. refs = [p \in DOMAIN previous |-> ListShard(state, p, refs[p].total, previous[p])]
  BY <1>2 DEF Lists
<1>7. \A page, total, entries : ListShard(state, page, total, entries).total = total
  BY DEF ListShard
<1>8. ASSUME NEW p \in DOMAIN next
      PROVE  written[p] = ListShard(state, p, written[p].total, next[p])
  <2>1. CASE p \in carried
    <3>1. written[p] = refs[p] BY <1>4, <2>1
    <3>2. p \in DOMAIN previous /\ previous[p] = next[p] BY <1>3, <2>1 DEF Carried
    <3>3. refs[p] = ListShard(state, p, refs[p].total, previous[p]) BY <1>6, <3>2
    <3>. QED BY <3>1, <3>2, <3>3
  <2>2. CASE p \notin carried
    <3>1. written[p] = ListShard(state, p, Len(after), next[p]) BY <1>4, <2>2
    <3>. QED BY <1>7, <3>1
  <2>. QED BY <2>1, <2>2
<1>9. written = [p \in DOMAIN next |-> ListShard(state, p, written[p].total, next[p])]
  BY <1>4, <1>8
<1>. QED BY <1>1, <1>5, <1>9 DEF Lists

\* appendFeed: the pages hold the feed with the entry.
LEMMA FeedsWritten ==
  ASSUME NEW meta, NEW feed, IsSeq(feed), Feeds(meta.feedPageRefs, feed),
         meta.feedCount = Len(feed), NEW entry
  PROVE  Feeds(AppendFeed(meta, entry).refs, Append(feed, entry))
<1>1. FeedPageSize \in Nat \ {0}
  BY PageSizes
<1>2. PICK L \in Nat : L = Len(feed)
  BY SeqFacts
<1>3. PICK pages : pages = Paginate(feed, FeedPageSize)
  OBVIOUS
<1>4. PICK whole : whole = Append(feed, entry)
  OBVIOUS
<1>5. PICK after : after = Paginate(whole, FeedPageSize)
  OBVIOUS
<1>6. PICK page : page = (L \div FeedPageSize) + 1
  OBVIOUS
<1>7. /\ page \in Nat /\ Len(after) = page
      /\ Len(pages) = (IF L % FeedPageSize = 0 THEN page - 1 ELSE page)
      /\ \A p \in 1..(page - 1) : after[p] = pages[p]
      /\ after[page] = Append(IF L % FeedPageSize = 0 THEN << >> ELSE pages[page], entry)
  <2>1. LET before == Paginate(feed, FeedPageSize)
            grown == Paginate(Append(feed, entry), FeedPageSize)
            last == (Len(feed) \div FeedPageSize) + 1
        IN  /\ last \in Nat /\ Len(grown) = last
            /\ Len(before) = IF Len(feed) % FeedPageSize = 0 THEN last - 1 ELSE last
            /\ \A p \in 1..(last - 1) : grown[p] = before[p]
            /\ grown[last] = Append(IF Len(feed) % FeedPageSize = 0 THEN << >>
                                    ELSE before[last], entry)
            /\ grown[last] = SubSeq(Append(feed, entry), (last - 1) * FeedPageSize + 1,
                                    Len(feed) + 1)
    BY <1>1, PaginateAppend, Zenon
  <2>. QED BY <1>2, <1>3, <1>4, <1>5, <1>6, <2>1, Zenon
<1>8. DOMAIN pages = 1..Len(pages) /\ DOMAIN after = 1..page
  <2>1. IsSeq(pages)
    <3>1. PICK k \in Nat, n \in Nat : \E ps : PagesOf(ps, feed, FeedPageSize, k, n)
      BY <1>1, PaginateFacts
    <3>. QED BY <1>3, <3>1 DEF PagesOf
  <2>2. IsSeq(after)
    <3>1. IsSeq(whole) BY <1>4, AppendFacts
    <3>2. PICK k \in Nat, n \in Nat : \E ps : PagesOf(ps, whole, FeedPageSize, k, n)
      BY <1>1, <3>1, PaginateFacts
    <3>. QED BY <1>5, <3>2 DEF PagesOf
  <2>. QED BY <1>7, <2>1, <2>2, SeqFacts
<1>. DEFINE Shard(p, entries) == [type |-> "feed", page |-> p, entries |-> entries]
<1>9. PICK refs : refs = meta.feedPageRefs
  OBVIOUS
<1>10. refs = [p \in DOMAIN pages |-> Shard(p, pages[p])]
  BY <1>3, <1>9 DEF Feeds
<1>11. PICK tail \in BOOLEAN : tail = (L % FeedPageSize # 0)
  OBVIOUS
<1>12. PICK written : written = AppendFeed(meta, entry).refs
  OBVIOUS
<1>13. page >= 1 /\ page \in 1..page
  <2>1. L \div FeedPageSize \in Nat BY <1>1, Quotient
  <2>. QED BY <1>6, <2>1
<1>14. \A p, entries : Shard(p, entries).entries = entries
  OBVIOUS
<1>15. CASE tail
  <2>1. DOMAIN refs = 1..page /\ refs[page] = Shard(page, pages[page])
    BY <1>7, <1>8, <1>10, <1>11, <1>13, <1>15
  <2>2. written = [refs EXCEPT ![page] = Shard(page, Append(refs[page].entries, entry))]
    BY <1>2, <1>6, <1>9, <1>11, <1>12, <1>15 DEF AppendFeed
  <2>3. Append(refs[page].entries, entry) = after[page]
    <3>1. Shard(page, pages[page]).entries = pages[page] OBVIOUS
    <3>2. after[page] = Append(pages[page], entry) BY <1>7, <1>11, <1>15
    <3>. HIDE DEF Shard
    <3>. QED BY <2>1, <3>1, <3>2, Zenon
  <2>4. written = [p \in 1..page |-> written[p]]
        /\ \A p \in 1..page : written[p] = IF p = page THEN Shard(page, after[page]) ELSE refs[p]
    <3>. HIDE DEF Shard
    <3>1. refs = [p \in 1..page |-> refs[p]]
      BY <1>10, <2>1
    <3>. QED BY <2>1, <2>2, <2>3, <3>1
  <2>5. ASSUME NEW p \in 1..page PROVE written[p] = Shard(p, after[p])
    <3>1. CASE p = page BY <2>4, <3>1, Zenon
    <3>2. CASE p # page
      <4>1. p \in 1..(page - 1) /\ p \in DOMAIN pages BY <1>7, <1>8, <1>11, <1>15, <3>2
      <4>2. refs[p] = Shard(p, pages[p]) BY <1>10, <4>1
      <4>3. after[p] = pages[p] BY <1>7, <4>1
      <4>. QED BY <2>4, <3>2, <4>2, <4>3
    <3>. QED BY <3>1, <3>2
  <2>6. written = [p \in 1..page |-> Shard(p, after[p])]
    <3>. HIDE DEF Shard
    <3>. QED BY <2>4, <2>5
  <2>. QED BY <1>4, <1>5, <1>8, <1>12, <2>6 DEF Feeds
<1>16. CASE ~tail
  <2>1. DOMAIN refs = 1..(page - 1) /\ Len(pages) = page - 1
    BY <1>7, <1>8, <1>10, <1>11, <1>16
  <2>2. written = Append(refs, Shard(page, Append(<< >>, entry)))
    BY <1>2, <1>6, <1>9, <1>11, <1>12, <1>16 DEF AppendFeed
  <2>3. Append(<< >>, entry) = after[page]
    BY <1>7, <1>11, <1>16
  <2>. HIDE DEF Shard
  <2>4. IsSeq(refs) /\ Len(refs) = page - 1
    <3>1. refs = [p \in 1..(page - 1) |-> refs[p]] BY <1>10, <2>1
    <3>2. page - 1 \in Nat BY <1>7, <1>13
    <3>. QED BY <3>1, <3>2, MadeSeq
  <2>5. /\ IsSeq(written) /\ Len(written) = page /\ written[page] = Shard(page, after[page])
        /\ \A p \in 1..(page - 1) : written[p] = refs[p]
    <3>1. (page - 1) + 1 = page BY <1>7
    <3>2. PICK s : s = Shard(page, after[page]) OBVIOUS
    <3>3. written = Append(refs, s) BY <2>2, <2>3, <3>2
    <3>. QED BY <2>4, <3>1, <3>2, <3>3, AppendFacts
  <2>6. ASSUME NEW p \in 1..page PROVE written[p] = Shard(p, after[p])
    <3>1. CASE p = page BY <2>5, <3>1
    <3>2. CASE p # page
      <4>1. p \in 1..(page - 1) BY <1>7, <3>2
      <4>2. refs[p] = Shard(p, pages[p]) BY <1>10, <2>1, <4>1
      <4>3. after[p] = pages[p] BY <1>7, <4>1
      <4>. QED BY <2>5, <4>1, <4>2, <4>3
    <3>. QED BY <3>1, <3>2
  <2>7. written = [p \in 1..page |-> Shard(p, after[p])]
    BY <2>5, <2>6, SeqFacts
  <2>. QED BY <1>4, <1>5, <1>8, <1>12, <2>7 DEF Feeds, Shard
<1>. QED BY <1>15, <1>16

\* The board of a generation, from the cards that were read of it.
LEMMA HeldBeside ==
  ASSUME NEW meta, NEW board, NEW feed, NEW closedAt, Represents(meta, board, feed, closedAt),
         NEW held, NEW op, Held(held, CardsAre(board.issues, closedAt), op.kind, op.number)
  PROVE  Beside(BoardOf(held, meta), board, held, CardsAre(board.issues, closedAt), op)
<1>1. IsBoard(board) /\ meta.queueRef.numbers = board.queue /\ meta.deleted = board.deleted
  BY DEF Represents, QueueShard
<1>2. /\ BoardOf(held, meta).issues = [n \in DOMAIN held |-> held[n].issue]
      /\ BoardOf(held, meta).queue = board.queue /\ BoardOf(held, meta).deleted = board.deleted
  BY <1>1 DEF BoardOf
<1>3. /\ DOMAIN CardsAre(board.issues, closedAt) = DOMAIN board.issues
      /\ \A n \in DOMAIN CardsAre(board.issues, closedAt) :
           CardsAre(board.issues, closedAt)[n].issue = board.issues[n]
  BY DEF CardsAre, CardOf
<1>. QED BY <1>1, <1>2, <1>3, Zenon DEF Beside

\* The parts appendInternal writes a generation from.
PartsOf(made, op, meta, cards, before, after, next) ==
  /\ before = BoardOf(cards, meta)
  /\ after = ApplyBoardMutation(op, before)
  /\ next = NextCards(op, cards, after)
  /\ made.log = Append(meta.log, op) /\ made.updatedAt = op.at
  /\ made.directoryRefs = WriteIssue(op, meta, next).refs
  /\ made.openPageRefs = WriteListPages("open", OrderedSummaries(next, after.queue, "open"),
                           OrderedSummaries(cards, before.queue, "open"), meta.openPageRefs).refs
  /\ made.closedPageRefs = WriteListPages("closed", OrderedSummaries(next, after.queue, "closed"),
                           OrderedSummaries(cards, before.queue, "closed"), meta.closedPageRefs).refs
  /\ made.queueRef = WriteQueue(meta, after.queue).ref
  /\ made.catalogRef = WriteCatalog(meta).ref
  /\ made.feedPageRefs = WriteFeed(op, meta, before, after).refs
  /\ made.feedCount = (IF op.kind \in DOMAIN FeedKind THEN meta.feedCount + 1 ELSE meta.feedCount)
  /\ made.openIssueCount = CountOf(after, "open")
  /\ made.closedIssueCount = CountOf(after, "closed")
  /\ made.deleted = after.deleted

\* appendInternal: the parts a generation is put together from.
LEMMA GenerationParts ==
  ASSUME NEW op, NEW meta, NEW cards
  PROVE  \E before, after, next :
            PartsOf(NextGeneration(op, meta, cards), op, meta, cards, before, after, next)
<1>1. PICK before : before = BoardOf(cards, meta)
  OBVIOUS
<1>2. PICK after : after = ApplyBoardMutation(op, before)
  OBVIOUS
<1>3. PICK next : next = NextCards(op, cards, after)
  OBVIOUS
<1>4. PICK made : made = NextGeneration(op, meta, cards)
  OBVIOUS
<1>5. PartsOf(made, op, meta, cards, before, after, next)
  BY <1>1, <1>2, <1>3, <1>4 DEF PartsOf, NextGeneration
<1>. QED BY <1>4, <1>5

\* The operation a client makes.
IsOperation(op) == op.at \in Nat /\ op.number \in Nat /\ IsSeq(op.numbers)

-----------------------------------------------------------------------------
(* The first generation *)

\* No entry fills no page.
LEMMA EmptyPages ==
  ASSUME NEW size \in Nat \ {0}
  PROVE  IsSeq(Paginate(<< >>, size)) /\ DOMAIN Paginate(<< >>, size) = {}
<1>1. IsSeq(<< >>) /\ Len(<< >>) = 0
  BY DEF IsSeq
<1>2. PICK L \in Nat, k \in Nat : \E ps : PagesOf(ps, << >>, size, L, k)
  BY <1>1, PaginateFacts
<1>3. /\ L = 0 /\ k = PageCount(L, size)
      /\ IsSeq(Paginate(<< >>, size)) /\ Len(Paginate(<< >>, size)) = k
  BY <1>1, <1>2 DEF PagesOf
<1>4. PageCount(0, size) = 0
  <2>1. 0 <= 0 * size /\ 0 * size < 0 + size OBVIOUS
  <2>. QED BY <2>1, PageCounts
<1>5. DOMAIN Paginate(<< >>, size) = 1..0
  BY <1>3, <1>4, SeqFacts
<1>. QED BY <1>3, <1>5

\* Where each of a set is among pages that are not empty.
Placing(place, pages, S) ==
  /\ place \in [S -> 1..Len(pages)]
  /\ \A p \in 1..Len(pages) : /\ ToSet(pages[p]) # {}
                              /\ ToSet(pages[p]) = {n \in S : place[n] = p}

\* Each entry of a sequence without repetition is on one page of it.
LEMMA PlacedOnce ==
  ASSUME NEW s, IsSeq(s), NEW size \in Nat \ {0},
         \A i, j \in 1..Len(s) : s[i] = s[j] => i = j
  PROVE  \E place : Placing(place, Paginate(s, size), ToSet(s))
<1>1. PICK L \in Nat, k \in Nat : \E pages : PagesOf(pages, s, size, L, k)
  BY PaginateFacts
<1>2. PICK pages : PagesOf(pages, s, size, L, k)
  BY <1>1
<1>3. /\ L = Len(s) /\ pages = Paginate(s, size) /\ Len(pages) = k
      /\ \A p \in 1..k :
           /\ (p - 1) * size \in Nat
           /\ IsSeq(pages[p]) /\ Len(pages[p]) \in 1..size
           /\ \A i \in 1..Len(pages[p]) : /\ (p - 1) * size + i \in 1..L
                                          /\ pages[p][i] = s[(p - 1) * size + i]
  BY <1>2 DEF PagesOf
<1>4. ASSUME NEW p \in 1..k PROVE ToSet(pages[p]) = {pages[p][i] : i \in 1..Len(pages[p])}
  BY <1>3, SeqOfEntries
<1>5. ToSet(s) = {s[i] : i \in 1..L}
  BY <1>3, SeqOfEntries
<1>6. ASSUME NEW p \in 1..k PROVE ToSet(pages[p]) # {} /\ ToSet(pages[p]) \subseteq ToSet(s)
  <2>0. ToSet(pages[p]) = {pages[p][i] : i \in 1..Len(pages[p])} BY <1>4
  <2>1. 1 \in 1..Len(pages[p]) BY <1>3
  <2>2. pages[p][1] \in ToSet(pages[p]) BY <2>0, <2>1, Zenon
  <2>3. ASSUME NEW n \in ToSet(pages[p]) PROVE n \in ToSet(s)
    <3>1. PICK i \in 1..Len(pages[p]) : n = pages[p][i] BY <2>0, Zenon
    <3>2. (p - 1) * size + i \in 1..L /\ n = s[(p - 1) * size + i] BY <1>3, <3>1
    <3>. QED BY <1>5, <3>2
  <2>. QED BY <2>2, <2>3, Zenon
<1>7. ASSUME NEW p \in 1..k, NEW q \in 1..k, NEW n \in ToSet(pages[p]), n \in ToSet(pages[q])
      PROVE  p = q
  <2>0. /\ ToSet(pages[p]) = {pages[p][i] : i \in 1..Len(pages[p])}
        /\ ToSet(pages[q]) = {pages[q][i] : i \in 1..Len(pages[q])}
    BY <1>4
  <2>1. PICK i \in 1..Len(pages[p]) : n = pages[p][i] BY <2>0, Zenon
  <2>2. PICK j \in 1..Len(pages[q]) : n = pages[q][j] BY <1>7, <2>0, Zenon
  <2>3. PICK a \in Nat : a = (p - 1) * size BY <1>3
  <2>4. PICK b \in Nat : b = (q - 1) * size BY <1>3
  <2>5. i \in 1..size /\ j \in 1..size BY <1>3
  <2>6. a + i \in 1..L /\ b + j \in 1..L /\ s[a + i] = s[b + j]
    BY <1>3, <2>1, <2>2, <2>3, <2>4
  <2>7. a + i = b + j BY <1>3, <2>6
  <2>8. PICK c \in Nat : c = a + i - 1 BY <2>5
  <2>9. p - 1 \in Nat /\ q - 1 \in Nat OBVIOUS
  <2>10. a <= c /\ c < a + size /\ b <= c /\ c < b + size BY <2>5, <2>7, <2>8
  <2>11. c \div size = p - 1 BY <2>3, <2>9, <2>10, Quotient
  <2>12. c \div size = q - 1 BY <2>4, <2>9, <2>10, Quotient
  <2>. QED BY <2>11, <2>12
<1>8. ASSUME NEW n \in ToSet(s) PROVE \E p \in 1..k : n \in ToSet(pages[p])
  <2>1. /\ DOMAIN Paginate(s, size) = 1..Len(Paginate(s, size))
        /\ \A x \in ToSet(s) : \E p \in DOMAIN Paginate(s, size) : x \in ToSet(Paginate(s, size)[p])
    BY PagesCover
  <2>. QED BY <1>3, <2>1
<1>9. PICK place : place = [n \in ToSet(s) |-> CHOOSE p \in 1..k : n \in ToSet(pages[p])]
  OBVIOUS
<1>10. \A n \in ToSet(s) : place[n] \in 1..k /\ n \in ToSet(pages[place[n]])
  BY <1>8, <1>9
<1>11. place \in [ToSet(s) -> 1..k]
  BY <1>9, <1>10
<1>12. ASSUME NEW p \in 1..k PROVE ToSet(pages[p]) = {n \in ToSet(s) : place[n] = p}
  BY <1>6, <1>7, <1>10
<1>13. \A p \in 1..k : /\ ToSet(pages[p]) # {}
                        /\ ToSet(pages[p]) = {n \in ToSet(s) : place[n] = p}
  BY <1>6, <1>12, Zenon
<1>14. Placing(place, pages, ToSet(s))
  BY <1>3, <1>11, <1>13, Zenon DEF Placing
<1>. QED BY <1>3, <1>14, Zenon

\* The directory of a first generation: chunks of the issues in some order,
\* every page naming the snapshots of its chunk.
FirstDirectory(cards, order) ==
  [p \in DOMAIN Paginate(order, DirectoryPageSize) |->
     DirectoryShard(p, {EntryFor(n, cards[n]) : n \in ToSet(Paginate(order, DirectoryPageSize)[p])})]

\* The chunks make a directory of the cards.
LEMMA FirstDirectoryIs ==
  ASSUME NEW cards, NEW order, IsSeq(order), ToSet(order) = DOMAIN cards,
         \A i, j \in 1..Len(order) : order[i] = order[j] => i = j
  PROVE  \E place : Directory(FirstDirectory(cards, order), cards, place)
<1>1. PICK pages : pages = Paginate(order, DirectoryPageSize)
  OBVIOUS
<1>2. DirectoryPageSize \in Nat \ {0}
  BY PageSizes
<1>3. PICK place : Placing(place, pages, DOMAIN cards)
  <2>1. \E place : Placing(place, Paginate(order, DirectoryPageSize), ToSet(order))
    BY <1>2, PlacedOnce, Zenon
  <2>. QED BY <1>1, <2>1, Zenon
<1>4. PICK k \in Nat : k = Len(pages) /\ DOMAIN pages = 1..k
  <2>1. IsSeq(pages)
    <3>1. PICK L \in Nat, n \in Nat : \E ps : PagesOf(ps, order, DirectoryPageSize, L, n)
      BY <1>2, PaginateFacts
    <3>. QED BY <1>1, <3>1 DEF PagesOf
  <2>. QED BY <2>1, SeqFacts
<1>5. PICK refs : refs = FirstDirectory(cards, order)
  OBVIOUS
<1>6. refs = [p \in 1..k |-> DirectoryShard(p, {EntryFor(n, cards[n]) : n \in ToSet(pages[p])})]
  BY <1>1, <1>4, <1>5 DEF FirstDirectory
<1>7. IsSeq(refs) /\ Len(refs) = k
  <2>1. refs = [p \in 1..k |-> refs[p]] BY <1>6
  <2>. QED BY <2>1, MadeSeq
<1>8. ASSUME NEW p \in 1..k
      PROVE  refs[p] = IF Named(cards, place, p) = {} THEN NoRef
                       ELSE DirectoryShard(p, Named(cards, place, p))
  <2>1. ToSet(pages[p]) # {} /\ ToSet(pages[p]) = {n \in DOMAIN cards : place[n] = p}
    BY <1>3, <1>4, Zenon DEF Placing
  <2>2. Named(cards, place, p) = {EntryFor(n, cards[n]) : n \in ToSet(pages[p])}
    BY <2>1, Zenon DEF Named
  <2>3. Named(cards, place, p) # {}
    BY <2>1, <2>2
  <2>4. refs[p] = DirectoryShard(p, Named(cards, place, p))
    BY <1>6, <2>2
  <2>. QED BY <2>3, <2>4, Zenon
<1>9. \A p \in 1..Len(refs) :
        refs[p] = IF Named(cards, place, p) = {} THEN NoRef
                  ELSE DirectoryShard(p, Named(cards, place, p))
  BY <1>7, <1>8, Zenon
<1>10. place \in [DOMAIN cards -> 1..Len(refs)]
  BY <1>3, <1>4, <1>7, Zenon DEF Placing
<1>11. Directory(refs, cards, place)
  BY <1>7, <1>9, <1>10, Zenon DEF Directory
<1>. QED BY <1>5, <1>11

\* The list pages of a first generation replace none.
LEMMA FirstLists ==
  ASSUME NEW state, NEW rows
  PROVE  Lists(WriteListPages(state, rows, << >>, << >>).refs, state, rows)
<1>1. IssuePageSize \in Nat \ {0}
  BY PageSizes
<1>2. DOMAIN Paginate(<< >>, IssuePageSize) = {}
  BY <1>1, EmptyPages
<1>3. PICK none : none = << >>
  OBVIOUS
<1>4. none = [p \in {} |-> ListShard(state, p, none[p].total, Paginate(none, IssuePageSize)[p])]
  <2>1. none = [p \in {} |-> 0] BY <1>3
  <2>. QED BY <2>1
<1>5. Lists(none, state, none)
  BY <1>2, <1>3, <1>4 DEF Lists
<1>6. Lists(WriteListPages(state, rows, none, none).refs, state, rows)
  BY <1>5, ListsWritten
<1>. QED BY <1>3, <1>6

\* The parts materializeLogical writes a first generation from.
FirstParts(made, board, closedAt, feed, at, order, cards) ==
  /\ made.updatedAt = at
  /\ made.directoryRefs = FirstDirectory(cards, order)
  /\ made.openPageRefs = WriteListPages("open", OrderedSummaries(cards, board.queue, "open"),
                                        << >>, << >>).refs
  /\ made.closedPageRefs = WriteListPages("closed", OrderedSummaries(cards, board.queue, "closed"),
                                          << >>, << >>).refs
  /\ made.queueRef = QueueShard(board.queue)
  /\ made.catalogRef = CatalogShard(FALSE)
  /\ Feeds(made.feedPageRefs, feed)
  /\ made.feedCount = Len(feed)
  /\ made.openIssueCount = CountOf(board, "open")
  /\ made.closedIssueCount = CountOf(board, "closed")
  /\ made.deleted = board.deleted
  /\ made.retainsMetaRef = {}

\* They are what FirstGeneration says, read with the cards of the board.
LEMMA FirstGenerationParts ==
  ASSUME NEW log, NEW board, NEW closedAt, NEW feed, NEW at, NEW order, IsSeq(order),
         ToSet(order) = DOMAIN board.issues
  PROVE  FirstParts(FirstGeneration(log, board, closedAt, feed, at, order), board, closedAt,
                    feed, at, order, CardsAre(board.issues, closedAt))
<1>1. PICK cards : cards = CardsAre(board.issues, closedAt)
  OBVIOUS
<1>2. cards = [n \in DOMAIN board.issues |->
                [issue |-> board.issues[n], closedAt |-> closedAt[n],
                 count |-> Len(board.issues[n].comments),
                 activity |-> NewestComment(board.issues[n].comments)]]
  BY <1>1 DEF CardsAre, CardOf
<1>3. PICK chunks : chunks = Paginate(order, DirectoryPageSize)
  OBVIOUS
<1>4. PICK made : made = FirstGeneration(log, board, closedAt, feed, at, order)
  OBVIOUS
<1>5. ASSUME NEW n \in DOMAIN board.issues
      PROVE  [number |-> n, ref |-> SnapshotShard(n, cards[n], ThreadRefs(n, board.issues[n].comments))]
               = EntryFor(n, cards[n])
  <2>1. cards[n].issue = board.issues[n] BY <1>2
  <2>. QED BY <2>1 DEF EntryFor
<1>6. made.directoryRefs = [p \in DOMAIN chunks |-> DirectoryShard(p,
             {[number |-> n, ref |-> SnapshotShard(n, cards[n], ThreadRefs(n, board.issues[n].comments))] :
                 n \in ToSet(chunks[p])})]
  BY <1>2, <1>3, <1>4 DEF FirstGeneration, ThreadRefs
<1>7. made.directoryRefs = FirstDirectory(cards, order)
  <2>1. ASSUME NEW p \in DOMAIN chunks, NEW n \in ToSet(chunks[p]) PROVE n \in DOMAIN board.issues
    <3>1. DirectoryPageSize \in Nat \ {0} BY PageSizes
    <3>2. ToSet(chunks[p]) \subseteq ToSet(order) BY <1>3, <3>1, PagesCover
    <3>. QED BY <3>2
  <2>2. ASSUME NEW p \in DOMAIN chunks
        PROVE  {[number |-> n, ref |-> SnapshotShard(n, cards[n], ThreadRefs(n, board.issues[n].comments))] :
                   n \in ToSet(chunks[p])}
                 = {EntryFor(n, cards[n]) : n \in ToSet(chunks[p])}
    BY <1>5, <2>1
  <2>3. FirstDirectory(cards, order)
          = [p \in DOMAIN chunks |-> DirectoryShard(p, {EntryFor(n, cards[n]) : n \in ToSet(chunks[p])})]
    BY <1>3 DEF FirstDirectory
  <2>. QED BY <1>6, <2>2, <2>3
<1>8. /\ made.updatedAt = at
      /\ made.openPageRefs = WriteListPages("open", OrderedSummaries(cards, board.queue, "open"),
                                        << >>, << >>).refs
      /\ made.closedPageRefs = WriteListPages("closed", OrderedSummaries(cards, board.queue, "closed"),
                                          << >>, << >>).refs
      /\ made.queueRef = QueueShard(board.queue)
      /\ made.catalogRef = CatalogShard(FALSE)
      /\ made.feedCount = Len(feed)
      /\ made.openIssueCount = CountOf(board, "open")
      /\ made.closedIssueCount = CountOf(board, "closed")
      /\ made.deleted = board.deleted
      /\ made.retainsMetaRef = {}
  BY <1>2, <1>4 DEF FirstGeneration
<1>9. Feeds(made.feedPageRefs, feed)
  BY <1>4 DEF FirstGeneration, Feeds
<1>. QED BY <1>1, <1>4, <1>7, <1>8, <1>9, Zenon DEF FirstParts

\* migrate and materializeLogical: the first generation stands for the board
\* and the feed it was written from.
LEMMA FirstRepresents ==
  ASSUME NEW log, NEW board, IsBoard(board), NEW closedAt \in [DOMAIN board.issues -> Nat],
         NEW feed, IsSeq(feed), NEW at, NEW order, IsSeq(order),
         ToSet(order) = DOMAIN board.issues,
         \A i, j \in 1..Len(order) : order[i] = order[j] => i = j
  PROVE  Represents(FirstGeneration(log, board, closedAt, feed, at, order), board, feed, closedAt)
<1>1. PICK cards : cards = CardsAre(board.issues, closedAt)
  OBVIOUS
<1>2. PICK made : made = FirstGeneration(log, board, closedAt, feed, at, order)
  OBVIOUS
<1>3. FirstParts(made, board, closedAt, feed, at, order, cards)
  BY <1>1, <1>2, FirstGenerationParts
<1>4. DOMAIN cards = DOMAIN board.issues
  BY <1>1 DEF CardsAre
<1>5. \E place : Directory(made.directoryRefs, cards, place)
  <2>1. \E place : Directory(FirstDirectory(cards, order), cards, place)
    BY <1>4, FirstDirectoryIs
  <2>2. made.directoryRefs = FirstDirectory(cards, order)
    BY <1>3 DEF FirstParts
  <2>. QED BY <2>1, <2>2, Zenon
<1>6. /\ Lists(made.openPageRefs, "open", OrderedSummaries(cards, board.queue, "open"))
      /\ Lists(made.closedPageRefs, "closed", OrderedSummaries(cards, board.queue, "closed"))
  <2>1. ASSUME NEW state, NEW rows
        PROVE  Lists(WriteListPages(state, rows, << >>, << >>).refs, state, rows)
    BY FirstLists
  <2>. QED BY <1>3, <2>1, Zenon DEF FirstParts
<1>7. Represents(made, board, feed, closedAt)
  BY <1>1, <1>3, <1>5, <1>6, Zenon DEF Represents, FirstParts
<1>. QED BY <1>2, <1>7

-----------------------------------------------------------------------------
(* What a generation pins *)

\* The shards of a generation by kind: a page of a list, of the feed or of the
\* directory, the snapshot of an issue, a page of its thread.
IsList(x, refs, state) ==
  \E p \in DOMAIN refs : x = refs[p] /\ x.type = "list" /\ x.state = state /\ x.page = p
IsFeed(x, refs) ==
  \E p \in DOMAIN refs : x = refs[p] /\ x.type = "feed" /\ x.page = p
IsDirectory(x, refs) ==
  \E p \in DOMAIN refs : x = refs[p] /\ x.type = "directory" /\ x.page = p
IsSnapshot(x, cards) ==
  \E n \in DOMAIN cards : x = EntryFor(n, cards[n]).ref /\ x.type = "issue" /\ x.number = n
IsThreadPage(x, cards) ==
  \E n \in DOMAIN cards : \E p \in DOMAIN ThreadRefs(n, cards[n].issue.comments) :
     /\ x = ThreadRefs(n, cards[n].issue.comments)[p]
     /\ x.type = "comments" /\ x.number = n /\ x.page = p

\* What the directory leads to.
IssueShards(meta) ==
  (ToSet(meta.directoryRefs) \ {NoRef}) \cup SnapshotsOf(meta)
    \cup UNION {ToSet(s.commentRefs) : s \in SnapshotsOf(meta)}

\* The kinds of which no shard is of two.
TagOf(x) == IF x.type = "list" THEN x.state
            ELSE IF x.type \in {"directory", "issue", "comments"} THEN "issue" ELSE x.type

\* pinnedRefs, kind by kind.
LEMMA PinnedByKind ==
  ASSUME NEW meta
  PROVE  PinnedRefs(meta) = ToSet(meta.openPageRefs) \cup ToSet(meta.closedPageRefs)
                              \cup ToSet(meta.feedPageRefs) \cup {meta.queueRef}
                              \cup {meta.catalogRef} \cup IssueShards(meta)
BY DEF PinnedRefs, ListRefs, IssueShards

\* Every page of a list is marked with its state and its place.
LEMMA ListKind ==
  ASSUME NEW refs, NEW state, NEW rows, Lists(refs, state, rows)
  PROVE  \A x : x \in ToSet(refs) <=> IsList(x, refs, state)
<1>1. \A p \in DOMAIN refs : /\ refs[p].type = "list" /\ refs[p].state = state
                             /\ refs[p].page = p
  <2>1. PICK pages : pages = Paginate(rows, IssuePageSize)
    OBVIOUS
  <2>2. refs = [p \in DOMAIN pages |-> ListShard(state, p, refs[p].total, pages[p])]
    BY <2>1 DEF Lists
  <2>3. ASSUME NEW p \in DOMAIN refs
        PROVE  refs[p].type = "list" /\ refs[p].state = state /\ refs[p].page = p
    <3>1. refs[p] = ListShard(state, p, refs[p].total, pages[p]) BY <2>2
    <3>2. \A total, entries : /\ ListShard(state, p, total, entries).type = "list"
                              /\ ListShard(state, p, total, entries).state = state
                              /\ ListShard(state, p, total, entries).page = p
      BY DEF ListShard
    <3>. QED BY <3>1, <3>2
  <2>. QED BY <2>3
<1>2. \A x : x \in ToSet(refs) <=> \E p \in DOMAIN refs : x = refs[p]
  BY DEF ToSet
<1>. QED BY <1>1, <1>2 DEF IsList

\* Every page of the feed is marked with its place.
LEMMA FeedKindOf ==
  ASSUME NEW refs, NEW feed, Feeds(refs, feed)
  PROVE  \A x : x \in ToSet(refs) <=> IsFeed(x, refs)
<1>1. \A p \in DOMAIN refs : refs[p].type = "feed" /\ refs[p].page = p
  BY DEF Feeds
<1>2. \A x : x \in ToSet(refs) <=> \E p \in DOMAIN refs : x = refs[p]
  BY DEF ToSet
<1>. QED BY <1>1, <1>2 DEF IsFeed

\* What the directory leads to: its pages, the snapshots of the cards and the
\* pages of their threads.
LEMMA IssueShardsAre ==
  ASSUME NEW meta, NEW cards, NEW place, Directory(meta.directoryRefs, cards, place)
  PROVE  \A x : x \in IssueShards(meta) <=>
           IsDirectory(x, meta.directoryRefs) \/ IsSnapshot(x, cards) \/ IsThreadPage(x, cards)
<1>1. PICK refs : refs = meta.directoryRefs
  OBVIOUS
<1>2. Directory(refs, cards, place)
  BY <1>1
<1>3. DOMAIN refs = 1..Len(refs)
  BY <1>2, SeqFacts DEF Directory
<1>4. \A x : x \in ToSet(refs) \ {NoRef} <=> IsDirectory(x, refs)
  <2>1. \A p \in DOMAIN refs : refs[p] # NoRef => refs[p].type = "directory" /\ refs[p].page = p
    <3>1. ASSUME NEW p \in DOMAIN refs, refs[p] # NoRef
          PROVE  refs[p].type = "directory" /\ refs[p].page = p
      <4>1. refs[p] = IF Named(cards, place, p) = {} THEN NoRef
                      ELSE DirectoryShard(p, Named(cards, place, p))
        BY <1>2, <1>3, Zenon DEF Directory
      <4>2. refs[p] = DirectoryShard(p, Named(cards, place, p)) BY <3>1, <4>1
      <4>. QED BY <4>2 DEF DirectoryShard
    <3>. QED BY <3>1
  <2>2. \A p \in DOMAIN refs : refs[p].type = "directory" => refs[p] # NoRef
    BY DEF NoRef
  <2>3. \A x : x \in ToSet(refs) <=> \E p \in DOMAIN refs : x = refs[p]
    BY DEF ToSet
  <2>. QED BY <2>1, <2>2, <2>3 DEF IsDirectory
<1>5. \A n, card : /\ EntryFor(n, card).ref.type = "issue" /\ EntryFor(n, card).ref.number = n
                   /\ EntryFor(n, card).ref.commentRefs = ThreadRefs(n, card.issue.comments)
  BY DEF EntryFor, SnapshotShard
<1>6. \A x : x \in SnapshotsOf(meta) <=> \E n \in DOMAIN cards : x = EntryFor(n, cards[n]).ref
  <2>1. DirectoryEntries(meta) = {EntryFor(n, cards[n]) : n \in DOMAIN cards}
    BY DirectoryRead
  <2>2. \A x : x \in SnapshotsOf(meta) <=> \E e \in DirectoryEntries(meta) : x = e.ref
    BY DEF SnapshotsOf
  <2>. QED BY <2>1, <2>2
<1>7. \A n, comments : \A p \in DOMAIN ThreadRefs(n, comments) :
        /\ ThreadRefs(n, comments)[p].type = "comments" /\ ThreadRefs(n, comments)[p].number = n
        /\ ThreadRefs(n, comments)[p].page = p
  BY DEF ThreadRefs, CommentPageShard
<1>8. \A x : x \in SnapshotsOf(meta) <=> IsSnapshot(x, cards)
  BY <1>5, <1>6 DEF IsSnapshot
<1>9. \A x : x \in UNION {ToSet(s.commentRefs) : s \in SnapshotsOf(meta)} <=> IsThreadPage(x, cards)
  <2>1. \A s, x : x \in ToSet(s) <=> \E p \in DOMAIN s : x = s[p]
    BY DEF ToSet
  <2>2. \A x : x \in UNION {ToSet(s.commentRefs) : s \in SnapshotsOf(meta)}
           <=> \E n \in DOMAIN cards : x \in ToSet(ThreadRefs(n, cards[n].issue.comments))
    <3>1. ASSUME NEW x, NEW s \in SnapshotsOf(meta), x \in ToSet(s.commentRefs)
          PROVE  \E n \in DOMAIN cards : x \in ToSet(ThreadRefs(n, cards[n].issue.comments))
      BY <1>5, <1>6, <3>1
    <3>2. ASSUME NEW x, NEW n \in DOMAIN cards, x \in ToSet(ThreadRefs(n, cards[n].issue.comments))
          PROVE  x \in UNION {ToSet(s.commentRefs) : s \in SnapshotsOf(meta)}
      <4>1. EntryFor(n, cards[n]).ref \in SnapshotsOf(meta)
            /\ x \in ToSet(EntryFor(n, cards[n]).ref.commentRefs)
        BY <1>5, <1>6, <3>2
      <4>. QED BY <4>1
    <3>. QED BY <3>1, <3>2
  <2>. QED BY <1>7, <2>1, <2>2 DEF IsThreadPage
<1>. QED BY <1>1, <1>4, <1>8, <1>9 DEF IssueShards

-----------------------------------------------------------------------------
(* What an operation replaces of each kind *)

\* A rewrite of one kind: what is there now was there or is written, what is
\* replaced was there and is there no more, unless it is written, and what was
\* there is there or is replaced.
Rewrites(old, new, superseded, written) ==
  /\ new \subseteq old \cup written
  /\ superseded \subseteq old
  /\ superseded \cap new \subseteq written
  /\ old \subseteq new \cup superseded
  /\ written \subseteq new

\* writeIssueListPages: a page that is not carried forward is replaced.
LEMMA ListRewrites ==
  ASSUME NEW state, NEW rows, NEW after, NEW refs, Lists(refs, state, rows), NEW part,
         part = WriteListPages(state, after, rows, refs)
  PROVE  Rewrites(ToSet(refs), ToSet(part.refs), part.superseded, part.written)
<1>1. PICK next : next = Paginate(after, IssuePageSize)
  OBVIOUS
<1>2. PICK carried : carried = Carried(next, Paginate(rows, IssuePageSize), refs)
  OBVIOUS
<1>3. PICK made : made = [p \in DOMAIN next |-> IF p \in carried THEN refs[p]
                            ELSE ListShard(state, p, Len(after), next[p])]
  OBVIOUS
<1>4. /\ part.refs = made
      /\ part.superseded = {refs[p] : p \in DOMAIN refs \ carried}
      /\ part.written = {made[p] : p \in DOMAIN next \ carried}
  BY <1>1, <1>2, <1>3 DEF WriteListPages, SupersededPages
<1>5. \A p \in carried : p \in DOMAIN refs /\ p \in DOMAIN next
  BY <1>2 DEF Carried
<1>6. \A p \in DOMAIN refs : refs[p].page = p
  <2>1. \A p \in DOMAIN refs : refs[p] \in ToSet(refs) BY DEF ToSet
  <2>2. ASSUME NEW p \in DOMAIN refs PROVE refs[p].page = p
    <3>1. PICK pages : pages = Paginate(rows, IssuePageSize) OBVIOUS
    <3>2. refs = [q \in DOMAIN pages |-> ListShard(state, q, refs[q].total, pages[q])]
      BY <3>1 DEF Lists
    <3>3. refs[p] = ListShard(state, p, refs[p].total, pages[p]) BY <3>2
    <3>4. \A total, entries : ListShard(state, p, total, entries).page = p BY DEF ListShard
    <3>. QED BY <3>3, <3>4
  <2>. QED BY <2>2
<1>7. /\ \A x : x \in ToSet(refs) <=> \E p \in DOMAIN refs : x = refs[p]
      /\ \A x : x \in ToSet(made) <=> \E p \in DOMAIN made : x = made[p]
  BY DEF ToSet
<1>8. ASSUME NEW x \in ToSet(made) PROVE x \in ToSet(refs) \/ x \in part.written
  <2>1. PICK p \in DOMAIN next : x = made[p] BY <1>3, <1>7
  <2>2. CASE p \in carried BY <1>3, <1>5, <1>7, <2>1, <2>2
  <2>3. CASE p \notin carried BY <1>4, <2>1, <2>3
  <2>. QED BY <2>2, <2>3
<1>9. part.superseded \subseteq ToSet(refs)
  BY <1>4, <1>7
<1>10. ASSUME NEW x \in part.superseded, x \in ToSet(made) PROVE x \in part.written
  <2>1. PICK q \in DOMAIN refs \ carried : x = refs[q] BY <1>4
  <2>2. PICK p \in DOMAIN next : x = made[p] BY <1>3, <1>7, <1>10
  <2>3. CASE p \in carried
    <3>1. refs[p].page = p /\ refs[q].page = q /\ refs[p] = refs[q]
      BY <1>3, <1>5, <1>6, <2>1, <2>2, <2>3
    <3>. QED BY <2>1, <2>3, <3>1
  <2>4. CASE p \notin carried BY <1>4, <2>2, <2>4
  <2>. QED BY <2>3, <2>4
<1>11. ASSUME NEW x \in ToSet(refs) PROVE x \in ToSet(made) \/ x \in part.superseded
  <2>1. PICK p \in DOMAIN refs : x = refs[p] BY <1>7
  <2>2. CASE p \in carried BY <1>3, <1>5, <1>7, <2>1, <2>2
  <2>3. CASE p \notin carried BY <1>4, <2>1, <2>3
  <2>. QED BY <2>2, <2>3
<1>12. part.written \subseteq ToSet(made)
  BY <1>3, <1>4, <1>7
<1>. QED BY <1>4, <1>8, <1>9, <1>10, <1>11, <1>12 DEF Rewrites

\* Where nothing is replaced, what is there was there or is written.
LEMMA NothingReplaced ==
  ASSUME NEW old
  PROVE  Rewrites(old, old, {}, {})
BY DEF Rewrites

\* appendFeed: the tail page is replaced, if there is one to be filled.
LEMMA FeedRewrites ==
  ASSUME NEW meta, NEW feed, IsSeq(feed), Feeds(meta.feedPageRefs, feed),
         meta.feedCount = Len(feed), NEW op, NEW before, NEW after, NEW part,
         part = WriteFeed(op, meta, before, after)
  PROVE  Rewrites(ToSet(meta.feedPageRefs), ToSet(part.refs), part.superseded, part.written)
<1>1. PICK refs : refs = meta.feedPageRefs
  OBVIOUS
<1>2. CASE op.kind \notin DOMAIN FeedKind
  <2>1. part.refs = refs /\ part.superseded = {} /\ part.written = {}
    BY <1>1, <1>2 DEF WriteFeed
  <2>. QED BY <1>1, <2>1, NothingReplaced
<1>3. CASE op.kind \in DOMAIN FeedKind
  <2>1. PICK entry : part = AppendFeed(meta, entry)
    BY <1>3 DEF WriteFeed
  <2>2. FeedPageSize \in Nat \ {0}
    BY PageSizes
  <2>3. PICK L \in Nat : L = Len(feed) /\ L = meta.feedCount
    BY SeqFacts
  <2>4. PICK page : page = (L \div FeedPageSize) + 1
    OBVIOUS
  <2>5. PICK pages : pages = Paginate(feed, FeedPageSize)
    OBVIOUS
  <2>6. /\ page \in Nat
        /\ Len(pages) = IF L % FeedPageSize = 0 THEN page - 1 ELSE page
        /\ IsSeq(pages)
    <3>1. LET prior == Paginate(feed, FeedPageSize)
              grown == Paginate(Append(feed, entry), FeedPageSize)
              last == (Len(feed) \div FeedPageSize) + 1
          IN  /\ last \in Nat /\ Len(grown) = last
              /\ Len(prior) = IF Len(feed) % FeedPageSize = 0 THEN last - 1 ELSE last
              /\ \A p \in 1..(last - 1) : grown[p] = prior[p]
              /\ grown[last] = Append(IF Len(feed) % FeedPageSize = 0 THEN << >>
                                      ELSE prior[last], entry)
              /\ grown[last] = SubSeq(Append(feed, entry), (last - 1) * FeedPageSize + 1,
                                      Len(feed) + 1)
      BY <2>2, PaginateAppend, Zenon
    <3>2. IsSeq(pages)
      <4>1. PICK k \in Nat, n \in Nat : \E ps : PagesOf(ps, feed, FeedPageSize, k, n)
        BY <2>2, PaginateFacts
      <4>. QED BY <2>5, <4>1 DEF PagesOf
    <3>. QED BY <2>3, <2>4, <2>5, <3>1, <3>2, Zenon
  <2>7. refs = [p \in DOMAIN pages |-> [type |-> "feed", page |-> p, entries |-> pages[p]]]
    BY <1>1, <2>5 DEF Feeds
  <2>8. DOMAIN refs = 1..Len(pages) /\ \A p \in DOMAIN refs : refs[p].page = p
    <3>1. DOMAIN pages = 1..Len(pages) BY <2>6, SeqFacts
    <3>. QED BY <2>7, <3>1
  <2>9. PICK tail \in BOOLEAN : tail = (L % FeedPageSize # 0)
    OBVIOUS
  <2>10. PICK shard : shard = [type |-> "feed", page |-> page,
            entries |-> Append(IF tail THEN refs[page].entries ELSE << >>, entry)]
    OBVIOUS
  <2>11. /\ part.refs = (IF tail THEN [refs EXCEPT ![page] = shard] ELSE Append(refs, shard))
         /\ part.superseded = (IF tail THEN {refs[page]} ELSE {})
         /\ part.written = {shard}
    <3>1. page = (meta.feedCount \div FeedPageSize) + 1 /\ tail = (meta.feedCount % FeedPageSize # 0)
      BY <2>3, <2>4, <2>9
    <3>2. shard = [type |-> "feed", page |-> page,
            entries |-> Append(IF tail THEN meta.feedPageRefs[page].entries ELSE << >>, entry)]
      BY <1>1, <2>10
    <3>3. part = [refs |-> IF tail THEN [meta.feedPageRefs EXCEPT ![page] = shard]
                           ELSE Append(meta.feedPageRefs, shard),
                  superseded |-> IF tail THEN {meta.feedPageRefs[page]} ELSE {},
                  written |-> {shard}]
      BY <2>1, <3>1, <3>2, Zenon DEF AppendFeed
    <3>4. PICK a : a = IF tail THEN [refs EXCEPT ![page] = shard] ELSE Append(refs, shard)
      OBVIOUS
    <3>5. PICK b : b = IF tail THEN {refs[page]} ELSE {}
      OBVIOUS
    <3>6. part = [refs |-> a, superseded |-> b, written |-> {shard}]
      BY <1>1, <3>3, <3>4, <3>5, Zenon
    <3>7. part.refs = a /\ part.superseded = b /\ part.written = {shard}
      BY <3>6
    <3>. QED BY <3>4, <3>5, <3>7, Zenon
  <2>12. \A s, x : x \in ToSet(s) <=> \E p \in DOMAIN s : x = s[p]
    BY DEF ToSet
  <2>13. CASE tail
    <3>1. page \in DOMAIN refs
      <4>1. L \div FeedPageSize \in Nat BY <2>2, Quotient
      <4>2. page >= 1 BY <2>4, <4>1
      <4>3. Len(pages) = page BY <2>6, <2>9, <2>13
      <4>. QED BY <2>6, <2>8, <4>2, <4>3
    <3>2. PICK made : made = [refs EXCEPT ![page] = shard]
      OBVIOUS
    <3>3. DOMAIN made = DOMAIN refs /\ \A p \in DOMAIN refs : made[p] = IF p = page THEN shard ELSE refs[p]
      BY <3>1, <3>2
    <3>4. part.refs = made /\ part.superseded = {refs[page]} /\ part.written = {shard}
      BY <2>11, <2>13, <3>2
    <3>5. ASSUME NEW x \in ToSet(made) PROVE x = shard \/ (x \in ToSet(refs) /\ x # refs[page])
      <4>1. PICK p \in DOMAIN made : x = made[p] BY <2>12
      <4>2. CASE p = page BY <3>3, <4>1, <4>2
      <4>3. CASE p # page
        <5>1. x = refs[p] /\ p \in DOMAIN refs BY <3>3, <4>1, <4>3
        <5>2. refs[p].page = p /\ refs[page].page = page BY <2>8, <3>1, <5>1
        <5>3. x # refs[page] BY <4>3, <5>1, <5>2
        <5>4. x \in ToSet(refs) BY <2>12, <5>1
        <5>. QED BY <5>3, <5>4
      <4>. QED BY <4>2, <4>3
    <3>6. refs[page] \in ToSet(refs) BY <2>12, <3>1
    <3>7. ASSUME NEW x \in ToSet(refs) PROVE x = refs[page] \/ x \in ToSet(made)
      <4>1. PICK p \in DOMAIN refs : x = refs[p] BY <2>12
      <4>2. p # page => made[p] = x /\ p \in DOMAIN made BY <3>3, <4>1
      <4>. QED BY <2>12, <4>1, <4>2
    <3>8. shard \in ToSet(made) BY <2>12, <3>1, <3>3
    <3>. QED BY <1>1, <3>4, <3>5, <3>6, <3>7, <3>8 DEF Rewrites
  <2>14. CASE ~tail
    <3>1. PICK made : made = Append(refs, shard)
      OBVIOUS
    <3>2. IsSeq(refs)
      <4>1. Len(pages) \in Nat BY <2>6, SeqFacts
      <4>2. refs = [p \in 1..Len(pages) |-> refs[p]] BY <2>7, <2>8
      <4>. QED BY <4>1, <4>2, MadeSeq
    <3>3. ToSet(made) = ToSet(refs) \cup {shard}
      BY <3>1, <3>2, QueuedFacts
    <3>4. part.refs = made /\ part.superseded = {} /\ part.written = {shard}
      BY <2>11, <2>14, <3>1
    <3>. QED BY <1>1, <3>3, <3>4 DEF Rewrites
  <2>. QED BY <2>13, <2>14
<1>. QED BY <1>2, <1>3

\* writeQueueSnapshot and writeCatalogSnapshot: one shard replaces another.
LEMMA SingleRewrites ==
  ASSUME NEW meta, NEW numbers, NEW queue, NEW catalog,
         queue = WriteQueue(meta, numbers), catalog = WriteCatalog(meta)
  PROVE  /\ Rewrites({meta.queueRef}, {queue.ref}, queue.superseded, queue.written)
         /\ Rewrites({meta.catalogRef}, {catalog.ref}, catalog.superseded, catalog.written)
<1>1. Rewrites({meta.queueRef}, {queue.ref}, queue.superseded, queue.written)
  <2>1. CASE meta.queueRef.numbers = numbers
    BY <2>1 DEF WriteQueue, Rewrites
  <2>2. CASE meta.queueRef.numbers # numbers
    BY <2>2 DEF WriteQueue, Rewrites
  <2>. QED BY <2>1, <2>2
<1>2. Rewrites({meta.catalogRef}, {catalog.ref}, catalog.superseded, catalog.written)
  <2>1. CASE meta.catalogRef.legacy
    BY <2>1 DEF WriteCatalog, Rewrites
  <2>2. CASE ~meta.catalogRef.legacy
    BY <2>2 DEF WriteCatalog, Rewrites
  <2>. QED BY <2>1, <2>2
<1>. QED BY <1>1, <1>2

\* How the cards turn under an operation: the touched one is made, revised or
\* dropped, its thread grown by a comment at most; the others stay.
CardsMoved(op, cards, then, next) ==
  /\ DOMAIN then = (IF op.kind = "create" THEN DOMAIN cards \cup {op.number}
                    ELSE IF op.kind = "delete" THEN DOMAIN cards \ {op.number} ELSE DOMAIN cards)
  /\ \A n \in DOMAIN then : n # op.number \/ ~TouchesIssue(op.kind)
       => n \in DOMAIN cards /\ then[n] = cards[n]
  /\ op.kind = "create" => op.number \notin DOMAIN cards
                           /\ then[op.number].issue.comments = << >>
  /\ Revises(op.kind) =>
       /\ op.number \in DOMAIN cards
       /\ IsSeq(cards[op.number].issue.comments)
       /\ then[op.number].issue.comments
            = IF op.kind = "comment"
              THEN Append(cards[op.number].issue.comments, [id |-> op.id, at |-> op.at])
              ELSE cards[op.number].issue.comments
  /\ op.kind = "delete" => op.number \in DOMAIN cards
  /\ TouchesIssue(op.kind) /\ op.number \in DOMAIN then => next[op.number] = then[op.number]

\* applyBoardMutation and the recount of the touched issue, on the cards.
LEMMA CardsTurn ==
  ASSUME NEW op, NEW board, NEW closedAt, NEW real, NEW at, NEW next,
         Settled(op, board, closedAt, real, at, next)
  PROVE  CardsMoved(op, CardsAre(board.issues, closedAt), CardsAre(real.issues, at), next)
<1>0. /\ op.at \in Nat /\ IsBoard(board) /\ Applicable(op, board)
      /\ real = ApplyBoardMutation(op, board)
      /\ TouchesIssue(op.kind) /\ op.number \in DOMAIN real.issues
           => next[op.number] = CardOf(real.issues[op.number], at[op.number])
      /\ \A n \in DOMAIN real.issues :
           n # op.number \/ ~TouchesIssue(op.kind) => at[n] = closedAt[n]
  BY DEF Settled
<1>1. PICK cards : cards = CardsAre(board.issues, closedAt)
  OBVIOUS
<1>2. PICK then : then = CardsAre(real.issues, at)
  OBVIOUS
<1>4. PICK number : number = op.number
  OBVIOUS
<1>5. /\ DOMAIN cards = DOMAIN board.issues /\ DOMAIN then = DOMAIN real.issues
      /\ \A n \in DOMAIN cards : cards[n] = CardOf(board.issues[n], closedAt[n])
      /\ \A n \in DOMAIN then : then[n] = CardOf(real.issues[n], at[n])
  BY <1>1, <1>2 DEF CardsAre
<1>a. IssuesMade(op, board.issues, real.issues)
  BY <1>0, IssuesLeft, Zenon
<1>6. /\ DOMAIN then = (IF op.kind = "create" THEN DOMAIN cards \cup {number}
                        ELSE IF op.kind = "delete" THEN DOMAIN cards \ {number} ELSE DOMAIN cards)
      /\ op.kind = "create" => number \notin DOMAIN cards /\ real.issues[number] = NewIssue(op)
      /\ Revises(op.kind) => number \in DOMAIN cards
                             /\ real.issues[number] = IssueAfter(op, board.issues[number])
      /\ op.kind = "delete" => number \in DOMAIN cards
      /\ ~TouchesIssue(op.kind) => real.issues = board.issues
  BY <1>4, <1>5, <1>a, Zenon DEF IssuesMade
<1>7. \A n \in DOMAIN then : n # number \/ ~TouchesIssue(op.kind)
        => n \in DOMAIN cards /\ then[n] = cards[n]
  <2>1. ASSUME NEW n \in DOMAIN then, n # number \/ ~TouchesIssue(op.kind)
        PROVE  n \in DOMAIN cards /\ then[n] = cards[n]
    <3>1. n \in DOMAIN board.issues /\ real.issues[n] = board.issues[n]
      BY <1>4, <1>5, <1>a, <2>1 DEF IssuesMade
    <3>. QED BY <1>0, <1>4, <1>5, <2>1, <3>1
  <2>. QED BY <2>1
<1>9. op.kind = "create" => number \notin DOMAIN cards /\ then[number].issue.comments = << >>
  <2>1. SUFFICES ASSUME op.kind = "create"
        PROVE number \notin DOMAIN cards /\ then[number].issue.comments = << >>
    OBVIOUS
  <2>2. number \notin DOMAIN cards /\ real.issues[number] = NewIssue(op) /\ number \in DOMAIN then
    BY <1>6, <2>1
  <2>3. then[number] = CardOf(NewIssue(op), at[number]) BY <1>5, <2>2, Zenon
  <2>4. CardOf(NewIssue(op), at[number]).issue.comments = << >> BY DEF CardOf, NewIssue
  <2>. QED BY <2>2, <2>3, <2>4
<1>10. ASSUME Revises(op.kind)
       PROVE  /\ number \in DOMAIN cards
              /\ IsSeq(cards[number].issue.comments)
              /\ then[number].issue.comments
                   = IF op.kind = "comment"
                     THEN Append(cards[number].issue.comments, [id |-> op.id, at |-> op.at])
                     ELSE cards[number].issue.comments
  <2>1. PICK issue : issue = board.issues[number] OBVIOUS
  <2>2. PICK after : after = IssueAfter(op, issue) OBVIOUS
  <2>3. number \in DOMAIN cards /\ real.issues[number] = after /\ number \in DOMAIN then
    BY <1>6, <1>10, <2>1, <2>2 DEF Revises
  <2>4. IsIssue(issue) BY <1>0, <1>5, <2>1, <2>3 DEF IsBoard
  <2>5. cards[number].issue = issue /\ then[number].issue = after
    <3>1. cards[number] = CardOf(issue, closedAt[number]) BY <1>5, <2>1, <2>3, Zenon
    <3>2. then[number] = CardOf(after, at[number]) BY <1>5, <2>3, Zenon
    <3>3. CardOf(issue, closedAt[number]).issue = issue /\ CardOf(after, at[number]).issue = after
      BY DEF CardOf
    <3>. QED BY <3>1, <3>2, <3>3, Zenon
  <2>6. IsSeq(issue.comments) BY <2>4, SequencesAgree DEF IsIssue
  <2>7. after.comments = IF op.kind = "comment" THEN Append(issue.comments, [id |-> op.id, at |-> op.at])
                         ELSE issue.comments
    BY <1>0, <1>10, <2>2, <2>4, IssueStays
  <2>. QED BY <2>3, <2>5, <2>6, <2>7, Zenon
<1>11. TouchesIssue(op.kind) /\ number \in DOMAIN then => next[number] = then[number]
  <2>1. SUFFICES ASSUME TouchesIssue(op.kind), number \in DOMAIN then
        PROVE next[number] = then[number]
    OBVIOUS
  <2>2. then[number] = CardOf(real.issues[number], at[number]) BY <1>5, <2>1, Zenon
  <2>. QED BY <1>0, <1>4, <1>5, <2>1, <2>2
<1>12. CardsMoved(op, cards, then, next)
  BY <1>4, <1>6, <1>7, <1>9, <1>10, <1>11, Zenon DEF CardsMoved
<1>. QED BY <1>1, <1>2, <1>12

\* What materializeIssue and writeDirectory replace and write.
WrittenShards(op, card, thread, ref) ==
  ({ref} \ {NoRef}) \cup (IF op.kind = "delete" THEN {} ELSE MaterializeIssue(op, card, thread).written)

ReplacedShards(op, refs, card, page, previous, threads, thread) ==
  {e.ref : e \in previous}
    \cup (IF op.kind = "delete" THEN UNION {ToSet(t) : t \in threads}
          ELSE MaterializeIssue(op, card, thread).superseded)
    \cup (IF page <= Len(refs) /\ refs[page] # NoRef THEN {refs[page]} ELSE {})

\* writeIssue and writeDirectory: what they report as replaced and as written.
LEMMA WriteIssueReports ==
  ASSUME NEW op, NEW meta, NEW next, NEW page, NEW before, NEW previous, NEW threads, NEW thread,
         ReadForWrite(op, meta, page, before, previous, threads, thread)
  PROVE  /\ WriteIssue(op, meta, next).superseded
              = ReplacedShards(op, meta.directoryRefs, next[op.number], page, previous, threads, thread)
         /\ WriteIssue(op, meta, next).written
              = WrittenShards(op, next[op.number], thread,
                  WrittenPage(op, next[op.number], page, before, previous, thread))
BY DEF ReadForWrite, WriteIssue, WrittenPage, ReplacedShards, WrittenShards

\* The same on the cards: the page that names the touched issue, its snapshot
\* and the tail of its thread; and what they replace.
NewSnapshot(op, then) ==
  IF op.kind = "delete" THEN {} ELSE {EntryFor(op.number, then[op.number]).ref}

NewTail(op, then) ==
  IF op.kind = "comment" THEN {TailShard(op.number, then[op.number].issue.comments)} ELSE {}

OldSnapshot(op, cards) ==
  IF op.number \in DOMAIN cards THEN {EntryFor(op.number, cards[op.number]).ref} ELSE {}

OldThread(op, then, thread) ==
  IF op.kind = "delete" THEN ToSet(thread)
  ELSE IF op.kind = "comment" /\ Len(thread) >= TailOf(then[op.number].issue.comments)
       THEN {thread[TailOf(then[op.number].issue.comments)]} ELSE {}

OldPage(refs, page) == IF page <= Len(refs) /\ refs[page] # NoRef THEN {refs[page]} ELSE {}

IssueWrite(op, refs, part, cards, then, place, page, comments, entries, ref) ==
  /\ page \in 1..(Len(refs) + 1)
  /\ op.number \in DOMAIN cards => page = place[op.number]
  /\ comments = (IF op.number \in DOMAIN cards THEN cards[op.number].issue.comments ELSE << >>)
  /\ op.kind # "delete" => op.number \in DOMAIN then
  /\ entries = {e \in Named(cards, place, page) : e.number # op.number}
                 \cup (IF op.kind = "delete" THEN {} ELSE {EntryFor(op.number, then[op.number])})
  /\ ref = (IF entries = {} THEN NoRef ELSE DirectoryShard(page, entries))
  /\ part.refs = DropEmptyTail(WrittenRefs(refs, page, ref))
  /\ part.written = ({ref} \ {NoRef}) \cup (NewSnapshot(op, then) \cup NewTail(op, then))
  /\ part.superseded = OldSnapshot(op, cards) \cup OldThread(op, then, ThreadRefs(op.number, comments))
                         \cup OldPage(refs, page)

\* writeIssue and writeDirectory on the cards: the touched issue is looked for
\* on the page that names it, with the thread it has.
LEMMA IssueWritten ==
  ASSUME NEW op, NEW cards, NEW then, NEW next, CardsMoved(op, cards, then, next),
         TouchesIssue(op.kind), NEW meta, NEW place, Directory(meta.directoryRefs, cards, place)
  PROVE  \E page, comments, entries, ref :
            IssueWrite(op, meta.directoryRefs, WriteIssue(op, meta, next), cards, then, place,
                       page, comments, entries, ref)
<1>1. PICK refs : refs = meta.directoryRefs
  OBVIOUS
<1>2. PICK number : number = op.number
  OBVIOUS
<1>3. PICK part : part = WriteIssue(op, meta, next)
  OBVIOUS
<1>4. Directory(refs, cards, place)
  BY <1>1
<1>5. PICK count \in Nat : count = Len(refs)
  BY <1>4, SeqFacts DEF Directory
<1>6. PICK page \in 1..(count + 1) : /\ page = DirectoryPageFor(meta, number)
                                     /\ number \in DOMAIN cards => page = place[number]
  <2>1. /\ DirectoryPageFor(meta, number) \in 1..(Len(meta.directoryRefs) + 1)
        /\ number \in DOMAIN cards => DirectoryPageFor(meta, number) = place[number]
    <3>1. Directory(meta.directoryRefs, cards, place) OBVIOUS
    <3>. QED BY ONLY <3>1, PageFor
  <2>. QED BY <1>1, <1>5, <2>1
<1>7. place \in [DOMAIN cards -> 1..count]
  BY <1>4, <1>5 DEF Directory
<1>8. PICK present \in BOOLEAN : present = (page <= count /\ refs[page] # NoRef)
  OBVIOUS
<1>9. PICK before : before = Named(cards, place, page)
  OBVIOUS
<1>10. before = IF present THEN refs[page].named ELSE {}
  <2>1. CASE page <= count
    <3>1. page \in 1..Len(refs) BY <1>5, <1>6, <2>1
    <3>2. refs[page] = IF Named(cards, place, page) = {} THEN NoRef
                       ELSE DirectoryShard(page, Named(cards, place, page))
      BY <1>4, <3>1, Zenon DEF Directory
    <3>3. CASE before = {}
      BY <1>8, <1>9, <3>2, <3>3
    <3>4. CASE before # {}
      <4>1. refs[page] = DirectoryShard(page, before) BY <1>9, <3>2, <3>4, Zenon
      <4>2. DirectoryShard(page, before).type # NoRef.type
            /\ DirectoryShard(page, before).named = before
        BY DEF DirectoryShard, NoRef
      <4>3. refs[page] # NoRef BY <4>1, <4>2
      <4>. QED BY <1>8, <2>1, <4>1, <4>2, <4>3
    <3>. QED BY <3>3, <3>4
  <2>2. CASE ~(page <= count)
    <3>1. page = count + 1 BY <1>6, <2>2
    <3>2. \A n \in DOMAIN cards : place[n] # page BY <1>7, <3>1
    <3>3. before = {} BY <1>9, <3>2 DEF Named
    <3>. QED BY <1>8, <2>2, <3>3
  <2>. QED BY <2>1, <2>2
<1>11. PICK previous : previous = {e \in before : e.number = number}
  OBVIOUS
<1>12. \A n, card : EntryFor(n, card).number = n
  BY DEF EntryFor
<1>13. previous = IF number \in DOMAIN cards THEN {EntryFor(number, cards[number])} ELSE {}
  <2>1. \A e \in before : \E n \in DOMAIN cards : place[n] = page /\ e = EntryFor(n, cards[n])
    BY <1>9 DEF Named
  <2>2. \A n \in DOMAIN cards : place[n] = page => EntryFor(n, cards[n]) \in before
    BY <1>9 DEF Named
  <2>3. CASE number \in DOMAIN cards
    <3>1. EntryFor(number, cards[number]) \in previous BY <1>6, <1>11, <1>12, <2>2, <2>3
    <3>2. \A e \in previous : e = EntryFor(number, cards[number]) BY <1>11, <1>12, <2>1
    <3>. QED BY <2>3, <3>1, <3>2
  <2>4. CASE number \notin DOMAIN cards
    <3>1. previous = {} BY <1>11, <1>12, <2>1, <2>4
    <3>. QED BY <2>4, <3>1
  <2>. QED BY <2>3, <2>4
<1>14. PICK comments : comments = IF number \in DOMAIN cards THEN cards[number].issue.comments
                                  ELSE << >>
  OBVIOUS
<1>15. PICK threads : threads = {e.ref.commentRefs : e \in previous}
  OBVIOUS
<1>16. PICK thread : thread = IF threads = {} THEN << >> ELSE CHOOSE t \in threads : TRUE
  OBVIOUS
<1>17. /\ thread = ThreadRefs(number, comments)
       /\ number \in DOMAIN cards => threads = {thread}
  <2>1. CASE number \in DOMAIN cards
    <3>1. EntryFor(number, cards[number]).ref.commentRefs
            = ThreadRefs(number, cards[number].issue.comments)
      BY DEF EntryFor, SnapshotShard
    <3>2. threads = {ThreadRefs(number, comments)}
      BY <1>13, <1>14, <1>15, <2>1, <3>1
    <3>. QED BY <1>16, <3>2
  <2>2. CASE number \notin DOMAIN cards
    <3>1. threads = {} BY <1>13, <1>15, <2>2
    <3>2. comments = << >> BY <1>14, <2>2
    <3>. QED BY <1>16, <2>2, <3>1, <3>2, ThreadBegins
  <2>. QED BY <2>1, <2>2
<1>18. PICK made : made = MaterializeIssue(op, next[number], thread)
  OBVIOUS
<1>19. op.kind # "delete" =>
         /\ number \in DOMAIN then /\ made.ref = EntryFor(number, then[number]).ref
         /\ next[number] = then[number]
  <2>1. SUFFICES ASSUME op.kind # "delete"
        PROVE  /\ number \in DOMAIN then /\ made.ref = EntryFor(number, then[number]).ref
               /\ next[number] = then[number]
    OBVIOUS
  <2>2. number \in DOMAIN then
    BY <1>2, <2>1 DEF CardsMoved, TouchesIssue, Revises
  <2>3. next[number] = then[number]
    BY <1>2, <2>2 DEF CardsMoved
  <2>4. PICK m : m = [id |-> op.id, at |-> op.at]
    OBVIOUS
  <2>5. PICK card : card = then[number]
    OBVIOUS
  <2>6. /\ IsSeq(comments)
        /\ card.issue.comments = IF op.kind = "comment" THEN Append(comments, m) ELSE comments
    <3>1. CASE op.kind = "create"
      <4>1. number \notin DOMAIN cards /\ card.issue.comments = << >>
        BY <1>2, <2>5, <3>1, Zenon DEF CardsMoved
      <4>2. comments = << >> BY <1>14, <4>1
      <4>3. IsSeq(<< >>) BY DEF IsSeq
      <4>. QED BY <3>1, <4>1, <4>2, <4>3
    <3>2. CASE Revises(op.kind)
      <4>1. number \in DOMAIN cards /\ IsSeq(cards[number].issue.comments)
            /\ card.issue.comments = IF op.kind = "comment" THEN Append(cards[number].issue.comments, m)
                                     ELSE cards[number].issue.comments
        BY <1>2, <2>4, <2>5, <3>2, Zenon DEF CardsMoved
      <4>. QED BY <1>14, <4>1, Zenon
    <3>. QED BY <2>1, <3>1, <3>2 DEF TouchesIssue, Revises
  <2>7. MaterializeIssue(op, card, ThreadRefs(op.number, comments)).ref = EntryFor(op.number, card).ref
    BY <2>6, SnapshotWritten
  <2>. QED BY <1>2, <1>17, <1>18, <2>2, <2>3, <2>5, <2>7
<1>20. PICK entries : entries = IF op.kind = "delete" THEN before \ previous
                        ELSE (before \ previous) \union {[number |-> number, ref |-> made.ref]}
  OBVIOUS
<1>21. PICK ref : ref = IF entries = {} THEN NoRef ELSE DirectoryShard(page, entries)
  OBVIOUS
<1>22. ReadForWrite(op, meta, page, before, previous, threads, thread)
  <2>1. page = DirectoryPageFor(meta, op.number) /\ previous = {e \in before : e.number = op.number}
    BY <1>2, <1>6, <1>11
  <2>2. before = (IF page <= Len(meta.directoryRefs) /\ meta.directoryRefs[page] # NoRef
                  THEN meta.directoryRefs[page].named ELSE {})
    BY <1>1, <1>5, <1>8, <1>10
  <2>. QED BY <1>15, <1>16, <2>1, <2>2, Zenon DEF ReadForWrite
<1>23. WrittenPage(op, next[op.number], page, before, previous, thread) = ref
  BY <1>2, <1>18, <1>20, <1>21 DEF WrittenPage
<1>24. part.refs = DropEmptyTail(WrittenRefs(refs, page, ref))
  BY <1>1, <1>3, <1>22, <1>23, WriteIssueIs
<1>25. entries = {e \in Named(cards, place, page) : e.number # op.number}
                   \cup (IF op.kind = "delete" THEN {} ELSE {EntryFor(op.number, then[op.number])})
  <2>1. before \ previous = {e \in before : e.number # number} BY <1>11
  <2>2. EntryFor(number, then[number]) = [number |-> number, ref |-> EntryFor(number, then[number]).ref]
    BY DEF EntryFor
  <2>3. CASE op.kind = "delete" BY <1>2, <1>9, <1>20, <2>1, <2>3
  <2>4. CASE op.kind # "delete"
    <3>1. [number |-> number, ref |-> made.ref] = EntryFor(number, then[number]) BY <1>19, <2>2, <2>4
    <3>. QED BY <1>2, <1>9, <1>20, <2>1, <2>4, <3>1
  <2>. QED BY <2>3, <2>4
<1>26. part.written = ({ref} \ {NoRef}) \cup (NewSnapshot(op, then) \cup NewTail(op, then))
  <2>1. part.written = ({ref} \ {NoRef}) \cup (IF op.kind = "delete" THEN {} ELSE made.written)
    BY <1>2, <1>3, <1>18, <1>22, <1>23, WriteIssueReports DEF WrittenShards
  <2>2. CASE op.kind = "delete"
    <3>1. NewSnapshot(op, then) = {} /\ NewTail(op, then) = {} BY <2>2 DEF NewSnapshot, NewTail
    <3>. QED BY <2>1, <2>2, <3>1
  <2>3. CASE op.kind # "delete"
    <3>1. PICK card : card = then[number] OBVIOUS
    <3>2. made = MaterializeIssue(op, card, thread) /\ made.ref = EntryFor(number, card).ref
      BY <1>18, <1>19, <2>3, <3>1
    <3>3. MaterializeIssue(op, card, thread).written
            = {MaterializeIssue(op, card, thread).ref}
                \cup (IF op.kind = "comment" THEN {TailShard(op.number, card.issue.comments)} ELSE {})
      BY DEF MaterializeIssue, TailShard, TailOf
    <3>4. NewSnapshot(op, then) = {made.ref} BY <1>2, <2>3, <3>1, <3>2 DEF NewSnapshot
    <3>5. NewTail(op, then) = (IF op.kind = "comment" THEN {TailShard(op.number, card.issue.comments)} ELSE {})
      BY <1>2, <3>1 DEF NewTail
    <3>. QED BY <2>1, <2>3, <3>2, <3>3, <3>4, <3>5
  <2>. QED BY <2>2, <2>3
<1>27. part.superseded = OldSnapshot(op, cards) \cup OldThread(op, then, ThreadRefs(op.number, comments))
                           \cup OldPage(refs, page)
  <2>1. part.superseded = {e.ref : e \in previous}
          \cup (IF op.kind = "delete" THEN UNION {ToSet(t) : t \in threads} ELSE made.superseded)
          \cup OldPage(refs, page)
    BY <1>1, <1>2, <1>3, <1>18, <1>22, WriteIssueReports DEF ReplacedShards, OldPage
  <2>2. {e.ref : e \in previous} = OldSnapshot(op, cards)
    BY <1>2, <1>13 DEF OldSnapshot
  <2>3. (IF op.kind = "delete" THEN UNION {ToSet(t) : t \in threads} ELSE made.superseded)
          = OldThread(op, then, thread)
    <3>1. CASE op.kind = "delete"
      <4>1. number \in DOMAIN cards BY <1>2, <3>1 DEF CardsMoved
      <4>2. UNION {ToSet(t) : t \in threads} = ToSet(thread) BY <1>17, <4>1
      <4>. QED BY <3>1, <4>2 DEF OldThread
    <3>2. CASE op.kind # "delete"
      <4>1. PICK card : card = then[number] OBVIOUS
      <4>2. made = MaterializeIssue(op, card, thread) BY <1>18, <1>19, <3>2, <4>1
      <4>3. MaterializeIssue(op, card, thread).superseded
              = (IF op.kind = "comment" /\ Len(thread) >= TailOf(card.issue.comments)
                 THEN {thread[TailOf(card.issue.comments)]} ELSE {})
        BY DEF MaterializeIssue, TailOf
      <4>. QED BY <1>2, <3>2, <4>1, <4>2, <4>3 DEF OldThread
    <3>. QED BY <3>1, <3>2
  <2>. QED BY <1>2, <1>17, <2>1, <2>2, <2>3
<1>28. page \in 1..(Len(refs) + 1)
  BY <1>5, <1>6
<1>29. IssueWrite(op, refs, part, cards, then, place, page, comments, entries, ref)
  BY <1>2, <1>6, <1>14, <1>19, <1>21, <1>24, <1>25, <1>26, <1>27, <1>28, Zenon DEF IssueWrite
<1>. QED BY <1>1, <1>3, <1>29

\* Dropping pages at the end moves and changes none.
LEMMA DroppedTail ==
  ASSUME NEW refs, IsSeq(refs), NEW p \in DOMAIN DropEmptyTail(refs)
  PROVE  p \in DOMAIN refs /\ DropEmptyTail(refs)[p] = refs[p]
<1>1. PICK count \in Nat : count = Len(refs) /\ DOMAIN refs = 1..count
  BY SeqFacts
<1>. DEFINE kept == {q \in DOMAIN refs : refs[q] # NoRef}
            last == IF kept = {} THEN 0 ELSE CHOOSE q \in kept : \A r \in kept : r <= q
<1>2. last \in 0..count
  <2>1. CASE kept = {}
    BY <2>1
  <2>2. CASE kept # {}
    <3>1. \E q \in kept : \A r \in kept : r <= q
      <4>1. kept \subseteq 0..count BY <1>1
      <4>. HIDE DEF kept
      <4>. QED BY <2>2, <4>1, LargestElement
    <3>2. last \in kept BY <2>2, <3>1
    <3>. QED BY <1>1, <3>2
  <2>. QED BY <2>1, <2>2
<1>3. PICK k \in 0..count : k = last
  BY <1>2
<1>4. PICK rest : rest = SubSeq(refs, 1, k)
  OBVIOUS
<1>5. DropEmptyTail(refs) = rest
  BY <1>3, <1>4 DEF DropEmptyTail
<1>6. DOMAIN rest = 1..k /\ \A q \in 1..k : rest[q] = refs[q]
  <2>1. PICK S : refs \in Seq(S) BY DEF IsSeq
  <2>2. rest \in Seq(S) /\ Len(rest) = k /\ \A q \in 1..k : rest[q] = refs[q]
    BY <1>1, <1>4, <2>1
  <2>. QED BY <2>2
<1>. HIDE DEF last, kept
<1>7. p \in 1..k BY <1>5, <1>6
<1>. QED BY <1>1, <1>5, <1>6, <1>7

\* writeDirectory puts one page among the pages there are, or after them.
LEMMA PageAmong ==
  ASSUME NEW refs, IsSeq(refs), NEW page \in 1..(Len(refs) + 1), NEW ref
  PROVE  LET written == WrittenRefs(refs, page, ref)
         IN  /\ IsSeq(written) /\ page \in 1..Len(written) /\ Len(refs) <= Len(written)
             /\ \A p \in 1..Len(written) : written[p] = IF p = page THEN ref ELSE refs[p]
             /\ \A p \in 1..Len(written) : p # page => p \in 1..Len(refs)
<1>1. PICK written : written = WrittenRefs(refs, page, ref)
  OBVIOUS
<1>2. PICK count \in Nat : count = Len(refs) /\ DOMAIN refs = 1..count
  BY SeqFacts
<1>3. CASE page <= count
  <2>1. page \in 1..count BY <1>2, <1>3
  <2>2. written = [refs EXCEPT ![page] = ref] BY <1>1, <1>2, <1>3 DEF WrittenRefs
  <2>3. written = [p \in 1..count |-> written[p]]
        /\ \A p \in 1..count : written[p] = IF p = page THEN ref ELSE refs[p]
    BY <1>2, <2>1, <2>2, SeqFacts
  <2>4. IsSeq(written) /\ Len(written) = count BY <2>3, MadeSeq
  <2>. QED BY <1>1, <1>2, <2>1, <2>3, <2>4
<1>4. CASE ~(page <= count)
  <2>1. page = count + 1 BY <1>2, <1>4
  <2>2. written = Append(refs, ref) BY <1>1, <1>2, <1>4 DEF WrittenRefs
  <2>3. /\ IsSeq(written) /\ Len(written) = count + 1 /\ written[count + 1] = ref
        /\ \A p \in 1..count : written[p] = refs[p]
    BY <1>2, <2>2, AppendFacts
  <2>4. \A p \in 1..(count + 1) : p # count + 1 => p \in 1..count
    OBVIOUS
  <2>. QED BY <1>1, <1>2, <2>1, <2>3, <2>4
<1>. QED BY <1>3, <1>4

\* writeDirectory puts one page and moves none.
LEMMA PagePut ==
  ASSUME NEW refs, IsSeq(refs), NEW page \in 1..(Len(refs) + 1), NEW ref,
         NEW p \in DOMAIN DropEmptyTail(WrittenRefs(refs, page, ref))
  PROVE  /\ p = page => DropEmptyTail(WrittenRefs(refs, page, ref))[p] = ref
         /\ p # page => p \in DOMAIN refs
                        /\ DropEmptyTail(WrittenRefs(refs, page, ref))[p] = refs[p]
<1>1. PICK count \in Nat : count = Len(refs) /\ DOMAIN refs = 1..count
  BY SeqFacts
<1>2. PICK written : written = WrittenRefs(refs, page, ref)
  OBVIOUS
<1>3. /\ IsSeq(written)
      /\ \A q \in DOMAIN written : q = page => written[q] = ref
      /\ \A q \in DOMAIN written : q # page => q \in DOMAIN refs /\ written[q] = refs[q]
  <2>1. /\ IsSeq(written)
        /\ \A q \in 1..Len(written) : written[q] = IF q = page THEN ref ELSE refs[q]
        /\ \A q \in 1..Len(written) : q # page => q \in 1..Len(refs)
    BY <1>2, PageAmong
  <2>2. DOMAIN written = 1..Len(written)
    BY <2>1, SeqFacts
  <2>. QED BY <1>1, <2>1, <2>2
<1>4. p \in DOMAIN written /\ DropEmptyTail(written)[p] = written[p]
  <2>1. IsSeq(written) /\ p \in DOMAIN DropEmptyTail(written) BY <1>2, <1>3
  <2>. QED BY ONLY <2>1, DroppedTail, Zenon
<1>5. /\ p = page => DropEmptyTail(written)[p] = ref
      /\ p # page => p \in DOMAIN refs /\ DropEmptyTail(written)[p] = refs[p]
  <2>1. PICK v : v = DropEmptyTail(written)[p] OBVIOUS
  <2>2. v = written[p] /\ p \in DOMAIN written BY <1>4, <2>1
  <2>. QED BY <1>3, <2>1, <2>2, Zenon
<1>. QED BY <1>2, <1>5, Zenon

\* Dropping pages at the end drops none that holds something.
LEMMA KeptTail ==
  ASSUME NEW refs, IsSeq(refs), NEW p \in DOMAIN refs, refs[p] # NoRef
  PROVE  p \in DOMAIN DropEmptyTail(refs)
<1>1. PICK count \in Nat : count = Len(refs) /\ DOMAIN refs = 1..count
  BY SeqFacts
<1>. DEFINE kept == {q \in DOMAIN refs : refs[q] # NoRef}
            last == IF kept = {} THEN 0 ELSE CHOOSE q \in kept : \A r \in kept : r <= q
<1>2. p \in kept
  OBVIOUS
<1>3. last \in kept /\ \A r \in kept : r <= last
  <2>1. \E q \in kept : \A r \in kept : r <= q
    <3>1. kept \subseteq 0..count BY <1>1
    <3>. HIDE DEF kept
    <3>. QED BY <1>1, <1>2, <3>1, LargestElement
  <2>. QED BY <1>2, <2>1
<1>4. PICK k \in 1..count : k = last
  BY <1>1, <1>3
<1>5. PICK rest : rest = SubSeq(refs, 1, k)
  OBVIOUS
<1>6. DropEmptyTail(refs) = rest
  BY <1>4, <1>5 DEF DropEmptyTail
<1>7. DOMAIN rest = 1..k
  <2>1. PICK S : refs \in Seq(S) BY DEF IsSeq
  <2>2. rest \in Seq(S) /\ Len(rest) = k BY <1>1, <1>5, <2>1
  <2>. QED BY <2>2
<1>8. p <= k BY <1>2, <1>3, <1>4
<1>. HIDE DEF last, kept
<1>. QED BY <1>1, <1>4, <1>6, <1>7, <1>8

\* writeDirectory drops no page that holds something.
LEMMA PageKept ==
  ASSUME NEW refs, IsSeq(refs), NEW page \in 1..(Len(refs) + 1), NEW ref, NEW p,
         \/ p = page /\ ref # NoRef
         \/ p # page /\ p \in DOMAIN refs /\ refs[p] # NoRef
  PROVE  p \in DOMAIN DropEmptyTail(WrittenRefs(refs, page, ref))
<1>1. PICK count \in Nat : count = Len(refs) /\ DOMAIN refs = 1..count
  BY SeqFacts
<1>2. PICK written : written = WrittenRefs(refs, page, ref)
  OBVIOUS
<1>3. /\ IsSeq(written) /\ page \in 1..Len(written) /\ Len(refs) <= Len(written)
      /\ \A q \in 1..Len(written) : written[q] = IF q = page THEN ref ELSE refs[q]
  BY <1>2, PageAmong
<1>4. PICK size \in Nat : size = Len(written) /\ DOMAIN written = 1..size
  BY <1>3, SeqFacts
<1>5. p \in DOMAIN written /\ written[p] # NoRef
  <2>1. CASE p = page /\ ref # NoRef BY <1>3, <1>4, <2>1
  <2>2. CASE p # page /\ p \in DOMAIN refs /\ refs[p] # NoRef BY <1>1, <1>3, <1>4, <2>2
  <2>. QED BY <2>1, <2>2
<1>6. p \in DOMAIN DropEmptyTail(written)
  BY ONLY <1>3, <1>5, KeptTail
<1>. QED BY <1>2, <1>6

\* A thread that grows by a comment ends in the page of that comment.
LEMMA ThreadLengths ==
  ASSUME NEW n, NEW comments, IsSeq(comments), NEW m,
         NEW refs, refs = ThreadRefs(n, comments),
         NEW whole, whole = ThreadRefs(n, Append(comments, m)),
         NEW page, page = TailOf(Append(comments, m)), NEW count, count = Len(refs)
  PROVE  /\ page \in Nat /\ page >= 1 /\ IsSeq(whole) /\ Len(whole) = page
         /\ count <= page /\ page - 1 <= count
<1>1. PICK messages : messages = Append(comments, m)
  OBVIOUS
<1>2. refs = ThreadRefs(n, comments)
  OBVIOUS
<1>3. whole = ThreadRefs(n, messages)
  BY <1>1
<1>5. page = TailOf(messages)
  BY <1>1
<1>7. count = Len(refs)
  OBVIOUS
<1>9. page \in Nat /\ page >= 1 /\ IsSeq(whole) /\ Len(whole) = page /\ count <= page /\ page - 1 <= count
  <2>1. PICK L \in Nat : L = Len(comments)
    BY SeqFacts
  <2>2. IsSeq(messages) /\ Len(messages) - 1 = L /\ Len(messages) = L + 1
    BY <1>1, <2>1, AppendFacts
  <2>3. CommentPageSize \in Nat \ {0}
    BY PageSizes
  <2>4. page = (L \div CommentPageSize) + 1 /\ L \div CommentPageSize \in Nat
    BY <1>5, <2>2, <2>3, Quotient DEF TailOf
  <2>5. LET before == Paginate(comments, CommentPageSize)
            grown == Paginate(Append(comments, m), CommentPageSize)
            last == (Len(comments) \div CommentPageSize) + 1
        IN  /\ last \in Nat /\ Len(grown) = last
            /\ Len(before) = IF Len(comments) % CommentPageSize = 0 THEN last - 1 ELSE last
            /\ \A q \in 1..(last - 1) : grown[q] = before[q]
            /\ grown[last] = Append(IF Len(comments) % CommentPageSize = 0 THEN << >>
                                    ELSE before[last], m)
            /\ grown[last] = SubSeq(Append(comments, m), (last - 1) * CommentPageSize + 1,
                                    Len(comments) + 1)
    BY <2>3, PaginateAppend, Zenon
  <2>6. /\ Len(Paginate(messages, CommentPageSize)) = page
        /\ Len(Paginate(comments, CommentPageSize)) = IF L % CommentPageSize = 0 THEN page - 1 ELSE page
    BY <1>1, <2>1, <2>4, <2>5, Zenon
  <2>7. Len(whole) = page /\ IsSeq(whole)
    BY <1>3, <2>2, <2>6, ThreadPages
  <2>8. count = IF L % CommentPageSize = 0 THEN page - 1 ELSE page
    BY <1>2, <1>7, <2>6, ThreadPages
  <2>9. page \in Nat /\ page >= 1
    BY <2>4
  <2>10. count <= page /\ page - 1 <= count
    BY <2>8, <2>9
  <2>. QED BY <2>7, <2>9, <2>10
<1>. QED BY <1>9

\* A thread that grows by a comment keeps every page but its tail.
LEMMA ThreadKeeps ==
  ASSUME NEW n, NEW comments, IsSeq(comments), NEW m,
         NEW refs, refs = ThreadRefs(n, comments),
         NEW whole, whole = ThreadRefs(n, Append(comments, m)), NEW p \in DOMAIN whole
  PROVE  \/ p = TailOf(Append(comments, m)) /\ whole[p] = TailShard(n, Append(comments, m))
         \/ p # TailOf(Append(comments, m)) /\ p \in DOMAIN refs /\ whole[p] = refs[p]
<1>1. PICK messages : messages = Append(comments, m)
  OBVIOUS
<1>2. refs = ThreadRefs(n, comments)
  OBVIOUS
<1>3. whole = ThreadRefs(n, messages)
  BY <1>1
<1>4. PICK tail : tail = TailShard(n, messages)
  OBVIOUS
<1>5. PICK page : page = TailOf(messages)
  OBVIOUS
<1>6. IsSeq(refs)
  BY <1>2, ThreadPages
<1>7. PICK count \in Nat : count = Len(refs) /\ DOMAIN refs = 1..count
  BY <1>6, SeqFacts
<1>8. whole = IF count < page THEN Append(refs, tail) ELSE [refs EXCEPT ![page] = tail]
  <2>1. Grown(n, messages, refs) = whole
    BY <1>1, <1>2, <1>3, ThreadGrows
  <2>. QED BY <1>4, <1>5, <1>7, <2>1 DEF Grown
<1>9. page \in Nat /\ page >= 1 /\ IsSeq(whole) /\ Len(whole) = page /\ count <= page /\ page - 1 <= count
  BY <1>1, <1>2, <1>3, <1>5, <1>7, ThreadLengths
<1>10. DOMAIN whole = 1..page
  BY <1>9, SeqFacts
<1>11. p \in 1..page
  BY <1>1, <1>3, <1>10
<1>12. CASE count < page
  <2>1. whole = Append(refs, tail) /\ page = count + 1 BY <1>7, <1>8, <1>9, <1>12
  <2>2. whole[count + 1] = tail /\ \A q \in 1..count : whole[q] = refs[q]
    BY <1>6, <1>7, <2>1, AppendFacts
  <2>3. p = page => whole[p] = tail BY <2>1, <2>2
  <2>4. p # page => p \in 1..count BY <1>11, <2>1
  <2>. QED BY <1>1, <1>2, <1>3, <1>4, <1>5, <1>7, <2>2, <2>3, <2>4
<1>13. CASE ~(count < page)
  <2>1. whole = [refs EXCEPT ![page] = tail] /\ page = count BY <1>7, <1>8, <1>9, <1>13
  <2>2. page \in DOMAIN refs /\ p \in DOMAIN refs BY <1>7, <1>9, <1>11, <2>1
  <2>3. whole[p] = IF p = page THEN tail ELSE refs[p] BY <2>1, <2>2
  <2>. QED BY <1>1, <1>2, <1>3, <1>4, <1>5, <2>2, <2>3
<1>. QED BY <1>12, <1>13

\* A thread that grows by a comment keeps its pages in place, and has the tail.
LEMMA ThreadKept ==
  ASSUME NEW n, NEW comments, IsSeq(comments), NEW m,
         NEW refs, refs = ThreadRefs(n, comments),
         NEW whole, whole = ThreadRefs(n, Append(comments, m))
  PROVE  TailOf(Append(comments, m)) \in DOMAIN whole /\ DOMAIN refs \subseteq DOMAIN whole
<1>1. IsSeq(refs)
  BY ThreadPages
<1>2. PICK count \in Nat : count = Len(refs) /\ DOMAIN refs = 1..count
  BY <1>1, SeqFacts
<1>3. PICK page : page = TailOf(Append(comments, m))
  OBVIOUS
<1>4. page \in Nat /\ page >= 1 /\ IsSeq(whole) /\ Len(whole) = page /\ count <= page
  BY <1>2, <1>3, ThreadLengths
<1>5. DOMAIN whole = 1..page
  BY <1>4, SeqFacts
<1>. QED BY <1>2, <1>3, <1>4, <1>5

\* Where the cards are named after an operation, and what a page then names.
PlacedAfter(op, then, place, page) ==
  [n \in DOMAIN then |-> IF n = op.number THEN page ELSE place[n]]

NamedWith(op, cards, then, place, page) ==
  {e \in Named(cards, place, page) : e.number # op.number}
    \cup (IF op.kind = "delete" THEN {} ELSE {EntryFor(op.number, then[op.number])})

\* The touched card is named on its page after the operation, and every other
\* card where it was.
LEMMA NamedAfter ==
  ASSUME NEW op, NEW cards, NEW then, NEW next, CardsMoved(op, cards, then, next),
         TouchesIssue(op.kind), NEW place, NEW page,
         op.number \in DOMAIN cards => page = place[op.number],
         NEW p
  PROVE  /\ p # page => Named(then, PlacedAfter(op, then, place, page), p) = Named(cards, place, p)
         /\ p = page => Named(then, PlacedAfter(op, then, place, page), p)
                          = NamedWith(op, cards, then, place, page)
<1>1. PICK number : number = op.number
  OBVIOUS
<1>w. PICK where : where = PlacedAfter(op, then, place, page)
  OBVIOUS
<1>2. /\ DOMAIN where = DOMAIN then
      /\ \A n \in DOMAIN then : where[n] = IF n = number THEN page ELSE place[n]
  BY <1>1, <1>w DEF PlacedAfter
<1>3. /\ DOMAIN then = (IF op.kind = "create" THEN DOMAIN cards \cup {number}
                        ELSE IF op.kind = "delete" THEN DOMAIN cards \ {number} ELSE DOMAIN cards)
      /\ \A n \in DOMAIN then : n # number => n \in DOMAIN cards /\ then[n] = cards[n]
      /\ op.kind # "delete" => number \in DOMAIN then
      /\ number \in DOMAIN cards => page = place[number]
  BY <1>1 DEF CardsMoved, TouchesIssue, Revises
<1>4. \A n, card : EntryFor(n, card).number = n
  BY DEF EntryFor
<1>5. PICK old : old = Named(cards, place, p)
  OBVIOUS
<1>6. /\ \A e \in old : \E n \in DOMAIN cards : place[n] = p /\ e = EntryFor(n, cards[n])
      /\ \A n \in DOMAIN cards : place[n] = p => EntryFor(n, cards[n]) \in old
  BY <1>5 DEF Named
<1>7. PICK kept : kept = {e \in old : e.number # number}
  OBVIOUS
<1>8. ASSUME NEW e \in Named(then, where, p)
      PROVE  IF p = page /\ op.kind # "delete" /\ e = EntryFor(number, then[number])
             THEN TRUE ELSE e \in kept
  <2>1. PICK n \in DOMAIN then : where[n] = p /\ e = EntryFor(n, then[n])
    BY DEF Named
  <2>2. CASE n = number
    <3>1. op.kind # "delete" BY <1>3, <2>2
    <3>. QED BY <1>2, <2>1, <2>2, <3>1
  <2>3. CASE n # number
    <3>1. n \in DOMAIN cards /\ then[n] = cards[n] /\ place[n] = p BY <1>2, <1>3, <2>1, <2>3
    <3>2. e \in old /\ e.number = n BY <1>4, <1>6, <2>1, <3>1
    <3>. QED BY <1>7, <2>3, <3>2
  <2>. QED BY <2>2, <2>3
<1>9. ASSUME NEW e \in kept PROVE e \in Named(then, where, p)
  <2>1. PICK n \in DOMAIN cards : place[n] = p /\ e = EntryFor(n, cards[n])
    BY <1>6, <1>7
  <2>2. n # number BY <1>4, <1>7, <2>1
  <2>3. n \in DOMAIN then BY <1>3, <2>2
  <2>4. then[n] = cards[n] /\ where[n] = p BY <1>2, <1>3, <2>1, <2>2, <2>3
  <2>. QED BY <2>1, <2>3, <2>4 DEF Named
<1>10. CASE p # page
  <2>1. kept = old
    <3>1. \A e \in old : e.number # number BY <1>3, <1>4, <1>6, <1>10
    <3>. QED BY <1>7, <3>1
  <2>. QED BY <1>w, <1>5, <1>8, <1>9, <1>10, <2>1
<1>11. CASE p = page
  <2>1. op.kind # "delete" => EntryFor(number, then[number]) \in Named(then, where, p)
    BY <1>2, <1>3, <1>11 DEF Named
  <2>2. Named(then, where, p)
          = kept \cup (IF op.kind = "delete" THEN {} ELSE {EntryFor(number, then[number])})
    BY <1>8, <1>9, <1>11, <2>1
  <2>. QED BY <1>w, <1>1, <1>5, <1>7, <1>11, <2>2 DEF NamedWith
<1>. QED BY <1>10, <1>11

\* writeIssue and writeDirectory: every card of the board after the operation
\* is named at one place, the touched one on the page it was found for.
LEMMA DirectoryWritten ==
  ASSUME NEW op, NEW board, NEW closedAt, NEW real, NEW at, NEW next,
         Settled(op, board, closedAt, real, at, next), NEW meta, NEW place,
         Directory(meta.directoryRefs, CardsAre(board.issues, closedAt), place)
  PROVE  \E where : Directory(WriteIssue(op, meta, next).refs, CardsAre(real.issues, at), where)
<1>1. PICK cards : cards = CardsAre(board.issues, closedAt)
  OBVIOUS
<1>2. PICK then : then = CardsAre(real.issues, at)
  OBVIOUS
<1>3. PICK refs : refs = meta.directoryRefs
  OBVIOUS
<1>4. CardsMoved(op, cards, then, next)
  BY <1>1, <1>2, CardsTurn
<1>5. Directory(refs, cards, place) /\ IsSeq(refs) /\ Len(refs) \in Nat
  BY <1>1, <1>3, SeqFacts DEF Directory
<1>6. CASE ~TouchesIssue(op.kind)
  <2>1. WriteIssue(op, meta, next).refs = refs
    BY <1>3, <1>6 DEF WriteIssue
  <2>2. then = cards
    <3>1. DOMAIN then = DOMAIN cards BY <1>4, <1>6 DEF CardsMoved, TouchesIssue
    <3>2. cards = [n \in DOMAIN cards |-> cards[n]] /\ then = [n \in DOMAIN then |-> then[n]]
      BY <1>1, <1>2 DEF CardsAre
    <3>3. \A n \in DOMAIN then : then[n] = cards[n] BY <1>4, <1>6 DEF CardsMoved
    <3>. QED BY <3>1, <3>2, <3>3
  <2>. QED BY <1>2, <1>5, <2>1, <2>2
<1>7. CASE TouchesIssue(op.kind)
  <2>1. PICK page, comments, entries, ref :
          IssueWrite(op, refs, WriteIssue(op, meta, next), cards, then, place,
                     page, comments, entries, ref)
    BY <1>3, <1>4, <1>5, <1>7, IssueWritten
  <2>2. /\ page \in 1..(Len(refs) + 1)
        /\ op.number \in DOMAIN cards => page = place[op.number]
        /\ entries = {e \in Named(cards, place, page) : e.number # op.number}
                       \cup (IF op.kind = "delete" THEN {} ELSE {EntryFor(op.number, then[op.number])})
        /\ ref = (IF entries = {} THEN NoRef ELSE DirectoryShard(page, entries))
        /\ WriteIssue(op, meta, next).refs = DropEmptyTail(WrittenRefs(refs, page, ref))
    BY <2>1, Zenon DEF IssueWrite
  <2>3. PICK written : written = WrittenRefs(refs, page, ref)
    OBVIOUS
  <2>4. /\ IsSeq(written) /\ page \in 1..Len(written) /\ Len(refs) <= Len(written)
        /\ \A p \in 1..Len(written) : written[p] = IF p = page THEN ref ELSE refs[p]
        /\ \A p \in 1..Len(written) : p # page => p \in 1..Len(refs)
    BY <1>5, <2>2, <2>3, PageAmong
  <2>5. PICK where : where = [n \in DOMAIN then |-> IF n = op.number THEN page ELSE place[n]]
    OBVIOUS
  <2>6. where \in [DOMAIN then -> 1..Len(written)]
    <3>1. ASSUME NEW n \in DOMAIN then PROVE where[n] \in 1..Len(written)
      <4>1. CASE n = op.number BY <2>4, <2>5, <4>1
      <4>2. CASE n # op.number
        <5>1. n \in DOMAIN cards BY <1>4, <4>2 DEF CardsMoved
        <5>2. place[n] \in 1..Len(refs) BY <1>5, <5>1 DEF Directory
        <5>3. Len(written) \in Nat BY <2>4, SeqFacts
        <5>. QED BY <1>5, <2>4, <2>5, <4>2, <5>2, <5>3
      <4>. QED BY <4>1, <4>2
    <3>. QED BY <2>5, <3>1
  <2>7. ASSUME NEW p \in 1..Len(written)
        PROVE  written[p] = IF Named(then, where, p) = {} THEN NoRef
                            ELSE DirectoryShard(p, Named(then, where, p))
    <3>1. /\ p # page => Named(then, where, p) = Named(cards, place, p)
          /\ p = page => Named(then, where, p) = entries
      <4>1. op.number \in DOMAIN cards => page = place[op.number] BY <2>2
      <4>2. /\ p # page => Named(then, PlacedAfter(op, then, place, page), p) = Named(cards, place, p)
            /\ p = page => Named(then, PlacedAfter(op, then, place, page), p)
                             = NamedWith(op, cards, then, place, page)
        BY ONLY <1>4, <1>7, <4>1, NamedAfter
      <4>3. entries = NamedWith(op, cards, then, place, page)
        BY <2>2 DEF NamedWith
      <4>4. where = PlacedAfter(op, then, place, page)
        BY <2>5 DEF PlacedAfter
      <4>. QED BY <4>2, <4>3, <4>4
    <3>2. CASE p = page
      <4>1. Named(then, where, p) = entries BY <3>1, <3>2
      <4>2. written[p] = ref BY <2>4, <3>2
      <4>. QED BY <2>2, <3>2, <4>1, <4>2, Zenon
    <3>3. CASE p # page
      <4>1. Named(then, where, p) = Named(cards, place, p) BY <3>1, <3>3
      <4>2. written[p] = refs[p] /\ p \in 1..Len(refs) BY <2>4, <3>3
      <4>3. refs[p] = IF Named(cards, place, p) = {} THEN NoRef
                      ELSE DirectoryShard(p, Named(cards, place, p))
        BY <1>5, <4>2, Zenon DEF Directory
      <4>. QED BY <4>1, <4>2, <4>3, Zenon
    <3>. QED BY <3>2, <3>3
  <2>8. Directory(written, then, where)
    BY <2>4, <2>6, <2>7, Zenon DEF Directory
  <2>9. Directory(DropEmptyTail(written), then, where)
    BY <2>8, TailDropped
  <2>. QED BY <1>2, <2>2, <2>3, <2>9
<1>. QED BY <1>6, <1>7

\* writeIssue and writeDirectory: of what the directory leads to, only the page,
\* the snapshot and the tail written for the touched issue are new, and what is
\* replaced is led to no more.
LEMMA IssueRewrites ==
  ASSUME NEW op, NEW cards, NEW then, NEW next, CardsMoved(op, cards, then, next),
         NEW meta, NEW place, Directory(meta.directoryRefs, cards, place), NEW part,
         part = WriteIssue(op, meta, next), NEW made, made.directoryRefs = part.refs,
         NEW where, Directory(made.directoryRefs, then, where)
  PROVE  Rewrites(IssueShards(meta), IssueShards(made), part.superseded, part.written)
<1>1. CASE ~TouchesIssue(op.kind)
  <2>1. part.refs = meta.directoryRefs /\ part.superseded = {} /\ part.written = {}
    BY <1>1 DEF WriteIssue
  <2>2. made.directoryRefs = meta.directoryRefs
    BY <2>1
  <2>3. IssueShards(made) = IssueShards(meta)
    BY <2>2, Zenon DEF IssueShards, SnapshotsOf, DirectoryEntries
  <2>. QED BY <2>1, <2>3, NothingReplaced
<1>2. CASE TouchesIssue(op.kind)
  <2>1. PICK refs : refs = meta.directoryRefs
    OBVIOUS
  <2>2. PICK page, comments, entries, ref :
           IssueWrite(op, refs, part, cards, then, place, page, comments, entries, ref)
    BY <1>2, <2>1, IssueWritten
  <2>3. PICK number : number = op.number
    OBVIOUS
  <2>4. PICK thread : thread = ThreadRefs(number, comments)
    OBVIOUS
  <2>5. PICK messages : messages = then[number].issue.comments
    OBVIOUS
  <2>6. /\ page \in 1..(Len(refs) + 1)
        /\ comments = (IF number \in DOMAIN cards THEN cards[number].issue.comments ELSE << >>)
        /\ op.kind # "delete" => number \in DOMAIN then
        /\ part.refs = DropEmptyTail(WrittenRefs(refs, page, ref))
        /\ part.written = ({ref} \ {NoRef}) \cup (NewSnapshot(op, then) \cup NewTail(op, then))
        /\ part.superseded = OldSnapshot(op, cards) \cup OldThread(op, then, thread) \cup OldPage(refs, page)
    BY <2>2, <2>3, <2>4 DEF IssueWrite
  <2>7. IsSeq(refs) /\ Directory(refs, cards, place)
    BY <2>1 DEF Directory
  <2>8. PICK count \in Nat : count = Len(refs) /\ DOMAIN refs = 1..count
    BY <2>7, SeqFacts
  <2>9. \A x : x \in IssueShards(meta) <=>
           IsDirectory(x, refs) \/ IsSnapshot(x, cards) \/ IsThreadPage(x, cards)
    BY <2>1, IssueShardsAre
  <2>10. PICK new : new = made.directoryRefs /\ new = part.refs
    OBVIOUS
  <2>11. \A x : x \in IssueShards(made) <=>
           IsDirectory(x, new) \/ IsSnapshot(x, then) \/ IsThreadPage(x, then)
    BY <2>10, IssueShardsAre
  <2>12. /\ NewSnapshot(op, then) = (IF op.kind = "delete" THEN {} ELSE {EntryFor(number, then[number]).ref})
         /\ NewTail(op, then) = (IF op.kind = "comment" THEN {TailShard(number, messages)} ELSE {})
         /\ OldSnapshot(op, cards) = (IF number \in DOMAIN cards
                                      THEN {EntryFor(number, cards[number]).ref} ELSE {})
         /\ OldThread(op, then, thread) =
              (IF op.kind = "delete" THEN ToSet(thread)
               ELSE IF op.kind = "comment" /\ Len(thread) >= TailOf(messages)
                    THEN {thread[TailOf(messages)]} ELSE {})
         /\ OldPage(refs, page) = (IF page <= Len(refs) /\ refs[page] # NoRef THEN {refs[page]} ELSE {})
    BY <2>3, <2>5, Zenon DEF NewSnapshot, NewTail, OldSnapshot, OldThread, OldPage
  <2>13. /\ op.kind = "create" => number \notin DOMAIN cards /\ messages = << >>
         /\ op.kind = "delete" => number \in DOMAIN cards /\ number \notin DOMAIN then
         /\ Revises(op.kind) =>
              /\ number \in DOMAIN cards /\ IsSeq(comments)
              /\ messages = IF op.kind = "comment"
                            THEN Append(comments, [id |-> op.id, at |-> op.at]) ELSE comments
         /\ \A n \in DOMAIN then : n # number => n \in DOMAIN cards /\ then[n] = cards[n]
    <3>1. CASE op.kind = "create"
      BY <2>3, <2>5, <3>1 DEF CardsMoved, Revises
    <3>2. CASE op.kind = "delete"
      BY <2>3, <2>5, <3>2 DEF CardsMoved, Revises
    <3>3. CASE Revises(op.kind)
      <4>1. /\ number \in DOMAIN cards /\ IsSeq(cards[number].issue.comments)
            /\ messages = IF op.kind = "comment"
                          THEN Append(cards[number].issue.comments, [id |-> op.id, at |-> op.at])
                          ELSE cards[number].issue.comments
        BY <2>3, <2>5, <3>3, Zenon DEF CardsMoved
      <4>2. comments = cards[number].issue.comments BY <2>6, <4>1
      <4>3. op.kind # "create" /\ op.kind # "delete" BY <3>3 DEF Revises
      <4>4. \A n \in DOMAIN then : n # number => n \in DOMAIN cards /\ then[n] = cards[n]
        BY <2>3 DEF CardsMoved
      <4>. QED BY <4>1, <4>2, <4>3, <4>4
    <3>. QED BY <1>2, <3>1, <3>2, <3>3 DEF TouchesIssue, Revises
  \* Directory pages
  <2>14. ASSUME NEW x, IsDirectory(x, new)
         PROVE  x \in part.written \/ (IsDirectory(x, refs) /\ x.page # page)
    <3>1. PICK p \in DOMAIN new : x = new[p] /\ x.type = "directory" /\ x.page = p
      BY <2>14 DEF IsDirectory
    <3>2. p \in DOMAIN DropEmptyTail(WrittenRefs(refs, page, ref))
      BY <2>6, <2>10
    <3>3. /\ p = page => new[p] = ref
          /\ p # page => p \in DOMAIN refs /\ new[p] = refs[p]
      <4>1. page \in 1..(Len(refs) + 1) BY <2>6
      <4>2. /\ p = page => DropEmptyTail(WrittenRefs(refs, page, ref))[p] = ref
            /\ p # page => p \in DOMAIN refs
                           /\ DropEmptyTail(WrittenRefs(refs, page, ref))[p] = refs[p]
        BY ONLY <2>7, <3>2, <4>1, PagePut, Zenon
      <4>. QED BY <2>6, <2>10, <4>2, Zenon
    <3>4. CASE p = page
      <4>1. x = ref /\ x # NoRef BY <3>1, <3>3, <3>4 DEF NoRef
      <4>. QED BY <2>6, <4>1
    <3>5. CASE p # page
      BY <3>1, <3>3, <3>5 DEF IsDirectory
    <3>. QED BY <3>4, <3>5
  \* Snapshots
  <2>15. ASSUME NEW x, IsSnapshot(x, then)
         PROVE  x \in part.written \/ (IsSnapshot(x, cards) /\ x.number # number)
    <3>1. PICK n \in DOMAIN then : x = EntryFor(n, then[n]).ref /\ x.type = "issue" /\ x.number = n
      BY <2>15 DEF IsSnapshot
    <3>2. CASE n = number
      <4>1. op.kind # "delete" BY <2>13, <3>2
      <4>2. x \in NewSnapshot(op, then) BY <2>12, <3>1, <3>2, <4>1
      <4>. QED BY <2>6, <4>2
    <3>3. CASE n # number
      <4>1. n \in DOMAIN cards /\ then[n] = cards[n] BY <2>13, <3>3
      <4>. QED BY <3>1, <3>3, <4>1 DEF IsSnapshot
    <3>. QED BY <3>2, <3>3
  \* Threads
  <2>16. ASSUME NEW x, IsThreadPage(x, then)
         PROVE  \/ x \in part.written
                \/ IsThreadPage(x, cards) /\ x.number # number
                \/ IsThreadPage(x, cards) /\ op.kind \notin {"delete", "comment"}
                \/ IsThreadPage(x, cards) /\ op.kind = "comment" /\ x.page # TailOf(messages)
    <3>1. PICK n \in DOMAIN then : \E p \in DOMAIN ThreadRefs(n, then[n].issue.comments) :
             /\ x = ThreadRefs(n, then[n].issue.comments)[p]
             /\ x.type = "comments" /\ x.number = n /\ x.page = p
      BY <2>16 DEF IsThreadPage
    <3>2. CASE n # number
      <4>1. n \in DOMAIN cards /\ then[n] = cards[n] BY <2>13, <3>2
      <4>2. IsThreadPage(x, cards) BY <3>1, <4>1 DEF IsThreadPage
      <4>. QED BY <3>1, <3>2, <4>2
    <3>3. CASE n = number
      <4>1. PICK p \in DOMAIN ThreadRefs(number, messages) :
               /\ x = ThreadRefs(number, messages)[p]
               /\ x.type = "comments" /\ x.number = number /\ x.page = p
        BY <2>5, <3>1, <3>3
      <4>2. op.kind # "delete" BY <2>13, <3>3
      <4>3. op.kind # "create"
        <5>1. SUFFICES ASSUME op.kind = "create" PROVE FALSE OBVIOUS
        <5>2. ThreadRefs(number, messages) = << >> BY <2>13, <5>1, ThreadBegins
        <5>3. DOMAIN << >> = {} OBVIOUS
        <5>. QED BY <4>1, <5>2, <5>3
      <4>4. Revises(op.kind) BY <1>2, <4>2, <4>3 DEF TouchesIssue, Revises
      <4>5. number \in DOMAIN cards /\ IsSeq(comments) /\ comments = cards[number].issue.comments
        BY <2>6, <2>13, <4>4
      <4>6. CASE op.kind = "comment"
        <5>1. PICK m : m = [id |-> op.id, at |-> op.at] OBVIOUS
        <5>2. messages = Append(comments, m) BY <2>13, <4>4, <4>6, <5>1
        <5>3. \/ p = TailOf(messages) /\ x = TailShard(number, messages)
              \/ p # TailOf(messages) /\ p \in DOMAIN thread /\ x = thread[p]
          <6>1. PICK whole : whole = ThreadRefs(number, Append(comments, m)) OBVIOUS
          <6>2. p \in DOMAIN whole /\ x = whole[p] BY <4>1, <5>2, <6>1
          <6>3. IsSeq(comments) BY <4>5
          <6>4. \/ p = TailOf(Append(comments, m)) /\ whole[p] = TailShard(number, Append(comments, m))
                \/ p # TailOf(Append(comments, m)) /\ p \in DOMAIN thread /\ whole[p] = thread[p]
            BY <2>4, <6>1, <6>2, <6>3, ThreadKeeps
          <6>. QED BY <5>2, <6>2, <6>4, Zenon
        <5>4. CASE p = TailOf(messages) /\ x = TailShard(number, messages)
          <6>1. x \in NewTail(op, then) BY <2>12, <4>6, <5>4
          <6>. QED BY <2>6, <6>1
        <5>5. CASE p # TailOf(messages) /\ p \in DOMAIN thread /\ x = thread[p]
          <6>1. IsThreadPage(x, cards) BY <2>4, <4>1, <4>5, <5>5 DEF IsThreadPage
          <6>. QED BY <4>1, <4>6, <5>5, <6>1
        <5>. QED BY <5>3, <5>4, <5>5
      <4>7. CASE op.kind # "comment"
        <5>1. messages = comments BY <2>13, <4>4, <4>7
        <5>2. IsThreadPage(x, cards) BY <4>1, <4>5, <5>1 DEF IsThreadPage
        <5>. QED BY <4>2, <4>7, <5>2
      <4>. QED BY <4>6, <4>7
    <3>. QED BY <3>2, <3>3
  <2>17. ASSUME NEW x \in IssueShards(made) PROVE x \in IssueShards(meta) \/ x \in part.written
    BY <2>9, <2>11, <2>14, <2>15, <2>16
  \* What is replaced
  <2>18. ASSUME NEW x \in OldSnapshot(op, cards)
         PROVE  IsSnapshot(x, cards) /\ x.type = "issue" /\ x.number = number
    <3>1. number \in DOMAIN cards /\ x = EntryFor(number, cards[number]).ref BY <2>12, <2>18
    <3>2. EntryFor(number, cards[number]).ref.type = "issue"
          /\ EntryFor(number, cards[number]).ref.number = number
      BY DEF EntryFor, SnapshotShard
    <3>. QED BY <3>1, <3>2 DEF IsSnapshot
  <2>19. ASSUME NEW x \in OldThread(op, then, thread)
         PROVE  /\ IsThreadPage(x, cards) /\ x.type = "comments" /\ x.number = number
                /\ op.kind \in {"delete", "comment"}
                /\ op.kind = "comment" => x.page = TailOf(messages)
    <3>1. op.kind \in {"delete", "comment"} BY <2>12, <2>19
    <3>2. number \in DOMAIN cards /\ comments = cards[number].issue.comments
      BY <2>6, <2>13, <3>1 DEF Revises
    <3>3. PICK p \in DOMAIN thread : x = thread[p] /\ (op.kind = "comment" => p = TailOf(messages))
      <4>1. CASE op.kind = "delete"
        <5>1. x \in ToSet(thread) BY <2>12, <2>19, <4>1
        <5>2. \E p \in DOMAIN thread : x = thread[p] BY <5>1 DEF ToSet
        <5>. QED BY <4>1, <5>2
      <4>2. CASE op.kind = "comment"
        <5>1. x = thread[TailOf(messages)] /\ Len(thread) >= TailOf(messages) BY <2>12, <2>19, <4>2
        <5>2. PICK m : m = [id |-> op.id, at |-> op.at] OBVIOUS
        <5>3. messages = Append(comments, m) /\ IsSeq(comments)
          BY <2>13, <4>2, <5>2 DEF Revises
        <5>4. PICK L \in Nat : L = Len(comments) BY <5>3, SeqFacts
        <5>5. Len(messages) - 1 = L BY <5>3, <5>4, AppendFacts
        <5>6. PICK tail \in Nat : tail = TailOf(messages) /\ tail >= 1
          <6>1. CommentPageSize \in Nat \ {0} BY PageSizes
          <6>2. L \div CommentPageSize \in Nat BY <5>4, <6>1, Quotient
          <6>3. TailOf(messages) = (L \div CommentPageSize) + 1 BY <5>5 DEF TailOf
          <6>. QED BY <6>2, <6>3
        <5>7. IsSeq(thread) BY <2>4, <5>3, ThreadPages
        <5>8. DOMAIN thread = 1..Len(thread) /\ Len(thread) \in Nat BY <5>7, SeqFacts
        <5>9. tail \in DOMAIN thread BY <5>1, <5>6, <5>8
        <5>. QED BY <5>1, <5>6, <5>9
      <4>. QED BY <3>1, <4>1, <4>2
    <3>4. x.type = "comments" /\ x.number = number /\ x.page = p
      <4>1. \A q \in DOMAIN thread : thread[q].type = "comments" /\ thread[q].number = number
                                     /\ thread[q].page = q
        BY <2>4 DEF ThreadRefs, CommentPageShard
      <4>. QED BY <3>3, <4>1
    <3>5. IsThreadPage(x, cards)
      BY <2>4, <3>2, <3>3, <3>4 DEF IsThreadPage
    <3>. QED BY <3>1, <3>3, <3>4, <3>5
  <2>20. ASSUME NEW x \in OldPage(refs, page)
         PROVE  IsDirectory(x, refs) /\ x.type = "directory" /\ x.page = page
    <3>1. page \in 1..count /\ x = refs[page] /\ x # NoRef BY <2>6, <2>8, <2>12, <2>20
    <3>2. refs[page] = IF Named(cards, place, page) = {} THEN NoRef
                       ELSE DirectoryShard(page, Named(cards, place, page))
      BY <2>7, <2>8, <3>1, Zenon DEF Directory
    <3>3. x = DirectoryShard(page, Named(cards, place, page)) BY <3>1, <3>2, Zenon
    <3>4. x.type = "directory" /\ x.page = page BY <3>3 DEF DirectoryShard
    <3>. QED BY <2>8, <3>1, <3>4 DEF IsDirectory
  <2>21. part.superseded \subseteq IssueShards(meta)
    BY <2>6, <2>9, <2>18, <2>19, <2>20
  <2>22. ASSUME NEW x \in part.superseded, x \in IssueShards(made) PROVE x \in part.written
    <3>1. \/ IsDirectory(x, new) /\ x.type = "directory"
          \/ IsSnapshot(x, then) /\ x.type = "issue"
          \/ IsThreadPage(x, then) /\ x.type = "comments"
      BY <2>11, <2>22 DEF IsDirectory, IsSnapshot, IsThreadPage
    <3>2. CASE x \in OldSnapshot(op, cards)
      <4>1. IsSnapshot(x, then) /\ x.number = number BY <2>18, <3>1, <3>2
      <4>. QED BY <2>15, <4>1
    <3>3. CASE x \in OldThread(op, then, thread)
      <4>1. IsThreadPage(x, then) BY <2>19, <3>1, <3>3
      <4>2. x.number = number /\ op.kind \in {"delete", "comment"}
            /\ (op.kind = "comment" => x.page = TailOf(messages))
        BY <2>19, <3>3
      <4>3. op.kind # "delete"
        BY <2>13, <4>1, <4>2 DEF IsThreadPage
      <4>. QED BY <2>16, <4>1, <4>2, <4>3
    <3>4. CASE x \in OldPage(refs, page)
      <4>1. IsDirectory(x, new) /\ x.page = page BY <2>20, <3>1, <3>4
      <4>. QED BY <2>14, <4>1
    <3>. QED BY <2>6, <2>22, <3>2, <3>3, <3>4
  \* What was there and stays
  <2>23. \A n \in DOMAIN cards : n # number => n \in DOMAIN then /\ then[n] = cards[n]
    <3>1. \A n \in DOMAIN cards : n # number => n \in DOMAIN then BY <2>3 DEF CardsMoved
    <3>. QED BY <2>13, <3>1
  <2>24. ASSUME NEW x, IsDirectory(x, refs) PROVE IsDirectory(x, new) \/ x \in part.superseded
    <3>1. PICK p \in DOMAIN refs : x = refs[p] /\ x.type = "directory" /\ x.page = p
      BY <2>24 DEF IsDirectory
    <3>2. x # NoRef BY <3>1 DEF NoRef
    <3>3. CASE p = page
      <4>1. page <= Len(refs) BY <2>8, <3>1, <3>3
      <4>2. x \in OldPage(refs, page) BY <2>12, <3>1, <3>2, <3>3, <4>1
      <4>. QED BY <2>6, <4>2
    <3>4. CASE p # page
      <4>1. page \in 1..(Len(refs) + 1) BY <2>6
      <4>2. p # page /\ p \in DOMAIN refs /\ refs[p] # NoRef BY <3>1, <3>2, <3>4
      <4>3. p \in DOMAIN DropEmptyTail(WrittenRefs(refs, page, ref))
        BY ONLY <2>7, <4>1, <4>2, PageKept
      <4>4. DropEmptyTail(WrittenRefs(refs, page, ref))[p] = refs[p]
        BY ONLY <2>7, <3>4, <4>1, <4>3, PagePut, Zenon
      <4>5. p \in DOMAIN new /\ new[p] = x BY <2>6, <2>10, <3>1, <4>3, <4>4
      <4>. QED BY <3>1, <4>5 DEF IsDirectory
    <3>. QED BY <3>3, <3>4
  <2>25. ASSUME NEW x, IsSnapshot(x, cards) PROVE IsSnapshot(x, then) \/ x \in part.superseded
    <3>1. PICK n \in DOMAIN cards : x = EntryFor(n, cards[n]).ref /\ x.type = "issue" /\ x.number = n
      BY <2>25 DEF IsSnapshot
    <3>2. CASE n = number
      <4>1. x \in OldSnapshot(op, cards) BY <2>12, <3>1, <3>2
      <4>. QED BY <2>6, <4>1
    <3>3. CASE n # number BY <2>23, <3>1, <3>3 DEF IsSnapshot
    <3>. QED BY <3>2, <3>3
  <2>26. ASSUME NEW x, IsThreadPage(x, cards) PROVE IsThreadPage(x, then) \/ x \in part.superseded
    <3>1. PICK n \in DOMAIN cards : \E p \in DOMAIN ThreadRefs(n, cards[n].issue.comments) :
             /\ x = ThreadRefs(n, cards[n].issue.comments)[p]
             /\ x.type = "comments" /\ x.number = n /\ x.page = p
      BY <2>26 DEF IsThreadPage
    <3>2. CASE n # number
      <4>1. n \in DOMAIN then /\ then[n] = cards[n] BY <2>23, <3>2
      <4>. QED BY <3>1, <4>1 DEF IsThreadPage
    <3>3. CASE n = number
      <4>1. number \in DOMAIN cards /\ comments = cards[number].issue.comments BY <2>6, <3>3
      <4>2. PICK p \in DOMAIN thread :
               x = thread[p] /\ x.type = "comments" /\ x.number = number /\ x.page = p
        BY <2>4, <3>1, <3>3, <4>1
      <4>3. CASE op.kind = "delete"
        <5>1. x \in ToSet(thread) BY <4>2 DEF ToSet
        <5>2. x \in OldThread(op, then, thread) BY <2>12, <4>3, <5>1
        <5>. QED BY <2>6, <5>2
      <4>4. CASE op.kind # "delete"
        <5>1. op.kind # "create" BY <2>13, <4>1
        <5>2. Revises(op.kind) BY <1>2, <4>4, <5>1 DEF TouchesIssue, Revises
        <5>3. number \in DOMAIN then /\ IsSeq(comments) BY <2>6, <2>13, <4>4, <5>2
        <5>4. CASE op.kind # "comment"
          <6>1. messages = comments BY <2>13, <5>2, <5>4
          <6>2. thread = ThreadRefs(number, then[number].issue.comments) BY <2>4, <2>5, <6>1
          <6>. QED BY <4>2, <5>3, <6>2 DEF IsThreadPage
        <5>5. CASE op.kind = "comment"
          <6>1. PICK m : m = [id |-> op.id, at |-> op.at] OBVIOUS
          <6>2. messages = Append(comments, m) BY <2>13, <5>2, <5>5, <6>1
          <6>3. PICK whole : whole = ThreadRefs(number, Append(comments, m)) OBVIOUS
          <6>4. DOMAIN thread \subseteq DOMAIN whole
            BY <2>4, <5>3, <6>3, ThreadKept
          <6>5. CASE p = TailOf(messages)
            <7>1. IsSeq(thread) BY <2>4, <5>3, ThreadPages
            <7>2. DOMAIN thread = 1..Len(thread) /\ Len(thread) \in Nat BY <7>1, SeqFacts
            <7>3. Len(thread) >= TailOf(messages) BY <4>2, <6>5, <7>2
            <7>4. x \in OldThread(op, then, thread) BY <2>12, <4>2, <5>5, <6>5, <7>3
            <7>. QED BY <2>6, <7>4
          <6>6. CASE p # TailOf(messages)
            <7>1. p \in DOMAIN whole BY <4>2, <6>4
            <7>2. \/ p = TailOf(Append(comments, m)) /\ whole[p] = TailShard(number, Append(comments, m))
                  \/ p # TailOf(Append(comments, m)) /\ p \in DOMAIN thread /\ whole[p] = thread[p]
              BY <2>4, <5>3, <6>3, <7>1, ThreadKeeps
            <7>3. whole[p] = x BY <4>2, <6>2, <6>6, <7>2
            <7>4. whole = ThreadRefs(number, then[number].issue.comments) BY <2>5, <6>2, <6>3
            <7>. QED BY <4>2, <5>3, <7>1, <7>3, <7>4 DEF IsThreadPage
          <6>. QED BY <6>5, <6>6
        <5>. QED BY <5>4, <5>5
      <4>. QED BY <4>3, <4>4
    <3>. QED BY <3>2, <3>3
  <2>27. IssueShards(meta) \subseteq IssueShards(made) \cup part.superseded
    BY <2>9, <2>11, <2>24, <2>25, <2>26
  \* What is written
  <2>28. ASSUME ref # NoRef PROVE IsDirectory(ref, new)
    <3>1. page \in 1..(Len(refs) + 1) BY <2>6
    <3>2. page \in DOMAIN DropEmptyTail(WrittenRefs(refs, page, ref))
      BY ONLY <2>7, <2>28, <3>1, PageKept
    <3>3. DropEmptyTail(WrittenRefs(refs, page, ref))[page] = ref
      BY ONLY <2>7, <3>1, <3>2, PagePut, Zenon
    <3>4. ref = DirectoryShard(page, entries)
      <4>1. ref = (IF entries = {} THEN NoRef ELSE DirectoryShard(page, entries))
        BY <2>2, Zenon DEF IssueWrite
      <4>. QED BY <2>28, <4>1, Zenon
    <3>5. ref.type = "directory" /\ ref.page = page BY <3>4 DEF DirectoryShard
    <3>6. page \in DOMAIN new /\ new[page] = ref BY <2>6, <2>10, <3>2, <3>3
    <3>. QED BY <3>5, <3>6 DEF IsDirectory
  <2>29. ASSUME NEW x \in NewSnapshot(op, then) PROVE IsSnapshot(x, then)
    <3>1. number \in DOMAIN then /\ x = EntryFor(number, then[number]).ref BY <2>6, <2>12, <2>29
    <3>2. EntryFor(number, then[number]).ref.type = "issue"
          /\ EntryFor(number, then[number]).ref.number = number
      BY DEF EntryFor, SnapshotShard
    <3>. QED BY <3>1, <3>2 DEF IsSnapshot
  <2>30. ASSUME NEW x \in NewTail(op, then) PROVE IsThreadPage(x, then)
    <3>1. op.kind = "comment" /\ x = TailShard(number, messages) BY <2>12, <2>30
    <3>2. number \in DOMAIN then /\ IsSeq(comments) BY <2>6, <2>13, <3>1 DEF Revises
    <3>3. PICK m : m = [id |-> op.id, at |-> op.at] OBVIOUS
    <3>4. messages = Append(comments, m) BY <2>13, <3>1, <3>3 DEF Revises
    <3>5. PICK whole : whole = ThreadRefs(number, Append(comments, m)) OBVIOUS
    <3>6. PICK p : p = TailOf(Append(comments, m)) OBVIOUS
    <3>7. p \in DOMAIN whole BY <2>4, <3>2, <3>5, <3>6, ThreadKept
    <3>8. \/ p = TailOf(Append(comments, m)) /\ whole[p] = TailShard(number, Append(comments, m))
          \/ p # TailOf(Append(comments, m)) /\ p \in DOMAIN thread /\ whole[p] = thread[p]
      BY <2>4, <3>2, <3>5, <3>7, ThreadKeeps
    <3>9. whole[p] = x BY <3>1, <3>4, <3>6, <3>8
    <3>10. whole = ThreadRefs(number, then[number].issue.comments) BY <2>5, <3>4, <3>5
    <3>11. whole[p].type = "comments" /\ whole[p].number = number /\ whole[p].page = p
      BY <3>5, <3>7 DEF ThreadRefs, CommentPageShard
    <3>. QED BY <3>2, <3>7, <3>9, <3>10, <3>11 DEF IsThreadPage
  <2>31. part.written \subseteq IssueShards(made)
    BY <2>6, <2>11, <2>28, <2>29, <2>30
  <2>. QED BY <2>17, <2>21, <2>22, <2>27, <2>31 DEF Rewrites
<1>. QED BY <1>1, <1>2

-----------------------------------------------------------------------------
(* The generation of an operation *)

\* The same rows in the same order, in either state.
SameLists(cards, queue, others, queued) ==
  \A state : OrderedSummaries(cards, queue, state) = OrderedSummaries(others, queued, state)

\* appendInternal: what the generation of an accepted operation is made of: the
\* parts computed from the cards read, as they would be from every card.
LEMMA NextMade ==
  ASSUME NEW meta, NEW board, NEW feed, NEW closedAt, Represents(meta, board, feed, closedAt),
         NEW op, IsOperation(op), NEW held,
         Held(held, CardsAre(board.issues, closedAt), op.kind, op.number),
         Applicable(op, BoardOf(held, meta)),
         NEW real, real = ApplyBoardMutation(op, board)
  PROVE  /\ Applicable(op, board)
         /\ \E before, after, next, at :
              /\ PartsOf(NextGeneration(op, meta, held), op, meta, held, before, after, next)
              /\ Settled(op, board, closedAt, real, at, next)
              /\ SameLists(held, before.queue, CardsAre(board.issues, closedAt), board.queue)
              /\ Represents(NextGeneration(op, meta, held), real,
                            FeedAfter(op, board, real, feed), at)
<1>1. PICK cards : cards = CardsAre(board.issues, closedAt)
  OBVIOUS
<1>2. PICK made : made = NextGeneration(op, meta, held)
  OBVIOUS
<1>3. PICK before, after, next : PartsOf(made, op, meta, held, before, after, next)
  BY <1>2, GenerationParts
<1>4. /\ before = BoardOf(held, meta) /\ after = ApplyBoardMutation(op, before)
      /\ next = NextCards(op, held, after)
  BY <1>3 DEF PartsOf
<1>5. /\ IsBoard(board) /\ IsSeq(feed) /\ closedAt \in [DOMAIN board.issues -> Nat]
      /\ Lists(meta.openPageRefs, "open", OrderedSummaries(cards, board.queue, "open"))
      /\ Lists(meta.closedPageRefs, "closed", OrderedSummaries(cards, board.queue, "closed"))
      /\ Feeds(meta.feedPageRefs, feed) /\ meta.feedCount = Len(feed)
      /\ meta.queueRef = QueueShard(board.queue) /\ meta.catalogRef = CatalogShard(FALSE)
      /\ meta.deleted = board.deleted
  BY <1>1 DEF Represents
<1>6. PICK place : Directory(meta.directoryRefs, cards, place)
  BY <1>1 DEF Represents
<1>7. Held(held, cards, op.kind, op.number)
  BY <1>1
<1>8. Beside(before, board, held, cards, op)
  BY <1>1, <1>4, <1>7, HeldBeside
<1>9. Applicable(op, board)
  BY <1>4, <1>8, SameVerdict
<1>10. op.at \in Nat /\ op.number \in Nat /\ IsSeq(op.numbers)
  BY DEF IsOperation
<1>11. IsBoard(real)
  BY <1>5, <1>9, <1>10, BoardStays
<1>12. /\ after.queue = real.queue /\ after.deleted = real.deleted
       /\ DOMAIN after.issues = DOMAIN real.issues
       /\ TouchesIssue(op.kind) /\ op.number \in DOMAIN real.issues
            => after.issues[op.number] = real.issues[op.number]
       /\ \A n \in DOMAIN real.issues : after.issues[n].state = real.issues[n].state
  BY <1>4, <1>8, <1>9, BesideAfter
<1>13. PICK at \in [DOMAIN real.issues -> Nat] :
          /\ SameRows(next, CardsAre(real.issues, at))
          /\ TouchesIssue(op.kind) /\ op.number \in DOMAIN real.issues
               => next[op.number] = CardOf(real.issues[op.number], at[op.number])
          /\ \A n \in DOMAIN real.issues :
               n # op.number \/ ~TouchesIssue(op.kind) => at[n] = closedAt[n]
  <2>1. \E at \in [DOMAIN real.issues -> Nat] :
            /\ SameRows(NextCards(op, held, after), CardsAre(real.issues, at))
            /\ TouchesIssue(op.kind) /\ op.number \in DOMAIN real.issues
                 => NextCards(op, held, after)[op.number]
                      = CardOf(real.issues[op.number], at[op.number])
            /\ \A n \in DOMAIN real.issues :
                 n # op.number \/ ~TouchesIssue(op.kind) => at[n] = closedAt[n]
    BY <1>1, <1>4, <1>5, <1>8, <1>9, <1>10, NextCardsAre
  <2>. QED BY <1>4, <2>1
<1>14. PICK then : then = CardsAre(real.issues, at)
  OBVIOUS
<1>b. Settled(op, board, closedAt, real, at, next)
  BY <1>5, <1>9, <1>10, <1>13, Zenon DEF Settled
<1>15. \E where : Directory(made.directoryRefs, then, where)
  <2>1. \E where : Directory(WriteIssue(op, meta, next).refs, CardsAre(real.issues, at), where)
    BY <1>1, <1>6, <1>b, DirectoryWritten
  <2>2. made.directoryRefs = WriteIssue(op, meta, next).refs
    BY <1>3 DEF PartsOf
  <2>. QED BY <1>14, <2>1, <2>2, Zenon
<1>16. before.queue = board.queue /\ IsSeq(board.queue) /\ IsSeq(real.queue)
  <2>1. before.queue = board.queue BY <1>8 DEF Beside
  <2>. QED BY <1>5, <1>11, <2>1, SequencesAgree DEF IsBoard
<1>17. ASSUME NEW state
       PROVE  /\ OrderedSummaries(next, after.queue, state) = OrderedSummaries(then, real.queue, state)
              /\ OrderedSummaries(held, before.queue, state) = OrderedSummaries(cards, board.queue, state)
  <2>1. SameRows(next, then) BY <1>13, <1>14
  <2>2. SameRows(held, cards) BY <1>7 DEF Held
  <2>3. OrderedSummaries(next, real.queue, state) = OrderedSummaries(then, real.queue, state)
    BY <1>16, <2>1, SameOrder
  <2>4. OrderedSummaries(held, board.queue, state) = OrderedSummaries(cards, board.queue, state)
    BY <1>16, <2>2, SameOrder
  <2>. QED BY <1>12, <1>16, <2>3, <2>4, Zenon
<1>18. Lists(made.openPageRefs, "open", OrderedSummaries(then, real.queue, "open"))
  <2>1. made.openPageRefs = WriteListPages("open", OrderedSummaries(then, real.queue, "open"),
                              OrderedSummaries(cards, board.queue, "open"), meta.openPageRefs).refs
    BY <1>3, <1>17, Zenon DEF PartsOf
  <2>. QED BY <1>5, <2>1, ListsWritten
<1>19. Lists(made.closedPageRefs, "closed", OrderedSummaries(then, real.queue, "closed"))
  <2>1. made.closedPageRefs = WriteListPages("closed", OrderedSummaries(then, real.queue, "closed"),
                              OrderedSummaries(cards, board.queue, "closed"), meta.closedPageRefs).refs
    BY <1>3, <1>17, Zenon DEF PartsOf
  <2>. QED BY <1>5, <2>1, ListsWritten
<1>20. PICK whole : whole = FeedAfter(op, board, real, feed)
  OBVIOUS
<1>21. /\ IsSeq(whole) /\ Feeds(made.feedPageRefs, whole) /\ made.feedCount = Len(whole)
  <2>1. made.feedPageRefs = WriteFeed(op, meta, before, after).refs
        /\ made.feedCount = (IF op.kind \in DOMAIN FeedKind THEN meta.feedCount + 1 ELSE meta.feedCount)
    BY <1>3 DEF PartsOf
  <2>2. CASE op.kind \in DOMAIN FeedKind
    <3>1. TouchesIssue(op.kind)
      <4>1. DOMAIN FeedKind = {"create", "edit", "comment", "close", "reopen", "delete"}
        BY DEF FeedKind
      <4>. QED BY <2>2, <4>1 DEF TouchesIssue
    <3>2. PICK entry : entry = FeedEntry(op, board, real, Len(feed))
      OBVIOUS
    <3>3. FeedEntry(op, before, after, meta.feedCount) = entry
      <4>1. CASE op.number \in DOMAIN real.issues
        <5>1. after.issues[op.number] = real.issues[op.number] BY <1>12, <3>1, <4>1
        <5>2. op.number \in DOMAIN after.issues BY <1>12, <4>1
        <5>. QED BY <1>5, <3>2, <4>1, <5>1, <5>2 DEF FeedEntry
      <4>2. CASE op.number \notin DOMAIN real.issues
        <5>1. op.number \notin DOMAIN after.issues BY <1>12, <4>2
        <5>2. op.number \in DOMAIN board.issues
          <6>1. IssuesMade(op, board.issues, ApplyBoardMutation(op, board).issues)
            BY <1>9, IssuesLeft
          <6>. QED BY <3>1, <4>2, <6>1 DEF IssuesMade, TouchesIssue, Revises
        <5>3. before.issues[op.number] = board.issues[op.number]
          BY <1>8, <3>1, <5>2, BesideIssues
        <5>. QED BY <1>5, <3>2, <4>2, <5>1, <5>3 DEF FeedEntry
      <4>. QED BY <4>1, <4>2
    <3>4. made.feedPageRefs = AppendFeed(meta, entry).refs
      BY <2>1, <2>2, <3>3, Zenon DEF WriteFeed
    <3>5. whole = Append(feed, entry)
      BY <1>20, <2>2, <3>2, Zenon DEF FeedAfter
    <3>6. Feeds(made.feedPageRefs, whole)
      BY <1>5, <3>4, <3>5, FeedsWritten
    <3>7. IsSeq(whole) /\ Len(whole) = Len(feed) + 1
      BY <1>5, <3>5, AppendFacts
    <3>. QED BY <1>5, <2>1, <2>2, <3>6, <3>7
  <2>3. CASE op.kind \notin DOMAIN FeedKind
    <3>1. made.feedPageRefs = meta.feedPageRefs
      BY <2>1, <2>3 DEF WriteFeed
    <3>2. whole = feed
      BY <1>20, <2>3 DEF FeedAfter
    <3>. QED BY <1>5, <2>1, <2>3, <3>1, <3>2
  <2>. QED BY <2>2, <2>3
<1>22. made.queueRef = QueueShard(real.queue)
  <2>1. made.queueRef = WriteQueue(meta, real.queue).ref
    BY <1>3, <1>12 DEF PartsOf
  <2>2. meta.queueRef.numbers = board.queue
    BY <1>5 DEF QueueShard
  <2>3. CASE board.queue = real.queue
    BY <1>5, <2>1, <2>2, <2>3 DEF WriteQueue
  <2>4. CASE board.queue # real.queue
    BY <2>1, <2>2, <2>4 DEF WriteQueue
  <2>. QED BY <2>3, <2>4
<1>23. made.catalogRef = CatalogShard(FALSE)
  <2>1. made.catalogRef = WriteCatalog(meta).ref
    BY <1>3 DEF PartsOf
  <2>2. ~meta.catalogRef.legacy
    BY <1>5 DEF CatalogShard
  <2>3. WriteCatalog(meta).ref = meta.catalogRef
    BY <2>2 DEF WriteCatalog
  <2>. QED BY <1>5, <2>1, <2>3
<1>24. ASSUME NEW state PROVE CountOf(after, state) = CountOf(real, state)
  <2>1. {n \in DOMAIN after.issues : after.issues[n].state = state}
          = {n \in DOMAIN real.issues : real.issues[n].state = state}
    BY <1>12
  <2>. QED BY <2>1, Zenon DEF CountOf
<1>25. /\ made.openIssueCount = CountOf(real, "open")
       /\ made.closedIssueCount = CountOf(real, "closed")
       /\ made.deleted = real.deleted
  BY <1>3, <1>12, <1>24, Zenon DEF PartsOf
<1>26. Represents(made, real, whole, at)
  BY <1>11, <1>14, <1>15, <1>18, <1>19, <1>21, <1>22, <1>23, <1>25, Zenon DEF Represents
<1>27. SameLists(held, before.queue, cards, board.queue)
  BY <1>17 DEF SameLists
<1>. QED BY <1>1, <1>2, <1>3, <1>9, <1>b, <1>20, <1>26, <1>27

\* appendInternal: the generation an accepted operation makes of one that
\* stands for a board and its feed stands for the board after it and the feed
\* with its entry.
LEMMA NextRepresents ==
  ASSUME NEW meta, NEW board, NEW feed, NEW closedAt, Represents(meta, board, feed, closedAt),
         NEW op, IsOperation(op), NEW held,
         Held(held, CardsAre(board.issues, closedAt), op.kind, op.number),
         Applicable(op, BoardOf(held, meta)),
         NEW real, real = ApplyBoardMutation(op, board)
  PROVE  /\ Applicable(op, board)
         /\ \E at : Represents(NextGeneration(op, meta, held), real,
                               FeedAfter(op, board, real, feed), at)
<1>1. /\ Applicable(op, board)
      /\ \E before, after, next, at :
           /\ PartsOf(NextGeneration(op, meta, held), op, meta, held, before, after, next)
           /\ Settled(op, board, closedAt, real, at, next)
           /\ SameLists(held, before.queue, CardsAre(board.issues, closedAt), board.queue)
           /\ Represents(NextGeneration(op, meta, held), real,
                         FeedAfter(op, board, real, feed), at)
  BY NextMade
<1>. QED BY <1>1

\* What the parts of a generation replace and write.
ShardsOf(made, issue, queue, catalog, open, closed, feed) ==
  /\ made.supersededRefs = issue.superseded \cup queue.superseded \cup catalog.superseded
                             \cup open.superseded \cup closed.superseded \cup feed.superseded
  /\ made.introducedRefs = issue.written \cup queue.written \cup catalog.written
                             \cup open.written \cup closed.written \cup feed.written

\* appendInternal: a generation reports what each part replaced and wrote.
LEMMA GenerationShards ==
  ASSUME NEW op, NEW meta, NEW cards, NEW made, made = NextGeneration(op, meta, cards),
         NEW before, NEW after, NEW next, PartsOf(made, op, meta, cards, before, after, next)
  PROVE  /\ ShardsOf(made, WriteIssue(op, meta, next), WriteQueue(meta, after.queue), WriteCatalog(meta),
              WriteListPages("open", OrderedSummaries(next, after.queue, "open"),
                OrderedSummaries(cards, before.queue, "open"), meta.openPageRefs),
              WriteListPages("closed", OrderedSummaries(next, after.queue, "closed"),
                OrderedSummaries(cards, before.queue, "closed"), meta.closedPageRefs),
              WriteFeed(op, meta, before, after))
         /\ made.retainsMetaRef = {meta.log}
<1>1. /\ before = BoardOf(cards, meta) /\ after = ApplyBoardMutation(op, before)
      /\ next = NextCards(op, cards, after)
  BY DEF PartsOf
<1>2. PICK issue, queue, catalog, open, closed, feed :
         /\ issue = WriteIssue(op, meta, next) /\ queue = WriteQueue(meta, after.queue)
         /\ catalog = WriteCatalog(meta)
         /\ open = WriteListPages("open", OrderedSummaries(next, after.queue, "open"),
                     OrderedSummaries(cards, before.queue, "open"), meta.openPageRefs)
         /\ closed = WriteListPages("closed", OrderedSummaries(next, after.queue, "closed"),
                       OrderedSummaries(cards, before.queue, "closed"), meta.closedPageRefs)
         /\ feed = WriteFeed(op, meta, before, after)
  OBVIOUS
<1>3. PICK parts : parts = {issue, queue, catalog, open, closed, feed}
  OBVIOUS
<1>4. /\ made.supersededRefs = UNION {p.superseded : p \in parts}
      /\ made.introducedRefs = UNION {p.written : p \in parts}
      /\ made.retainsMetaRef = {meta.log}
  BY <1>1, <1>2, <1>3 DEF NextGeneration
<1>5. UNION {p.superseded : p \in parts}
        = issue.superseded \cup queue.superseded \cup catalog.superseded
            \cup open.superseded \cup closed.superseded \cup feed.superseded
  BY <1>3
<1>6. UNION {p.written : p \in parts}
        = issue.written \cup queue.written \cup catalog.written
            \cup open.written \cup closed.written \cup feed.written
  BY <1>3
<1>. QED BY <1>2, <1>4, <1>5, <1>6, Zenon DEF ShardsOf

-----------------------------------------------------------------------------
(* What a generation inherits *)

\* The shards a generation pins, with the tag each kind has of its own.
Tagged(meta) ==
  /\ \A x \in ToSet(meta.openPageRefs) : TagOf(x) = "open"
  /\ \A x \in ToSet(meta.closedPageRefs) : TagOf(x) = "closed"
  /\ \A x \in ToSet(meta.feedPageRefs) : TagOf(x) = "feed"
  /\ TagOf(meta.queueRef) = "queue" /\ TagOf(meta.catalogRef) = "catalog"
  /\ \A x \in IssueShards(meta) : TagOf(x) = "issue"

\* No shard of a generation is of two kinds.
LEMMA KindsApart ==
  ASSUME NEW meta, NEW board, NEW feed, NEW closedAt, Represents(meta, board, feed, closedAt)
  PROVE  Tagged(meta)
<1>1. PICK cards : cards = CardsAre(board.issues, closedAt)
  OBVIOUS
<1>2. PICK place : Directory(meta.directoryRefs, cards, place)
  BY <1>1 DEF Represents
<1>3. ASSUME NEW refs, NEW state \in {"open", "closed"}, NEW rows, Lists(refs, state, rows),
             NEW x \in ToSet(refs)
      PROVE  TagOf(x) = state
  <2>1. IsList(x, refs, state) BY <1>3, ListKind
  <2>2. x.type = "list" /\ x.state = state BY <2>1 DEF IsList
  <2>. QED BY <2>2 DEF TagOf
<1>4. /\ \A x \in ToSet(meta.openPageRefs) : TagOf(x) = "open"
      /\ \A x \in ToSet(meta.closedPageRefs) : TagOf(x) = "closed"
  <2>1. /\ Lists(meta.openPageRefs, "open", OrderedSummaries(cards, board.queue, "open"))
        /\ Lists(meta.closedPageRefs, "closed", OrderedSummaries(cards, board.queue, "closed"))
    BY <1>1 DEF Represents
  <2>. QED BY <1>3, <2>1
<1>5. \A x \in ToSet(meta.feedPageRefs) : TagOf(x) = "feed"
  <2>1. Feeds(meta.feedPageRefs, feed) BY DEF Represents
  <2>2. ASSUME NEW x \in ToSet(meta.feedPageRefs) PROVE TagOf(x) = "feed"
    <3>1. IsFeed(x, meta.feedPageRefs) BY <2>1, <2>2, FeedKindOf
    <3>2. x.type = "feed" BY <3>1 DEF IsFeed
    <3>. QED BY <3>2 DEF TagOf
  <2>. QED BY <2>2
<1>6. TagOf(meta.queueRef) = "queue" /\ TagOf(meta.catalogRef) = "catalog"
  <2>1. meta.queueRef.type = "queue" /\ meta.catalogRef.type = "catalog"
    BY DEF Represents, QueueShard, CatalogShard
  <2>. QED BY <2>1 DEF TagOf
<1>7. ASSUME NEW x \in IssueShards(meta) PROVE TagOf(x) = "issue"
  <2>1. IsDirectory(x, meta.directoryRefs) \/ IsSnapshot(x, cards) \/ IsThreadPage(x, cards)
    BY <1>2, <1>7, IssueShardsAre
  <2>2. x.type \in {"directory", "issue", "comments"}
    BY <2>1 DEF IsDirectory, IsSnapshot, IsThreadPage
  <2>. QED BY <2>2 DEF TagOf
<1>. QED BY <1>4, <1>5, <1>6, <1>7 DEF Tagged

\* What is pinned is pinned by kind.
LEMMA PinnedIn ==
  ASSUME NEW meta, NEW x
  PROVE  x \in PinnedRefs(meta) <=>
           \/ x \in ToSet(meta.openPageRefs) \/ x \in ToSet(meta.closedPageRefs)
           \/ x \in ToSet(meta.feedPageRefs) \/ x \in {meta.queueRef} \/ x \in {meta.catalogRef}
           \/ x \in IssueShards(meta)
BY PinnedByKind

\* appendInternal: the generation an operation makes pins what the one before
\* pinned and what it writes itself, and replaces nothing it pins, unless it
\* writes it itself; and what the one before pinned it pins or replaces.
LEMMA Inherits ==
  ASSUME NEW meta, NEW board, NEW feed, NEW closedAt, Represents(meta, board, feed, closedAt),
         NEW op, IsOperation(op), NEW held,
         Held(held, CardsAre(board.issues, closedAt), op.kind, op.number),
         Applicable(op, BoardOf(held, meta)),
         NEW made, made = NextGeneration(op, meta, held)
  PROVE  /\ PinnedRefs(made) \subseteq PinnedRefs(meta) \cup made.introducedRefs
         /\ made.supersededRefs \cap PinnedRefs(made) \subseteq made.introducedRefs
         /\ PinnedRefs(meta) \subseteq PinnedRefs(made) \cup made.supersededRefs
         /\ made.introducedRefs \subseteq PinnedRefs(made)
         /\ made.retainsMetaRef = {meta.log} /\ made.updatedAt = op.at
<1>1. PICK real : real = ApplyBoardMutation(op, board)
  OBVIOUS
<1>2. PICK cards : cards = CardsAre(board.issues, closedAt)
  OBVIOUS
<1>3. PICK before, after, next, at :
        /\ PartsOf(made, op, meta, held, before, after, next)
        /\ Settled(op, board, closedAt, real, at, next)
        /\ SameLists(held, before.queue, cards, board.queue)
        /\ Represents(made, real, FeedAfter(op, board, real, feed), at)
  BY <1>1, <1>2, NextMade
<1>4. PICK issue, queue, catalog, open, closed, feeds :
         /\ issue = WriteIssue(op, meta, next) /\ queue = WriteQueue(meta, after.queue)
         /\ catalog = WriteCatalog(meta)
         /\ open = WriteListPages("open", OrderedSummaries(next, after.queue, "open"),
                     OrderedSummaries(held, before.queue, "open"), meta.openPageRefs)
         /\ closed = WriteListPages("closed", OrderedSummaries(next, after.queue, "closed"),
                       OrderedSummaries(held, before.queue, "closed"), meta.closedPageRefs)
         /\ feeds = WriteFeed(op, meta, before, after)
  OBVIOUS
<1>5. /\ ShardsOf(made, issue, queue, catalog, open, closed, feeds)
      /\ made.retainsMetaRef = {meta.log}
  BY <1>3, <1>4, GenerationShards, Zenon
<1>6. /\ made.directoryRefs = issue.refs /\ made.openPageRefs = open.refs
      /\ made.closedPageRefs = closed.refs /\ made.queueRef = queue.ref
      /\ made.catalogRef = catalog.ref /\ made.feedPageRefs = feeds.refs
      /\ made.updatedAt = op.at
  BY <1>3, <1>4, Zenon DEF PartsOf
<1>7. Rewrites(IssueShards(meta), IssueShards(made), issue.superseded, issue.written)
  <2>1. PICK then : then = CardsAre(real.issues, at) OBVIOUS
  <2>2. CardsMoved(op, cards, then, next) BY <1>2, <1>3, <2>1, CardsTurn
  <2>3. PICK place : Directory(meta.directoryRefs, cards, place) BY <1>2 DEF Represents
  <2>4. PICK where : Directory(made.directoryRefs, then, where) BY <1>3, <2>1 DEF Represents
  <2>. QED BY <1>4, <1>6, <2>2, <2>3, <2>4, IssueRewrites
<1>8. /\ Rewrites({meta.queueRef}, {made.queueRef}, queue.superseded, queue.written)
      /\ Rewrites({meta.catalogRef}, {made.catalogRef}, catalog.superseded, catalog.written)
  BY <1>4, <1>6, SingleRewrites
<1>9. /\ Rewrites(ToSet(meta.openPageRefs), ToSet(made.openPageRefs), open.superseded, open.written)
      /\ Rewrites(ToSet(meta.closedPageRefs), ToSet(made.closedPageRefs), closed.superseded, closed.written)
  <2>1. /\ Lists(meta.openPageRefs, "open", OrderedSummaries(cards, board.queue, "open"))
        /\ Lists(meta.closedPageRefs, "closed", OrderedSummaries(cards, board.queue, "closed"))
    BY <1>2 DEF Represents
  <2>2. \A state : OrderedSummaries(held, before.queue, state) = OrderedSummaries(cards, board.queue, state)
    BY <1>3 DEF SameLists
  <2>3. Rewrites(ToSet(meta.openPageRefs), ToSet(open.refs), open.superseded, open.written)
    <3>1. PICK rows : rows = OrderedSummaries(cards, board.queue, "open") OBVIOUS
    <3>2. PICK nextRows : nextRows = OrderedSummaries(next, after.queue, "open") OBVIOUS
    <3>3. open = WriteListPages("open", nextRows, rows, meta.openPageRefs)
      BY <1>4, <2>2, <3>1, <3>2, Zenon
    <3>. QED BY <2>1, <3>1, <3>3, ListRewrites
  <2>4. Rewrites(ToSet(meta.closedPageRefs), ToSet(closed.refs), closed.superseded, closed.written)
    <3>1. PICK rows : rows = OrderedSummaries(cards, board.queue, "closed") OBVIOUS
    <3>2. PICK nextRows : nextRows = OrderedSummaries(next, after.queue, "closed") OBVIOUS
    <3>3. closed = WriteListPages("closed", nextRows, rows, meta.closedPageRefs)
      BY <1>4, <2>2, <3>1, <3>2, Zenon
    <3>. QED BY <2>1, <3>1, <3>3, ListRewrites
  <2>. QED BY <1>6, <2>3, <2>4
<1>10. Rewrites(ToSet(meta.feedPageRefs), ToSet(made.feedPageRefs), feeds.superseded, feeds.written)
  <2>1. IsSeq(feed) /\ Feeds(meta.feedPageRefs, feed) /\ meta.feedCount = Len(feed)
    BY DEF Represents
  <2>. QED BY <1>4, <1>6, <2>1, FeedRewrites
<1>11. Tagged(meta)
  BY KindsApart
<1>12. Tagged(made)
  BY <1>3, KindsApart
<1>13. ASSUME NEW x \in PinnedRefs(made)
       PROVE  x \in PinnedRefs(meta) \/ x \in made.introducedRefs
  <2>1. x \in PinnedRefs(made) BY <1>13
  <2>2. \/ x \in ToSet(made.openPageRefs) \/ x \in ToSet(made.closedPageRefs)
        \/ x \in ToSet(made.feedPageRefs) \/ x \in {made.queueRef} \/ x \in {made.catalogRef}
        \/ x \in IssueShards(made)
    BY <2>1, PinnedIn
  <2>3. x \in PinnedRefs(meta) <=>
           \/ x \in ToSet(meta.openPageRefs) \/ x \in ToSet(meta.closedPageRefs)
           \/ x \in ToSet(meta.feedPageRefs) \/ x \in {meta.queueRef} \/ x \in {meta.catalogRef}
           \/ x \in IssueShards(meta)
    BY PinnedIn
  <2>4. x \in made.introducedRefs <=>
          \/ x \in issue.written \/ x \in queue.written \/ x \in catalog.written
          \/ x \in open.written \/ x \in closed.written \/ x \in feeds.written
    BY <1>5 DEF ShardsOf
  <2>. QED BY <1>7, <1>8, <1>9, <1>10, <2>2, <2>3, <2>4 DEF Rewrites
<1>14. ASSUME NEW x \in made.supersededRefs, x \in PinnedRefs(made)
       PROVE  x \in made.introducedRefs
  <2>1. \/ x \in issue.superseded \/ x \in queue.superseded \/ x \in catalog.superseded
        \/ x \in open.superseded \/ x \in closed.superseded \/ x \in feeds.superseded
    BY <1>5, <1>14 DEF ShardsOf
  <2>2. \/ x \in ToSet(made.openPageRefs) \/ x \in ToSet(made.closedPageRefs)
        \/ x \in ToSet(made.feedPageRefs) \/ x \in {made.queueRef} \/ x \in {made.catalogRef}
        \/ x \in IssueShards(made)
    BY <1>14, PinnedIn
  <2>3. x \in made.introducedRefs <=>
          \/ x \in issue.written \/ x \in queue.written \/ x \in catalog.written
          \/ x \in open.written \/ x \in closed.written \/ x \in feeds.written
    BY <1>5 DEF ShardsOf
  <2>4. /\ x \in ToSet(made.openPageRefs) => TagOf(x) = "open"
        /\ x \in ToSet(made.closedPageRefs) => TagOf(x) = "closed"
        /\ x \in ToSet(made.feedPageRefs) => TagOf(x) = "feed"
        /\ x \in {made.queueRef} => TagOf(x) = "queue"
        /\ x \in {made.catalogRef} => TagOf(x) = "catalog"
        /\ x \in IssueShards(made) => TagOf(x) = "issue"
    BY <1>12 DEF Tagged
  <2>5. /\ x \in open.superseded => TagOf(x) = "open"
        /\ x \in closed.superseded => TagOf(x) = "closed"
        /\ x \in feeds.superseded => TagOf(x) = "feed"
        /\ x \in queue.superseded => TagOf(x) = "queue"
        /\ x \in catalog.superseded => TagOf(x) = "catalog"
        /\ x \in issue.superseded => TagOf(x) = "issue"
    BY <1>7, <1>8, <1>9, <1>10, <1>11 DEF Tagged, Rewrites
  <2>. HIDE DEF TagOf
  <2>6. \/ x \in open.superseded /\ x \in ToSet(made.openPageRefs)
        \/ x \in closed.superseded /\ x \in ToSet(made.closedPageRefs)
        \/ x \in feeds.superseded /\ x \in ToSet(made.feedPageRefs)
        \/ x \in queue.superseded /\ x \in {made.queueRef}
        \/ x \in catalog.superseded /\ x \in {made.catalogRef}
        \/ x \in issue.superseded /\ x \in IssueShards(made)
    BY <2>1, <2>2, <2>4, <2>5
  <2>. QED BY <1>7, <1>8, <1>9, <1>10, <2>3, <2>6 DEF Rewrites
<1>15. ASSUME NEW x \in PinnedRefs(meta)
       PROVE  x \in PinnedRefs(made) \/ x \in made.supersededRefs
  <2>1. \/ x \in ToSet(meta.openPageRefs) \/ x \in ToSet(meta.closedPageRefs)
        \/ x \in ToSet(meta.feedPageRefs) \/ x \in {meta.queueRef} \/ x \in {meta.catalogRef}
        \/ x \in IssueShards(meta)
    BY <1>15, PinnedIn
  <2>2. x \in PinnedRefs(made) <=>
           \/ x \in ToSet(made.openPageRefs) \/ x \in ToSet(made.closedPageRefs)
           \/ x \in ToSet(made.feedPageRefs) \/ x \in {made.queueRef} \/ x \in {made.catalogRef}
           \/ x \in IssueShards(made)
    BY PinnedIn
  <2>3. x \in made.supersededRefs <=>
          \/ x \in issue.superseded \/ x \in queue.superseded \/ x \in catalog.superseded
          \/ x \in open.superseded \/ x \in closed.superseded \/ x \in feeds.superseded
    BY <1>5 DEF ShardsOf
  <2>. QED BY <1>7, <1>8, <1>9, <1>10, <2>1, <2>2, <2>3 DEF Rewrites
<1>16. ASSUME NEW x \in made.introducedRefs PROVE x \in PinnedRefs(made)
  <2>1. \/ x \in issue.written \/ x \in queue.written \/ x \in catalog.written
        \/ x \in open.written \/ x \in closed.written \/ x \in feeds.written
    BY <1>5, <1>16 DEF ShardsOf
  <2>2. x \in PinnedRefs(made) <=>
           \/ x \in ToSet(made.openPageRefs) \/ x \in ToSet(made.closedPageRefs)
           \/ x \in ToSet(made.feedPageRefs) \/ x \in {made.queueRef} \/ x \in {made.catalogRef}
           \/ x \in IssueShards(made)
    BY PinnedIn
  <2>. QED BY <1>7, <1>8, <1>9, <1>10, <2>1, <2>2 DEF Rewrites
<1>. QED BY <1>5, <1>6, <1>13, <1>14, <1>15, <1>16
=============================================================================
