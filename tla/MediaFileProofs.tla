-------------------------- MODULE MediaFileProofs --------------------------
(***************************************************************************)
(* What GetFrameFromFile returns of a file, for every file that Film or    *)
(* Recording describes and every length of a chunk: its units, each once,  *)
(* in order, byte for byte, and nothing else.                              *)
(*                                                                         *)
(* First, what the bytes of a file are (by induction over its units, which *)
(* is SetInduction).  Then Window: which part of the file the two arrays   *)
(* hold, after any number of chunks.  Then what a look at a place in the   *)
(* window sees.  ReadingInv puts the three together: between two calls the *)
(* ring buffer begins at the next unit, which starts in the chunk that was *)
(* read last; within a call the iterator is in that unit, and no chunk is  *)
(* read into the array that has the beginning of it.                       *)
(*                                                                         *)
(* Last, what follows for audio (packets fit, iterators stay inside) and   *)
(* for the client, which gets the units of the file.                       *)
(***************************************************************************)
EXTENDS MediaPathProofs, WellFoundedInduction

Units == [code : {AdtsSize, 3, 4}, bytes : Seq(Nat)]

-----------------------------------------------------------------------------
(* The bytes of a file.                                                    *)

\* Induction, for the numbers in a set.
LEMMA SetInduction ==
  ASSUME NEW S, 0 \in S, \A n \in Nat : n \in S => n + 1 \in S
  PROVE  \A n \in Nat : n \in S
<1> DEFINE rest == Nat \ S
           less == {ss \in Nat \X Nat : ss[1] < ss[2]}
<1>1. SUFFICES ASSUME rest # {} PROVE FALSE
  OBVIOUS
<1>2. PICK least \in rest : \A y \in rest : ~ (<<y, least>> \in less)
  <2>1. IsWellFoundedOn(less, Nat)
    BY NatLessThanWellFounded DEF OpToRel
  <2>2. rest \subseteq Nat
    OBVIOUS
  <2> HIDE DEF less, rest
  <2>3. QED
    BY <1>1, <2>1, <2>2, WFMin
<1>3. least \in Nat /\ least \notin S /\ least # 0
  OBVIOUS
<1>4. PICK before \in Nat : least = before + 1
  BY <1>3
<1>5. before \in S
  <2>1. before < least
    BY <1>3, <1>4
  <2>2. before \notin rest
    BY <1>2, <1>3, <2>1
  <2>3. QED
    BY <2>2
<1>6. QED
  BY <1>3, <1>4, <1>5

\* f has what the first n units of m make, one after the other.
Pieces(f, m, n) ==
  f = [i \in 0..n |-> IF i = 0 THEN <<>> ELSE f[i - 1] \o Prefix(m[i]) \o m[i].bytes]

\* However many units there are, there is such a function.
LEMMA PiecesExist ==
  ASSUME NEW m, NEW n \in Nat
  PROVE  \E f : Pieces(f, m, n)
<1> DEFINE S == {k \in Nat : \E f : Pieces(f, m, k)}
<1>1. 0 \in S
  <2> DEFINE f == [i \in 0..0 |-> <<>>]
  <2>1. Pieces(f, m, 0)
    BY DEF Pieces
  <2>2. QED
    BY <2>1
<1>2. ASSUME NEW k \in Nat, k \in S PROVE k + 1 \in S
  <2> PICK f : Pieces(f, m, k)
    BY <1>2
  <2> DEFINE Next1(g, i) == g[i - 1] \o Prefix(m[i]) \o m[i].bytes
             more == [i \in 0..(k + 1) |-> IF i <= k THEN f[i] ELSE Next1(f, k + 1)]
  <2> HIDE DEF Next1
  <2>1. \A i \in 0..(k + 1) : i # 0 => i - 1 \in 0..k /\ more[i - 1] = f[i - 1]
    OBVIOUS
  <2>2. \A i \in 0..(k + 1) : i # 0 => Next1(more, i) = Next1(f, i)
    BY <2>1, Zenon DEF Next1
  <2>3. ASSUME NEW i \in 0..(k + 1)
        PROVE  more[i] = IF i = 0 THEN <<>> ELSE Next1(more, i)
    <3>1. CASE i <= k
      <4>1. i \in 0..k /\ more[i] = f[i]
        BY <3>1
      <4>2. f[i] = IF i = 0 THEN <<>> ELSE Next1(f, i)
        BY <4>1 DEF Pieces, Next1
      <4> HIDE DEF more
      <4>3. QED
        BY <2>2, <4>1, <4>2
    <3>2. CASE i = k + 1
      <4>1. i # 0 /\ more[i] = Next1(f, i)
        BY <3>2
      <4> HIDE DEF more
      <4>2. QED
        BY <2>2, <4>1
    <3>3. QED
      BY <3>1, <3>2
  <2>4. more = [i \in 0..(k + 1) |-> more[i]]
    OBVIOUS
  <2> HIDE DEF more
  <2>5. more = [i \in 0..(k + 1) |-> IF i = 0 THEN <<>> ELSE Next1(more, i)]
    BY <2>3, <2>4
  <2>6. Pieces(more, m, k + 1)
    BY <2>5 DEF Pieces, Next1
  <2>7. QED
    BY <2>6
<1> HIDE DEF S
<1>3. n \in S
  BY <1>1, <1>2, SetInduction
<1>4. QED
  BY <1>3 DEF S

\* The bytes of a file are those of all its units.
LEMMA FileOfPieces ==
  ASSUME NEW m, Len(m) \in Nat
  PROVE  \E f : Pieces(f, m, Len(m)) /\ FileOf(m) = f[Len(m)]
<1> DEFINE f == CHOOSE g : Pieces(g, m, Len(m))
<1>1. Pieces(f, m, Len(m))
  BY PiecesExist
<1>2. FileOf(m) = f[Len(m)]
  BY DEF FileOf, Pieces
<1>3. QED
  BY <1>1, <1>2

\* What goes before the bytes of a unit has the length its code says.
LEMMA PrefixType ==
  ASSUME NEW unit \in Units
  PROVE  Prefix(unit) \in Seq(Nat) /\ Len(Prefix(unit)) = unit.code /\ unit.code \in 2..4
<1>1. unit.code \in {2, 3, 4} /\ Len(unit.bytes) \in Nat
  BY LenProperties DEF Units, AdtsSize
<1>2. CASE unit.code = 2
  <2>1. Prefix(unit) = <<255, 2 + Len(unit.bytes)>>
    BY <1>2 DEF Prefix, AdtsSize, Sync
  <2>2. QED
    BY <1>1, <1>2, <2>1
<1>3. CASE unit.code = 3
  <2>1. Prefix(unit) = <<0, 0, 1>>
    BY <1>3 DEF Prefix, AdtsSize
  <2>2. QED
    BY <1>3, <2>1
<1>4. CASE unit.code = 4
  <2>1. Prefix(unit) = <<0, 0, 0, 1>>
    BY <1>4 DEF Prefix, AdtsSize
  <2>2. QED
    BY <1>4, <2>1
<1>5. QED
  BY <1>1, <1>2, <1>3, <1>4

\* Two sequences, one after the other.
LEMMA Joint ==
  ASSUME NEW s \in Seq(Nat), NEW t \in Seq(Nat)
  PROVE  /\ s \o t \in Seq(Nat)
         /\ Len(s) \in Nat /\ Len(t) \in Nat
         /\ Len(s \o t) = Len(s) + Len(t)
         /\ \A p \in 1..Len(s) : (s \o t)[p] = s[p]
         /\ \A k \in 1..Len(t) : (s \o t)[Len(s) + k] = t[k]
OBVIOUS

\* Three of them.
LEMMA JointOfThree ==
  ASSUME NEW s \in Seq(Nat), NEW t \in Seq(Nat), NEW u \in Seq(Nat),
         NEW all, all = s \o t \o u
  PROVE  /\ all \in Seq(Nat)
         /\ Len(s) \in Nat /\ Len(t) \in Nat /\ Len(u) \in Nat
         /\ Len(all) = Len(s) + Len(t) + Len(u)
         /\ \A p \in 1..Len(s) : all[p] = s[p]
         /\ \A k \in 1..Len(t) : all[Len(s) + k] = t[k]
         /\ \A k \in 1..Len(u) : all[Len(s) + Len(t) + k] = u[k]
<1>1. PICK st \in Seq(Nat) : st = s \o t
  BY Joint
<1>2. /\ Len(st) = Len(s) + Len(t)
      /\ Len(s) \in Nat /\ Len(t) \in Nat /\ Len(u) \in Nat
      /\ \A p \in 1..Len(s) : st[p] = s[p]
      /\ \A k \in 1..Len(t) : st[Len(s) + k] = t[k]
  BY <1>1, Joint
<1>3. all = st \o u
  BY <1>1
<1>4. /\ all \in Seq(Nat)
      /\ Len(all) = Len(st) + Len(u)
      /\ \A p \in 1..Len(st) : all[p] = st[p]
      /\ \A k \in 1..Len(u) : all[Len(st) + k] = u[k]
  <2>1. /\ st \o u \in Seq(Nat)
        /\ Len(st \o u) = Len(st) + Len(u)
        /\ \A p \in 1..Len(st) : (st \o u)[p] = st[p]
        /\ \A k \in 1..Len(u) : (st \o u)[Len(st) + k] = u[k]
    BY Joint
  <2>2. QED
    BY ONLY <1>3, <2>1
<1>5. ASSUME NEW k \in 1..Len(t) PROVE all[Len(s) + k] = t[k]
  <2>1. Len(s) + k \in 1..Len(st)
    BY ONLY <1>2, k \in 1..Len(t)
  <2>2. QED
    BY <1>2, <1>4, <2>1
<1>6. \A p \in 1..Len(s) : p \in 1..Len(st)
  BY ONLY <1>2
<1>7. QED
  BY <1>2, <1>4, <1>5, <1>6

\* What the units up to one make is what those before it make, and the unit.
LEMMA PiecesGrow ==
  ASSUME NEW m \in Seq(Units), NEW n \in 0..Len(m), NEW f, Pieces(f, m, n)
  PROVE  /\ f[0] = <<>>
         /\ \A i \in 0..n : f[i] \in Seq(Nat)
         /\ \A i \in 1..n : /\ i - 1 \in 0..n /\ m[i] \in Units
                            /\ f[i] = f[i - 1] \o Prefix(m[i]) \o m[i].bytes
<1>1. n \in Nat /\ Len(m) \in Nat /\ \A i \in 1..n : i \in 1..Len(m) /\ i - 1 \in 0..n
  BY LenProperties
<1>2. f[0] = <<>>
  BY <1>1 DEF Pieces
<1>3. ASSUME NEW i \in 1..n
      PROVE  m[i] \in Units /\ f[i] = f[i - 1] \o Prefix(m[i]) \o m[i].bytes
  <2>1. i \in 0..n /\ i # 0
    OBVIOUS
  <2>2. QED
    BY <1>1, <2>1, ElementOfSeq DEF Pieces
<1> DEFINE S == {i \in Nat : i <= n => f[i] \in Seq(Nat)}
<1>4. 0 \in S
  <2>1. f[0] \in Seq(Nat)
    BY <1>2
  <2>2. QED
    BY <2>1
<1>5. ASSUME NEW i \in Nat, i \in S PROVE i + 1 \in S
  <2> SUFFICES ASSUME i + 1 <= n PROVE f[i + 1] \in Seq(Nat)
    OBVIOUS
  <2>1. i + 1 \in 1..n /\ (i + 1) - 1 = i /\ f[i] \in Seq(Nat)
    BY <1>1, <1>5
  <2>2. m[i + 1] \in Units /\ f[i + 1] = f[i] \o Prefix(m[i + 1]) \o m[i + 1].bytes
    BY <1>3, <2>1
  <2>3. Prefix(m[i + 1]) \in Seq(Nat) /\ m[i + 1].bytes \in Seq(Nat)
    BY <2>2, PrefixType DEF Units
  <2>4. QED
    BY <2>1, <2>2, <2>3, JointOfThree
<1>6. \A i \in Nat : i \in S
  <2> HIDE DEF S
  <2>1. QED
    BY <1>4, <1>5, SetInduction
<1>7. \A i \in 0..n : i \in Nat /\ i <= n
  BY <1>1
<1>8. \A i \in 0..n : f[i] \in Seq(Nat)
  BY <1>6, <1>7
<1>9. QED
  BY <1>1, <1>2, <1>3, <1>8

\* So it is longer by the unit, which lies at its end.
LEMMA PieceLayout ==
  ASSUME NEW m \in Seq(Units), NEW n \in 0..Len(m), NEW f, Pieces(f, m, n), NEW i \in 1..n
  PROVE  /\ Len(f[i - 1]) \in Nat
         /\ Len(f[i]) = Len(f[i - 1]) + m[i].code + Len(m[i].bytes)
         /\ \A p \in 1..Len(f[i - 1]) : f[i][p] = f[i - 1][p]
         /\ \A k \in 1..m[i].code : f[i][Len(f[i - 1]) + k] = Prefix(m[i])[k]
         /\ \A k \in 1..Len(m[i].bytes) : f[i][Len(f[i - 1]) + m[i].code + k] = m[i].bytes[k]
<1>1. /\ f[i - 1] \in Seq(Nat) /\ m[i] \in Units
      /\ f[i] = f[i - 1] \o Prefix(m[i]) \o m[i].bytes
  BY PiecesGrow
<1>2. Prefix(m[i]) \in Seq(Nat) /\ Len(Prefix(m[i])) = m[i].code /\ m[i].bytes \in Seq(Nat)
  BY <1>1, PrefixType DEF Units
<1> DEFINE s == f[i - 1]
           t == Prefix(m[i])
           u == m[i].bytes
           all == f[i]
<1>3. s \in Seq(Nat) /\ t \in Seq(Nat) /\ u \in Seq(Nat) /\ all = s \o t \o u /\ Len(t) = m[i].code
  BY <1>1, <1>2
<1> HIDE DEF s, t, u, all
<1>4. /\ Len(s) \in Nat
      /\ Len(all) = Len(s) + Len(t) + Len(u)
      /\ \A p \in 1..Len(s) : all[p] = s[p]
      /\ \A k \in 1..Len(t) : all[Len(s) + k] = t[k]
      /\ \A k \in 1..Len(u) : all[Len(s) + Len(t) + k] = u[k]
  <2>1. s \in Seq(Nat) /\ t \in Seq(Nat) /\ u \in Seq(Nat) /\ all = s \o t \o u
    BY <1>3
  <2>2. QED
    BY ONLY <2>1, JointOfThree
<1>5. QED
  BY <1>3, <1>4 DEF s, t, u, all

\* And it is the beginning of all that comes later.
LEMMA PiecesBegin ==
  ASSUME NEW m \in Seq(Units), NEW n \in 0..Len(m), NEW f, Pieces(f, m, n), NEW i \in 0..n
  PROVE  Len(f[i]) <= Len(f[n]) /\ \A p \in 1..Len(f[i]) : f[n][p] = f[i][p]
<1> DEFINE S == {d \in Nat : i + d <= n =>
                   Len(f[i]) <= Len(f[i + d]) /\ \A p \in 1..Len(f[i]) : f[i + d][p] = f[i][p]}
<1>1. n \in Nat /\ i \in Nat /\ i <= n
  OBVIOUS
<1>2. \A j \in 0..n : Len(f[j]) \in Nat
  BY PiecesGrow, LenProperties
<1>3. 0 \in S
  <2>1. i + 0 = i
    BY <1>1
  <2>2. QED
    BY <1>2, <2>1
<1>4. ASSUME NEW d \in Nat, d \in S PROVE d + 1 \in S
  <2> SUFFICES ASSUME i + (d + 1) <= n
               PROVE  /\ Len(f[i]) <= Len(f[i + (d + 1)])
                      /\ \A p \in 1..Len(f[i]) : f[i + (d + 1)][p] = f[i][p]
    OBVIOUS
  <2> DEFINE j == i + (d + 1)
  <2>1. j \in 1..n /\ j - 1 = i + d /\ i + d \in 0..n /\ i + d <= n
    BY <1>1
  <2>2. Len(f[i]) <= Len(f[i + d]) /\ \A p \in 1..Len(f[i]) : f[i + d][p] = f[i][p]
    BY <1>4, <2>1
  <2> HIDE DEF j, S
  <2>3. /\ Len(f[j]) = Len(f[i + d]) + m[j].code + Len(m[j].bytes)
        /\ \A p \in 1..Len(f[i + d]) : f[j][p] = f[i + d][p]
    BY <2>1, PieceLayout
  <2>4. m[j] \in Units
    BY <2>1, PiecesGrow
  <2>5. m[j].code \in Nat /\ Len(m[j].bytes) \in Nat
    BY <2>4, LenProperties DEF Units, AdtsSize
  <2>6. Len(f[i]) <= Len(f[j])
    <3>1. PICK x \in Nat, y \in Nat, c \in Nat, l \in Nat :
            x = Len(f[i]) /\ y = Len(f[i + d]) /\ c = m[j].code /\ l = Len(m[j].bytes)
      BY <1>1, <1>2, <2>1, <2>5
    <3>2. x <= y /\ Len(f[j]) = y + c + l
      BY <2>2, <2>3, <3>1
    <3>3. x <= y + c + l
      BY <3>2
    <3>4. QED
      BY <3>1, <3>2, <3>3
  <2>7. \A p \in 1..Len(f[i]) : p \in 1..Len(f[i + d])
    BY <1>1, <1>2, <2>1, <2>2
  <2>8. QED
    BY <2>2, <2>3, <2>6, <2>7 DEF j
<1> HIDE DEF S
<1>5. n - i \in S
  BY <1>1, <1>3, <1>4, SetInduction, n - i \in Nat
<1>6. i + (n - i) = n
  BY <1>1
<1>7. QED
  BY <1>1, <1>5, <1>6 DEF S

\* The units before one make the same, whatever comes behind them.
LEMMA PiecesSame ==
  ASSUME NEW m \in Seq(Units), NEW n \in 0..Len(m), NEW f, Pieces(f, m, n),
         NEW j \in 0..n
  PROVE  FileOf(SubSeq(m, 1, j)) = f[j]
<1> DEFINE c == SubSeq(m, 1, j)
<1>1. j \in Nat /\ j <= Len(m) /\ Len(m) \in Nat /\ n \in Nat
  BY LenProperties
<1>2. c \in Seq(Units) /\ Len(c) = j /\ \A i \in 1..j : c[i] = m[i]
  BY <1>1
<1> HIDE DEF c
<1>3. PICK g : Pieces(g, c, j) /\ FileOf(c) = g[j]
  BY <1>1, <1>2, FileOfPieces
<1> DEFINE S == {i \in Nat : i <= j => g[i] = f[i]}
<1>8. j \in 0..Len(c)
  BY <1>1, <1>2
<1>9. /\ g[0] = <<>>
      /\ \A i \in 1..j : g[i] = g[i - 1] \o Prefix(c[i]) \o c[i].bytes
  <2> HIDE DEF S
  <2>1. QED
    BY <1>2, <1>3, <1>8, PiecesGrow
<1>4. 0 \in S
  <2>1. f[0] = <<>>
    BY PiecesGrow
  <2>2. QED
    BY <1>9, <2>1
<1>5. ASSUME NEW i \in Nat, i \in S PROVE i + 1 \in S
  <2> SUFFICES ASSUME i + 1 <= j PROVE g[i + 1] = f[i + 1]
    OBVIOUS
  <2>1. i + 1 \in 1..j /\ i + 1 \in 1..n /\ (i + 1) - 1 = i /\ g[i] = f[i] /\ j \in 0..Len(c)
    BY <1>1, <1>2, <1>5
  <2>2. g[i + 1] = g[i] \o Prefix(c[i + 1]) \o c[i + 1].bytes
    BY <1>9, <2>1
  <2>3. f[i + 1] = f[i] \o Prefix(m[i + 1]) \o m[i + 1].bytes
    BY <2>1, PiecesGrow
  <2>4. QED
    BY <1>2, <2>1, <2>2, <2>3
<1> HIDE DEF S
<1>6. j \in S
  BY <1>1, <1>4, <1>5, SetInduction
<1>7. QED
  BY <1>1, <1>3, <1>6 DEF S, c

\* Where the units of a file are, and what is there.
LEMMA FileLayout ==
  ASSUME NEW m \in Seq(Units)
  PROVE  /\ FileOf(m) \in Seq(Nat)
         /\ StartOf(m, 1) = 0
         /\ StartOf(m, Len(m) + 1) = Len(FileOf(m))
         /\ \A i \in 1..Len(m) :
              /\ StartOf(m, i) \in Nat
              /\ StartOf(m, i + 1) = StartOf(m, i) + m[i].code + Len(m[i].bytes)
              /\ StartOf(m, i + 1) <= Len(FileOf(m))
              /\ \A k \in 1..m[i].code : FileOf(m)[StartOf(m, i) + k] = Prefix(m[i])[k]
              /\ \A k \in 1..Len(m[i].bytes) :
                   FileOf(m)[StartOf(m, i) + m[i].code + k] = m[i].bytes[k]
<1> DEFINE n == Len(m)
<1>1. n \in Nat /\ n \in 0..Len(m) /\ 0 \in 0..n
  BY LenProperties
<1>2. PICK f : Pieces(f, m, n) /\ FileOf(m) = f[n]
  BY <1>1, FileOfPieces
<1>3. f[0] = <<>> /\ \A i \in 0..n : f[i] \in Seq(Nat)
  BY <1>1, <1>2, PiecesGrow
<1>4. ASSUME NEW i \in 0..n PROVE StartOf(m, i + 1) = Len(f[i])
  <2>1. (i + 1) - 1 = i
    BY <1>1
  <2>2. FileOf(SubSeq(m, 1, i)) = f[i]
    BY <1>1, <1>2, PiecesSame
  <2>3. QED
    BY <2>1, <2>2 DEF StartOf
<1>5. FileOf(m) \in Seq(Nat)
  BY <1>1, <1>2, <1>3
<1>6. StartOf(m, 1) = 0
  <2>1. StartOf(m, 0 + 1) = Len(f[0]) /\ 0 + 1 = 1
    BY <1>1, <1>4
  <2>2. QED
    BY <1>3, <2>1
<1>7. StartOf(m, n + 1) = Len(FileOf(m))
  BY <1>1, <1>2, <1>4
<1>8. ASSUME NEW i \in 1..n
      PROVE  /\ StartOf(m, i) \in Nat
             /\ StartOf(m, i + 1) = StartOf(m, i) + m[i].code + Len(m[i].bytes)
             /\ StartOf(m, i + 1) <= Len(FileOf(m))
             /\ \A k \in 1..m[i].code : FileOf(m)[StartOf(m, i) + k] = Prefix(m[i])[k]
             /\ \A k \in 1..Len(m[i].bytes) :
                  FileOf(m)[StartOf(m, i) + m[i].code + k] = m[i].bytes[k]
  <2> DEFINE s == Len(f[i - 1])
             e == Len(f[i])
             c == m[i].code
             l == Len(m[i].bytes)
  <2>1. i \in 0..n /\ i - 1 \in 0..n /\ (i - 1) + 1 = i
    BY <1>1
  <2>2. StartOf(m, i) = s /\ StartOf(m, i + 1) = e
    BY <1>4, <2>1
  <2>3. /\ s \in Nat
        /\ e = s + c + l
        /\ \A k \in 1..c : f[i][s + k] = Prefix(m[i])[k]
        /\ \A k \in 1..l : f[i][s + c + k] = m[i].bytes[k]
    <3> HIDE DEF n
    <3>1. /\ Len(f[i - 1]) \in Nat
          /\ Len(f[i]) = Len(f[i - 1]) + m[i].code + Len(m[i].bytes)
          /\ \A k \in 1..m[i].code : f[i][Len(f[i - 1]) + k] = Prefix(m[i])[k]
          /\ \A k \in 1..Len(m[i].bytes) : f[i][Len(f[i - 1]) + m[i].code + k] = m[i].bytes[k]
      BY <1>1, <1>2, PieceLayout
    <3>2. QED
      BY <3>1
  <2>4. e <= Len(f[n]) /\ \A p \in 1..e : f[n][p] = f[i][p]
    BY <1>1, <1>2, <2>1, PiecesBegin
  <2>5. m[i] \in Units
    BY <1>1, <1>2, PiecesGrow
  <2>6. c \in Nat /\ l \in Nat
    BY <2>5, LenProperties DEF Units, AdtsSize
  <2> HIDE DEF s, e, c, l
  <2>7. /\ \A k \in 1..c : s + k \in 1..e
        /\ \A k \in 1..l : s + c + k \in 1..e
    BY <2>3, <2>6
  <2>8. /\ \A k \in 1..c : f[n][s + k] = Prefix(m[i])[k]
        /\ \A k \in 1..l : f[n][s + c + k] = m[i].bytes[k]
    BY <2>3, <2>4, <2>7
  <2>9. QED
    BY <1>2, <2>2, <2>3, <2>4, <2>8 DEF s, c, l
<1>9. QED
  BY <1>5, <1>6, <1>7, <1>8

-----------------------------------------------------------------------------
(* What the two arrays hold.                                               *)

\* The byte p of a file, counted from 0; before the file, the zeros of the
\* constructor.
FileAt(file, p) == IF p < 0 THEN 0 ELSE file[p + 1]

\* Array a has the chunk that starts at b, and the other the one before.  Behind
\* the end of the file array a has what it had two chunks before.
Window(r, b, a) ==
  /\ r \in Rings /\ a \in {0, 1}
  /\ b \in Nat /\ b % Capacity = 0 /\ b <= Len(r.file)
  /\ \A o \in Offsets :
       /\ r.data[a][o] = IF b + o < Len(r.file) THEN r.file[b + o + 1]
                         ELSE FileAt(r.file, b + o - 2 * Capacity)
       /\ r.data[1 - a][o] = FileAt(r.file, b + o - Capacity)
  /\ IF r.eof THEN Len(r.file) < b + Capacity /\ r.last = Place(Len(r.file) - b, a)
     ELSE b + Capacity <= Len(r.file) /\ r.taken = b + Capacity

\* Where byte p is, in array a or in the other.
Spot(b, a, p) == IF b <= p THEN Place(p - b, a) ELSE Place(p - b + Capacity, 1 - a)

\* A place in the chunk that starts at b.
Chunk(b) == {p \in Nat : b <= p /\ p < b + Capacity}

\* A chunk starts at a multiple of its length.
LEMMA ChunkOffset ==
  ASSUME NEW b \in Nat, b % Capacity = 0
  PROVE  /\ (b + Capacity) % Capacity = 0
         /\ \A p \in Chunk(b) : p % Capacity = p - b
         /\ \A p \in Nat : p \div Capacity = b \div Capacity <=> p \in Chunk(b)
<1>1. Capacity \in Nat \ {0}
  BY RingAssumption
<1>2. PICK q \in Nat : b = Capacity * q
  BY <1>1
<1>3. (b + Capacity) % Capacity = 0
  <2>1. b + Capacity = Capacity * (q + 1) + 0 /\ 0 \in 0..(Capacity - 1) /\ q + 1 \in Nat
    BY <1>1, <1>2
  <2>2. QED
    BY <1>1, <2>1, RemainderOf
<1>4. ASSUME NEW p \in Chunk(b) PROVE p % Capacity = p - b
  <2>1. p = Capacity * q + (p - b) /\ p - b \in 0..(Capacity - 1)
    BY <1>1, <1>2 DEF Chunk
  <2>2. QED
    BY <1>1, <2>1, RemainderOf
<1>5. b \div Capacity = q
  BY <1>1, <1>2
<1>6. ASSUME NEW p \in Nat PROVE p \div Capacity = q <=> p \in Chunk(b)
  <2>1. PICK d \in Nat, e \in 0..(Capacity - 1) : p = Capacity * d + e /\ d = p \div Capacity
    <3>1. p = Capacity * (p \div Capacity) + (p % Capacity)
      BY <1>1
    <3>2. p \div Capacity \in Nat /\ p % Capacity \in 0..(Capacity - 1)
      BY <1>1
    <3>3. QED
      BY <3>1, <3>2
  <2>2. CASE d = q
    <3>1. p = b + e
      BY <1>2, <2>1, <2>2
    <3>2. p \in Chunk(b)
      BY <1>1, <2>1, <3>1 DEF Chunk
    <3>3. QED
      BY <2>1, <2>2, <3>2
  <2>3. CASE d < q
    <3>1. Capacity * (d + 1) <= Capacity * q
      BY <1>1, <2>3
    <3>2. Capacity * (d + 1) = Capacity * d + Capacity
      BY <1>1
    <3>3. p < b
      BY <1>1, <1>2, <2>1, <3>1, <3>2
    <3>4. QED
      BY <2>1, <2>3, <3>3 DEF Chunk
  <2>4. CASE d > q
    <3>1. Capacity * (q + 1) <= Capacity * d
      BY <1>1, <2>4
    <3>2. Capacity * (q + 1) = Capacity * q + Capacity
      BY <1>1
    <3>3. p >= b + Capacity
      BY <1>1, <1>2, <2>1, <3>1, <3>2
    <3>4. p \notin Chunk(b)
      BY <1>1, <3>3 DEF Chunk
    <3>5. QED
      BY <2>1, <2>4, <3>4
  <2>5. QED
    BY <2>2, <2>3, <2>4
<1>7. QED
  BY <1>3, <1>4, <1>5, <1>6

\* What is known of a window, in numbers.
LEMMA WindowTypes ==
  ASSUME NEW r, NEW b, NEW a, Window(r, b, a)
  PROVE  /\ Capacity \in Nat \ {0} /\ r \in Rings /\ r.file \in Seq(Nat) /\ r.eof \in BOOLEAN
         /\ Len(r.file) \in Nat /\ r.taken \in Nat /\ b \in Nat /\ b <= Len(r.file)
         /\ a \in {0, 1} /\ 1 - a \in {0, 1} /\ 1 - (1 - a) = a
BY RingAssumption, LenProperties DEF Window, Rings

\* The bytes of the file that are in the arrays.
LEMMA WindowByte ==
  ASSUME NEW r, NEW b, NEW a, Window(r, b, a), NEW p \in Nat, p < Len(r.file),
         b <= p + Capacity, p < b + Capacity
  PROVE  /\ Spot(b, a, p).off \in Offsets /\ Spot(b, a, p).arr \in {0, 1}
         /\ r.data[Spot(b, a, p).arr][Spot(b, a, p).off] = r.file[p + 1]
<1>1. /\ Capacity \in Nat \ {0} /\ b \in Nat /\ Len(r.file) \in Nat
      /\ a \in {0, 1} /\ 1 - a \in {0, 1}
  BY WindowTypes
<1>2. CASE b <= p
  <2>1. Spot(b, a, p).off = p - b /\ Spot(b, a, p).arr = a
    BY <1>2 DEF Spot, Place
  <2>2. p - b \in Offsets /\ b + (p - b) = p
    BY <1>1, <1>2 DEF Offsets
  <2>3. r.data[a][p - b] = r.file[p + 1]
    BY <2>2 DEF Window
  <2>4. QED
    BY <1>1, <2>1, <2>2, <2>3
<1>3. CASE ~(b <= p)
  <2>1. Spot(b, a, p).off = p - b + Capacity /\ Spot(b, a, p).arr = 1 - a
    BY <1>3 DEF Spot, Place
  <2>2. p - b + Capacity \in Offsets /\ b + (p - b + Capacity) - Capacity = p
    BY <1>1, <1>3 DEF Offsets
  <2>3. r.data[1 - a][p - b + Capacity] = FileAt(r.file, p)
    BY <2>2 DEF Window
  <2>4. FileAt(r.file, p) = r.file[p + 1]
    BY DEF FileAt
  <2>5. QED
    BY <1>1, <2>1, <2>2, <2>3, <2>4
<1>4. QED
  BY <1>2, <1>3

\* Where the file ends, seen from a place in the chunk that was read last.
LEMMA WindowEnd ==
  ASSUME NEW r, NEW b, NEW a, Window(r, b, a), NEW p \in Chunk(b), p <= Len(r.file)
  PROVE  /\ p = Len(r.file) => r.eof
         /\ r.eof => End(r) = Spot(b, a, Len(r.file))
         /\ ~Same(Spot(b, a, p), End(r))
         /\ Differ(Spot(b, a, p), End(r)) <=> p < Len(r.file)
<1>1. /\ Capacity \in Nat \ {0} /\ b \in Nat /\ Len(r.file) \in Nat /\ r.eof \in BOOLEAN
      /\ b <= Len(r.file)
  BY WindowTypes
<1>2. p \in Nat /\ b <= p /\ p < b + Capacity
  BY DEF Chunk
<1>3. Spot(b, a, p) = Place(p - b, a)
  BY <1>2 DEF Spot
<1>4. CASE r.eof
  <2>1. r.last = Place(Len(r.file) - b, a) /\ End(r) = r.last
    BY <1>4 DEF Window, End
  <2>2. Spot(b, a, Len(r.file)) = r.last
    BY <1>1, <2>1 DEF Spot
  <2>3. ~Same(Spot(b, a, p), End(r))
    BY <1>3, <2>1 DEF Same, Place
  <2>4. Differ(Spot(b, a, p), End(r)) <=> p - b # Len(r.file) - b
    BY <1>3, <2>1 DEF Differ, Place
  <2>5. p - b # Len(r.file) - b <=> p < Len(r.file)
    BY <1>1, <1>2
  <2>6. QED
    BY <1>4, <2>1, <2>2, <2>3, <2>4, <2>5
<1>5. CASE ~r.eof
  <2>1. b + Capacity <= Len(r.file) /\ End(r).off = Capacity + 1
    BY <1>5 DEF Window, End, Place
  <2>2. Spot(b, a, p).off = p - b /\ p - b # Capacity + 1
    BY <1>1, <1>2, <1>3 DEF Place
  <2>3. QED
    BY <1>1, <1>2, <1>5, <2>1, <2>2 DEF Same, Differ
<1>6. QED
  BY <1>1, <1>4, <1>5

\* The beginning of the buffer does not matter to what it holds.
LEMMA WindowOffect ==
  ASSUME NEW r, NEW b, NEW a, Window(r, b, a), NEW place \in Places
  PROVE  /\ Window(SetOffect(r, place), b, a)
         /\ SetOffect(r, place).file = r.file /\ SetOffect(r, place).begin = place
<1> DEFINE s == SetOffect(r, place)
<1>1. r \in Rings
  BY DEF Window
<1>2. s \in Rings
  BY <1>1, SetOffectType
<1>3. /\ s.file = r.file /\ s.begin = place /\ s.data = r.data /\ s.eof = r.eof
      /\ s.last = r.last /\ s.taken = r.taken
  BY <1>1 DEF SetOffect, Rings
<1> HIDE DEF s
<1>4. Window(s, b, a)
  BY <1>2, <1>3 DEF Window
<1>5. QED
  BY <1>3, <1>4 DEF s

\* The next chunk goes into the array of the chunk before the last one.
LEMMA NextWindow ==
  ASSUME NEW r, NEW b, NEW a, Window(r, b, a), ~r.eof
  PROVE  /\ Window(ReadFile(r, 1 - a), b + Capacity, 1 - a)
         /\ ReadFile(r, 1 - a).file = r.file /\ ReadFile(r, 1 - a).begin = r.begin
<1> DEFINE s    == ReadFile(r, 1 - a)
           N    == Len(r.file)
           from == b + Capacity
           left == N - from
           size == IF left < Capacity THEN left ELSE Capacity
<1>1. /\ Capacity \in Nat \ {0} /\ r \in Rings /\ b \in Nat /\ N \in Nat
      /\ a \in {0, 1} /\ 1 - a \in {0, 1} /\ 1 - (1 - a) = a /\ 1 - a # a
  BY WindowTypes
<1>2. from <= N /\ r.taken = from /\ from \in Nat
  BY <1>1 DEF Window
<1>3. s \in Rings /\ s.begin = r.begin
  BY <1>1, ReadFileType
<1>4. /\ s.file = r.file
      /\ s.taken = from + size
      /\ s.eof <=> size < Capacity
      /\ s.last = IF size < Capacity THEN Place(size, 1 - a) ELSE r.last
      /\ s.data = [r.data EXCEPT ![1 - a] =
                     [o \in Offsets |-> IF o < size THEN r.file[from + o + 1] ELSE @[o]]]
  BY <1>1, <1>2 DEF ReadFile, ReadChunk, Rings
<1>5. r.data \in [{0, 1} -> [Offsets -> Nat]]
  BY <1>1 DEF Rings, Arrays
<1> HIDE DEF s, N, from, left, size
<1>6. size \in 0..Capacity /\ (size < Capacity <=> N < from + Capacity)
      /\ (size < Capacity => from + size = N /\ size = N - from)
  BY <1>1, <1>2 DEF left, size
<1>7. /\ s.data[a] = r.data[a]
      /\ \A o \in Offsets : s.data[1 - a][o] = IF o < size THEN r.file[from + o + 1]
                                               ELSE r.data[1 - a][o]
  BY <1>1, <1>4, <1>5
<1>8. ASSUME NEW o \in Offsets
      PROVE  /\ s.data[1 - a][o] = IF from + o < N THEN r.file[from + o + 1]
                                   ELSE FileAt(r.file, from + o - 2 * Capacity)
             /\ s.data[a][o] = FileAt(r.file, from + o - Capacity)
  <2>1. o \in Nat /\ o < Capacity
    BY <1>1 DEF Offsets
  <2>2. o < size <=> from + o < N
    BY <1>1, <1>2, <1>6, <2>1
  <2>3. /\ r.data[a][o] = IF b + o < N THEN r.file[b + o + 1] ELSE FileAt(r.file, b + o - 2 * Capacity)
        /\ r.data[1 - a][o] = FileAt(r.file, b + o - Capacity)
    BY DEF Window, N
  <2>4. b + o < N /\ b + o = from + o - Capacity /\ b + o - Capacity = from + o - 2 * Capacity
        /\ ~(b + o < 0)
    BY <1>1, <1>2, <2>1 DEF from
  <2>5. s.data[a][o] = FileAt(r.file, from + o - Capacity)
    BY <1>7, <2>3, <2>4 DEF FileAt
  <2>6. QED
    BY <1>7, <2>2, <2>3, <2>4, <2>5
<1>9. from % Capacity = 0
  BY <1>1, ChunkOffset DEF Window, from
<1>10. IF s.eof THEN N < from + Capacity /\ s.last = Place(N - from, 1 - a)
       ELSE from + Capacity <= N /\ s.taken = from + Capacity
  BY <1>1, <1>2, <1>4, <1>6
<1>11. Window(s, from, 1 - a)
  BY <1>1, <1>2, <1>3, <1>4, <1>8, <1>9, <1>10 DEF Window, N
<1>12. QED
  BY <1>3, <1>4, <1>11 DEF s, from

\* The constructor reads the first chunk.
LEMMA FirstWindow ==
  ASSUME NEW file \in Seq(Nat)
  PROVE  /\ Window(NewRing(file), 0, 0)
         /\ NewRing(file).file = file /\ NewRing(file).begin = Place(0, 0)
<1> DEFINE r == [file |-> file, taken |-> 0, eof |-> FALSE, last |-> Place(0, 0),
                 data |-> [a \in {0, 1} |-> [o \in Offsets |-> 0]], begin |-> Place(0, 0)]
           s    == ReadFile(r, 0)
           N    == Len(file)
           size == IF N < Capacity THEN N ELSE Capacity
<1>1. Capacity \in Nat \ {0} /\ N \in Nat
  BY RingAssumption, LenProperties
<1>2. r \in Rings
  <2>1. Place(0, 0) \in Places
    BY <1>1 DEF Place, Places
  <2>2. [a \in {0, 1} |-> [o \in Offsets |-> 0]] \in Arrays
    BY DEF Arrays
  <2>3. QED
    BY <2>1, <2>2, LenProperties DEF Rings
<1>3. s \in Rings /\ s.begin = r.begin /\ s = NewRing(file)
  BY <1>2, ReadFileType DEF NewRing
<1>4. /\ r.begin = Place(0, 0) /\ r.file = file /\ r.taken = 0 /\ ~r.eof /\ r.last = Place(0, 0)
      /\ r.data[0] = [o \in Offsets |-> 0] /\ r.data[1] = [o \in Offsets |-> 0]
      /\ r.data \in [{0, 1} -> [Offsets -> Nat]]
  BY DEF Arrays
<1> HIDE DEF r
<1>5. /\ s.file = file
      /\ s.taken = 0 + size
      /\ s.eof <=> size < Capacity
      /\ s.last = IF size < Capacity THEN Place(size, 0) ELSE Place(0, 0)
      /\ s.data = [r.data EXCEPT ![0] =
                     [o \in Offsets |-> IF o < size THEN file[0 + o + 1] ELSE @[o]]]
  <2>1. N - 0 = N
    BY <1>1
  <2>2. QED
    BY <1>2, <1>4, <2>1 DEF ReadFile, ReadChunk, Rings
<1>6. /\ \A o \in Offsets : s.data[0][o] = IF o < size THEN file[0 + o + 1] ELSE 0
      /\ \A o \in Offsets : s.data[1][o] = 0
  <2> HIDE DEF s, N, size
  <2>1. QED
    BY <1>4, <1>5
<1> HIDE DEF s, N, size
<1>7. /\ size \in 0..Capacity /\ (size < Capacity <=> N < Capacity)
      /\ (size < Capacity => size = N)
  BY <1>1 DEF size
<1>8. ASSUME NEW o \in Offsets
      PROVE  /\ s.data[0][o] = IF 0 + o < N THEN file[0 + o + 1] ELSE FileAt(file, 0 + o - 2 * Capacity)
             /\ s.data[1 - 0][o] = FileAt(file, 0 + o - Capacity)
  <2>1. o \in Nat /\ o < Capacity /\ 0 + o = o /\ 1 - 0 = 1
    BY <1>1 DEF Offsets
  <2>2. 0 + o - 2 * Capacity < 0 /\ 0 + o - Capacity < 0
    BY <1>1, <2>1
  <2>3. o < size <=> o < N
    BY <1>1, <1>7, <2>1
  <2>4. FileAt(file, 0 + o - 2 * Capacity) = 0 /\ FileAt(file, 0 + o - Capacity) = 0
    BY <2>2 DEF FileAt
  <2>5. s.data[0][o] = (IF o < size THEN file[o + 1] ELSE 0) /\ s.data[1][o] = 0
    BY <1>6, <2>1
  <2>6. QED
    BY <2>1, <2>3, <2>4, <2>5
<1>9. 0 % Capacity = 0
  BY <1>1
<1>10. IF s.eof THEN N < 0 + Capacity /\ s.last = Place(N - 0, 0)
       ELSE 0 + Capacity <= N /\ s.taken = 0 + Capacity
  BY <1>1, <1>5, <1>7
<1>11. Window(s, 0, 0)
  BY <1>1, <1>3, <1>5, <1>8, <1>9, <1>10 DEF Window, N
<1>12. QED
  BY <1>3, <1>4, <1>5, <1>11

-----------------------------------------------------------------------------
(* What a look for a start code sees.                                      *)

\* The byte a look finds k bytes behind a place, if nothing is read for it.
SeenAt(r, place, k) == ByteAt(r, Advance(r, place, k).it)

\* The start code that four bytes begin with.
CodeOf(seen) ==
  IF seen[0] = 0 /\ seen[1] = 0 /\ seen[2] = 1 THEN 3
  ELSE IF seen[0] = 0 /\ seen[1] = 0 /\ seen[2] = 0 /\ seen[3] = 1 THEN 4
  ELSE 0

\* A comparison whose looks, as far as it goes, read nothing.
LEMMA CompareSeen ==
  ASSUME NEW r, NEW place, NEW code, Len(code) \in {3, 4},
         \A k \in 1..Len(code) :
           (\A j \in 1..(k - 1) : SeenAt(r, place, j - 1) = code[j])
             => Advance(r, place, k - 1).ring = r
  PROVE  /\ Compare(r, place, code).ring = r
         /\ Compare(r, place, code).held <=>
              \A k \in 1..Len(code) : SeenAt(r, place, k - 1) = code[k]
<1>1. PICK after : /\ Looks(after, Len(code), r, place, code)
                   /\ Compare(r, place, code) = after[Len(code)]
  BY CompareLooks
<1> DEFINE As(k) == \A j \in 1..k : SeenAt(r, place, j - 1) = code[j]
           S == {k \in Nat : k <= Len(code) => after[k].ring = r /\ (after[k].held <=> As(k))}
<1>2. 0 \in S
  <2>1. after[0] = [ring |-> r, held |-> TRUE]
    BY <1>1 DEF Looks
  <2>2. QED
    BY <2>1
<1>3. ASSUME NEW n \in Nat, n \in S PROVE n + 1 \in S
  <2> DEFINE k == n + 1
  <2> SUFFICES ASSUME k <= Len(code)
               PROVE  after[k].ring = r /\ (after[k].held <=> As(k))
    OBVIOUS
  <2>1. k \in 1..Len(code) /\ k \in 0..Len(code) /\ k # 0 /\ k - 1 = n
    OBVIOUS
  <2>2. after[n].ring = r /\ (after[n].held <=> As(n))
    BY <1>3, <2>1
  <2>3. As(k) <=> As(n) /\ SeenAt(r, place, n) = code[k]
    <3>1. ASSUME NEW j \in 1..k PROVE j \in 1..n \/ (j = k /\ j - 1 = n)
      OBVIOUS
    <3>2. \A j \in 1..n : j \in 1..k
      OBVIOUS
    <3> HIDE DEF k
    <3>3. QED
      BY <2>1, <3>1, <3>2
  <2>4. As(n) => Advance(r, place, n).ring = r
    BY <2>1
  <2> HIDE DEF k, S, As
  <2>5. after[k] = Looked(after[n], place, code, k)
    BY <1>1, <2>1 DEF Looks
  <2>6. CASE As(n)
    <3>1. Looked(after[n], place, code, k) =
            [ring |-> r, held |-> ByteAt(r, Advance(r, place, n).it) = code[k]]
      BY <2>1, <2>2, <2>4, <2>6 DEF Looked
    <3>2. after[k] = [ring |-> r, held |-> SeenAt(r, place, n) = code[k]]
      BY <2>5, <3>1, Zenon DEF SeenAt
    <3> DEFINE same == SeenAt(r, place, n) = code[k]
    <3> HIDE DEF same
    <3>5. after[k].ring = r /\ after[k].held = same
      BY <3>2 DEF same
    <3>3. after[k].ring = r /\ (after[k].held <=> SeenAt(r, place, n) = code[k])
      BY <3>5 DEF same
    <3>4. QED
      BY <2>3, <2>6, <3>3
  <2>7. CASE ~As(n)
    BY <2>2, <2>3, <2>5, <2>7 DEF Looked
  <2>8. QED
    BY <2>6, <2>7
<1> HIDE DEF S
<1>4. Len(code) \in S
  BY <1>2, <1>3, SetInduction, Len(code) \in Nat
<1>5. after[Len(code)].ring = r /\ (after[Len(code)].held <=> As(Len(code)))
  BY <1>4 DEF S
<1>6. QED
  BY <1>1, <1>5

\* A look goes on as long as it sees zeros.  If those read nothing, the whole
\* search reads nothing, and finds what there is.
LEMMA StartCodeSeen ==
  ASSUME NEW r, NEW place, NEW seen,
         Advance(r, place, 0).ring = r /\ SeenAt(r, place, 0) = seen[0],
         seen[0] = 0 => Advance(r, place, 1).ring = r /\ SeenAt(r, place, 1) = seen[1],
         seen[0] = 0 /\ seen[1] = 0
           => Advance(r, place, 2).ring = r /\ SeenAt(r, place, 2) = seen[2],
         seen[0] = 0 /\ seen[1] = 0 /\ seen[2] = 0
           => Advance(r, place, 3).ring = r /\ SeenAt(r, place, 3) = seen[3]
  PROVE  StartCode(r, place).ring = r /\ StartCode(r, place).length = CodeOf(seen)
<1> DEFINE Saw(k) == SeenAt(r, place, k)
           Still(k) == Advance(r, place, k).ring = r
<1>1. /\ Still(0) /\ Saw(0) = seen[0]
      /\ seen[0] = 0 => Still(1) /\ Saw(1) = seen[1]
      /\ seen[0] = 0 /\ seen[1] = 0 => Still(2) /\ Saw(2) = seen[2]
      /\ seen[0] = 0 /\ seen[1] = 0 /\ seen[2] = 0 => Still(3) /\ Saw(3) = seen[3]
  OBVIOUS
<1> HIDE DEF Saw, Still
<1>2. ASSUME NEW code \in {<<0, 0, 1>>, <<0, 0, 0, 1>>}
      PROVE  /\ Compare(r, place, code).ring = r
             /\ Compare(r, place, code).held <=> \A k \in 1..Len(code) : Saw(k - 1) = code[k]
  <2>1. Len(code) \in {3, 4} /\ code[1] = 0 /\ code[2] = 0 /\ (Len(code) = 4 => code[3] = 0)
    OBVIOUS
  <2>2. ASSUME NEW k \in 1..Len(code), \A j \in 1..(k - 1) : Saw(j - 1) = code[j]
        PROVE  Still(k - 1)
    <3>1. k \in 1..4 /\ (k = 4 => Len(code) = 4)
      <4>1. PICK l \in {3, 4} : l = Len(code)
        BY <2>1
      <4>2. k \in 1..l
        BY <4>1
      <4>3. QED
        BY ONLY <4>1, <4>2
    <3>2. /\ k > 1 => Saw(1 - 1) = code[1]
          /\ k > 2 => Saw(2 - 1) = code[2]
          /\ k > 3 => Saw(3 - 1) = code[3]
      BY <2>2, <3>1
    <3>3. /\ k > 1 => Saw(0) = 0
          /\ k > 2 => Saw(1) = 0
          /\ k > 3 => Saw(2) = 0
      BY <2>1, <3>1, <3>2
    <3>4. k - 1 = 0 \/ k - 1 = 1 \/ k - 1 = 2 \/ k - 1 = 3
      BY <3>1
    <3>5. QED
      BY <1>1, <3>1, <3>3, <3>4
  <2>3. QED
    BY <2>1, <2>2, CompareSeen DEF Saw, Still
<1> DEFINE three == Compare(r, place, <<0, 0, 1>>)
           four  == Compare(r, place, <<0, 0, 0, 1>>)
<1>3. three.ring = r /\ (three.held <=> Saw(0) = 0 /\ Saw(1) = 0 /\ Saw(2) = 1)
  <2>1. /\ Len(<<0, 0, 1>>) = 3
        /\ <<0, 0, 1>>[1] = 0 /\ <<0, 0, 1>>[2] = 0 /\ <<0, 0, 1>>[3] = 1
    OBVIOUS
  <2>2. (\A k \in 1..3 : Saw(k - 1) = <<0, 0, 1>>[k]) <=> Saw(0) = 0 /\ Saw(1) = 0 /\ Saw(2) = 1
    <3>1. 1 - 1 = 0 /\ 2 - 1 = 1 /\ 3 - 1 = 2 /\ 1..3 = {1, 2, 3}
      OBVIOUS
    <3>2. QED
      BY <2>1, <3>1
  <2>3. QED
    BY <1>2, <2>1, <2>2
<1>4. four.ring = r /\ (four.held <=> Saw(0) = 0 /\ Saw(1) = 0 /\ Saw(2) = 0 /\ Saw(3) = 1)
  <2>1. /\ Len(<<0, 0, 0, 1>>) = 4 /\ <<0, 0, 0, 1>>[1] = 0 /\ <<0, 0, 0, 1>>[2] = 0
        /\ <<0, 0, 0, 1>>[3] = 0 /\ <<0, 0, 0, 1>>[4] = 1
    OBVIOUS
  <2>2. (\A k \in 1..4 : Saw(k - 1) = <<0, 0, 0, 1>>[k])
          <=> Saw(0) = 0 /\ Saw(1) = 0 /\ Saw(2) = 0 /\ Saw(3) = 1
    <3>1. 1 - 1 = 0 /\ 2 - 1 = 1 /\ 3 - 1 = 2 /\ 4 - 1 = 3 /\ 1..4 = {1, 2, 3, 4}
      OBVIOUS
    <3>2. QED
      BY <2>1, <3>1
  <2>3. QED
    BY <1>2, <2>1, <2>2
<1>5. /\ three.held => StartCode(r, place) = [ring |-> r, length |-> 3]
      /\ ~three.held /\ four.held => StartCode(r, place) = [ring |-> r, length |-> 4]
      /\ ~three.held /\ ~four.held => StartCode(r, place) = [ring |-> r, length |-> 0]
  BY <1>3, <1>4 DEF StartCode
<1> HIDE DEF three, four
<1>6. /\ three.held <=> seen[0] = 0 /\ seen[1] = 0 /\ seen[2] = 1
      /\ four.held <=> seen[0] = 0 /\ seen[1] = 0 /\ seen[2] = 0 /\ seen[3] = 1
  BY <1>1, <1>3, <1>4
<1>7. QED
  BY <1>5, <1>6 DEF CodeOf

\* No full chunk ends with a zero, nor does the file.
NoZeroLast(file) ==
  /\ file # <<>> => file[Len(file)] # 0
  /\ \A p \in DOMAIN file : p % Capacity = 0 => file[p] # 0

\* k zeros, from byte p on.
Zeros(file, p, k) == \A j \in 0..(k - 1) : file[p + j + 1] = 0

\* A look k bytes behind byte p reads nothing and sees the byte that is there.
Sees(r, b, a, p, k) ==
  /\ Advance(r, Spot(b, a, p), k).ring = r
  /\ SeenAt(r, Spot(b, a, p), k) = r.file[p + k + 1]

\* So a look from a byte of the file goes on in the file and in its chunk, as long
\* as it sees zeros.
LEMMA LookInWindow ==
  ASSUME Capacity > 3, NEW r, NEW b, NEW a, Window(r, b, a), NoZeroLast(r.file),
         NEW p \in Chunk(b), p < Len(r.file), NEW k \in 0..3, Zeros(r.file, p, k)
  PROVE  Sees(r, b, a, p, k)
<1> DEFINE N == Len(r.file)
<1>1. /\ Capacity \in Nat \ {0} /\ b \in Nat /\ N \in Nat /\ r.file \in Seq(Nat)
      /\ p \in Nat /\ b <= p /\ p < b + Capacity /\ b % Capacity = 0
  <2>1. b % Capacity = 0
    BY DEF Window
  <2>2. QED
    BY <2>1, WindowTypes DEF Chunk
<1>2. r.file # <<>> /\ DOMAIN r.file = 1..N
  BY <1>1
<1>3. p + k < N
  <2> SUFFICES ASSUME N <= p + k PROVE FALSE
    BY <1>1
  <2>1. N - 1 - p \in 0..(k - 1) /\ p + (N - 1 - p) + 1 = N
    BY <1>1
  <2>2. r.file[p + (N - 1 - p) + 1] = 0
    BY <2>1 DEF Zeros
  <2>3. r.file[N] = 0
    BY <2>1, <2>2
  <2>4. QED
    BY <1>2, <2>3 DEF NoZeroLast
<1>4. p + k < b + Capacity
  <2> SUFFICES ASSUME b + Capacity <= p + k PROVE FALSE
    BY <1>1
  <2> DEFINE j == b + Capacity - 1 - p
  <2>1. j \in 0..(k - 1) /\ p + j + 1 = b + Capacity /\ b + Capacity \in 1..N
    BY <1>1, <1>3
  <2>2. (b + Capacity) % Capacity = 0
    BY <1>1, ChunkOffset
  <2> HIDE DEF j
  <2>3. r.file[b + Capacity] = 0
    BY <2>1 DEF Zeros
  <2>4. QED
    BY <1>2, <2>1, <2>2, <2>3 DEF NoZeroLast
<1>5. Spot(b, a, p) = Place(p - b, a) /\ Spot(b, a, p + k) = Place(p + k - b, a)
  BY <1>1 DEF Spot
<1>6. Advance(r, Spot(b, a, p), k) = [ring |-> r, it |-> Spot(b, a, p + k)]
  <2>1. Spot(b, a, p).off = p - b /\ Spot(b, a, p).arr = a
    BY <1>5 DEF Place
  <2>2. p - b + k < Capacity /\ p - b + k = p + k - b
    BY <1>1, <1>4
  <2>3. QED
    BY <1>5, <2>1, <2>2 DEF Advance
<1>7. r.data[Spot(b, a, p + k).arr][Spot(b, a, p + k).off] = r.file[p + k + 1]
  BY <1>1, <1>3, <1>4, WindowByte, p + k \in Nat, b <= p + k + Capacity
<1>8. QED
  BY <1>6, <1>7 DEF Sees, SeenAt, ByteAt

\* The start code at byte p.
CodeIn(file, p) == CodeOf([k \in 0..3 |-> file[p + k + 1]])

\* In the chunk that was read last, the search finds what is in the file.
LEMMA StartCodeInWindow ==
  ASSUME Capacity > 3, NEW r, NEW b, NEW a, Window(r, b, a), NoZeroLast(r.file),
         NEW p \in Chunk(b), p < Len(r.file)
  PROVE  /\ StartCode(r, Spot(b, a, p)).ring = r
         /\ StartCode(r, Spot(b, a, p)).length = CodeIn(r.file, p)
<1> DEFINE seen == [k \in 0..3 |-> r.file[p + k + 1]]
           place == Spot(b, a, p)
<1>1. ASSUME NEW k \in 0..3, \A j \in 0..(k - 1) : seen[j] = 0
      PROVE  Advance(r, place, k).ring = r /\ SeenAt(r, place, k) = seen[k]
  <2>1. ASSUME NEW j \in 0..(k - 1) PROVE r.file[p + j + 1] = 0
    <3>1. j \in 0..3
      OBVIOUS
    <3>2. seen[j] = r.file[p + j + 1]
      BY <3>1
    <3>3. QED
      BY <1>1, <3>2
  <2>2. seen[k] = r.file[p + k + 1]
    OBVIOUS
  <2> HIDE DEF seen
  <2>3. Advance(r, place, k).ring = r /\ SeenAt(r, place, k) = r.file[p + k + 1]
    <3>1. Zeros(r.file, p, k)
      BY <2>1 DEF Zeros
    <3>2. Sees(r, b, a, p, k)
      BY <3>1, LookInWindow
    <3>3. QED
      BY <3>2 DEF Sees
  <2>4. QED
    BY <2>2, <2>3
<1> HIDE DEF seen, place
<1>2. /\ Advance(r, place, 0).ring = r /\ SeenAt(r, place, 0) = seen[0]
      /\ seen[0] = 0 => Advance(r, place, 1).ring = r /\ SeenAt(r, place, 1) = seen[1]
      /\ seen[0] = 0 /\ seen[1] = 0
           => Advance(r, place, 2).ring = r /\ SeenAt(r, place, 2) = seen[2]
      /\ seen[0] = 0 /\ seen[1] = 0 /\ seen[2] = 0
           => Advance(r, place, 3).ring = r /\ SeenAt(r, place, 3) = seen[3]
  <2>1. 0..(0 - 1) = {} /\ 0..(1 - 1) = {0} /\ 0..(2 - 1) = {0, 1} /\ 0..(3 - 1) = {0, 1, 2}
    OBVIOUS
  <2>2. 0 \in 0..3 /\ 1 \in 0..3 /\ 2 \in 0..3 /\ 3 \in 0..3
    OBVIOUS
  <2>3. QED
    BY <1>1, <2>1, <2>2
<1>3. StartCode(r, place).ring = r /\ StartCode(r, place).length = CodeOf(seen)
  BY <1>2, StartCodeSeen
<1>4. QED
  BY <1>3 DEF seen, place, CodeIn

\* What a look behind the end of the file sees is from two chunks before.
SeesBehind(r, b, a, k) ==
  /\ Advance(r, Spot(b, a, Len(r.file)), k).ring = r
  /\ SeenAt(r, Spot(b, a, Len(r.file)), k) = FileAt(r.file, Len(r.file) + k - 2 * Capacity)

\* In this array or in the other.
LEMMA LookBehind ==
  ASSUME Capacity > 3, NEW r, NEW b, NEW a, Window(r, b, a), Len(r.file) \in Chunk(b),
         NEW k \in 0..3
  PROVE  SeesBehind(r, b, a, k)
<1> DEFINE N == Len(r.file)
           o == N - b
<1>1. /\ Capacity \in Nat \ {0} /\ b \in Nat /\ N \in Nat /\ b <= N /\ N < b + Capacity
      /\ r.eof \in BOOLEAN /\ a \in {0, 1}
  BY WindowTypes DEF Chunk
<1>2. r.eof
  <2>1. ~r.eof => b + Capacity <= N
    BY DEF Window
  <2>2. QED
    BY <1>1, <2>1
<1>3. Spot(b, a, N) = Place(o, a) /\ Place(o, a).off = o /\ Place(o, a).arr = a
  BY <1>1 DEF Spot, Place
<1>4. o \in Nat /\ o < Capacity /\ b + o = N
  BY <1>1
<1>5. \A j \in Offsets :
        /\ r.data[a][j] = IF b + j < N THEN r.file[b + j + 1] ELSE FileAt(r.file, b + j - 2 * Capacity)
        /\ r.data[1 - a][j] = FileAt(r.file, b + j - Capacity)
  BY DEF Window
<1> HIDE DEF N, o
<1>6. CASE o + k < Capacity
  <2>1. Advance(r, Place(o, a), k) = [ring |-> r, it |-> Place(o + k, a)]
    BY <1>3, <1>6 DEF Advance
  <2>2. o + k \in Offsets /\ ~(b + (o + k) < N) /\ b + (o + k) - 2 * Capacity = N + k - 2 * Capacity
    BY <1>1, <1>4, <1>6 DEF Offsets
  <2>3. r.data[a][o + k] = FileAt(r.file, N + k - 2 * Capacity)
    BY <1>5, <2>2
  <2>4. QED
    BY <1>3, <2>1, <2>3 DEF SeesBehind, SeenAt, ByteAt, Place, N
<1>7. CASE ~(o + k < Capacity)
  <2>1. ~(k > 2 * Capacity - o)
    BY <1>1, <1>4
  <2>2. Advance(r, Place(o, a), k) = [ring |-> r, it |-> Place(o + k - Capacity, 1 - a)]
    BY <1>2, <1>3, <1>7, <2>1 DEF Advance, ReadFile
  <2>3. /\ o + k - Capacity \in Offsets
        /\ b + (o + k - Capacity) - Capacity = N + k - 2 * Capacity
    BY <1>1, <1>4, <1>7 DEF Offsets
  <2>4. r.data[1 - a][o + k - Capacity] = FileAt(r.file, N + k - 2 * Capacity)
    BY <1>5, <2>3
  <2>5. QED
    BY <1>3, <2>2, <2>4 DEF SeesBehind, SeenAt, ByteAt, Place, N
<1>8. QED
  BY <1>6, <1>7

\* The start code there is behind the end of a file.
CodeBehind(file) == CodeOf([k \in 0..3 |-> FileAt(file, Len(file) + k - 2 * Capacity)])

\* The search finds it, and reads nothing.
LEMMA StartCodeBehind ==
  ASSUME Capacity > 3, NEW r, NEW b, NEW a, Window(r, b, a), Len(r.file) \in Chunk(b)
  PROVE  /\ StartCode(r, Spot(b, a, Len(r.file))).ring = r
         /\ StartCode(r, Spot(b, a, Len(r.file))).length = CodeBehind(r.file)
<1> DEFINE seen  == [k \in 0..3 |-> FileAt(r.file, Len(r.file) + k - 2 * Capacity)]
           place == Spot(b, a, Len(r.file))
<1>1. ASSUME NEW k \in 0..3 PROVE Advance(r, place, k).ring = r /\ SeenAt(r, place, k) = seen[k]
  <2>1. SeesBehind(r, b, a, k)
    BY LookBehind
  <2>2. QED
    BY <2>1 DEF SeesBehind
<1> HIDE DEF seen, place
<1>2. 0 \in 0..3 /\ 1 \in 0..3 /\ 2 \in 0..3 /\ 3 \in 0..3
  OBVIOUS
<1>3. StartCode(r, place).ring = r /\ StartCode(r, place).length = CodeOf(seen)
  BY <1>1, <1>2, StartCodeSeen
<1>4. QED
  BY <1>3 DEF seen, place, CodeBehind

\* When a unit seems to start there.
LEMMA StaleBytes ==
  ASSUME FileOf(movie) \in Seq(Nat)
  PROVE  StaleStart <=> IF IsAudio
                          THEN FileAt(FileOf(movie), Len(FileOf(movie)) - 2 * Capacity) = Sync
                          ELSE CodeBehind(FileOf(movie)) # 0
<1> DEFINE file == FileOf(movie)
           N == Len(file)
           Behind(k) == LET old == N - 2 * Capacity + k IN IF old > 0 THEN file[old] ELSE 0
           Holds(code) == \A k \in DOMAIN code : Behind(k) = code[k]
           seen == [k \in 0..3 |-> FileAt(file, N + k - 2 * Capacity)]
<1>1. N \in Nat /\ Capacity \in Nat \ {0}
  BY RingAssumption
<1>2. StaleStart <=> IF IsAudio THEN Holds(<<Sync>>) ELSE Holds(<<0, 0, 1>>) \/ Holds(<<0, 0, 0, 1>>)
  BY DEF StaleStart
<1> HIDE DEF file, N
<1>3. ASSUME NEW k \in 1..4
      PROVE  Behind(k) = FileAt(file, N + (k - 1) - 2 * Capacity)
  <2>1. PICK old \in Int : old = N - 2 * Capacity + k
    BY <1>1
  <2>2. N + (k - 1) - 2 * Capacity = old - 1 /\ (old - 1) + 1 = old /\ (old - 1 < 0 <=> ~(old > 0))
    BY <1>1, <2>1
  <2>3. Behind(k) = IF old > 0 THEN file[old] ELSE 0
    BY <2>1
  <2>4. FileAt(file, old - 1) = IF old - 1 < 0 THEN 0 ELSE file[old]
    BY <2>2 DEF FileAt
  <2>5. QED
    BY <2>2, <2>3, <2>4
<1>4. /\ Behind(1) = FileAt(file, N - 2 * Capacity)
      /\ Behind(1) = seen[0] /\ Behind(2) = seen[1] /\ Behind(3) = seen[2] /\ Behind(4) = seen[3]
  <2>1. /\ 1 \in 1..4 /\ 2 \in 1..4 /\ 3 \in 1..4 /\ 4 \in 1..4
        /\ 1 - 1 = 0 /\ 2 - 1 = 1 /\ 3 - 1 = 2 /\ 4 - 1 = 3
        /\ N + 0 - 2 * Capacity = N - 2 * Capacity
    BY <1>1
  <2>2. /\ Behind(1) = FileAt(file, N + (1 - 1) - 2 * Capacity)
        /\ Behind(2) = FileAt(file, N + (2 - 1) - 2 * Capacity)
        /\ Behind(3) = FileAt(file, N + (3 - 1) - 2 * Capacity)
        /\ Behind(4) = FileAt(file, N + (4 - 1) - 2 * Capacity)
    BY <1>3, <2>1
  <2> HIDE DEF Behind
  <2>3. /\ seen[0] = FileAt(file, N + 0 - 2 * Capacity)
        /\ seen[1] = FileAt(file, N + 1 - 2 * Capacity)
        /\ seen[2] = FileAt(file, N + 2 - 2 * Capacity)
        /\ seen[3] = FileAt(file, N + 3 - 2 * Capacity)
    OBVIOUS
  <2>4. QED
    BY <2>1, <2>2, <2>3
<1> HIDE DEF Behind, seen
<1>5. /\ Holds(<<Sync>>) <=> Behind(1) = Sync
      /\ Holds(<<0, 0, 1>>) <=> Behind(1) = 0 /\ Behind(2) = 0 /\ Behind(3) = 1
      /\ Holds(<<0, 0, 0, 1>>)
           <=> Behind(1) = 0 /\ Behind(2) = 0 /\ Behind(3) = 0 /\ Behind(4) = 1
  <2>1. /\ DOMAIN <<Sync>> = {1} /\ <<Sync>>[1] = Sync
        /\ DOMAIN <<0, 0, 1>> = {1, 2, 3}
        /\ <<0, 0, 1>>[1] = 0 /\ <<0, 0, 1>>[2] = 0 /\ <<0, 0, 1>>[3] = 1
        /\ DOMAIN <<0, 0, 0, 1>> = {1, 2, 3, 4}
        /\ <<0, 0, 0, 1>>[1] = 0 /\ <<0, 0, 0, 1>>[2] = 0
        /\ <<0, 0, 0, 1>>[3] = 0 /\ <<0, 0, 0, 1>>[4] = 1
    OBVIOUS
  <2>2. QED
    BY <2>1
<1> HIDE DEF Holds
<1>6. CodeOf(seen) # 0 <=> Holds(<<0, 0, 1>>) \/ Holds(<<0, 0, 0, 1>>)
  BY <1>4, <1>5 DEF CodeOf
<1>7. CodeBehind(FileOf(movie)) = CodeOf(seen)
  BY DEF CodeBehind, seen, file, N
<1>8. FileAt(FileOf(movie), Len(FileOf(movie)) - 2 * Capacity) = Behind(1)
  BY <1>4 DEF file, N
<1>9. QED
  BY <1>2, <1>5, <1>6, <1>7, <1>8

-----------------------------------------------------------------------------
(* The units of a file.                                                    *)

\* What holds of every unit.
LEMMA UnitFacts ==
  ASSUME NEW m \in Seq(Units), Chunked(m), NEW i \in 1..Len(m)
  PROVE  /\ m[i] \in Units /\ m[i].code \in 2..4 /\ m[i].bytes \in Seq(Nat)
         /\ Len(m[i].bytes) \in Nat \ {0}
         /\ StartOf(m, i) \in Nat /\ StartOf(m, i + 1) \in Nat /\ Len(FileOf(m)) \in Nat
         /\ StartOf(m, i + 1) = StartOf(m, i) + m[i].code + Len(m[i].bytes)
         /\ StartOf(m, i + 1) <= Len(FileOf(m))
         /\ i < Len(m) => i + 1 \in 1..Len(m)
         /\ m[i].code + Len(m[i].bytes) <= Capacity
         /\ (StartOf(m, i) % Capacity) + m[i].code < Capacity
<1>1. m[i] \in Units /\ Len(m) \in Nat /\ i \in DOMAIN m
  BY ElementOfSeq, LenProperties
<1>2. m[i].code \in 2..4 /\ m[i].bytes \in Seq(Nat)
  BY <1>1, PrefixType DEF Units
<1>3. /\ m[i].bytes # <<>>
      /\ m[i].code + Len(m[i].bytes) <= Capacity
      /\ (StartOf(m, i) % Capacity) + m[i].code < Capacity
  BY <1>1 DEF Chunked
<1>4. Len(m[i].bytes) \in Nat \ {0}
  BY <1>2, <1>3, LenProperties, EmptySeq
<1>5. /\ FileOf(m) \in Seq(Nat) /\ StartOf(m, i) \in Nat
      /\ StartOf(m, i + 1) = StartOf(m, i) + m[i].code + Len(m[i].bytes)
      /\ StartOf(m, i + 1) <= Len(FileOf(m))
  BY FileLayout
<1>6. StartOf(m, i + 1) \in Nat /\ Len(FileOf(m)) \in Nat
  <2>1. Len(FileOf(m)) \in Nat
    BY <1>5, LenProperties
  <2>2. \A s \in Nat, c \in 2..4, l \in Nat \ {0} : s + c + l \in Nat
    OBVIOUS
  <2>3. StartOf(m, i) + m[i].code + Len(m[i].bytes) \in Nat
    BY <1>2, <1>4, <1>5, <2>2
  <2>4. QED
    BY <1>5, <2>1, <2>3
<1>7. i < Len(m) => i + 1 \in 1..Len(m)
  BY <1>1
<1>8. QED
  BY <1>1, <1>2, <1>3, <1>4, <1>5, <1>6, <1>7

\* A unit that starts in a chunk has its code there, and ends in it or the next.
LEMMA UnitInChunk ==
  ASSUME NEW m \in Seq(Units), Chunked(m), NEW i \in 1..Len(m),
         NEW b \in Nat, b % Capacity = 0, StartOf(m, i) \in Chunk(b)
  PROVE  /\ StartOf(m, i) - b + m[i].code < Capacity
         /\ StartOf(m, i + 1) < b + 2 * Capacity
<1>1. /\ StartOf(m, i) \in Nat /\ m[i].code \in 2..4 /\ Len(m[i].bytes) \in Nat
      /\ StartOf(m, i + 1) = StartOf(m, i) + m[i].code + Len(m[i].bytes)
      /\ m[i].code + Len(m[i].bytes) <= Capacity
      /\ (StartOf(m, i) % Capacity) + m[i].code < Capacity
  BY UnitFacts
<1>2. StartOf(m, i) % Capacity = StartOf(m, i) - b
  BY ChunkOffset
<1>3. StartOf(m, i) < b + Capacity
  BY DEF Chunk
<1>4. PICK s \in Nat, c \in 2..4, l \in Nat :
        s = StartOf(m, i) /\ c = m[i].code /\ l = Len(m[i].bytes)
  BY <1>1
<1>5. s < b + Capacity /\ c + l <= Capacity /\ StartOf(m, i + 1) = s + c + l
  BY <1>1, <1>3, <1>4
<1>6. s + c + l < b + 2 * Capacity
  BY <1>5, RingAssumption
<1>7. QED
  BY <1>1, <1>2, <1>5, <1>6

\* Both kinds of files are made of units.
LEMMA FileUnits ==
  ASSUME NEW m, Film(m) \/ Recording(m)
  PROVE  m \in Seq(Units) /\ Chunked(m) /\ Len(m) \in Nat \ {0} /\ FileOf(m) \in Seq(Nat)
<1> DEFINE Nals    == [code : {3, 4}, bytes : Seq(Nat)]
           Frames  == [code : {AdtsSize}, bytes : Seq(Nat)]
<1>1. Chunked(m) /\ (m \in Seq(Nals) \/ m \in Seq(Frames))
  BY DEF Film, Recording
<1>2. Nals \subseteq Units /\ Frames \subseteq Units
  BY DEF Units
<1> HIDE DEF Nals, Frames
<1>3. m \in Seq(Units)
  <2>1. Len(m) \in Nat /\ m = [i \in 1..Len(m) |-> m[i]] /\ \A i \in 1..Len(m) : m[i] \in Nals \cup Frames
    BY <1>1, ElementOfSeq, LenProperties
  <2>2. \A i \in 1..Len(m) : m[i] \in Units
    BY <1>2, <2>1
  <2> DEFINE n == Len(m)
             e(i) == m[i]
  <2> HIDE DEF n, e
  <2>3. n \in Nat /\ \A i \in 1..n : e(i) \in Units
    BY <2>1, <2>2 DEF n, e
  <2>4. [i \in 1..n |-> e(i)] \in Seq(Units)
    BY <2>3, IsASeq
  <2>5. QED
    BY <2>1, <2>4 DEF n, e
<1>4. Len(m) \in Nat \ {0}
  BY <1>1, <1>3, LenProperties, EmptySeq DEF Chunked
<1>5. QED
  BY <1>1, <1>3, <1>4, FileLayout

\* What kind a file is, its first unit tells.
LEMMA FileKinds ==
  ASSUME Film(movie) \/ Recording(movie)
  PROVE  IF IsAudio THEN Recording(movie) ELSE Film(movie)
<1>1. Len(movie) \in Nat \ {0} /\ 1 \in 1..Len(movie)
  BY FileUnits
<1>2. Film(movie) => movie[1].code \in {3, 4}
  <2>1. Film(movie) => movie[1] \in [code : {3, 4}, bytes : Seq(Nat)]
    BY <1>1, ElementOfSeq DEF Film
  <2>2. QED
    BY <2>1
<1>3. Recording(movie) => movie[1].code = AdtsSize
  <2>1. Recording(movie) => movie[1] \in [code : {AdtsSize}, bytes : Seq(Nat)]
    BY <1>1, ElementOfSeq DEF Recording
  <2>2. QED
    BY <2>1
<1>4. QED
  BY <1>2, <1>3 DEF IsAudio, AdtsSize

\* What a film ends with is not zero.
LEMMA FilmEnds ==
  ASSUME NEW m, Film(m)
  PROVE  NoZeroLast(FileOf(m))
<1> DEFINE n == Len(m)
           l == Len(m[n].bytes)
<1>1. m \in Seq(Units) /\ Chunked(m) /\ n \in Nat \ {0} /\ n \in 1..Len(m) /\ FileOf(m) \in Seq(Nat)
  BY FileUnits
<1>2. StartOf(m, n + 1) = Len(FileOf(m))
  BY <1>1, FileLayout
<1>3. /\ StartOf(m, n + 1) = StartOf(m, n) + m[n].code + l
      /\ \A k \in 1..l : FileOf(m)[StartOf(m, n) + m[n].code + k] = m[n].bytes[k]
  BY <1>1, FileLayout
<1>4. l \in Nat \ {0} /\ l \in 1..l
  BY <1>1, UnitFacts
<1>5. m[n].bytes[l] # 0
  BY <1>1 DEF Film
<1>6. FileOf(m)[Len(FileOf(m))] # 0
  BY <1>2, <1>3, <1>4, <1>5
<1>7. QED
  BY <1>6 DEF NoZeroLast, Film

\* A start code is found where a unit starts, and nowhere in it.
LEMMA FilmCodes ==
  ASSUME NEW m, Film(m), NEW i \in 1..Len(m)
  PROVE  /\ m[i].code \in {3, 4}
         /\ CodeIn(FileOf(m), StartOf(m, i)) = m[i].code
         /\ \A q \in Nat : StartOf(m, i) + m[i].code <= q /\ q < StartOf(m, i + 1)
                             => CodeIn(FileOf(m), q) = 0
<1> DEFINE file == FileOf(m)
           bytes == m[i].bytes
           c == m[i].code
           l == Len(bytes)
           s == StartOf(m, i)
           e == StartOf(m, i + 1)
<1>1. m \in Seq(Units) /\ Chunked(m) /\ i \in DOMAIN m
  BY FileUnits
<1>2. c \in {3, 4}
  <2>1. m[i] \in [code : {3, 4}, bytes : Seq(Nat)]
    BY ElementOfSeq DEF Film
  <2>2. QED
    BY <2>1
<1>3. s \in Nat /\ l \in Nat \ {0} /\ e = s + c + l
  BY <1>1, UnitFacts
<1>4. /\ \A k \in 1..c : file[s + k] = Prefix(m[i])[k]
      /\ \A k \in 1..l : file[s + c + k] = bytes[k]
  BY <1>1, FileLayout
<1>5. /\ bytes[l] # 0
      /\ \A k \in 1..(l - 2) : ~(bytes[k] = 0 /\ bytes[k + 1] = 0 /\ bytes[k + 2] = 1)
  BY <1>1 DEF Film
<1>6. Prefix(m[i]) = IF c = 3 THEN <<0, 0, 1>> ELSE <<0, 0, 0, 1>>
  BY <1>2 DEF Prefix, AdtsSize
<1> HIDE DEF file, bytes, c, l, s, e
<1>7. ASSUME NEW q \in Nat
      PROVE  CodeIn(file, q) =
               IF file[q + 1] = 0 /\ file[q + 2] = 0 /\ file[q + 3] = 1 THEN 3
               ELSE IF file[q + 1] = 0 /\ file[q + 2] = 0 /\ file[q + 3] = 0 /\ file[q + 4] = 1
                 THEN 4 ELSE 0
  <2> DEFINE seen == [k \in 0..3 |-> file[q + k + 1]]
  <2>1. /\ seen[0] = file[q + 0 + 1] /\ seen[1] = file[q + 1 + 1]
        /\ seen[2] = file[q + 2 + 1] /\ seen[3] = file[q + 3 + 1]
    OBVIOUS
  <2>2. q + 0 + 1 = q + 1 /\ q + 1 + 1 = q + 2 /\ q + 2 + 1 = q + 3 /\ q + 3 + 1 = q + 4
    OBVIOUS
  <2> HIDE DEF seen
  <2>3. QED
    BY <2>1, <2>2, Zenon DEF CodeIn, CodeOf, seen
<1>8. CodeIn(file, s) = c
  <2>1. CASE c = 3
    <3>1. file[s + 1] = 0 /\ file[s + 2] = 0 /\ file[s + 3] = 1
      <4>1. Prefix(m[i])[1] = 0 /\ Prefix(m[i])[2] = 0 /\ Prefix(m[i])[3] = 1
        BY <1>6, <2>1
      <4>2. 1 \in 1..c /\ 2 \in 1..c /\ 3 \in 1..c
        BY <2>1
      <4>3. QED
        BY <1>4, <4>1, <4>2
    <3>2. QED
      BY <1>3, <1>7, <2>1, <3>1
  <2>2. CASE c = 4
    <3>1. file[s + 1] = 0 /\ file[s + 2] = 0 /\ file[s + 3] = 0 /\ file[s + 4] = 1
      <4>1. /\ Prefix(m[i])[1] = 0 /\ Prefix(m[i])[2] = 0
            /\ Prefix(m[i])[3] = 0 /\ Prefix(m[i])[4] = 1
        BY <1>6, <2>2
      <4>2. 1 \in 1..c /\ 2 \in 1..c /\ 3 \in 1..c /\ 4 \in 1..c
        BY <2>2
      <4>3. QED
        BY <1>4, <4>1, <4>2
    <3>2. QED
      BY <1>3, <1>7, <2>2, <3>1
  <2>3. QED
    BY <1>2, <2>1, <2>2
<1>9. ASSUME NEW q \in Nat, s + c <= q, q < e
      PROVE  CodeIn(file, q) = 0
  <2>1. PICK k \in 1..l : q + 1 = s + c + k
    <3>1. q + 1 - s - c \in 1..l /\ q + 1 = s + c + (q + 1 - s - c)
      BY <1>2, <1>3, <1>9
    <3>2. QED
      BY <3>1
  <2>2. file[q + 1] = bytes[k]
    BY <1>4, <2>1
  <2>3. k + 1 <= l => k + 1 \in 1..l /\ file[q + 2] = bytes[k + 1]
    <3>1. q + 2 = s + c + (k + 1)
      BY <1>2, <1>3, <2>1
    <3>2. k + 1 <= l => k + 1 \in 1..l
      BY <1>3
    <3>3. QED
      BY <1>4, <3>1, <3>2
  <2>4. k + 2 <= l => k + 2 \in 1..l /\ file[q + 3] = bytes[k + 2]
    <3>1. q + 3 = s + c + (k + 2)
      BY <1>2, <1>3, <2>1
    <3>2. k + 2 <= l => k + 2 \in 1..l
      BY <1>3
    <3>3. QED
      BY <1>4, <3>1, <3>2
  <2>5. k + 3 <= l => file[q + 4] = bytes[k + 3]
    <3>1. q + 4 = s + c + (k + 3)
      BY <1>2, <1>3, <2>1
    <3>2. k + 3 <= l => k + 3 \in 1..l
      BY <1>3
    <3>3. QED
      BY <1>4, <3>1, <3>2
  <2>6. ~(file[q + 1] = 0 /\ file[q + 2] = 0 /\ file[q + 3] = 1)
    <3>1. CASE k + 2 <= l
      <4>1. k \in 1..(l - 2)
        BY <1>3, <3>1
      <4>2. k + 1 <= l
        BY <1>3, <3>1
      <4>3. QED
        BY <1>5, <2>2, <2>3, <2>4, <3>1, <4>1, <4>2
    <3>2. CASE ~(k + 2 <= l)
      <4>1. k = l \/ k + 1 = l
        BY <1>3, <3>2
      <4>2. QED
        BY <1>3, <1>5, <2>2, <2>3, <4>1
    <3>3. QED
      BY <3>1, <3>2
  <2>7. ~(file[q + 1] = 0 /\ file[q + 2] = 0 /\ file[q + 3] = 0 /\ file[q + 4] = 1)
    <3>1. CASE k + 3 <= l
      <4>1. k + 1 \in 1..(l - 2) /\ (k + 1) + 1 = k + 2 /\ (k + 1) + 2 = k + 3
        BY <1>3, <3>1
      <4>2. k + 1 <= l /\ k + 2 <= l
        BY <1>3, <3>1
      <4>3. ~(bytes[k + 1] = 0 /\ bytes[k + 2] = 0 /\ bytes[k + 3] = 1)
        BY <1>5, <4>1
      <4>4. QED
        BY <2>3, <2>4, <2>5, <3>1, <4>2, <4>3
    <3>2. CASE ~(k + 3 <= l)
      <4>1. k = l \/ k + 1 = l \/ k + 2 = l
        BY <1>3, <3>2
      <4>2. QED
        BY <1>3, <1>5, <2>2, <2>3, <2>4, <4>1
    <3>3. QED
      BY <3>1, <3>2
  <2>8. QED
    BY <1>7, <2>6, <2>7
<1>10. QED
  BY <1>2, <1>8, <1>9 DEF file, c, s, e

-----------------------------------------------------------------------------
(* Steps from one place in the window to another.                          *)

\* A byte of the two chunks is inside an array.
LEMMA SpotPlace ==
  ASSUME NEW b \in Nat, NEW a \in {0, 1}, NEW p \in Nat, b <= p + Capacity, p < b + Capacity
  PROVE  /\ Spot(b, a, p) \in Places
         /\ Spot(b, a, p).off = IF b <= p THEN p - b ELSE p - b + Capacity
         /\ Spot(b, a, p).off \in Offsets
         /\ Spot(b, a, p).arr = IF b <= p THEN a ELSE 1 - a
<1>1. Capacity \in Nat \ {0} /\ 1 - a \in {0, 1}
  BY RingAssumption
<1>2. CASE b <= p
  <2>1. p - b \in 0..(Capacity - 1) /\ p - b \in 0..Capacity
    BY <1>1, <1>2
  <2>2. QED
    BY <1>1, <1>2, <2>1 DEF Spot, Place, Places, Offsets
<1>3. CASE ~(b <= p)
  <2>1. p - b + Capacity \in 0..(Capacity - 1) /\ p - b + Capacity \in 0..Capacity
    BY <1>1, <1>3
  <2>2. QED
    BY <1>1, <1>3, <2>1 DEF Spot, Place, Places, Offsets
<1>4. QED
  BY <1>2, <1>3

\* A chunk stays where it is when the next one is read.
LEMMA SpotBefore ==
  ASSUME NEW b \in Nat, NEW a \in {0, 1}, NEW p \in Chunk(b)
  PROVE  Spot(b + Capacity, 1 - a, p) = Spot(b, a, p)
<1>1. p \in Nat /\ b <= p /\ p < b + Capacity /\ Capacity \in Nat
  BY RingAssumption DEF Chunk
<1>2. ~(b + Capacity <= p) /\ p - (b + Capacity) + Capacity = p - b /\ 1 - (1 - a) = a
  BY <1>1
<1>3. QED
  BY <1>1, <1>2 DEF Spot

\* Bytes p and q, which is not before it, are in the same of the two chunks.
Together(b, p, q) ==
  /\ p <= q
  /\ \/ b <= p /\ q < b + Capacity
     \/ b <= p + Capacity /\ q < b

\* A step of k bytes from a place to another that reads nothing.
Leads(r, from, k, to) == Advance(r, from, k) = [ring |-> r, it |-> to]

\* A step that stays in its chunk reads nothing.
LEMMA StepInside ==
  ASSUME NEW r, NEW b \in Nat, NEW a \in {0, 1}, NEW p \in Nat, NEW k \in Nat, Together(b, p, p + k)
  PROVE  Leads(r, Spot(b, a, p), k, Spot(b, a, p + k))
<1> DEFINE place == Spot(b, a, p)
<1>1. Capacity \in Nat \ {0}
  BY RingAssumption
<1>2. /\ p < b + Capacity
      /\ place.off = IF b <= p THEN p - b ELSE p - b + Capacity
      /\ place.arr = IF b <= p THEN a ELSE 1 - a
  <2>1. p < b + Capacity /\ b <= p + Capacity
    BY <1>1 DEF Together
  <2>2. QED
    BY <2>1, SpotPlace
<1>3. place.off + k < Capacity /\ Place(place.off + k, place.arr) = Spot(b, a, p + k)
  <2>1. CASE b <= p
    <3>1. p - b + k < Capacity /\ b <= p + k /\ p - b + k = p + k - b
      BY <1>1, <2>1 DEF Together
    <3>2. place.off = p - b /\ place.arr = a
      BY <1>2, <2>1
    <3> HIDE DEF place
    <3>3. QED
      BY <3>1, <3>2 DEF Spot
  <2>2. CASE ~(b <= p)
    <3>1. p - b + Capacity + k < Capacity /\ ~(b <= p + k) /\ p - b + Capacity + k = p + k - b + Capacity
      BY <1>1, <2>2 DEF Together
    <3>2. place.off = p - b + Capacity /\ place.arr = 1 - a
      BY <1>2, <2>2
    <3> HIDE DEF place
    <3>3. QED
      BY <3>1, <3>2 DEF Spot
  <2>3. QED
    BY <2>1, <2>2
<1> HIDE DEF place
<1>4. Leads(r, place, k, Spot(b, a, p + k))
  BY <1>3 DEF Advance, Leads
<1>5. QED
  BY <1>4 DEF place

\* A step into the next chunk reads it.
LEMMA StepAcross ==
  ASSUME NEW r, NEW b, NEW a, Window(r, b, a), ~r.eof, NEW p \in Chunk(b), NEW k \in 0..Capacity,
         b + Capacity <= p + k
  PROVE  /\ Window(Advance(r, Spot(b, a, p), k).ring, b + Capacity, 1 - a)
         /\ Advance(r, Spot(b, a, p), k).ring.file = r.file
         /\ Advance(r, Spot(b, a, p), k).ring.begin = r.begin
         /\ Advance(r, Spot(b, a, p), k).it = Spot(b + Capacity, 1 - a, p + k)
<1> DEFINE place == Spot(b, a, p)
<1>1. /\ Capacity \in Nat \ {0} /\ b \in Nat /\ a \in {0, 1} /\ k \in Nat /\ k <= Capacity
      /\ p \in Nat /\ b <= p /\ p < b + Capacity
  BY WindowTypes DEF Chunk
<1>2. place.off = p - b /\ place.arr = a
  BY <1>1 DEF Spot, Place
<1>3. ~(p - b + k < Capacity) /\ ~(k > 2 * Capacity - (p - b))
  BY <1>1
<1>4. Place(p - b + k - Capacity, 1 - a) = Spot(b + Capacity, 1 - a, p + k)
  <2>1. p - b + k - Capacity = (p + k) - (b + Capacity)
    BY <1>1
  <2>2. Spot(b + Capacity, 1 - a, p + k) = Place((p + k) - (b + Capacity), 1 - a)
    BY <1>1, Zenon DEF Spot
  <2>3. QED
    BY <2>1, <2>2, Zenon
<1> HIDE DEF place
<1>5. Advance(r, place, k) = [ring |-> ReadFile(r, 1 - a), it |-> Spot(b + Capacity, 1 - a, p + k)]
  BY <1>2, <1>3, <1>4 DEF Advance
<1>6. QED
  BY <1>5, NextWindow DEF place

-----------------------------------------------------------------------------
(* The steps of a call for an H.264 file.                                  *)

\* Between two calls: the buffer begins with byte p, in the chunk read last.
Begins(r, p) ==
  \E b, a : Window(r, b, a) /\ p \in Chunk(b) /\ r.begin = Spot(b, a, p)

\* Within a call for unit i of m, which is where the buffer begins: the iterator
\* is at byte q, in the chunk read last; the unit may begin in the one before.
Scans(r, place, m, i, q) ==
  \E b, a :
    /\ Window(r, b, a) /\ r.begin = Spot(b, a, StartOf(m, i)) /\ b <= StartOf(m, i) + Capacity
    /\ q \in Chunk(b) /\ place = Spot(b, a, q)
    /\ StartOf(m, i) + m[i].code <= q /\ q <= StartOf(m, i + 1)

\* A call with a unit left finds the start code of it, and goes behind that.
LEMMA CallForUnit ==
  ASSUME Capacity > 3, NEW m, Film(m), NEW i \in 1..Len(m),
         NEW r, r.file = FileOf(m), Begins(r, StartOf(m, i))
  PROVE  LET code == StartCode(r, r.begin)
             next == Advance(r, r.begin, m[i].code)
         IN /\ ~Same(r.begin, End(r))
            /\ code.ring = r /\ code.length = m[i].code
            /\ next.ring = r
            /\ Scans(r, next.it, m, i, StartOf(m, i) + m[i].code)
<1>1. PICK b, a : Window(r, b, a) /\ StartOf(m, i) \in Chunk(b) /\ r.begin = Spot(b, a, StartOf(m, i))
  BY DEF Begins
<1>2. m \in Seq(Units) /\ Chunked(m)
  BY FileUnits
<1>3. PICK s \in Nat, c \in 2..4, l \in Nat, N \in Nat :
        /\ s = StartOf(m, i) /\ c = m[i].code /\ l = Len(m[i].bytes) /\ N = Len(r.file)
        /\ l # 0 /\ StartOf(m, i + 1) = s + c + l /\ s + c + l <= N
  <2>1. /\ StartOf(m, i) \in Nat /\ m[i].code \in 2..4 /\ Len(m[i].bytes) \in Nat \ {0}
        /\ StartOf(m, i + 1) = StartOf(m, i) + m[i].code + Len(m[i].bytes)
        /\ StartOf(m, i + 1) <= Len(FileOf(m)) /\ Len(FileOf(m)) \in Nat
    BY <1>2, UnitFacts
  <2>2. QED
    BY <2>1
<1>4. Capacity \in Nat \ {0} /\ b \in Nat /\ a \in {0, 1} /\ b % Capacity = 0
  <2>1. b % Capacity = 0
    BY <1>1 DEF Window
  <2>2. QED
    BY <1>1, <2>1, WindowTypes
<1>5. /\ s \in Chunk(b) /\ b <= s /\ s < b + Capacity
      /\ s \in Nat /\ c \in Nat /\ l \in Nat /\ N \in Nat /\ s < N /\ s + c <= s + c + l
  <2>1. s \in Chunk(b)
    BY <1>1, <1>3
  <2>2. b <= s /\ s < b + Capacity
    BY <2>1 DEF Chunk
  <2>3. s \in Nat /\ c \in 2..4 /\ l \in Nat /\ N \in Nat /\ s + c + l <= N
    BY <1>3
  <2>4. s < N /\ s + c <= s + c + l /\ c \in Nat
    BY <2>3
  <2>5. QED
    BY <2>1, <2>2, <2>3, <2>4
<1>6. s + c < b + Capacity
  <2>1. s - b + c < Capacity
    BY <1>1, <1>2, <1>3, <1>4, UnitInChunk
  <2>2. QED
    BY <1>4, <1>5, <2>1
<1>7. ~Same(r.begin, End(r))
  <2>1. s <= Len(r.file)
    BY <1>3
  <2>2. QED
    BY <1>1, <1>3, <1>5, <2>1, WindowEnd
<1>8. StartCode(r, r.begin).ring = r /\ StartCode(r, r.begin).length = m[i].code
  <2>1. NoZeroLast(r.file) /\ CodeIn(r.file, s) = m[i].code
    BY <1>3, FilmEnds, FilmCodes
  <2>2. Window(r, b, a) /\ s \in Chunk(b) /\ s < Len(r.file)
    BY <1>1, <1>3, <1>5
  <2>3. /\ StartCode(r, Spot(b, a, s)).ring = r
        /\ StartCode(r, Spot(b, a, s)).length = CodeIn(r.file, s)
    BY <2>1, <2>2, StartCodeInWindow
  <2>4. r.begin = Spot(b, a, s)
    BY <1>1, <1>3
  <2>5. QED
    BY <2>1, <2>3, <2>4
<1>9. Advance(r, r.begin, m[i].code) = [ring |-> r, it |-> Spot(b, a, s + c)]
  <2>1. Together(b, s, s + c)
    BY <1>4, <1>5, <1>6 DEF Together
  <2>2. Leads(r, Spot(b, a, s), c, Spot(b, a, s + c))
    BY <1>4, <1>5, <2>1, StepInside
  <2>3. QED
    BY <1>1, <1>3, <2>2 DEF Leads
<1>10. Scans(r, Spot(b, a, s + c), m, i, s + c)
  <2>1. s + c \in Chunk(b) /\ b <= s + Capacity
    <3>1. s + c \in Nat /\ b <= s + c /\ b <= s + Capacity
      BY <1>4, <1>5
    <3>2. QED
      BY <1>6, <3>1 DEF Chunk
  <2>2. QED
    BY <1>1, <1>3, <1>5, <2>1 DEF Scans
<1>11. QED
  BY <1>3, <1>7, <1>8, <1>9, <1>10

\* A turn of the loop looks at the file, and reads a chunk only in the step to
\* the next byte.
LEMMA TurnInUnit ==
  ASSUME Capacity > 3, NEW m, Film(m), NEW i \in 1..Len(m),
         NEW r, r.file = FileOf(m), NEW place, NEW q, Scans(r, place, m, i, q)
  PROVE  LET code == StartCode(r, place)
             next == Advance(r, place, 1)
         IN /\ q \in Nat /\ q <= StartOf(m, i + 1) /\ StartOf(m, i) + m[i].code <= q
            /\ Differ(place, End(r)) <=> q < Len(FileOf(m))
            /\ q < Len(FileOf(m)) => code.ring = r /\ code.length = CodeIn(FileOf(m), q)
            /\ q < StartOf(m, i + 1)
                 => next.ring.file = r.file /\ Scans(next.ring, next.it, m, i, q + 1)
<1>1. PICK b, a :
        /\ Window(r, b, a) /\ r.begin = Spot(b, a, StartOf(m, i)) /\ b <= StartOf(m, i) + Capacity
        /\ q \in Chunk(b) /\ place = Spot(b, a, q)
        /\ StartOf(m, i) + m[i].code <= q /\ q <= StartOf(m, i + 1)
  BY DEF Scans
<1>2. m \in Seq(Units) /\ Chunked(m)
  BY FileUnits
<1>3. PICK s \in Nat, c \in 2..4, l \in Nat, N \in Nat :
        /\ s = StartOf(m, i) /\ c = m[i].code /\ l = Len(m[i].bytes) /\ N = Len(r.file)
        /\ c + l <= Capacity /\ StartOf(m, i + 1) = s + c + l /\ s + c + l <= N
  <2>1. /\ StartOf(m, i) \in Nat /\ m[i].code \in 2..4 /\ Len(m[i].bytes) \in Nat
        /\ StartOf(m, i + 1) = StartOf(m, i) + m[i].code + Len(m[i].bytes)
        /\ StartOf(m, i + 1) <= Len(FileOf(m)) /\ Len(FileOf(m)) \in Nat
        /\ m[i].code + Len(m[i].bytes) <= Capacity
    BY <1>2, UnitFacts
  <2>2. QED
    BY <2>1
<1>4. Capacity \in Nat \ {0} /\ b \in Nat /\ a \in {0, 1} /\ 1 - a \in {0, 1}
  BY <1>1, WindowTypes
<1>5. /\ q \in Nat /\ b <= q /\ q < b + Capacity
      /\ s \in Nat /\ c \in Nat /\ l \in Nat /\ N \in Nat
      /\ s + c <= q /\ q <= s + c + l /\ s + c + l <= N /\ q <= N /\ c + l <= Capacity
  <2>1. q \in Nat /\ b <= q /\ q < b + Capacity
    BY <1>1 DEF Chunk
  <2>2. /\ s \in Nat /\ c \in 2..4 /\ l \in Nat /\ N \in Nat
        /\ s + c <= q /\ q <= s + c + l /\ s + c + l <= N /\ c + l <= Capacity
    BY <1>1, <1>3
  <2>3. c \in Nat /\ q <= N
    BY <2>1, <2>2
  <2>4. QED
    BY <2>1, <2>2, <2>3
<1>6. Differ(place, End(r)) <=> q < N
  BY <1>1, <1>3, <1>5, WindowEnd
<1>7. ASSUME q < N PROVE StartCode(r, place).ring = r /\ StartCode(r, place).length = CodeIn(FileOf(m), q)
  <2>1. NoZeroLast(r.file)
    BY FilmEnds
  <2>2. Window(r, b, a) /\ q \in Chunk(b) /\ q < Len(r.file)
    BY <1>1, <1>3, <1>7
  <2>3. /\ StartCode(r, Spot(b, a, q)).ring = r
        /\ StartCode(r, Spot(b, a, q)).length = CodeIn(r.file, q)
    BY <2>1, <2>2, StartCodeInWindow
  <2>4. QED
    BY <1>1, <2>3
<1>8. ASSUME q < s + c + l
      PROVE  /\ Advance(r, place, 1).ring.file = r.file
             /\ Scans(Advance(r, place, 1).ring, Advance(r, place, 1).it, m, i, q + 1)
  <2>1. CASE q + 1 < b + Capacity
    <3>1. Leads(r, Spot(b, a, q), 1, Spot(b, a, q + 1))
      <4>1. Together(b, q, q + 1) /\ 1 \in Nat
        BY <1>4, <1>5, <2>1 DEF Together
      <4>2. QED
        BY <1>4, <1>5, <4>1, StepInside
    <3>2. q + 1 \in Chunk(b) /\ s + c <= q + 1 /\ q + 1 <= s + c + l
      <4>1. q + 1 \in Nat /\ b <= q + 1 /\ s + c <= q + 1 /\ q + 1 <= s + c + l
        BY <1>4, <1>5, <1>8
      <4>2. QED
        BY <2>1, <4>1 DEF Chunk
    <3>3. Scans(r, Spot(b, a, q + 1), m, i, q + 1)
      BY <1>1, <1>3, <3>2 DEF Scans
    <3>4. QED
      BY <1>1, <3>1, <3>3 DEF Leads
  <2>2. CASE ~(q + 1 < b + Capacity)
    <3> DEFINE next == Advance(r, Spot(b, a, q), 1)
    <3>1. q + 1 = b + Capacity /\ q + 1 <= N /\ 1 \in 0..Capacity
      BY <1>4, <1>5, <1>8, <2>2
    <3>2. ~r.eof
      <4>1. r.eof => N < b + Capacity
        BY <1>1, <1>3 DEF Window
      <4>2. QED
        BY <1>4, <1>5, <3>1, <4>1
    <3>3. /\ Window(next.ring, b + Capacity, 1 - a)
          /\ next.ring.file = r.file /\ next.ring.begin = r.begin
          /\ next.it = Spot(b + Capacity, 1 - a, q + 1)
      <4>1. b + Capacity <= q + 1
        BY <1>4, <3>1
      <4>2. QED
        BY <1>1, <3>1, <3>2, <4>1, StepAcross
    <3>4. s \in Chunk(b) /\ b + Capacity <= s + Capacity
      <4>1. b <= s /\ s < b + Capacity
        BY <1>4, <1>5, <1>8, <3>1
      <4>2. QED
        BY <1>4, <1>5, <4>1 DEF Chunk
    <3>5. next.ring.begin = Spot(b + Capacity, 1 - a, s)
      BY <1>1, <1>3, <1>4, <3>3, <3>4, SpotBefore
    <3>6. q + 1 \in Chunk(b + Capacity) /\ s + c <= q + 1 /\ q + 1 <= s + c + l
      <4>1. q + 1 \in Nat /\ b + Capacity <= q + 1 /\ q + 1 < (b + Capacity) + Capacity
        BY <1>4, <1>5, <3>1
      <4>2. QED
        BY <1>4, <1>5, <1>8, <4>1 DEF Chunk
    <3> HIDE DEF next
    <3>7. Scans(next.ring, next.it, m, i, q + 1)
      BY <1>3, <3>3, <3>4, <3>5, <3>6 DEF Scans
    <3>8. QED
      BY <1>1, <3>3, <3>7 DEF next
  <2>3. QED
    BY <2>1, <2>2
<1>9. QED
  BY <1>3, <1>5, <1>6, <1>7, <1>8

\* What GetDataBetween copies out of the window.
LEMMA BetweenSpots ==
  ASSUME NEW r, NEW b, NEW a, Window(r, b, a), NEW f \in Nat, NEW e \in Chunk(b),
         b <= f + Capacity, f <= e, e <= Len(r.file)
  PROVE  /\ Ordered(Spot(b, a, f), Spot(b, a, e))
         /\ DataBetween(r, Spot(b, a, f), Spot(b, a, e)) = [k \in 1..(e - f) |-> r.file[f + k]]
<1> DEFINE from == Spot(b, a, f)
           to   == Spot(b, a, e)
           size == IF from.arr = to.arr THEN to.off - from.off ELSE to.off + Capacity - from.off
           byte(k) == IF from.off + k <= Capacity THEN r.data[from.arr][from.off + k - 1]
                      ELSE r.data[to.arr][from.off + k - 1 - Capacity]
<1>1. /\ Capacity \in Nat \ {0} /\ b \in Nat /\ a \in {0, 1} /\ 1 - a \in {0, 1} /\ 1 - a # a
  BY WindowTypes
<1>2. e \in Nat /\ b <= e /\ e < b + Capacity /\ f < b + Capacity
  <2>1. e \in Nat /\ b <= e /\ e < b + Capacity
    BY DEF Chunk
  <2>2. QED
    BY <1>1, <2>1
<1>3. /\ from.off = IF b <= f THEN f - b ELSE f - b + Capacity
      /\ from.arr = IF b <= f THEN a ELSE 1 - a
      /\ to.off = e - b /\ to.arr = a
  BY <1>1, <1>2, SpotPlace DEF Spot, Place
<1>4. DataBetween(r, from, to) = [k \in 1..size |-> byte(k)]
  BY DEF DataBetween
<1> HIDE DEF from, to
<1>5. size = e - f /\ (from.arr = to.arr => from.off <= to.off)
  <2>1. CASE b <= f
    BY <1>1, <1>2, <1>3, <2>1
  <2>2. CASE ~(b <= f)
    <3>1. from.arr # to.arr /\ from.off = f - b + Capacity
      BY <1>1, <1>3, <2>2
    <3>2. (e - b) + Capacity - (f - b + Capacity) = e - f
      BY <1>1, <1>2
    <3>3. QED
      BY <1>3, <3>1, <3>2
  <2>3. QED
    BY <2>1, <2>2
<1>6. ASSUME NEW k \in 1..(e - f) PROVE byte(k) = r.file[f + k]
  <2> DEFINE p == f + k - 1
  <2>1. p \in Nat /\ p + 1 = f + k /\ b <= p + Capacity /\ p < b + Capacity /\ p < e
    BY <1>1, <1>2
  <2>2. p < Len(r.file)
    <3>1. Len(r.file) \in Nat
      BY WindowTypes
    <3>2. QED
      BY <1>2, <2>1, <3>1
  <2> DEFINE spot == Spot(b, a, p)
  <2>3. r.data[spot.arr][spot.off] = r.file[p + 1]
    BY <2>1, <2>2, WindowByte
  <2>4. /\ spot.off = IF b <= p THEN p - b ELSE p - b + Capacity
        /\ spot.arr = IF b <= p THEN a ELSE 1 - a
    BY <1>1, <2>1, SpotPlace
  <2> HIDE DEF spot
  <2>5. byte(k) = r.data[spot.arr][spot.off]
    <3>1. CASE b <= f
      <4>1. b <= p /\ f - b + k <= Capacity /\ f - b + k - 1 = p - b
        BY <1>1, <1>2, <3>1
      <4>2. QED
        BY <1>3, <2>4, <3>1, <4>1
    <3>2. CASE ~(b <= f) /\ ~(b <= p)
      <4>1. f - b + Capacity + k <= Capacity /\ f - b + Capacity + k - 1 = p - b + Capacity
        BY <1>1, <1>2, <3>2
      <4>2. QED
        BY <1>3, <2>4, <3>2, <4>1
    <3>3. CASE ~(b <= f) /\ b <= p
      <4>1. ~(f - b + Capacity + k <= Capacity) /\ f - b + Capacity + k - 1 - Capacity = p - b
        BY <1>1, <1>2, <3>3
      <4>2. QED
        BY <1>3, <2>4, <3>3, <4>1
    <3>4. QED
      BY <3>1, <3>2, <3>3
  <2>6. QED
    BY <2>1, <2>3, <2>5
<1> HIDE DEF size, byte
<1>7. [k \in 1..size |-> byte(k)] = [k \in 1..(e - f) |-> r.file[f + k]]
  BY <1>5, <1>6
<1>8. QED
  BY <1>4, <1>5, <1>7 DEF from, to, Ordered

\* A chunk that is not the first has one before it.
LEMMA ChunkBefore ==
  ASSUME NEW b \in Nat, b % Capacity = 0, b # 0
  PROVE  b - Capacity \in Nat /\ (b - Capacity) % Capacity = 0
<1>1. Capacity \in Nat \ {0}
  BY RingAssumption
<1>2. PICK q \in Nat : b = Capacity * q
  <2>1. /\ b = Capacity * (b \div Capacity) + (b % Capacity)
        /\ b \div Capacity \in Nat
        /\ Capacity * (b \div Capacity) \in Nat
    BY <1>1
  <2>2. b = Capacity * (b \div Capacity)
    BY <2>1
  <2>3. QED
    BY <2>1, <2>2, Zenon
<1>3. q \in Nat \ {0}
  BY <1>1, <1>2
<1>4. PICK d \in Nat : q = d + 1
  BY <1>3
<1>5. b - Capacity = Capacity * d /\ Capacity * d \in Nat
  BY <1>1, <1>2, <1>4
<1>6. (Capacity * d) % Capacity = 0
  BY <1>1, RemainderOf
<1>7. QED
  BY <1>5, <1>6

\* When the loop is left, what lies between the start codes is the unit, and the
\* buffer begins with the next one.
LEMMA ReturnOfUnit ==
  ASSUME NEW m, Film(m), NEW i \in 1..Len(m), NEW r, r.file = FileOf(m),
         NEW place, Scans(r, place, m, i, StartOf(m, i + 1))
  PROVE  LET start == Advance(r, r.begin, m[i].code)
         IN /\ ~Same(place, End(r))
            /\ start.ring = r
            /\ Ordered(start.it, place)
            /\ DataBetween(r, start.it, place) = m[i].bytes
            /\ SetOffect(r, place).file = r.file
            /\ Begins(SetOffect(r, place), StartOf(m, i + 1))
<1> DEFINE e == StartOf(m, i + 1)
<1>1. PICK b, a :
        /\ Window(r, b, a) /\ r.begin = Spot(b, a, StartOf(m, i)) /\ b <= StartOf(m, i) + Capacity
        /\ e \in Chunk(b) /\ place = Spot(b, a, e)
        /\ StartOf(m, i) + m[i].code <= e
  BY DEF Scans
<1>2. m \in Seq(Units) /\ Chunked(m)
  BY FileUnits
<1>3. PICK s \in Nat, c \in 2..4, l \in Nat, N \in Nat :
        /\ s = StartOf(m, i) /\ c = m[i].code /\ l = Len(m[i].bytes) /\ N = Len(r.file)
        /\ e = s + c + l /\ e <= N
  <2>1. /\ StartOf(m, i) \in Nat /\ m[i].code \in 2..4 /\ Len(m[i].bytes) \in Nat
        /\ StartOf(m, i + 1) = StartOf(m, i) + m[i].code + Len(m[i].bytes)
        /\ StartOf(m, i + 1) <= Len(FileOf(m)) /\ Len(FileOf(m)) \in Nat
    BY <1>2, UnitFacts
  <2>2. QED
    BY <2>1
<1>4. Capacity \in Nat \ {0} /\ b \in Nat /\ a \in {0, 1} /\ b % Capacity = 0
  <2>1. b % Capacity = 0
    BY <1>1 DEF Window
  <2>2. QED
    BY <1>1, <2>1, WindowTypes
<1>5. /\ s \in Nat /\ c \in Nat /\ c > 0 /\ l \in Nat /\ e \in Nat /\ e = s + c + l
      /\ b <= s + Capacity /\ b <= e /\ e < b + Capacity
  <2>1. b <= e /\ e < b + Capacity
    BY <1>1 DEF Chunk
  <2>2. s \in Nat /\ c \in 2..4 /\ l \in Nat /\ e = s + c + l /\ b <= s + Capacity
    BY <1>1, <1>3
  <2> HIDE DEF e
  <2>3. QED
    BY <2>1, <2>2
<1> HIDE DEF e
<1>6. Together(b, s, s + c)
  <2>1. CASE b <= s
    BY <1>4, <1>5, <2>1 DEF Together
  <2>2. CASE ~(b <= s)
    <3> DEFINE d == b - Capacity
    <3>1. d \in Nat /\ d % Capacity = 0
      <4>1. b # 0
        BY <1>4, <1>5, <2>2
      <4>2. QED
        BY <1>4, <4>1, ChunkBefore
    <3>2. s \in Chunk(d)
      BY <1>4, <1>5, <2>2 DEF Chunk
    <3>3. s - d + c < Capacity
      <4> HIDE DEF d
      <4>1. QED
        BY <1>2, <1>3, <3>1, <3>2, UnitInChunk
    <3>4. s + c < b
      BY <1>4, <1>5, <3>3
    <3>5. QED
      BY <1>4, <1>5, <3>4 DEF Together
  <2>3. QED
    BY <2>1, <2>2
<1>7. Leads(r, r.begin, m[i].code, Spot(b, a, s + c))
  <2>1. Leads(r, Spot(b, a, s), c, Spot(b, a, s + c))
    BY <1>4, <1>5, <1>6, StepInside
  <2>2. QED
    BY <1>1, <1>3, <2>1
<1>8. ~Same(place, End(r))
  BY <1>1, <1>3, WindowEnd
<1>9. /\ Ordered(Spot(b, a, s + c), place)
      /\ DataBetween(r, Spot(b, a, s + c), place) = [k \in 1..(e - (s + c)) |-> r.file[s + c + k]]
  <2>1. PICK f \in Nat : f = s + c
    BY <1>5
  <2>2. b <= f + Capacity /\ f <= e
    BY <1>4, <1>5, <2>1
  <2>3. e <= Len(r.file) /\ e \in Chunk(b)
    BY <1>1, <1>3
  <2>4. /\ Ordered(Spot(b, a, f), Spot(b, a, e))
        /\ DataBetween(r, Spot(b, a, f), Spot(b, a, e)) = [k \in 1..(e - f) |-> r.file[f + k]]
    BY <1>1, <2>2, <2>3, BetweenSpots
  <2>5. QED
    BY <1>1, <2>1, <2>4
<1>10. [k \in 1..(e - (s + c)) |-> r.file[s + c + k]] = m[i].bytes
  <2>1. e - (s + c) = l
    BY <1>5
  <2>2. \A k \in 1..l : r.file[s + c + k] = m[i].bytes[k]
    <3>1. \A k \in 1..Len(m[i].bytes) : FileOf(m)[StartOf(m, i) + m[i].code + k] = m[i].bytes[k]
      BY <1>2, FileLayout
    <3>2. StartOf(m, i) = s /\ m[i].code = c /\ Len(m[i].bytes) = l /\ FileOf(m) = r.file
      BY <1>3
    <3>3. QED
      BY <3>1, <3>2
  <2>3. m[i].bytes = [k \in 1..l |-> m[i].bytes[k]]
    <3>1. m[i].bytes \in Seq(Nat)
      BY <1>2, UnitFacts
    <3>2. QED
      BY <1>3, <3>1, LenProperties
  <2>4. QED
    BY <2>1, <2>2, <2>3
<1>11. place \in Places
  <2>1. b <= e + Capacity
    BY <1>4, <1>5
  <2>2. QED
    BY <1>1, <1>4, <1>5, <2>1, SpotPlace
<1>12. SetOffect(r, place).file = r.file /\ Begins(SetOffect(r, place), e)
  <2>1. /\ Window(SetOffect(r, place), b, a)
        /\ SetOffect(r, place).file = r.file /\ SetOffect(r, place).begin = place
    BY <1>1, <1>11, WindowOffect
  <2>2. QED
    BY <1>1, <2>1 DEF Begins
<1>13. QED
  BY <1>7, <1>8, <1>9, <1>10, <1>12 DEF Leads, e

\* A call at the end of the file sees what lies behind it.
LEMMA CallAtEnd ==
  ASSUME Capacity > 3, NEW r, Begins(r, Len(r.file))
  PROVE  StartCode(r, r.begin).ring = r /\ StartCode(r, r.begin).length = CodeBehind(r.file)
<1>1. PICK b, a : Window(r, b, a) /\ Len(r.file) \in Chunk(b) /\ r.begin = Spot(b, a, Len(r.file))
  BY DEF Begins
<1>2. QED
  BY <1>1, StartCodeBehind

-----------------------------------------------------------------------------
(* A call for an AAC file.                                                 *)

\* What a pointer sees of the window.
LEMMA ThroughSpot ==
  ASSUME NEW r, NEW b, NEW a, Window(r, b, a), NEW p \in Chunk(b), NEW k \in Nat, p + k < Len(r.file)
  PROVE  Through(r, Spot(b, a, p), k) = IF p + k \in Chunk(b) THEN r.file[p + k + 1] ELSE Beyond
<1>1. Capacity \in Nat \ {0} /\ b \in Nat /\ a \in {0, 1}
  BY WindowTypes
<1>2. p \in Nat /\ b <= p /\ p < b + Capacity
  BY DEF Chunk
<1>3. Spot(b, a, p).off = p - b /\ Spot(b, a, p).arr = a
  BY <1>2 DEF Spot, Place
<1>4. p - b + k < Capacity <=> p + k \in Chunk(b)
  <2>1. p - b + k < Capacity <=> p + k < b + Capacity
    BY <1>1, <1>2
  <2>2. p + k \in Nat /\ b <= p + k
    BY <1>1, <1>2
  <2>3. QED
    BY <2>1, <2>2 DEF Chunk
<1>5. CASE p + k \in Chunk(b)
  <2>1. p - b + k \in Offsets /\ b + (p - b + k) = p + k
    BY <1>1, <1>2, <1>4, <1>5 DEF Offsets
  <2>2. r.data[a][p - b + k] = r.file[p + k + 1]
    BY <2>1 DEF Window
  <2>3. QED
    BY <1>3, <1>4, <1>5, <2>2 DEF Through
<1>6. CASE p + k \notin Chunk(b)
  BY <1>3, <1>4, <1>6 DEF Through
<1>7. QED
  BY <1>5, <1>6

\* At the end of the file it sees what lies behind.
LEMMA ThroughBehind ==
  ASSUME NEW r, Begins(r, Len(r.file))
  PROVE  Through(r, r.begin, 0) = FileAt(r.file, Len(r.file) - 2 * Capacity)
<1>1. PICK b, a : Window(r, b, a) /\ Len(r.file) \in Chunk(b) /\ r.begin = Spot(b, a, Len(r.file))
  BY DEF Begins
<1>2. PICK N \in Nat : N = Len(r.file)
  BY <1>1, WindowTypes
<1>3. Capacity \in Nat \ {0} /\ b \in Nat /\ a \in {0, 1}
  BY <1>1, WindowTypes
<1>4. b <= N /\ N < b + Capacity
  BY <1>1, <1>2 DEF Chunk
<1>5. r.begin.off = N - b /\ r.begin.arr = a
  BY <1>1, <1>2, <1>4 DEF Spot, Place
<1>6. N - b \in Offsets /\ b + (N - b) = N /\ N - b + 0 = N - b /\ N - b < Capacity
  BY <1>3, <1>4 DEF Offsets
<1>7. r.data[a][N - b] = FileAt(r.file, N - 2 * Capacity)
  <2>1. PICK o \in Offsets : o = N - b
    BY <1>6
  <2>2. r.data[a][o] = IF b + o < Len(r.file) THEN r.file[b + o + 1]
                       ELSE FileAt(r.file, b + o - 2 * Capacity)
    BY <1>1 DEF Window
  <2>3. b + o = N /\ ~(N < N)
    BY <1>6, <2>1
  <2>4. b + o - 2 * Capacity = N - 2 * Capacity
    BY <1>3, <1>6, <2>1 DEF Offsets
  <2>5. QED
    BY <1>2, <2>1, <2>2, <2>3, <2>4
<1>8. QED
  BY <1>2, <1>5, <1>6, <1>7 DEF Through

\* With a unit left, the header is that of the unit; what is returned is the
\* unit, as far as the chunk goes; and the buffer goes on with the next one.
LEMMA CallForAccessUnit ==
  ASSUME Capacity > 3, Recording(movie), IsAudio, NEW i \in 1..Len(movie),
         NEW r, r.file = FileOf(movie), Begins(r, StartOf(movie, i))
  PROVE  LET length == AdtsSize + Len(movie[i].bytes)
             body == Advance(r, r.begin, AdtsSize)
             next == Advance(body.ring, r.begin, length)
         IN /\ Through(r, r.begin, 0) = Sync
            /\ Lengths(r, r.begin) = {length}
            /\ [k \in 1..(length - AdtsSize) |-> Through(body.ring, body.it, k - 1)] = AsReturned(i)
            /\ SetOffect(next.ring, next.it).file = r.file
            /\ Begins(SetOffect(next.ring, next.it), StartOf(movie, i + 1))
<1> DEFINE e == StartOf(movie, i + 1)
           bytes == movie[i].bytes
<1>1. PICK b, a :
        Window(r, b, a) /\ StartOf(movie, i) \in Chunk(b) /\ r.begin = Spot(b, a, StartOf(movie, i))
  BY DEF Begins
<1>2. movie \in Seq(Units) /\ Chunked(movie)
  BY FileUnits
<1>3. movie[i].code = 2
  <2>1. movie[i] \in [code : {AdtsSize}, bytes : Seq(Nat)]
    BY ElementOfSeq DEF Recording
  <2>2. QED
    BY <2>1 DEF AdtsSize
<1>4. PICK s \in Nat, l \in Nat, N \in Nat :
        /\ s = StartOf(movie, i) /\ l = Len(bytes) /\ N = Len(r.file)
        /\ l # 0 /\ 2 + l <= Capacity /\ e = s + 2 + l /\ e <= N
  <2>1. /\ StartOf(movie, i) \in Nat /\ Len(movie[i].bytes) \in Nat \ {0}
        /\ StartOf(movie, i + 1) = StartOf(movie, i) + movie[i].code + Len(movie[i].bytes)
        /\ movie[i].code + Len(movie[i].bytes) <= Capacity
        /\ StartOf(movie, i + 1) <= Len(FileOf(movie)) /\ Len(FileOf(movie)) \in Nat
    BY <1>2, UnitFacts
  <2>2. QED
    BY <1>3, <2>1
<1>5. Capacity \in Nat \ {0} /\ b \in Nat /\ a \in {0, 1} /\ 1 - a \in {0, 1} /\ b % Capacity = 0
  <2>1. b % Capacity = 0
    BY <1>1 DEF Window
  <2>2. QED
    BY <1>1, <2>1, WindowTypes
<1>6. /\ s \in Nat /\ l \in Nat /\ l > 0 /\ N \in Nat /\ e \in Nat /\ e = s + 2 + l /\ e <= N
      /\ b <= s /\ s + 2 < b + Capacity /\ 2 + l <= Capacity
  <2>1. b <= s
    BY <1>1, <1>4 DEF Chunk
  <2>2. s - b + 2 < Capacity
    BY <1>1, <1>2, <1>3, <1>4, <1>5, UnitInChunk
  <2>3. s \in Nat /\ l \in Nat /\ l # 0 /\ N \in Nat /\ e = s + 2 + l /\ e <= N /\ 2 + l <= Capacity
    BY <1>4
  <2> HIDE DEF e
  <2>4. QED
    BY <1>5, <2>1, <2>2, <2>3
<1>7. /\ r.file[s + 0 + 1] = Sync /\ r.file[s + 1 + 1] = 2 + l
      /\ \A k \in 1..l : r.file[s + 2 + k] = bytes[k]
  <2>1. /\ \A k \in 1..2 : r.file[s + k] = Prefix(movie[i])[k]
        /\ \A k \in 1..l : r.file[s + 2 + k] = bytes[k]
    <3>1. /\ \A k \in 1..movie[i].code : FileOf(movie)[StartOf(movie, i) + k] = Prefix(movie[i])[k]
          /\ \A k \in 1..Len(movie[i].bytes) :
               FileOf(movie)[StartOf(movie, i) + movie[i].code + k] = movie[i].bytes[k]
      BY <1>2, FileLayout
    <3>2. QED
      BY <1>3, <1>4, <3>1
  <2>2. Prefix(movie[i]) = <<Sync, 2 + l>>
    BY <1>3, <1>4 DEF Prefix, AdtsSize
  <2>3. s + 0 + 1 = s + 1 /\ s + 1 + 1 = s + 2 /\ 1 \in 1..2 /\ 2 \in 1..2
    BY <1>6
  <2>4. QED
    BY <2>1, <2>2, <2>3
<1> HIDE DEF e, bytes
<1>8. s \in Chunk(b) /\ s + 0 \in Chunk(b) /\ s + 1 \in Chunk(b) /\ s + 2 \in Chunk(b)
  BY <1>5, <1>6 DEF Chunk
<1>9. Through(r, r.begin, 0) = Sync /\ Through(r, r.begin, 1) = 2 + l
  <2>1. s + 0 < Len(r.file) /\ s + 1 < Len(r.file)
    <3>1. s + 0 < N /\ s + 1 < N
      BY <1>6
    <3>2. QED
      BY <1>4, <3>1
  <2>2. Through(r, Spot(b, a, s), 0) = r.file[s + 0 + 1]
    BY <1>1, <1>8, <2>1, ThroughSpot
  <2>3. Through(r, Spot(b, a, s), 1) = r.file[s + 1 + 1]
    BY <1>1, <1>8, <2>1, ThroughSpot
  <2>4. QED
    BY <1>1, <1>4, <1>7, <2>2, <2>3
<1>10. Lengths(r, r.begin) = {2 + l}
  <2>1. 2 + l # Beyond
    BY <1>6, BeyondAssumption
  <2>2. QED
    BY <1>9, <2>1 DEF Lengths
<1>11. Leads(r, r.begin, AdtsSize, Spot(b, a, s + 2))
  <2>1. Together(b, s, s + 2) /\ 2 \in Nat
    BY <1>5, <1>6 DEF Together
  <2>2. Leads(r, Spot(b, a, s), 2, Spot(b, a, s + 2))
    BY <1>5, <1>6, <2>1, StepInside
  <2>3. QED
    BY <1>1, <1>4, <2>2 DEF AdtsSize
<1>12. [k \in 1..l |-> Through(r, Spot(b, a, s + 2), k - 1)] = AsReturned(i)
  <2>1. \A k \in 1..l : (s + 2 + k - 1) \div Capacity = (s + 2) \div Capacity
                          <=> (s + 2) + (k - 1) \in Chunk(b)
    <3> SUFFICES ASSUME NEW k \in 1..l
                 PROVE  (s + 2 + k - 1) \div Capacity = (s + 2) \div Capacity
                          <=> (s + 2) + (k - 1) \in Chunk(b)
      OBVIOUS
    <3>1. s + 2 + k - 1 \in Nat /\ s + 2 \in Nat /\ s + 2 + k - 1 = (s + 2) + (k - 1)
      BY <1>6
    <3>2. (s + 2) \div Capacity = b \div Capacity
      BY <1>5, <1>8, <3>1, ChunkOffset
    <3>3. (s + 2 + k - 1) \div Capacity = b \div Capacity <=> s + 2 + k - 1 \in Chunk(b)
      BY <1>5, <3>1, ChunkOffset
    <3>4. QED
      BY <3>1, <3>2, <3>3
  <2>2. \A k \in 1..l : Through(r, Spot(b, a, s + 2), k - 1)
                          = IF (s + 2) + (k - 1) \in Chunk(b) THEN bytes[k] ELSE Beyond
    <3> SUFFICES ASSUME NEW k \in 1..l
                 PROVE  Through(r, Spot(b, a, s + 2), k - 1)
                          = IF (s + 2) + (k - 1) \in Chunk(b) THEN bytes[k] ELSE Beyond
      OBVIOUS
    <3>1. PICK p \in Nat, j \in Nat : p = s + 2 /\ j = k - 1
      BY <1>6
    <3>2. p + j < Len(r.file)
      <4>1. p + j < N
        BY <1>6, <3>1
      <4>2. QED
        BY <1>4, <4>1
    <3>3. Through(r, Spot(b, a, p), j) = IF p + j \in Chunk(b) THEN r.file[p + j + 1] ELSE Beyond
      BY <1>1, <1>8, <3>1, <3>2, ThroughSpot
    <3>4. p + j + 1 = s + 2 + k
      BY <1>6, <3>1
    <3>5. r.file[p + j + 1] = bytes[k]
      BY <1>7, <3>4
    <3>6. QED
      BY <3>1, <3>3, <3>5
  <2>3. AsReturned(i) = [k \in 1..l |->
                           IF (s + 2 + k - 1) \div Capacity = (s + 2) \div Capacity
                             THEN bytes[k] ELSE Beyond]
    <3>1. DOMAIN bytes = 1..l
      <4>1. bytes \in Seq(Nat)
        BY <1>2, UnitFacts DEF bytes
      <4>2. QED
        BY <1>4, <4>1, LenProperties
    <3>2. QED
      BY <1>3, <1>4, <3>1 DEF AsReturned, bytes
  <2>4. QED
    BY <2>1, <2>2, <2>3
<1>13. LET next == Advance(r, r.begin, 2 + l)
       IN SetOffect(next.ring, next.it).file = r.file /\ Begins(SetOffect(next.ring, next.it), e)
  <2>1. CASE e < b + Capacity
    <3>1. Together(b, s, s + (2 + l)) /\ 2 + l \in Nat /\ s + (2 + l) = e /\ b <= e + Capacity
      BY <1>5, <1>6, <2>1 DEF Together
    <3>2. Leads(r, r.begin, 2 + l, Spot(b, a, e))
      <4>1. Leads(r, Spot(b, a, s), 2 + l, Spot(b, a, s + (2 + l)))
        BY <1>5, <1>6, <3>1, StepInside
      <4>2. QED
        BY <1>1, <1>4, <3>1, <4>1
    <3>3. Spot(b, a, e) \in Places
      BY <1>5, <1>6, <2>1, <3>1, SpotPlace
    <3>4. /\ Window(SetOffect(r, Spot(b, a, e)), b, a)
          /\ SetOffect(r, Spot(b, a, e)).file = r.file
          /\ SetOffect(r, Spot(b, a, e)).begin = Spot(b, a, e)
      BY <1>1, <3>3, WindowOffect
    <3>5. e \in Chunk(b)
      BY <1>5, <1>6, <2>1 DEF Chunk
    <3>6. QED
      BY <3>2, <3>4, <3>5 DEF Leads, Begins
  <2>2. CASE ~(e < b + Capacity)
    <3> DEFINE next == Advance(r, Spot(b, a, s), 2 + l)
    <3>1. /\ b + Capacity <= s + (2 + l) /\ s + (2 + l) = e /\ 2 + l \in 0..Capacity
          /\ b + Capacity <= e /\ e < (b + Capacity) + Capacity /\ b + Capacity \in Nat
          /\ b + Capacity <= e + Capacity
      BY <1>5, <1>6, <2>2
    <3>2. ~r.eof
      <4>1. r.eof => N < b + Capacity
        BY <1>1, <1>4 DEF Window
      <4>2. QED
        BY <1>5, <1>6, <3>1, <4>1
    <3>3. /\ Window(next.ring, b + Capacity, 1 - a)
          /\ next.ring.file = r.file
          /\ next.it = Spot(b + Capacity, 1 - a, e)
      <4>1. PICK k \in 0..Capacity : k = 2 + l
        BY <3>1
      <4>2. b + Capacity <= s + k
        BY <3>1, <4>1
      <4>3. /\ Window(Advance(r, Spot(b, a, s), k).ring, b + Capacity, 1 - a)
            /\ Advance(r, Spot(b, a, s), k).ring.file = r.file
            /\ Advance(r, Spot(b, a, s), k).it = Spot(b + Capacity, 1 - a, s + k)
        BY <1>1, <1>8, <3>2, <4>2, StepAcross
      <4>4. QED
        BY <3>1, <4>1, <4>3
    <3> HIDE DEF next
    <3>4. next.it \in Places
      <4>1. PICK d \in Nat : d = b + Capacity
        BY <3>1
      <4>2. d <= e + Capacity /\ e < d + Capacity
        BY <3>1, <4>1
      <4>3. Spot(d, 1 - a, e) \in Places
        BY <1>5, <1>6, <4>2, SpotPlace
      <4>4. QED
        BY <3>3, <4>1, <4>3
    <3>5. /\ Window(SetOffect(next.ring, next.it), b + Capacity, 1 - a)
          /\ SetOffect(next.ring, next.it).file = r.file
          /\ SetOffect(next.ring, next.it).begin = next.it
      BY <3>3, <3>4, WindowOffect
    <3>6. e \in Chunk(b + Capacity)
      BY <1>6, <3>1 DEF Chunk
    <3>7. Begins(SetOffect(next.ring, next.it), e)
      BY <3>3, <3>5, <3>6 DEF Begins
    <3>8. QED
      BY <1>1, <1>4, <3>5, <3>7 DEF next
  <2>3. QED
    BY <2>1, <2>2
<1>14. QED
  <2>1. AdtsSize + Len(movie[i].bytes) = 2 + l /\ (2 + l) - AdtsSize = l
    BY <1>4, <1>6 DEF AdtsSize, bytes
  <2>2. Advance(r, r.begin, AdtsSize) = [ring |-> r, it |-> Spot(b, a, s + 2)]
    BY <1>11 DEF Leads
  <2>3. QED
    BY <1>9, <1>10, <1>12, <1>13, <2>1, <2>2 DEF e

-----------------------------------------------------------------------------
(* The invariant.                                                          *)

\* A call is, or the next one will be, for unit i of m: the buffer begins with it,
\* and what the call has found so far is in it.  After the last unit, i is one
\* more than there are.
InFile(m, r, place, phase, code, i) ==
  /\ r.file = FileOf(m)
  /\ i \in 1..(Len(m) + 1)
  /\ phase = "call" => Begins(r, StartOf(m, i))
  /\ phase # "call" =>
       /\ i \in 1..Len(m) /\ code = m[i].code
       /\ \E q : /\ Scans(r, place, m, i, q)
                 /\ phase = "found" => q = StartOf(m, i + 1)

\* As long as a unit is left, and for ever when nothing that looks like one lies
\* behind the last.
Reading == Len(returned) < Len(movie) \/ ~StaleStart

ReadingInv ==
  /\ FramesOfFile
  /\ NothingLeft
  /\ IsAudio => at = "call"
  /\ Reading => InFile(movie, ring, it, at, off, Len(returned) + 1)

\* What a step of a call does then: it returns the unit that comes next, or goes
\* on, and has nothing to return only after the last.
ReturnsUnit ==
  /\ Len(returned) + 1 \in 1..Len(movie)
  /\ returned' = Append(returned, AsReturned(Len(returned) + 1))
  /\ last' = "frame"
  /\ InFile(movie, ring', it', at', off', (Len(returned) + 1) + 1)

GoesOn ==
  /\ UNCHANGED returned
  /\ UNCHANGED last \/ Len(returned) >= Len(movie)
  /\ InFile(movie, ring', it', at', off', Len(returned) + 1)

\* That is enough for the invariant, whatever a step does when what is stale was
\* taken for a unit.
LEMMA ReadingKept ==
  ASSUME SourceInv, SourceInv', ReadingInv, UNCHANGED movie, Len(movie) \in Nat,
         DOMAIN movie = 1..Len(movie),
         IsAudio => at' = "call",
         UNCHANGED returned \/ \E frame : returned' = Append(returned, frame),
         Reading => ReturnsUnit \/ GoesOn
  PROVE  ReadingInv'
<1>1. PICK n \in Nat, k \in Nat, M \in Nat :
        /\ n = Len(returned) /\ DOMAIN returned = 1..n
        /\ k = Len(returned') /\ DOMAIN returned' = 1..k
        /\ M = Len(movie)
  BY LenProperties DEF SourceInv
<1>2. /\ IsAudio' <=> IsAudio
      /\ StaleStart' <=> StaleStart
      /\ \A i : AsReturned(i)' = AsReturned(i)
  BY DEF IsAudio, StaleStart, AsReturned, StartOf, FileOf, Prefix
<1>3. /\ k = n \/ k = n + 1
      /\ \A i \in 1..n : returned'[i] = returned[i]
  <2>1. CASE UNCHANGED returned
    BY <1>1, <2>1
  <2>2. ASSUME NEW frame, returned' = Append(returned, frame)
        PROVE  k = n + 1 /\ \A i \in 1..n : returned'[i] = returned[i]
    <3>1. returned \in Seq(FrameTypes)
      BY DEF SourceInv
    <3>2. QED
      BY <1>1, <2>2, <3>1
  <2>3. QED
    BY <2>1, <2>2
<1>4. n >= M \/ ReturnsUnit \/ GoesOn
  BY <1>1 DEF Reading
<1>5. FramesOfFile'
  <2>1. \A i \in 1..n : i \in 1..M => returned'[i] = AsReturned(i)
    BY <1>1, <1>3 DEF ReadingInv, FramesOfFile
  <2>2. CASE UNCHANGED returned
    BY <1>1, <1>2, <2>1, <2>2 DEF FramesOfFile
  <2>3. CASE n >= M
    <3>1. \A i \in 1..M : i \in 1..n
      BY <2>3
    <3>2. QED
      BY <1>1, <1>2, <2>1, <3>1 DEF FramesOfFile
  <2>4. CASE ReturnsUnit
    <3>1. returned \in Seq(FrameTypes) /\ returned' = Append(returned, AsReturned(Len(returned) + 1))
      BY <2>4 DEF ReturnsUnit, SourceInv
    <3>2. k = n + 1 /\ returned'[n + 1] = AsReturned(n + 1)
      BY <1>1, <3>1
    <3>3. \A i \in 1..k : i \in 1..n \/ i = n + 1
      BY <3>2
    <3>4. QED
      BY <1>1, <1>2, <2>1, <3>2, <3>3 DEF FramesOfFile
  <2>5. QED
    BY <1>4, <2>2, <2>3, <2>4 DEF GoesOn
<1>6. NothingLeft'
  <2>1. CASE n >= M
    <3>1. k >= M
      BY <1>3, <2>1
    <3>2. QED
      BY <1>1, <3>1 DEF NothingLeft
  <2>2. CASE ReturnsUnit
    BY <2>2 DEF ReturnsUnit, NothingLeft
  <2>3. CASE GoesOn /\ ~(n >= M)
    <3>1. UNCHANGED <<last, returned>>
      BY <1>1, <2>3 DEF GoesOn
    <3>2. QED
      BY <3>1 DEF NothingLeft, ReadingInv
  <2>4. QED
    BY <1>4, <2>1, <2>2, <2>3
<1>7. (IsAudio => at = "call")'
  BY <1>2
<1>8. (Reading => InFile(movie, ring, it, at, off, Len(returned) + 1))'
  <2>1. Reading' => Reading
    <3>1. k < M => n < M
      BY <1>3
    <3>2. QED
      BY <1>1, <1>2, <3>1 DEF Reading
  <2>2. CASE ReturnsUnit
    <3>1. returned \in Seq(FrameTypes) /\ returned' = Append(returned, AsReturned(Len(returned) + 1))
      BY <2>2 DEF ReturnsUnit, SourceInv
    <3>2. Len(returned') = Len(returned) + 1
      BY <3>1
    <3>3. InFile(movie', ring', it', at', off', Len(returned') + 1)
      BY <2>2, <3>2 DEF ReturnsUnit
    <3>4. QED
      BY <3>3
  <2>3. CASE GoesOn
    <3>1. InFile(movie', ring', it', at', off', Len(returned') + 1)
      BY <2>3 DEF GoesOn
    <3>2. QED
      BY <3>1
  <2>4. QED
    BY <2>1, <2>2, <2>3
<1>9. QED
  BY <1>5, <1>6, <1>7, <1>8 DEF ReadingInv

\* The step of a call for an H.264 file that looks for the start code at the
\* beginning.
LEMMA CallStep ==
  ASSUME Capacity > 3, Film(movie), ~IsAudio, SourceInv, ReadingInv, Reading, Call
  PROVE  GoesOn
<1> DEFINE i == Len(returned) + 1
           code == StartCode(ring, ring.begin)
           next == Advance(code.ring, ring.begin, code.length)
<1>1. InFile(movie, ring, it, at, off, i) /\ at = "call"
  BY DEF ReadingInv, Call
<1>2. ring.file = FileOf(movie) /\ i \in 1..(Len(movie) + 1) /\ Begins(ring, StartOf(movie, i))
  BY <1>1 DEF InFile
<1>3. Len(returned) \in Nat /\ Len(movie) \in Nat /\ movie \in Seq(Units)
  BY LenProperties, FileUnits DEF SourceInv
<1>4. CASE i \in 1..Len(movie)
  <2> DEFINE step == Advance(ring, ring.begin, movie[i].code)
             q == StartOf(movie, i) + movie[i].code
  <2>1. /\ ~Same(ring.begin, End(ring))
        /\ code.ring = ring /\ code.length = movie[i].code
        /\ step.ring = ring
        /\ Scans(ring, step.it, movie, i, q)
    BY <1>2, <1>4, CallForUnit
  <2>2. movie[i].code # 0
    <3>1. movie[i].code \in {3, 4}
      BY <1>4, FilmCodes
    <3>2. QED
      BY <3>1
  <2>3. \/ Same(ring.begin, End(ring))
        \/ code.length = 0
        \/ /\ ring' = next.ring /\ it' = next.it /\ off' = code.length
           /\ at' = "scan" /\ UNCHANGED <<returned, last>>
    BY Zenon DEF Call
  <2>4. next = step
    BY <2>1
  <2> HIDE DEF code, next, step
  <2>5. /\ ring' = ring /\ it' = step.it /\ off' = movie[i].code
        /\ at' = "scan" /\ UNCHANGED <<returned, last>>
    BY <2>1, <2>2, <2>3, <2>4
  <2> HIDE DEF q
  <2>6. InFile(movie, ring', it', at', off', i)
    BY <1>2, <1>4, <2>1, <2>5 DEF InFile
  <2>7. QED
    BY <2>5, <2>6 DEF GoesOn
<1>5. CASE i \notin 1..Len(movie)
  <2>1. i = Len(movie) + 1 /\ Len(returned) >= Len(movie) /\ ~(Len(returned) < Len(movie))
    BY <1>2, <1>3, <1>5
  <2>2. StartOf(movie, i) = Len(ring.file)
    BY <1>2, <1>3, <2>1, FileLayout
  <2>3. code.ring = ring /\ code.length = CodeBehind(ring.file)
    BY <1>2, <2>2, CallAtEnd
  <2>4. CodeBehind(FileOf(movie)) = 0
    <3>1. FileOf(movie) \in Seq(Nat) /\ ~StaleStart
      BY <2>1, FileUnits DEF Reading
    <3>2. QED
      BY <3>1, StaleBytes
  <2>5. \/ Nothing(ring) /\ CallEnds
        \/ Nothing(code.ring) /\ CallEnds
        \/ code.length # 0
    BY Zenon DEF Call
  <2> HIDE DEF code
  <2>6. Nothing(ring) /\ CallEnds
    BY <1>2, <2>3, <2>4, <2>5
  <2>7. ring' = ring /\ at' = "call" /\ UNCHANGED returned
    BY <2>6 DEF Nothing, CallEnds
  <2>8. InFile(movie, ring', it', at', off', i)
    BY <1>2, <2>7 DEF InFile
  <2>9. QED
    BY <2>1, <2>7, <2>8 DEF GoesOn
<1>6. QED
  BY <1>4, <1>5

\* A turn of the loop stays in the unit, and leaves the loop behind it.
LEMMA ScanStep ==
  ASSUME Capacity > 3, Film(movie), ~IsAudio, SourceInv, ReadingInv, Reading, Scan
  PROVE  GoesOn
<1> DEFINE i == Len(returned) + 1
           N == Len(FileOf(movie))
           code == StartCode(ring, it)
           next == Advance(code.ring, it, 1)
<1>1. InFile(movie, ring, it, at, off, i) /\ at = "scan"
  BY DEF ReadingInv, Scan
<1>2. /\ ring.file = FileOf(movie) /\ i \in 1..Len(movie) /\ off = movie[i].code
      /\ i \in 1..(Len(movie) + 1)
  BY <1>1 DEF InFile
<1>3. PICK q : Scans(ring, it, movie, i, q)
  BY <1>1 DEF InFile
<1>4. /\ q \in Nat /\ q <= StartOf(movie, i + 1) /\ StartOf(movie, i) + movie[i].code <= q
      /\ Differ(it, End(ring)) <=> q < N
      /\ q < N => code.ring = ring /\ code.length = CodeIn(FileOf(movie), q)
      /\ q < StartOf(movie, i + 1)
           => /\ Advance(ring, it, 1).ring.file = ring.file
              /\ Scans(Advance(ring, it, 1).ring, Advance(ring, it, 1).it, movie, i, q + 1)
  BY <1>2, <1>3, TurnInUnit
<1>5. /\ movie \in Seq(Units) /\ Chunked(movie) /\ Len(movie) \in Nat /\ N \in Nat
      /\ StartOf(movie, i + 1) \in Nat /\ StartOf(movie, i + 1) <= N
  BY <1>2, FileUnits, UnitFacts
<1>6. /\ \/ /\ Differ(it, End(ring)) /\ code.length = 0
            /\ ring' = next.ring /\ it' = next.it /\ UNCHANGED at
         \/ /\ ~(Differ(it, End(ring)) /\ code.length = 0)
            /\ ring' = IF Differ(it, End(ring)) THEN code.ring ELSE ring
            /\ at' = "found" /\ UNCHANGED it
      /\ UNCHANGED <<off, returned, last>>
  BY Zenon DEF Scan
<1>7. CASE q < StartOf(movie, i + 1)
  <2>1. q < N
    BY <1>4, <1>5, <1>7
  <2>2. CodeIn(FileOf(movie), q) = 0
    BY <1>2, <1>4, <1>7, FilmCodes
  <2>3. next = Advance(ring, it, 1)
    BY <1>4, <2>1
  <2> HIDE DEF next, code, N
  <2>4. ring' = next.ring /\ it' = next.it /\ at' = at
    BY <1>4, <1>6, <2>1, <2>2
  <2>5. Scans(ring', it', movie, i, q + 1) /\ ring'.file = FileOf(movie)
    BY <1>2, <1>4, <1>7, <2>3, <2>4
  <2> HIDE DEF i
  <2>6. InFile(movie, ring', it', at', off', i)
    BY <1>1, <1>2, <1>6, <2>4, <2>5 DEF InFile
  <2>7. QED
    BY <1>6, <2>6 DEF GoesOn, i
<1>8. CASE ~(q < StartOf(movie, i + 1))
  <2>1. q = StartOf(movie, i + 1)
    BY <1>4, <1>5, <1>8
  <2>2. q < N => CodeIn(FileOf(movie), q) # 0
    <3>1. SUFFICES ASSUME q < N PROVE CodeIn(FileOf(movie), q) # 0
      OBVIOUS
    <3>2. i # Len(movie)
      <4>1. StartOf(movie, Len(movie) + 1) = N
        BY <1>5, FileLayout
      <4>2. QED
        BY <1>5, <2>1, <3>1, <4>1
    <3>3. i + 1 \in 1..Len(movie)
      BY <1>2, <1>5, <3>2
    <3>4. /\ movie[i + 1].code \in {3, 4}
          /\ CodeIn(FileOf(movie), StartOf(movie, i + 1)) = movie[i + 1].code
      BY <3>3, FilmCodes
    <3>5. QED
      BY <2>1, <3>4
  <2> HIDE DEF next, code, N
  <2>3. ring' = ring /\ at' = "found" /\ it' = it
    BY <1>4, <1>6, <2>2
  <2> HIDE DEF i
  <2>4. InFile(movie, ring', it', at', off', i)
    BY <1>2, <1>3, <1>6, <2>1, <2>3 DEF InFile
  <2>5. QED
    BY <1>6, <2>4 DEF GoesOn, i
<1>9. QED
  BY <1>7, <1>8

\* Behind the loop, the unit is returned.
LEMMA ReturnStep ==
  ASSUME Film(movie), ~IsAudio, SourceInv, ReadingInv, Reading, Return
  PROVE  ReturnsUnit
<1> DEFINE i == Len(returned) + 1
           start == Advance(ring, ring.begin, off)
<1>1. InFile(movie, ring, it, at, off, i) /\ at = "found"
  BY DEF ReadingInv, Return
<1>2. /\ ring.file = FileOf(movie) /\ i \in 1..Len(movie) /\ off = movie[i].code
      /\ Scans(ring, it, movie, i, StartOf(movie, i + 1))
  BY <1>1 DEF InFile
<1>3. /\ ~Same(it, End(ring))
      /\ start.ring = ring
      /\ Ordered(start.it, it)
      /\ DataBetween(ring, start.it, it) = movie[i].bytes
      /\ SetOffect(ring, it).file = ring.file
      /\ Begins(SetOffect(ring, it), StartOf(movie, i + 1))
  BY <1>2, ReturnOfUnit
<1>4. /\ CallEnds
      /\ \/ Same(it, End(ring))
         \/ ~Ordered(start.it, it)
         \/ Frame(SetOffect(start.ring, it), DataBetween(start.ring, start.it, it))
  BY Zenon DEF Return
<1> HIDE DEF start
<1>5. Frame(SetOffect(ring, it), movie[i].bytes)
  BY <1>3, <1>4
<1>6. movie[i].bytes # <<>> /\ AsReturned(i) = movie[i].bytes /\ Len(movie) \in Nat
  <2>1. Chunked(movie) /\ DOMAIN movie = 1..Len(movie) /\ Len(movie) \in Nat
    BY FileUnits, LenProperties
  <2>2. movie[i].bytes # <<>>
    BY <1>2, <2>1 DEF Chunked
  <2>3. QED
    BY <2>1, <2>2 DEF AsReturned
<1>7. /\ ring' = SetOffect(ring, it) /\ last' = "frame" /\ at' = "call"
      /\ returned' = Append(returned, AsReturned(i))
  BY <1>4, <1>5, <1>6 DEF Frame, CallEnds
<1>8. InFile(movie, ring', it', at', off', i + 1)
  <2>1. i + 1 \in 1..(Len(movie) + 1)
    BY <1>2, <1>6
  <2> HIDE DEF i
  <2>2. QED
    BY <1>2, <1>3, <1>7, <2>1 DEF InFile
<1>9. QED
  BY <1>2, <1>7, <1>8 DEF ReturnsUnit

\* A call for an AAC file.
LEMMA AudioStep ==
  ASSUME Capacity > 3, Recording(movie), IsAudio, SourceInv, ReadingInv, Reading,
         GetFrameFromFile, UNCHANGED scanVars
  PROVE  ReturnsUnit \/ GoesOn
<1> DEFINE i == Len(returned) + 1
<1>1. InFile(movie, ring, it, at, off, i) /\ at = "call" /\ at' = "call"
  BY DEF ReadingInv, scanVars
<1>2. ring.file = FileOf(movie) /\ i \in 1..(Len(movie) + 1) /\ Begins(ring, StartOf(movie, i))
  BY <1>1 DEF InFile
<1>3. Len(returned) \in Nat /\ Len(movie) \in Nat /\ movie \in Seq(Units) /\ Chunked(movie)
  BY LenProperties, FileUnits DEF SourceInv
<1>4. CASE i \in 1..Len(movie)
  <2> DEFINE body == Advance(ring, ring.begin, AdtsSize)
             next(length) == Advance(body.ring, ring.begin, length)
             frame(length) == [k \in 1..(length - AdtsSize) |-> Through(body.ring, body.it, k - 1)]
             size == AdtsSize + Len(movie[i].bytes)
  <2>1. /\ Through(ring, ring.begin, 0) = Sync
        /\ Lengths(ring, ring.begin) = {size}
        /\ frame(size) = AsReturned(i)
        /\ SetOffect(next(size).ring, next(size).it).file = ring.file
        /\ Begins(SetOffect(next(size).ring, next(size).it), StartOf(movie, i + 1))
    BY <1>2, <1>4, CallForAccessUnit
  <2>2. \/ Through(ring, ring.begin, 0) # Sync
        \/ \E length \in Lengths(ring, ring.begin) :
             Frame(SetOffect(next(length).ring, next(length).it), frame(length))
    BY Zenon DEF GetFrameFromFile
  <2>3. AsReturned(i) # <<>>
    <3>1. Len(movie[i].bytes) \in Nat \ {0} /\ movie[i].bytes \in Seq(Nat)
      BY <1>3, <1>4, UnitFacts
    <3>2. DOMAIN AsReturned(i) = DOMAIN movie[i].bytes
      BY DEF AsReturned
    <3>3. DOMAIN movie[i].bytes = 1..Len(movie[i].bytes) /\ 1 \in 1..Len(movie[i].bytes)
      BY <3>1, LenProperties
    <3>4. QED
      BY <3>2, <3>3
  <2> HIDE DEF body, next, frame, size
  <2>4. Frame(SetOffect(next(size).ring, next(size).it), AsReturned(i))
    BY <2>1, <2>2
  <2>5. /\ ring' = SetOffect(next(size).ring, next(size).it) /\ last' = "frame"
        /\ returned' = Append(returned, AsReturned(i))
    BY <2>3, <2>4 DEF Frame
  <2>6. InFile(movie, ring', it', at', off', i + 1)
    <3>1. i + 1 \in 1..(Len(movie) + 1)
      BY <1>3, <1>4
    <3> HIDE DEF i
    <3>2. QED
      BY <1>1, <1>2, <2>1, <2>5, <3>1 DEF InFile
  <2>7. QED
    BY <1>4, <2>5, <2>6 DEF ReturnsUnit
<1>5. CASE i \notin 1..Len(movie)
  <2>1. i = Len(movie) + 1 /\ Len(returned) >= Len(movie) /\ ~(Len(returned) < Len(movie))
    BY <1>2, <1>3, <1>5
  <2>2. StartOf(movie, i) = Len(ring.file)
    BY <1>2, <1>3, <2>1, FileLayout
  <2>3. Through(ring, ring.begin, 0) = FileAt(FileOf(movie), Len(FileOf(movie)) - 2 * Capacity)
    BY <1>2, <2>2, ThroughBehind
  <2>4. Through(ring, ring.begin, 0) # Sync
    <3>1. FileOf(movie) \in Seq(Nat) /\ ~StaleStart
      BY <2>1, FileUnits DEF Reading
    <3>2. QED
      BY <2>3, <3>1, StaleBytes
  <2>5. Nothing(ring)
    BY <2>4, Zenon DEF GetFrameFromFile
  <2>6. ring' = ring /\ UNCHANGED returned
    BY <2>5 DEF Nothing
  <2>7. InFile(movie, ring', it', at', off', i)
    BY <1>1, <1>2, <2>6 DEF InFile
  <2>8. QED
    BY <2>1, <2>6, <2>7 DEF GoesOn
<1>6. QED
  BY <1>4, <1>5

\* Every step of the source is one of these, and none but a call takes one.
LEMMA ReadingInvStep ==
  ASSUME Capacity > 3, Film(movie) \/ Recording(movie), SourceInv, SourceInv', ReadingInv,
         [Next]_vars
  PROVE  ReadingInv'
<1>1. DOMAIN movie = 1..Len(movie) /\ Len(movie) \in Nat
  BY FileUnits, LenProperties
<1>2. CASE Take /\ IsAudio
  <2>1. GetFrameFromFile /\ UNCHANGED <<movie, at>> /\ UNCHANGED scanVars
    BY <1>2 DEF Take, scanVars
  <2>2. Recording(movie) /\ at' = "call"
    BY <1>2, <2>1, FileKinds DEF ReadingInv
  <2>3. UNCHANGED returned \/ \E frame : returned' = Append(returned, frame)
    BY <1>2, ReturnedGrows
  <2>4. Reading => ReturnsUnit \/ GoesOn
    BY <1>2, <2>1, <2>2, AudioStep
  <2>5. QED
    BY <1>1, <2>1, <2>2, <2>3, <2>4, ReadingKept
<1>3. CASE Take /\ ~IsAudio
  <2>1. (Call \/ Scan \/ Return) /\ UNCHANGED movie
    BY <1>3 DEF Take
  <2>2. Film(movie)
    BY <1>3, FileKinds
  <2>3. UNCHANGED returned \/ \E frame : returned' = Append(returned, frame)
    BY <1>3, ReturnedGrows
  <2>4. Reading => ReturnsUnit \/ GoesOn
    BY <1>3, <2>1, <2>2, CallStep, ScanStep, ReturnStep
  <2>5. QED
    BY <1>1, <1>3, <2>1, <2>3, <2>4, ReadingKept
<1>4. CASE UNCHANGED <<movie, ring, returned, last, at, it, off>>
  <2>1. Reading => GoesOn
    BY <1>4 DEF ReadingInv, GoesOn
  <2>2. IsAudio => at' = "call"
    BY <1>4 DEF ReadingInv
  <2>3. QED
    BY <1>1, <1>4, <2>1, <2>2, ReadingKept
<1>5. Take \/ UNCHANGED <<movie, ring, returned, last, at, it, off>>
  BY DEF Next, HandleTimeout, Arrive, Enough, vars, sourceVars, scanVars
<1>6. QED
  BY <1>2, <1>3, <1>4, <1>5

\* The constructor reads the first chunk, and no call was made.
LEMMA ReadingInvInit ==
  ASSUME Init, Film(movie) \/ Recording(movie)
  PROVE  ReadingInv
<1>1. /\ ring = NewRing(FileOf(movie)) /\ returned = <<>> /\ last = "none" /\ at = "call"
      /\ movie \in Seq(Units) /\ Len(movie) \in Nat /\ FileOf(movie) \in Seq(Nat)
  BY FileUnits DEF Init, SourceInit, ScanInit
<1>2. Begins(ring, StartOf(movie, 1)) /\ ring.file = FileOf(movie)
  <2>1. StartOf(movie, 1) = 0 /\ 0 \in Chunk(0) /\ Spot(0, 0, 0) = Place(0, 0)
    BY <1>1, FileLayout, RingAssumption DEF Chunk, Spot
  <2>2. Window(ring, 0, 0) /\ ring.file = FileOf(movie) /\ ring.begin = Place(0, 0)
    BY <1>1, FirstWindow
  <2>3. QED
    BY <2>1, <2>2 DEF Begins
<1>3. Len(returned) + 1 = 1 /\ 1 \in 1..(Len(movie) + 1) /\ DOMAIN returned = {}
  BY <1>1
<1>4. InFile(movie, ring, it, at, off, Len(returned) + 1)
  BY <1>1, <1>2, <1>3 DEF InFile
<1>5. QED
  BY <1>1, <1>3, <1>4 DEF ReadingInv, FramesOfFile, NothingLeft

\* The file is the same all the time.
LEMMA MovieStays ==
  Spec => [](movie \in Movies)
<1>1. Init => movie \in Movies
  BY DEF Init
<1>2. movie \in Movies /\ [Next]_vars => (movie \in Movies)'
  BY DEF Next, Take, HandleTimeout, Arrive, Enough, vars
<1>3. QED
  BY <1>1, <1>2, PTL DEF Spec

\* The invariant holds for films and recordings, whatever is in them and however
\* long a chunk is.
LEMMA ReadingInvariant ==
  ASSUME Capacity > 3, \A m \in Movies : Film(m) \/ Recording(m)
  PROVE  Spec => [](ReadingInv /\ movie \in Movies)
<1>1. Init => ReadingInv
  BY ReadingInvInit DEF Init
<1>2. movie \in Movies /\ MediaInv /\ MediaInv' /\ ReadingInv /\ [Next]_vars => ReadingInv'
  BY ReadingInvStep DEF MediaInv
<1>3. QED
  BY <1>1, <1>2, MovieStays, MediaInvariant, PTL DEF Spec

-----------------------------------------------------------------------------
(* What follows.                                                           *)

\* "Read one frame from file" (H264MediaSource.h:27, AACMediaSource.h:59): the
\* frames are the units of the file, in order and byte for byte, for every film
\* and recording and every length of a chunk; an AAC frame that the end of a
\* chunk cuts is torn there, but none after it.
THEOREM FramesOfFileHolds ==
  ASSUME Capacity > 3, \A m \in Movies : Film(m) \/ Recording(m)
  PROVE  Spec => []FramesOfFile
<1>1. ReadingInv => FramesOfFile
  BY DEF ReadingInv
<1>2. QED
  BY <1>1, ReadingInvariant, PTL

\* GetFrameFromFile returns nothing only when every unit was returned: no chunk is
\* passed over, and the frame that the end of the file ends is not dropped.
THEOREM NothingLeftHolds ==
  ASSUME Capacity > 3, \A m \in Movies : Film(m) \/ Recording(m)
  PROVE  Spec => []NothingLeft
<1>1. ReadingInv => NothingLeft
  BY DEF ReadingInv
<1>2. QED
  BY <1>1, ReadingInvariant, PTL

\* However often the timer asks behind the end of the file, nothing more comes,
\* unless what lies there looks like the start of a unit.
THEOREM NothingAddedHolds ==
  ASSUME Capacity > 3, \A m \in Movies : Film(m) \/ Recording(m)
  PROVE  Spec => []NothingAdded
<1>1. ASSUME MediaInv, ReadingInv, movie \in Movies PROVE NothingAdded
  <2>1. SUFFICES ASSUME ~StaleStart PROVE Len(returned) <= Len(movie)
    BY DEF NothingAdded
  <2>2. Len(returned) + 1 \in 1..(Len(movie) + 1)
    BY <1>1, <2>1 DEF ReadingInv, Reading, InFile
  <2>3. Len(returned) \in Nat /\ Len(movie) \in Nat
    BY <1>1, FileUnits, LenProperties DEF MediaInv, SourceInv
  <2>4. QED
    BY <2>2, <2>3
<1>2. QED
  BY <1>1, MediaInvariant, ReadingInvariant, PTL

-----------------------------------------------------------------------------
(* Types and sizes for AAC files.  (MediaPathProofs has those for H.264.)  *)

\* An AAC frame is one packet; its source has no use for the iterator of a scan.
AudioInv ==
  IsAudio =>
    /\ it = Place(0, 0)
    /\ sent = <<>> \/ \E p : sent = <<p>> /\ p.size = AuHeader + Len(p.data)

\* Only handleTimeout sends.
LEMMA AudioInvariant ==
  Spec => []AudioInv
<1>1. Init => AudioInv
  BY DEF Init, ScanInit, SinkInit, AudioInv
<1>2. ASSUME AudioInv, [Next]_vars PROVE AudioInv'
  <2>1. IsAudio' <=> IsAudio
    BY <1>2 DEF Next, Take, HandleTimeout, Arrive, Enough, vars, IsAudio
  <2>2. SUFFICES ASSUME IsAudio
                 PROVE  /\ it' = Place(0, 0)
                        /\ sent' = <<>> \/ \E p : sent' = <<p>> /\ p.size = AuHeader + Len(p.data)
    BY <2>1 DEF AudioInv
  <2>3. CASE HandleTimeout
    <3> DEFINE frame == returned[shown + 1]
               packet == [seq |-> seq, timestamp |-> timestamp, kind |-> "au", type |-> 0,
                          start |-> TRUE, end |-> TRUE, data |-> frame, size |-> AuHeader + Len(frame)]
    <3>1. sent' = <<packet>> /\ UNCHANGED it
      BY <2>2, <2>3 DEF HandleTimeout, SendAccessUnit, scanVars
    <3>2. packet.size = AuHeader + Len(packet.data)
      OBVIOUS
    <3> HIDE DEF packet
    <3>3. QED
      BY <1>2, <2>2, <3>1, <3>2 DEF AudioInv
  <2>4. CASE ~HandleTimeout
    <3>1. UNCHANGED <<it, sent>>
      BY <1>2, <2>2, <2>4 DEF Next, Take, Arrive, Enough, vars, scanVars, sinkVars
    <3>2. QED
      BY <1>2, <2>2, <3>1 DEF AudioInv
  <2>5. QED
    BY <2>3, <2>4
<1>3. QED
  BY <1>1, <1>2, PTL DEF Spec

\* The frames of an AAC file are as long as its units, as long as there are any.
LEMMA AudioFrames ==
  ASSUME MediaInv, ReadingInv, Recording(movie), IsAudio, ~StaleStart,
         NEW i \in 1..Len(returned)
  PROVE  i \in DOMAIN movie /\ Len(returned[i]) = Len(movie[i].bytes)
<1>1. Len(returned) + 1 \in 1..(Len(movie) + 1)
  BY DEF ReadingInv, Reading, InFile
<1>2. /\ Len(returned) \in Nat /\ DOMAIN returned = 1..Len(returned)
      /\ Len(movie) \in Nat /\ DOMAIN movie = 1..Len(movie)
      /\ movie \in Seq(Units) /\ Chunked(movie)
  BY FileUnits, LenProperties DEF MediaInv, SourceInv
<1>3. i \in 1..Len(movie) /\ i \in DOMAIN movie /\ i \in DOMAIN returned
  BY <1>1, <1>2
<1>4. returned[i] = AsReturned(i) /\ returned[i] \in Seq(Byte)
  <2>1. returned[i] = AsReturned(i)
    BY <1>3 DEF ReadingInv, FramesOfFile
  <2>2. returned[i] \in FrameTypes
    BY <1>2, ElementOfSeq DEF MediaInv, SourceInv
  <2>3. QED
    BY <2>1, <2>2 DEF FrameTypes
<1>5. movie[i].bytes \in Seq(Nat)
  BY <1>2, <1>3, UnitFacts
<1>6. DOMAIN returned[i] = DOMAIN movie[i].bytes
  BY <1>4 DEF AsReturned
<1>7. /\ Len(returned[i]) \in Nat /\ DOMAIN returned[i] = 1..Len(returned[i])
      /\ Len(movie[i].bytes) \in Nat /\ DOMAIN movie[i].bytes = 1..Len(movie[i].bytes)
  BY <1>4, <1>5, LenProperties
<1>8. \A n, k \in Nat : 1..n = 1..k => n = k
  BY SMT
<1>9. QED
  BY <1>3, <1>6, <1>7, <1>8

\* sendFrame does not split an AAC frame: what it sends fits into the buffer for
\* one packet for recordings whose units do, since no frame is anything else.
THEOREM RecordingsFitHolds ==
  ASSUME Capacity > 3, \A m \in Movies : Film(m) \/ Recording(m),
         \A m \in Movies : Recording(m) => \A i \in DOMAIN m : AuHeader + Len(m[i].bytes) <= Room
  PROVE  Spec => [](IsAudio /\ ~StaleStart => PacketsFit)
<1>1. ASSUME MediaInv, ReadingInv, AudioInv, movie \in Movies, IsAudio, ~StaleStart
      PROVE  PacketsFit
  <2>1. SUFFICES ASSUME NEW i \in DOMAIN sent PROVE sent[i].size <= Room
    BY DEF PacketsFit
  <2>2. PICK p : sent = <<p>> /\ p.size = AuHeader + Len(p.data)
    <3>1. sent # <<>>
      BY <2>1
    <3>2. QED
      BY <1>1, <3>1 DEF AudioInv
  <2>3. i = 1 /\ sent[i] = p /\ sent # <<>>
    BY <2>1, <2>2
  <2>4. shown \in 1..Len(returned) /\ p.data = returned[shown]
    <3>1. shown \in 0..Len(returned) /\ shown # 0 /\ Len(returned) \in Nat
      BY <1>1, <2>3, LenProperties DEF MediaInv, SentInv, SourceInv
    <3>2. SentWhole
      BY <1>1, <3>1 DEF MediaInv, SentInv, SentInFragments
    <3>3. QED
      BY <2>3, <3>1, <3>2 DEF SentWhole, Current
  <2>5. Recording(movie)
    BY <1>1, FileKinds
  <2>6. shown \in DOMAIN movie /\ Len(p.data) = Len(movie[shown].bytes)
    BY <1>1, <2>4, <2>5, AudioFrames
  <2>7. QED
    BY <1>1, <2>2, <2>3, <2>5, <2>6
<1>2. QED
  BY <1>1, MediaInvariant, ReadingInvariant, AudioInvariant, PTL

\* For an AAC file, too, every variable keeps its type, as long as nothing that is
\* stale is taken for a header: the length it would give could lead anywhere.
THEOREM RecordingTypesHold ==
  ASSUME MaxLost < SeqMod, Capacity > 3, \A m \in Movies : Film(m) \/ Recording(m)
  PROVE  Spec => [](IsAudio /\ ~StaleStart => TypeOK)
<1>1. ASSUME MediaInv, ClientInv, ReadingInv, AudioInv, movie \in Movies, IsAudio, ~StaleStart
      PROVE  TypeOK
  <2>1. it.off \in Offsets /\ ring.begin.off \in Offsets
    <3>1. it.off = 0 /\ 0 \in Offsets
      BY <1>1, RingAssumption DEF AudioInv, Place, Offsets
    <3>2. Begins(ring, StartOf(movie, Len(returned) + 1))
      BY <1>1 DEF ReadingInv, Reading, InFile
    <3>3. PICK b, a, p : Window(ring, b, a) /\ p \in Chunk(b) /\ ring.begin = Spot(b, a, p)
      BY <3>2 DEF Begins
    <3>4. /\ b \in Nat /\ a \in {0, 1} /\ Capacity \in Nat
          /\ p \in Nat /\ b <= p /\ p < b + Capacity
      BY <3>3, WindowTypes DEF Chunk
    <3>5. b <= p + Capacity
      BY <3>4
    <3>6. QED
      BY <3>1, <3>3, <3>4, <3>5, SpotPlace
  <2>2. QED
    BY <1>1, <2>1, ClientTypes
<1>2. QED
  BY <1>1, ClientInvariant, ReadingInvariant, AudioInvariant, PTL

-----------------------------------------------------------------------------
(* From the file to the client.                                            *)

\* The units of the file are what GetFrameFromFile, handleTimeout and sendFrame
\* bring to a client: all of them and in order, as far as it has come, if no packet
\* is lost; and nothing but units if some are, as long as nothing stale is taken
\* for one.  (An H.264 unit in fragments has one byte more, as Arrives says.)
THEOREM UnitsArrive ==
  ASSUME MaxLost < SeqMod, Capacity > 3, \A m \in Movies : Film(m) \/ Recording(m)
  PROVE  Spec => [](/\ lost = 0 => \A i \in DOMAIN received \cap DOMAIN movie :
                                     received[i].bytes = Arrives(AsReturned(i))
                    /\ ~StaleStart => \A i \in DOMAIN received : \E j \in DOMAIN movie :
                                        received[i].bytes = Arrives(AsReturned(j)))
<1>1. ASSUME MediaInv, ClientInv, ReadingInv, movie \in Movies
      PROVE  /\ lost = 0 => \A i \in DOMAIN received \cap DOMAIN movie :
                              received[i].bytes = Arrives(AsReturned(i))
             /\ ~StaleStart => \A i \in DOMAIN received : \E j \in DOMAIN movie :
                                 received[i].bytes = Arrives(AsReturned(j))
  <2>1. PICK n \in Nat, M \in Nat, k \in Nat :
          /\ n = Len(returned) /\ DOMAIN returned = 1..n
          /\ M = Len(movie) /\ DOMAIN movie = 1..M
          /\ k = Len(received) /\ DOMAIN received = 1..k
    BY <1>1, FileUnits, LenProperties DEF MediaInv, SourceInv, ClientInv, ReceivedInv
  <2>2. shown \in 0..n /\ (~StaleStart => n <= M)
    <3>1. shown \in 0..n
      BY <1>1, <2>1 DEF MediaInv, SentInv
    <3>2. ~StaleStart => n + 1 \in 1..(M + 1)
      BY <1>1, <2>1 DEF ReadingInv, Reading, InFile
    <3>3. QED
      BY <2>1, <3>1, <3>2
  <2>3. \A i \in 1..n : i \in 1..M => returned[i] = AsReturned(i)
    BY <1>1, <2>1 DEF ReadingInv, FramesOfFile
  <2>4. ASSUME lost = 0, NEW i \in 1..k, i \in 1..M
        PROVE  received[i].bytes = Arrives(AsReturned(i))
    <3>1. k = IF InFlight THEN shown - 1 ELSE shown
      BY <1>1, <2>1, <2>4 DEF ClientInv, LosslessInv
    <3>2. i \in 1..n
      BY <2>2, <2>4, <3>1
    <3>3. received[i].bytes = Arrives(returned[i])
      BY <1>1, <2>1, <2>4 DEF ClientInv, LosslessInv
    <3>4. QED
      BY <2>3, <2>4, <3>2, <3>3
  <2>5. ASSUME ~StaleStart, NEW i \in 1..k
        PROVE  \E j \in 1..M : received[i].bytes = Arrives(AsReturned(j))
    <3>1. PICK j \in 1..shown : received[i].bytes = Arrives(returned[j])
      BY <1>1, <2>1 DEF ClientInv, ReceivedInv
    <3>2. j \in 1..n /\ j \in 1..M
      BY <2>1, <2>2, <2>5
    <3>3. QED
      BY <2>3, <3>1, <3>2
  <2>6. QED
    BY <2>1, <2>4, <2>5
<1>2. QED
  BY <1>1, ClientInvariant, ReadingInvariant, PTL
=============================================================================
