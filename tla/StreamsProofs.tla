----------------------------- MODULE StreamsProofs -----------------------------
(* Theorems about Streams, for any clients, buffers, capacity and output.      *)
EXTENDS Streams, SequenceTheorems, FiniteSetTheorems, TLAPS

\* Who is subscribed, and who has a buffer.
Selecting == {"send", "wait", "get", "lookup", "lines"}
Holding   == Selecting \cup {"attach"}

Subscribed ==
  /\ \A v \in Viewers : v \in subs <=> view[v].at # "off"
  /\ \A r \in Readers : r \in subs <=> reader[r].at \in Selecting

\* A buffer that someone refers to has been made, and no two were made for one use.
InUse(b) == b \in Buffers /\ buf[b].state # "free"

Refers(r) ==
  /\ reader[r].at \in Holding => InUse(reader[r].buffer)
  /\ reader[r].at = "lines" => InUse(reader[r].source)

References ==
  /\ \A b \in Buffers : buf[b].state = "free" => buf[b] = Fresh
  /\ \A b \in {logs, dropped, proc} : b # NoBuffer => InUse(b)
  /\ \A r \in Readers : Refers(r)

\* A viewer that has read one half, or both, and whose half is old will be told.
Told(v) == v \in signal \/ \E w \in Writers : writer[w] = "publish"

ViewersTold ==
  \A v \in Viewers :
    /\ view[v].at \in {"routes", "wait"} /\ view[v].rows # version => Told(v)
    /\ view[v].at = "wait" /\ view[v].routes # version => Told(v)

\* The same for a reader, from the moment it has the lines; until then it reads its own.
Heard(r) ==
  reader[r].buffer = logs =>
    /\ reader[r].at \in {"send", "wait"} /\ reader[r].shown # buf[logs].lines => r \in signal
    /\ reader[r].at = "lines" => reader[r].source = logs

ReadersTold == \A r \in Readers : Heard(r)

\* Lines that hold consecutive pieces, none of them empty, and the piece after them.
Follows(lines, next, i) == IF i < Len(lines) THEN lines[i + 1][1] ELSE next

Consecutive(lines, next) ==
  \A i \in 1 .. Len(lines) :
    /\ Len(lines[i]) >= 1
    /\ \A j \in 1 .. Len(lines[i]) : lines[i][j] = lines[i][1] + j - 1
    /\ Follows(lines, next, i) = lines[i][1] + Len(lines[i])

\* The lines and the partial line are the last pieces; all of them unless full.
LastPieces(lines, partial, total) ==
  LET next == total + 1 - Len(partial) IN
  /\ Len(partial) <= total
  /\ \A j \in 1 .. Len(partial) : partial[j] = next + j - 1
  /\ Consecutive(lines, next)
  /\ Len(lines) < Capacity => Follows(lines, next, 0) = 1

OutputKept ==
  /\ written = 0 => \A b \in Buffers : buf[b].lines = <<>> /\ buf[b].partial = <<>>
  /\ proc # NoBuffer /\ buf[proc].state = "open"
       => LastPieces(buf[proc].lines, buf[proc].partial, written)

Inv == TypeOK /\ Subscribed /\ References /\ ViewersTold /\ ReadersTold /\ OutputKept

-----------------------------------------------------------------------------
(* The last lines of a sequence.                                               *)

LEMMA LargerOne ==
  ASSUME NEW n \in Int
  PROVE  Max({1, n}) = IF n > 1 THEN n ELSE 1
  <1> DEFINE m == IF n > 1 THEN n ELSE 1
  <1>1. m \in {1, n} /\ \A y \in {1, n} : m >= y
    OBVIOUS
  <1>2. \A x \in {1, n} : (\A y \in {1, n} : x >= y) => x = m
    OBVIOUS
  <1> HIDE DEF m
  <1>3. Max({1, n}) = m
    BY <1>1, <1>2 DEF Max
  <1>4. QED
    BY <1>3 DEF m

\* LastLines gives the whole sequence, or the last Capacity elements of it.
LEMMA LastLinesKept ==
  ASSUME NEW S, NEW s \in Seq(S)
  PROVE  LET cut == Len(s) - Len(LastLines(s)) IN
         /\ LastLines(s) \in Seq(S)
         /\ Len(LastLines(s)) <= Capacity
         /\ cut \in Nat
         /\ cut # 0 => Len(LastLines(s)) = Capacity
         /\ \A i \in 1 .. Len(LastLines(s)) : LastLines(s)[i] = s[i + cut]
         /\ Len(s) <= Capacity => LastLines(s) = s
  <1> DEFINE n == Len(s)
             t == LastLines(s)
             m == IF n - Capacity + 1 > 1 THEN n - Capacity + 1 ELSE 1
  <1>1. n \in Nat /\ Capacity \in Nat \ {0}
    BY LenProperties, CapacityAssumption
  <1>2. t = SubSeq(s, m, n)
    <2>1. n - Capacity + 1 \in Int
      BY <1>1
    <2>2. Max({1, n - Capacity + 1}) = m
      BY <2>1, LargerOne
    <2>3. QED
      BY <2>2 DEF LastLines
  <1>3. m \in 1 .. n + 1
    BY <1>1
  <1>4. \A i \in m .. n : s[i] \in S
    BY <1>1, <1>3, ElementOfSeq
  <1>5. m = 1 => t = s
    BY <1>2, SubSeqFull
  <1>6. m = IF n - Capacity + 1 > 1 THEN n - Capacity + 1 ELSE 1
    OBVIOUS
  <1> HIDE DEF m, n, t
  <1>7. /\ t \in Seq(S)
        /\ Len(t) = n - m + 1
        /\ \A i \in 1 .. n - m + 1 : t[i] = s[m + i - 1]
    <2>1. /\ SubSeq(s, m, n) \in Seq(S)
          /\ Len(SubSeq(s, m, n)) = IF m <= n THEN n - m + 1 ELSE 0
          /\ \A i \in 1 .. n - m + 1 : SubSeq(s, m, n)[i] = s[m + i - 1]
      BY <1>1, <1>3, <1>4, SubSeqProperties
    <2>2. QED
      BY <1>1, <1>2, <1>3, <2>1
  <1>8. n - Len(t) = m - 1 /\ m - 1 \in Nat
    BY <1>1, <1>3, <1>7
  <1>9. Len(t) <= Capacity /\ (m - 1 # 0 => Len(t) = Capacity) /\ (n <= Capacity => m = 1)
    BY <1>1, <1>6, <1>7
  <1>10. \A i \in 1 .. Len(t) : t[i] = s[i + (m - 1)]
    BY <1>1, <1>3, <1>7
  <1>11. QED
    BY <1>5, <1>7, <1>8, <1>9, <1>10 DEF n, t

-----------------------------------------------------------------------------
(* Lines of consecutive pieces.                                                *)

\* The start of a line is the start of the first line and the lengths in between.
LEMMA Starts ==
  ASSUME NEW s \in Seq(Seq(Nat)), NEW n \in Nat, Consecutive(s, n), NEW i \in 1 .. Len(s)
  PROVE  /\ s[i] \in Seq(Nat) /\ Len(s[i]) \in Nat \ {0} /\ s[i][1] \in Nat
         /\ Follows(s, n, i) = s[i][1] + Len(s[i])
         /\ Follows(s, n, i - 1) = s[i][1]
  <1>1. s[i] \in Seq(Nat) /\ Len(s) \in Nat
    BY ElementOfSeq, LenProperties
  <1>2. Len(s[i]) \in Nat \ {0}
    BY <1>1, LenProperties DEF Consecutive
  <1>3. s[i][1] \in Nat
    BY <1>1, <1>2, ElementOfSeq
  <1>4. QED
    BY <1>1, <1>2, <1>3 DEF Consecutive, Follows

LEMMA DropFront ==
  ASSUME NEW s \in Seq(Seq(Nat)), NEW n \in Nat, Consecutive(s, n)
  PROVE  /\ Consecutive(LastLines(s), n)
         /\ Len(LastLines(s)) < Capacity => LastLines(s) = s
  <1> DEFINE t   == LastLines(s)
             cut == Len(s) - Len(t)
  <1>1. /\ t \in Seq(Seq(Nat)) /\ cut \in Nat /\ Len(s) \in Nat /\ Len(t) \in Nat
        /\ \A i \in 1 .. Len(t) : t[i] = s[i + cut]
        /\ cut # 0 => Len(t) = Capacity
    BY LastLinesKept, LenProperties
  <1>2. Len(t) < Capacity => t = s
    BY <1>1, LastLinesKept, CapacityAssumption
  <1>3. ASSUME NEW i \in 1 .. Len(t)
        PROVE  /\ i + cut \in 1 .. Len(s) /\ t[i] = s[i + cut]
               /\ Follows(t, n, i) = Follows(s, n, i + cut)
    <2> HIDE DEF t
    <2>1. Len(s) = Len(t) + cut
      BY <1>1
    <2> HIDE DEF cut
    <2>2. i + cut \in 1 .. Len(s) /\ t[i] = s[i + cut] /\ (i < Len(t) <=> i + cut < Len(s))
      BY <1>1, <2>1
    <2>3. ASSUME i < Len(t) PROVE t[i + 1] = s[i + cut + 1]
      <3> DEFINE k == i + 1
      <3>1. k \in 1 .. Len(t) /\ k + cut = i + cut + 1
        BY <1>1, <2>3
      <3>2. t[k] = s[k + cut]
        BY <1>1, <3>1
      <3>3. QED
        BY <3>1, <3>2
    <2>4. QED
      BY <2>2, <2>3 DEF Follows
  <1> HIDE DEF t, cut
  <1>4. Consecutive(t, n)
    <2> SUFFICES ASSUME NEW i \in 1 .. Len(t)
                 PROVE  /\ Len(t[i]) >= 1
                        /\ \A j \in 1 .. Len(t[i]) : t[i][j] = t[i][1] + j - 1
                        /\ Follows(t, n, i) = t[i][1] + Len(t[i])
      BY DEF Consecutive
    <2> DEFINE k == i + cut
    <2>1. k \in 1 .. Len(s) /\ t[i] = s[k] /\ Follows(t, n, i) = Follows(s, n, k)
      BY <1>3
    <2> HIDE DEF k
    <2>2. /\ Len(s[k]) >= 1 /\ \A j \in 1 .. Len(s[k]) : s[k][j] = s[k][1] + j - 1
          /\ Follows(s, n, k) = s[k][1] + Len(s[k])
      BY <2>1 DEF Consecutive
    <2>3. QED
      BY <2>1, <2>2
  <1>5. QED
    BY <1>2, <1>4 DEF t

LEMMA Joins ==
  ASSUME NEW s \in Seq(Seq(Nat)), NEW t \in Seq(Seq(Nat)), NEW m \in Nat, NEW n \in Nat,
         Consecutive(s, m), Consecutive(t, n), Follows(t, n, 0) = m
  PROVE  /\ Consecutive(s \o t, n)
         /\ Follows(s \o t, n, 0) = Follows(s, m, 0)
  <1> DEFINE u == s \o t
  <1>1. /\ Len(s) \in Nat /\ Len(t) \in Nat /\ Len(u) = Len(s) + Len(t)
        /\ \A i \in 1 .. Len(s) : u[i] = s[i]
        /\ \A i \in 1 .. Len(t) : u[Len(s) + i] = t[i]
    BY ConcatProperties, LenProperties
  <1> HIDE DEF u
  <1>2. ASSUME NEW i \in 1 .. Len(s)
        PROVE  u[i] = s[i] /\ Follows(u, n, i) = Follows(s, m, i)
    <2>1. CASE i < Len(s)
      <3>1. i + 1 \in 1 .. Len(s) /\ i < Len(u)
        BY <1>1, <2>1
      <3>2. u[i] = s[i] /\ u[i + 1] = s[i + 1]
        BY <1>1, <3>1
      <3>3. QED
        BY <2>1, <3>1, <3>2 DEF Follows
    <2>2. CASE i = Len(s)
      <3>1. Len(t) > 0 => u[Len(s) + 1] = t[1]
        BY <1>1
      <3>2. u[i] = s[i] /\ (i < Len(u) <=> Len(t) > 0)
        BY <1>1, <2>2
      <3>3. Follows(s, m, i) = m /\ m = (IF 0 < Len(t) THEN t[1][1] ELSE n)
        BY <2>2, <1>1 DEF Follows
      <3>4. QED
        BY <2>2, <3>1, <3>2, <3>3 DEF Follows
    <2>3. QED
      BY <1>1, <2>1, <2>2
  <1>3. ASSUME NEW i \in 1 .. Len(t)
        PROVE  u[Len(s) + i] = t[i] /\ Follows(u, n, Len(s) + i) = Follows(t, n, i)
    <2>1. ASSUME i < Len(t) PROVE u[Len(s) + i + 1] = t[i + 1]
      <3> DEFINE k == i + 1
      <3>1. k \in 1 .. Len(t) /\ Len(s) + k = Len(s) + i + 1
        BY <1>1, <2>1
      <3>2. u[Len(s) + k] = t[k]
        BY <1>1, <3>1
      <3>3. QED
        BY <3>1, <3>2
    <2>2. u[Len(s) + i] = t[i] /\ Len(s) + i \in Nat
      BY <1>1
    <2>3. Len(s) + i < Len(u) <=> i < Len(t)
      BY <1>1
    <2>4. QED
      BY <2>1, <2>2, <2>3 DEF Follows
  <1>4. ASSUME NEW i \in 1 .. Len(u)
        PROVE  \/ i \in 1 .. Len(s)
               \/ \E k \in 1 .. Len(t) : i = Len(s) + k
    <2>1. CASE i <= Len(s)
      BY <1>1, <2>1
    <2>2. CASE i > Len(s)
      <3> DEFINE k == i - Len(s)
      <3>1. k \in 1 .. Len(t) /\ i = Len(s) + k
        BY <1>1, <2>2
      <3>2. QED
        BY <3>1
    <2>3. QED
      BY <1>1, <2>1, <2>2
  <1>5. Consecutive(u, n)
    <2> SUFFICES ASSUME NEW i \in 1 .. Len(u)
                 PROVE  /\ Len(u[i]) >= 1
                        /\ \A j \in 1 .. Len(u[i]) : u[i][j] = u[i][1] + j - 1
                        /\ Follows(u, n, i) = u[i][1] + Len(u[i])
      BY DEF Consecutive
    <2>1. CASE i \in 1 .. Len(s)
      <3>1. u[i] = s[i] /\ Follows(u, n, i) = Follows(s, m, i)
        BY <1>2, <2>1
      <3>2. /\ Len(s[i]) >= 1 /\ \A j \in 1 .. Len(s[i]) : s[i][j] = s[i][1] + j - 1
            /\ Follows(s, m, i) = s[i][1] + Len(s[i])
        BY <2>1 DEF Consecutive
      <3>3. QED
        BY <3>1, <3>2
    <2>2. CASE \E k \in 1 .. Len(t) : i = Len(s) + k
      <3>1. PICK k \in 1 .. Len(t) : i = Len(s) + k
        BY <2>2
      <3>2. u[i] = t[k] /\ Follows(u, n, i) = Follows(t, n, k)
        BY <1>3, <3>1
      <3>3. QED
        BY <3>2 DEF Consecutive
    <2>3. QED
      BY <1>4, <2>1, <2>2
  <1>6. Follows(u, n, 0) = Follows(s, m, 0)
    <2>1. Len(s) > 0 => u[1] = s[1]
      BY <1>1
    <2>2. Len(s) = 0 /\ Len(t) > 0 => u[1] = t[1]
      BY <1>1
    <2>3. QED
      BY <1>1, <2>1, <2>2 DEF Follows
  <1>7. QED
    BY <1>5, <1>6 DEF u

-----------------------------------------------------------------------------
(* The pieces of consecutive lines, one after the other.                       *)

LEMMA Least ==
  ASSUME NEW S \in SUBSET Nat, IsFiniteSet(S), S # {}
  PROVE  \E x \in S : \A y \in S : x <= y
  <1> DEFINE Below(x) == {y \in S : y < x}
             T == {Below(x) : x \in S}
  <1>1. T \subseteq FiniteSubsetsOf(S)
    BY FS_Subset DEF FiniteSubsetsOf
  <1>2. T # {}
    OBVIOUS
  <1> HIDE DEF T
  <1>3. PICK A \in T : \A B \in T : <<B, A>> \notin StrictSubsetOrdering(S)
    BY <1>1, <1>2, FS_StrictSubsetOrderingWellFounded, WFMin
  <1>4. PICK x \in S : A = Below(x)
    BY <1>3 DEF T
  <1>5. ASSUME NEW y \in S, y < x PROVE FALSE
    <2> DEFINE B == Below(y)
    <2>1. B \in T
      BY DEF T
    <2>2. B \subseteq A /\ y \in A /\ y \notin B /\ A \subseteq S
      <3>1. \A z \in S : (z < y => z < x) /\ ~(y < y)
        BY <1>5
      <3>2. QED
        BY <1>4, <1>5, <3>1
    <2> HIDE DEF B, Below
    <2>3. <<B, A>> \in StrictSubsetOrdering(S)
      BY <2>2 DEF StrictSubsetOrdering
    <2>4. QED
      BY <1>3, <2>1, <2>3
  <1>6. QED
    BY <1>5

\* What holds first and from each number to the next holds up to n.
LEMMA UpTo ==
  ASSUME NEW n \in Nat, NEW S \in SUBSET (0 .. n), 0 \in S,
         \A i \in 0 .. n - 1 : i \in S => i + 1 \in S
  PROVE  S = 0 .. n
  <1> DEFINE T == (0 .. n) \ S
  <1>1. SUFFICES ASSUME T # {} PROVE FALSE
    OBVIOUS
  <1>2. T \in SUBSET Nat /\ IsFiniteSet(T)
    <2>1. 0 \in Int /\ n \in Int /\ 0 .. n \subseteq Nat /\ T \subseteq 0 .. n
      OBVIOUS
    <2>2. IsFiniteSet(0 .. n)
      BY <2>1, FS_Interval
    <2> HIDE DEF T
    <2>3. QED
      BY <2>1, <2>2, FS_Subset
  <1>3. PICK x \in T : \A y \in T : x <= y
    BY <1>1, <1>2, Least
  <1>4. x - 1 \in 0 .. n - 1 /\ x - 1 \notin T
    BY <1>3
  <1>5. QED
    BY <1>3, <1>4

\* Lines start one after the other.
LEMMA StartsGrow ==
  ASSUME NEW s \in Seq(Seq(Nat)), NEW n \in Nat, Consecutive(s, n)
  PROVE  \A i \in 0 .. Len(s) : /\ Follows(s, n, i) \in Nat
                                /\ Follows(s, n, i) >= Follows(s, n, 0)
  <1> DEFINE F(i) == Follows(s, n, i)
             S == {i \in 0 .. Len(s) : F(i) \in Nat /\ F(i) >= F(0)}
  <1>1. Len(s) \in Nat
    BY LenProperties
  <1>2. F(0) \in Nat
    <2>1. CASE Len(s) = 0
      BY <2>1 DEF Follows
    <2>2. CASE Len(s) > 0
      <3>1. 1 \in 1 .. Len(s)
        BY <1>1, <2>2
      <3>2. s[1][1] \in Nat
        BY <3>1, Starts
      <3>3. QED
        BY <2>2, <3>2 DEF Follows
    <2>3. QED
      BY <1>1, <2>1, <2>2
  <1>3. ASSUME NEW i \in 0 .. Len(s) - 1, i \in S PROVE i + 1 \in S
    <2> DEFINE k == i + 1
    <2>1. k \in 1 .. Len(s) /\ k - 1 = i
      BY <1>1
    <2>2. F(k) = F(i) + Len(s[k]) /\ Len(s[k]) \in Nat
      <3>1. /\ F(k) = s[k][1] + Len(s[k]) /\ F(k - 1) = s[k][1]
            /\ Len(s[k]) \in Nat
        BY <2>1, Starts
      <3>2. QED
        BY <2>1, <3>1
    <2>3. F(i) \in Nat /\ F(i) >= F(0)
      BY <1>3
    <2> HIDE DEF F
    <2>4. F(k) \in Nat /\ F(k) >= F(0)
      BY <1>2, <2>2, <2>3
    <2>5. QED
      BY <1>1, <2>1, <2>4
  <1>4. S \in SUBSET (0 .. Len(s)) /\ 0 \in S
    BY <1>1, <1>2
  <1> HIDE DEF S
  <1>5. S = 0 .. Len(s)
    BY <1>1, <1>3, <1>4, UpTo
  <1>6. QED
    BY <1>5 DEF S

\* The pieces from a on, as many as fit before b.
PiecesFrom(a, b) == [j \in 1 .. b - a |-> a + j - 1]

LEMMA RangeIs ==
  ASSUME NEW a \in Nat, NEW b \in Nat, a <= b
  PROVE  /\ PiecesFrom(a, b) \in Seq(Nat) /\ Len(PiecesFrom(a, b)) = b - a
         /\ \A j \in 1 .. b - a : PiecesFrom(a, b)[j] = a + j - 1
  <1>1. b - a \in Nat /\ \A j \in 1 .. b - a : a + j - 1 \in Nat
    OBVIOUS
  <1>2. PiecesFrom(a, b) \in [1 .. b - a -> Nat]
    BY <1>1 DEF PiecesFrom
  <1>3. QED
    BY <1>1, <1>2 DEF PiecesFrom

LEMMA RangesJoin ==
  ASSUME NEW a \in Nat, NEW b \in Nat, NEW c \in Nat, a <= b, b <= c
  PROVE  PiecesFrom(a, b) \o PiecesFrom(b, c) = PiecesFrom(a, c)
  <1> DEFINE s == PiecesFrom(a, b)
             t == PiecesFrom(b, c)
             u == PiecesFrom(a, c)
  <1>2. /\ s \in Seq(Nat) /\ Len(s) = b - a
        /\ \A j \in 1 .. b - a : s[j] = a + j - 1
        /\ t \in Seq(Nat) /\ Len(t) = c - b
        /\ \A j \in 1 .. c - b : t[j] = b + j - 1
        /\ u \in Seq(Nat) /\ Len(u) = c - a
        /\ \A j \in 1 .. c - a : u[j] = a + j - 1
    <2>1. a <= c
      OBVIOUS
    <2>2. /\ s \in Seq(Nat) /\ Len(s) = b - a
          /\ \A j \in 1 .. b - a : s[j] = a + j - 1
      BY RangeIs
    <2>3. /\ t \in Seq(Nat) /\ Len(t) = c - b
          /\ \A j \in 1 .. c - b : t[j] = b + j - 1
      BY RangeIs
    <2>4. /\ u \in Seq(Nat) /\ Len(u) = c - a
          /\ \A j \in 1 .. c - a : u[j] = a + j - 1
      BY <2>1, RangeIs
    <2>5. QED
      BY <2>2, <2>3, <2>4
  <1> HIDE DEF s, t, u
  <1>3. /\ s \o t \in Seq(Nat) /\ Len(s \o t) = Len(s) + Len(t)
        /\ \A j \in 1 .. Len(s) + Len(t) :
             (s \o t)[j] = IF j <= Len(s) THEN s[j] ELSE t[j - Len(s)]
    BY <1>2, ConcatProperties
  <1>4. Len(s \o t) = Len(u)
    BY <1>2, <1>3
  <1>5. ASSUME NEW j \in 1 .. Len(u) PROVE (s \o t)[j] = u[j]
    <2>1. j \in 1 .. c - a /\ j \in 1 .. Len(s) + Len(t)
      BY <1>2
    <2>2. CASE j <= Len(s)
      BY <1>2, <1>3, <2>1, <2>2
    <2>3. CASE ~(j <= Len(s))
      <3> DEFINE k == j - Len(s)
      <3>1. k \in 1 .. c - b /\ b + k - 1 = a + j - 1
        BY <1>2, <2>1, <2>3
      <3>2. (s \o t)[j] = t[k]
        BY <1>3, <2>1, <2>3
      <3>3. t[k] = b + k - 1 /\ u[j] = a + j - 1
        BY <1>2, <2>1, <3>1
      <3>4. QED
        BY <3>1, <3>2, <3>3
    <2>4. QED
      BY <2>2, <2>3
  <1>6. s \o t = u
    BY <1>2, <1>3, <1>4, <1>5, SeqEqual
  <1>7. QED
    BY <1>6 DEF s, t, u

\* A line of consecutive pieces is a range.
LEMMA LineIsRange ==
  ASSUME NEW s \in Seq(Nat), NEW a \in Nat, \A j \in 1 .. Len(s) : s[j] = a + j - 1
  PROVE  s = PiecesFrom(a, a + Len(s))
  <1>1. Len(s) \in Nat
    BY LenProperties
  <1>2. /\ PiecesFrom(a, a + Len(s)) \in Seq(Nat)
        /\ Len(PiecesFrom(a, a + Len(s))) = Len(s)
    <2> DEFINE b == a + Len(s)
    <2>1. b \in Nat /\ a <= b /\ b - a = Len(s)
      BY <1>1
    <2> HIDE DEF b
    <2>2. PiecesFrom(a, b) \in Seq(Nat) /\ Len(PiecesFrom(a, b)) = Len(s)
      BY <2>1, RangeIs
    <2>3. QED
      BY <2>2 DEF b
  <1>3. \A j \in 1 .. Len(s) : PiecesFrom(a, a + Len(s))[j] = a + j - 1
    BY <1>1 DEF PiecesFrom
  <1>4. QED
    BY <1>2, <1>3, SeqEqual

LEMMA Flattened ==
  ASSUME NEW s \in Seq(Seq(Nat)), NEW n \in Nat, Consecutive(s, n)
  PROVE  FlattenSeq(s) = PiecesFrom(Follows(s, n, 0), n)
  <1> DEFINE N == Len(s)
             a == Follows(s, n, 0)
             F(i) == Follows(s, n, i)
             Rec(g) == [i \in 1 .. N |-> IF i = 1 THEN s[i] ELSE g[i - 1] \o s[i]]
             flatten == CHOOSE g : g = Rec(g)
             h == [i \in 1 .. N |-> PiecesFrom(a, F(i))]
  <1>1. N \in Nat /\ a \in Nat
    BY LenProperties, StartsGrow
  <1>2. \A i \in 0 .. N : F(i) \in Nat /\ a <= F(i)
    BY <1>1, StartsGrow
  <1>3. F(N) = n /\ F(0) = a
    BY <1>1 DEF Follows
  <1>4. ASSUME NEW i \in 1 .. N
        PROVE  /\ F(i - 1) <= F(i)
               /\ s[i] = PiecesFrom(F(i - 1), F(i))
    <2>1. /\ s[i] \in Seq(Nat) /\ Len(s[i]) \in Nat /\ s[i][1] \in Nat
          /\ F(i) = s[i][1] + Len(s[i]) /\ F(i - 1) = s[i][1]
      BY Starts
    <2>2. \A j \in 1 .. Len(s[i]) : s[i][j] = s[i][1] + j - 1
      BY DEF Consecutive
    <2>3. s[i] = PiecesFrom(s[i][1], s[i][1] + Len(s[i]))
      BY <2>1, <2>2, LineIsRange
    <2>4. QED
      BY <2>1, <2>3
  <1>5. ASSUME NEW i \in 1 .. N
        PROVE  /\ i = 1 => s[i] = PiecesFrom(a, F(i))
               /\ i # 1 => PiecesFrom(a, F(i - 1)) \o s[i] = PiecesFrom(a, F(i))
    <2>1. i = 1 => F(i - 1) = a
      BY <1>3
    <2>2. i - 1 \in 0 .. N /\ i \in 0 .. N
      BY <1>1
    <2> HIDE DEF a, F
    <2>3. a <= F(i - 1) /\ F(i - 1) \in Nat /\ F(i) \in Nat
      BY <1>2, <2>2
    <2>4. F(i - 1) <= F(i) /\ s[i] = PiecesFrom(F(i - 1), F(i))
      BY <1>4
    <2>5. PiecesFrom(a, F(i - 1)) \o PiecesFrom(F(i - 1), F(i)) = PiecesFrom(a, F(i))
      BY <1>1, <2>3, <2>4, RangesJoin
    <2>6. QED
      BY <2>1, <2>4, <2>5
  <1>6. CASE N = 0
    <2>1. s = <<>> /\ FlattenSeq(s) = s
      BY <1>6, EmptySeq DEF FlattenSeq
    <2>2. a = n
      BY <1>3, <1>6
    <2>3. PiecesFrom(n, n) \in Seq(Nat) /\ Len(PiecesFrom(n, n)) = 0
      BY RangeIs
    <2>4. PiecesFrom(n, n) = <<>>
      BY <2>3, EmptySeq
    <2>5. QED
      BY <2>1, <2>2, <2>4
  <1>7. CASE N # 0
    <2>1. FlattenSeq(s) = flatten[N]
      BY <1>7 DEF FlattenSeq
    <2>2. h = Rec(h)
      <3>1. ASSUME NEW i \in 1 .. N
            PROVE  h[i] = IF i = 1 THEN s[i] ELSE h[i - 1] \o s[i]
        <4>1. i # 1 => i - 1 \in 1 .. N
          BY <1>1
        <4>2. i # 1 => h[i - 1] = PiecesFrom(a, F(i - 1))
          BY <4>1
        <4>3. h[i] = PiecesFrom(a, F(i))
          OBVIOUS
        <4> HIDE DEF h, a, F
        <4>4. QED
          BY <1>5, <4>2, <4>3
      <3>2. h = [i \in 1 .. N |-> h[i]]
        OBVIOUS
      <3> HIDE DEF h
      <3>3. QED
        BY <3>1, <3>2
    <2>3. flatten = Rec(flatten)
      <3> HIDE DEF h
      <3>1. \E g : g = Rec(g)
        BY <2>2
      <3>2. QED
        BY <3>1
    <2> HIDE DEF flatten, h, F, a
    <2> DEFINE S == {i \in 0 .. N : i # 0 => flatten[i] = PiecesFrom(a, F(i))}
    <2>4. ASSUME NEW i \in 0 .. N - 1, i \in S PROVE i + 1 \in S
      <3> DEFINE k == i + 1
      <3>1. k \in 1 .. N /\ k - 1 = i
        BY <1>1
      <3>2. flatten[k] = IF k = 1 THEN s[k] ELSE flatten[k - 1] \o s[k]
        BY <2>3, <3>1
      <3>3. k # 1 => flatten[k - 1] = PiecesFrom(a, F(k - 1))
        <4>1. k # 1 => i # 0
          OBVIOUS
        <4>2. i # 0 => flatten[i] = PiecesFrom(a, F(i))
          BY <2>4
        <4> HIDE DEF k
        <4>3. QED
          BY <3>1, <4>1, <4>2
      <3>4. /\ k = 1 => s[k] = PiecesFrom(a, F(k))
            /\ k # 1 => PiecesFrom(a, F(k - 1)) \o s[k] = PiecesFrom(a, F(k))
        BY <1>5, <3>1
      <3>5. flatten[k] = PiecesFrom(a, F(k))
        <4> HIDE DEF k
        <4>1. QED
          BY <3>2, <3>3, <3>4
      <3>6. QED
        BY <1>1, <3>1, <3>5
    <2>5. S \in SUBSET (0 .. N) /\ 0 \in S
      BY <1>1
    <2> HIDE DEF S
    <2>6. S = 0 .. N
      BY <1>1, <2>4, <2>5, UpTo
    <2>7. flatten[N] = PiecesFrom(a, F(N))
      <3>1. N \in S
        BY <1>1, <2>6
      <3>2. QED
        BY <1>7, <3>1 DEF S
    <2>8. QED
      BY <1>3, <2>1, <2>7 DEF a
  <1>8. QED
    BY <1>6, <1>7

-----------------------------------------------------------------------------
(* What a write adds.                                                          *)

LEMMA JoinedIs ==
  ASSUME NEW b \in Buffers, buf[b].partial \in Seq(Nat), written \in Nat,
         NEW n \in Nat \ {0}
  PROVE  LET all == Joined(b, n) IN
         /\ all \in Seq(Seq(Nat)) /\ Len(all) = n
         /\ all[1] = buf[b].partial \o <<written + 1>>
         /\ \A i \in 2 .. n : all[i] = <<written + i>>
  <1> DEFINE p == Pieces(n)
             x == buf[b].partial \o <<written + 1>>
  <1>1. \A i \in 1 .. n : written + i \in Nat /\ <<written + i>> \in Seq(Nat)
    OBVIOUS
  <1>2. p \in [1 .. n -> Seq(Nat)] /\ \A i \in 1 .. n : p[i] = <<written + i>>
    BY <1>1 DEF Pieces
  <1>3. p \in Seq(Seq(Nat)) /\ Len(p) = n /\ 1 \in 1 .. Len(p)
    BY <1>2
  <1>4. x \in Seq(Nat)
    BY <1>1, ConcatProperties
  <1>5. Joined(b, n) = [p EXCEPT ![1] = x]
    BY <1>2, <1>3 DEF Joined
  <1> HIDE DEF p, x
  <1>6. /\ [p EXCEPT ![1] = x] \in Seq(Seq(Nat))
        /\ Len([p EXCEPT ![1] = x]) = Len(p)
        /\ \A j \in 1 .. Len(p) : [p EXCEPT ![1] = x][j] = IF j = 1 THEN x ELSE p[j]
    BY <1>3, <1>4, ExceptSeq
  <1> DEFINE all == Joined(b, n)
  <1>7. /\ all \in Seq(Seq(Nat)) /\ Len(all) = n
        /\ \A i \in 1 .. n : all[i] = IF i = 1 THEN x ELSE p[i]
    BY <1>3, <1>5, <1>6
  <1> HIDE DEF all
  <1>8. all[1] = x
    BY <1>7
  <1>9. \A i \in 2 .. n : all[i] = <<written + i>>
    BY <1>2, <1>7
  <1>10. QED
    BY <1>7, <1>8, <1>9 DEF all, x

LEMMA JoinedConsecutive ==
  ASSUME NEW b \in Buffers, buf[b].partial \in Seq(Nat), written \in Nat,
         Len(buf[b].partial) <= written,
         \A j \in 1 .. Len(buf[b].partial) :
           buf[b].partial[j] = written + 1 - Len(buf[b].partial) + j - 1,
         NEW n \in Nat \ {0}
  PROVE  /\ Consecutive(Joined(b, n), written + n + 1)
         /\ Follows(Joined(b, n), written + n + 1, 0) = written + 1 - Len(buf[b].partial)
  <1> DEFINE all == Joined(b, n)
             p   == buf[b].partial
             a   == written + 1 - Len(p)
             next == written + n + 1
  <1>1. /\ all \in Seq(Seq(Nat)) /\ Len(all) = n
        /\ all[1] = p \o <<written + 1>>
        /\ \A i \in 2 .. n : all[i] = <<written + i>>
    BY JoinedIs
  <1>2. Len(p) \in Nat /\ a \in Nat /\ a + Len(p) = written + 1
    BY LenProperties
  <1>3. /\ Len(all[1]) = Len(p) + 1
        /\ \A j \in 1 .. Len(all[1]) : all[1][j] = a + j - 1
    <2>1. /\ <<written + 1>> \in Seq(Nat) /\ Len(<<written + 1>>) = 1
          /\ <<written + 1>>[1] = written + 1
      OBVIOUS
    <2>2. /\ Len(p \o <<written + 1>>) = Len(p) + 1
          /\ \A i \in 1 .. Len(p) + 1 : (p \o <<written + 1>>)[i] =
               IF i <= Len(p) THEN p[i] ELSE <<written + 1>>[i - Len(p)]
      BY <2>1, ConcatProperties
    <2>3. \A j \in 1 .. Len(p) : p[j] = a + j - 1
      OBVIOUS
    <2> HIDE DEF p, a
    <2>4. ASSUME NEW j \in 1 .. Len(p) + 1 PROVE (p \o <<written + 1>>)[j] = a + j - 1
      <3>1. CASE j <= Len(p)
        BY <1>2, <2>2, <2>3, <3>1
      <3>2. CASE j = Len(p) + 1
        BY <1>2, <2>1, <2>2, <3>2
      <3>3. QED
        BY <1>2, <3>1, <3>2
    <2>5. QED
      BY <1>1, <2>2, <2>4
  <1>4. next \in Nat /\ next = written + n + 1
    OBVIOUS
  <1> HIDE DEF all, p, a, next
  <1>5. all[1][1] = a
    BY <1>2, <1>3
  <1>6. ASSUME NEW i \in 2 .. n
        PROVE  Len(all[i]) = 1 /\ all[i][1] = written + i
    <2>1. all[i] = <<written + i>>
      BY <1>1
    <2>2. QED
      BY <2>1
  <1>7. ASSUME NEW i \in 1 .. n
        PROVE  Follows(all, next, i) = written + i + 1
    <2>1. CASE i < n
      <3> DEFINE k == i + 1
      <3>1. k \in 2 .. n /\ written + k = written + i + 1
        BY <2>1
      <3>2. all[k][1] = written + k
        BY <1>6, <3>1
      <3>3. Follows(all, next, i) = all[k][1]
        BY <1>1, <2>1 DEF Follows
      <3>4. QED
        BY <3>1, <3>2, <3>3
    <2>2. CASE ~(i < n)
      <3>1. i = n /\ Follows(all, next, i) = next
        BY <1>1, <2>2 DEF Follows
      <3>2. QED
        BY <1>4, <3>1
    <2>3. QED
      BY <2>1, <2>2
  <1>8. ASSUME NEW i \in 1 .. n
        PROVE  /\ Len(all[i]) >= 1
               /\ \A j \in 1 .. Len(all[i]) : all[i][j] = all[i][1] + j - 1
               /\ Follows(all, next, i) = all[i][1] + Len(all[i])
    <2>1. CASE i = 1
      <3>1. Follows(all, next, 1) = written + 1 + 1
        BY <1>7, <2>1
      <3>2. a + (Len(p) + 1) = written + 1 + 1 /\ Len(p) + 1 >= 1
        BY <1>2
      <3>3. QED
        BY <1>3, <1>5, <2>1, <3>1, <3>2
    <2>2. CASE i # 1
      <3>1. i \in 2 .. n
        BY <2>2
      <3>2. Len(all[i]) = 1 /\ all[i][1] = written + i
        BY <1>6, <3>1
      <3>3. Follows(all, next, i) = written + i + 1
        BY <1>7
      <3>4. \A j \in 1 .. 1 : all[i][j] = all[i][1] + j - 1
        BY <3>2
      <3>5. QED
        BY <3>2, <3>3, <3>4
    <2>3. QED
      BY <2>1, <2>2
  <1>9. Consecutive(all, next)
    BY <1>1, <1>8 DEF Consecutive
  <1>10. Follows(all, next, 0) = a
    BY <1>1, <1>5 DEF Follows
  <1>11. QED
    BY <1>9, <1>10 DEF all, a, p, next

\* All but the last line, and the last line.
LEMMA WithoutLast ==
  ASSUME NEW s \in Seq(Seq(Nat)), Len(s) # 0, NEW n \in Nat, Consecutive(s, n)
  PROVE  LET m == n - Len(Last(s)) IN
         /\ Front(s) \in Seq(Seq(Nat)) /\ Len(Front(s)) = Len(s) - 1
         /\ Last(s) \in Seq(Nat) /\ m \in Nat
         /\ \A j \in 1 .. Len(Last(s)) : Last(s)[j] = m + j - 1
         /\ Consecutive(Front(s), m)
         /\ Follows(Front(s), m, 0) = Follows(s, n, 0)
  <1> DEFINE N == Len(s)
             l == s[N]
             f == SubSeq(s, 1, N - 1)
             m == n - Len(l)
  <1>1. N \in Nat \ {0} /\ N \in 1 .. N /\ N - 1 \in Nat
    BY LenProperties
  <1>2. /\ l \in Seq(Nat) /\ Len(l) \in Nat /\ l[1] \in Nat
        /\ Follows(s, n, N) = l[1] + Len(l)
    BY <1>1, Starts
  <1>3. Follows(s, n, N) = n
    BY <1>1 DEF Follows
  <1>4. m = l[1]
    <2> DEFINE x == l[1]
               y == Len(l)
    <2>1. x \in Nat /\ y \in Nat /\ n = x + y /\ m = n - y
      BY <1>2, <1>3
    <2> HIDE DEF m, x, y
    <2>2. m = x
      BY <2>1
    <2>3. QED
      BY <2>2 DEF x
  <1>5. /\ f \in Seq(Seq(Nat)) /\ Len(f) = N - 1
        /\ \A i \in 1 .. N - 1 : f[i] = s[i]
    <2>1. \A i \in 1 .. N - 1 : s[i] \in Seq(Nat)
      BY <1>1, ElementOfSeq
    <2> DEFINE k == N - 1
    <2>2. k \in Nat /\ k - 1 + 1 = k
      BY <1>1
    <2> HIDE DEF N
    <2>3. /\ SubSeq(s, 1, k) \in Seq(Seq(Nat))
          /\ Len(SubSeq(s, 1, k)) = IF 1 <= k THEN k - 1 + 1 ELSE 0
          /\ \A i \in 1 .. k - 1 + 1 : SubSeq(s, 1, k)[i] = s[1 + i - 1]
      BY <2>1, <2>2, SubSeqProperties
    <2>4. \A i \in 1 .. k : 1 + i - 1 = i
      BY <2>2
    <2>5. f = SubSeq(s, 1, k)
      OBVIOUS
    <2> HIDE DEF k, f
    <2>6. f \in Seq(Seq(Nat)) /\ Len(f) = k /\ \A i \in 1 .. k : f[i] = s[i]
      BY <2>2, <2>3, <2>4, <2>5
    <2>7. QED
      BY <2>6 DEF k
  <1>6. \A j \in 1 .. Len(l) : l[j] = m + j - 1
    BY <1>1, <1>4 DEF Consecutive
  <1>7. ASSUME NEW i \in 1 .. N
        PROVE  /\ Len(s[i]) >= 1
               /\ \A j \in 1 .. Len(s[i]) : s[i][j] = s[i][1] + j - 1
               /\ Follows(s, n, i) = s[i][1] + Len(s[i])
    BY DEF Consecutive
  <1>8. Len(s) = N /\ l = s[N]
    OBVIOUS
  <1> HIDE DEF f, m, l, N
  <1>9. ASSUME NEW i \in 1 .. N - 1
        PROVE  f[i] = s[i] /\ Follows(f, m, i) = Follows(s, n, i)
    <2>1. f[i] = s[i] /\ i < N
      BY <1>1, <1>5
    <2>2. CASE i < N - 1
      <3> DEFINE k == i + 1
      <3>1. k \in 1 .. N - 1
        BY <1>1, <2>2
      <3>2. f[k] = s[k]
        BY <1>5, <3>1
      <3>3. QED
        BY <1>5, <1>8, <2>1, <2>2, <3>2 DEF Follows
    <2>3. CASE ~(i < N - 1)
      <3>1. i + 1 = N
        BY <1>1, <2>3
      <3>2. QED
        BY <1>4, <1>5, <1>8, <2>1, <2>3, <3>1 DEF Follows
    <2>4. QED
      BY <2>2, <2>3
  <1>10. Consecutive(f, m)
    <2>1. \A i \in 1 .. N - 1 : i \in 1 .. N
      BY <1>1
    <2>2. ASSUME NEW i \in 1 .. N - 1
          PROVE  /\ Len(f[i]) >= 1
                 /\ \A j \in 1 .. Len(f[i]) : f[i][j] = f[i][1] + j - 1
                 /\ Follows(f, m, i) = f[i][1] + Len(f[i])
      BY <1>7, <1>9, <2>1
    <2>3. QED
      BY <1>5, <2>2 DEF Consecutive
  <1>11. Follows(f, m, 0) = Follows(s, n, 0)
    <2>1. CASE N = 1
      BY <1>4, <1>5, <1>8, <2>1 DEF Follows
    <2>2. CASE N # 1
      <3>1. 1 \in 1 .. N - 1 /\ 0 < N /\ 0 < N - 1
        BY <1>1, <2>2
      <3>2. f[1] = s[1]
        BY <1>5, <3>1
      <3>3. QED
        BY <1>5, <1>8, <3>1, <3>2 DEF Follows
    <2>3. QED
      BY <2>1, <2>2
  <1>12. Last(s) = l /\ Front(s) = f /\ m \in Nat
    BY <1>2, <1>4 DEF Last, Front, l, f, N
  <1>13. QED
    BY <1>2, <1>5, <1>6, <1>8, <1>10, <1>11, <1>12 DEF m

\* A write keeps the last pieces.
LEMMA WriteKeeps ==
  ASSUME NEW b \in Buffers, buf[b].lines \in Seq(Seq(Nat)), buf[b].partial \in Seq(Nat),
         Len(buf[b].lines) <= Capacity, written \in Nat,
         LastPieces(buf[b].lines, buf[b].partial, written),
         NEW n \in Nat \ {0}, NEW ended \in BOOLEAN
  PROVE  LET all  == Joined(b, n)
             full == IF ended THEN all ELSE Front(all)
             rest == IF ended THEN <<>> ELSE Last(all)
         IN  /\ full \in Seq(Seq(Nat)) /\ rest \in Seq(Nat)
             /\ LastPieces(LastLines(buf[b].lines \o full), rest, written + n)
  <1> DEFINE all  == Joined(b, n)
             full == IF ended THEN all ELSE Front(all)
             rest == IF ended THEN <<>> ELSE Last(all)
             lines == buf[b].lines
             p    == buf[b].partial
             old  == written + 1 - Len(p)
             end  == written + n + 1
             new  == end - Len(rest)
             sum  == lines \o full
             kept == LastLines(sum)
  <1>1. /\ Len(p) \in Nat /\ Len(p) <= written /\ old \in Nat /\ end \in Nat
        /\ \A j \in 1 .. Len(p) : p[j] = old + j - 1
        /\ Consecutive(lines, old)
        /\ Len(lines) < Capacity => Follows(lines, old, 0) = 1
    <2> HIDE DEF all, full, rest, new, sum, kept
    <2>1. /\ Len(p) <= written
          /\ \A j \in 1 .. Len(p) : p[j] = old + j - 1
          /\ Consecutive(lines, old)
          /\ Len(lines) < Capacity => Follows(lines, old, 0) = 1
      BY DEF LastPieces
    <2>2. Len(p) \in Nat
      BY LenProperties
    <2>3. old \in Nat /\ end \in Nat
      <3> HIDE DEF p
      <3>1. QED
        BY <2>1, <2>2
    <2>4. QED
      BY <2>1, <2>2, <2>3
  <1>2. /\ all \in Seq(Seq(Nat)) /\ Len(all) = n
        /\ Consecutive(all, end) /\ Follows(all, end, 0) = old
    BY <1>1, JoinedIs, JoinedConsecutive
  <1>3. /\ full \in Seq(Seq(Nat)) /\ rest \in Seq(Nat) /\ new \in Nat
        /\ \A j \in 1 .. Len(rest) : rest[j] = new + j - 1
        /\ Consecutive(full, new) /\ Follows(full, new, 0) = old
    <2>1. CASE ended
      <3>1. full = all /\ rest = <<>>
        BY <2>1
      <3>2. rest \in Seq(Nat) /\ Len(rest) = 0
        <4> HIDE DEF rest
        <4>1. QED
          BY <3>1, EmptySeq
      <3> HIDE DEF all, full, rest, old, end
      <3>3. new = end
        BY <1>1, <3>2
      <3>4. \A j \in 1 .. Len(rest) : rest[j] = new + j - 1
        BY <3>2
      <3> HIDE DEF new
      <3>5. QED
        BY <1>1, <1>2, <3>1, <3>2, <3>3, <3>4
    <2>2. CASE ~ended
      <3>1. full = Front(all) /\ rest = Last(all)
        BY <2>2
      <3>2. Len(all) # 0
        BY <1>2
      <3> HIDE DEF all, full, rest, old, end
      <3>3. /\ Front(all) \in Seq(Seq(Nat)) /\ Last(all) \in Seq(Nat)
            /\ end - Len(Last(all)) \in Nat
            /\ \A j \in 1 .. Len(Last(all)) : Last(all)[j] = end - Len(Last(all)) + j - 1
            /\ Consecutive(Front(all), end - Len(Last(all)))
            /\ Follows(Front(all), end - Len(Last(all)), 0) = Follows(all, end, 0)
        BY <1>1, <1>2, <3>2, WithoutLast
      <3>4. QED
        BY <1>2, <3>1, <3>3
    <2>3. QED
      BY <2>1, <2>2
  <1> HIDE DEF all, full, rest, old, new
  <1>4. /\ sum \in Seq(Seq(Nat)) /\ Len(sum) = Len(lines) + Len(full)
        /\ Len(lines) \in Nat /\ Len(full) \in Nat
    BY <1>3, ConcatProperties, LenProperties
  <1>5. Consecutive(sum, new) /\ Follows(sum, new, 0) = Follows(lines, old, 0)
    BY <1>1, <1>3, Joins
  <1>6. /\ Consecutive(kept, new)
        /\ Len(kept) < Capacity => kept = sum
    <2> HIDE DEF sum
    <2>1. QED
      BY <1>3, <1>4, <1>5, DropFront
  <1>7. Len(kept) < Capacity => Follows(kept, new, 0) = 1
    <2> HIDE DEF sum, kept, lines
    <2>1. ASSUME Len(kept) < Capacity PROVE Len(lines) < Capacity /\ kept = sum
      BY <1>4, <1>6, <2>1, CapacityAssumption
    <2>2. QED
      BY <1>1, <1>5, <2>1
  <1>8. Len(rest) <= written + n /\ new = written + n + 1 - Len(rest)
    <2>1. Len(rest) \in Nat /\ new = written + n + 1 - Len(rest)
      BY <1>3, LenProperties DEF new
    <2>2. new >= 1
      <3>1. new >= old
        <4>1. 0 \in 0 .. Len(full) /\ Len(full) \in 0 .. Len(full)
          BY <1>4
        <4>2. Follows(full, new, Len(full)) = new
          BY <1>4 DEF Follows
        <4>3. QED
          BY <1>3, <4>1, <4>2, StartsGrow
      <3>2. old >= 1
        BY <1>1 DEF old
      <3>3. QED
        BY <1>1, <1>3, <3>1, <3>2
    <2>3. QED
      BY <1>3, <2>1, <2>2
  <1>9. LastPieces(kept, rest, written + n)
    <2> HIDE DEF kept
    <2>1. QED
      BY <1>3, <1>6, <1>7, <1>8 DEF LastPieces
  <1>10. QED
    BY <1>3, <1>9 DEF full, rest, all

\* What is in the buffer when its lines are the last pieces.
LEMMA LastPiecesAreTail ==
  ASSUME NEW lines \in Seq(Seq(Nat)), NEW p \in Seq(Nat), NEW total \in Nat,
         LastPieces(lines, p, total)
  PROVE  LET out == FlattenSeq(lines) \o p IN
         /\ \A i \in DOMAIN out : out[i] = total - Len(out) + i
         /\ Len(lines) < Capacity => Len(out) = total
  <1> DEFINE next == total + 1 - Len(p)
             a    == Follows(lines, next, 0)
             out  == FlattenSeq(lines) \o p
  <1>1. /\ Len(p) \in Nat /\ Len(p) <= total /\ next \in Nat
        /\ next + Len(p) = total + 1
        /\ \A j \in 1 .. Len(p) : p[j] = next + j - 1
        /\ Consecutive(lines, next)
        /\ Len(lines) < Capacity => a = 1
    BY LenProperties DEF LastPieces
  <1> HIDE DEF next
  <1>2. a \in Nat /\ a <= next
    <2>1. Len(lines) \in Nat /\ 0 \in 0 .. Len(lines) /\ Len(lines) \in 0 .. Len(lines)
      BY LenProperties
    <2>2. Follows(lines, next, Len(lines)) = next
      BY <2>1 DEF Follows
    <2>3. QED
      BY <1>1, <2>1, <2>2, StartsGrow
  <1> HIDE DEF a
  <1>3. FlattenSeq(lines) = PiecesFrom(a, next)
    BY <1>1, Flattened DEF a
  <1>4. p = PiecesFrom(next, total + 1)
    <2>1. p = PiecesFrom(next, next + Len(p))
      BY <1>1, LineIsRange
    <2>2. QED
      BY <1>1, <2>1
  <1>5. out = PiecesFrom(a, total + 1)
    <2>1. total + 1 \in Nat /\ next <= total + 1
      BY <1>1
    <2>2. PiecesFrom(a, next) \o PiecesFrom(next, total + 1) = PiecesFrom(a, total + 1)
      BY <1>1, <1>2, <2>1, RangesJoin
    <2>3. QED
      BY <1>3, <1>4, <2>2
  <1>6. /\ out \in Seq(Nat) /\ Len(out) = total + 1 - a
        /\ \A j \in 1 .. total + 1 - a : out[j] = a + j - 1
    <2> HIDE DEF out
    <2> DEFINE e == total + 1
    <2>1. e \in Nat /\ a <= e /\ out = PiecesFrom(a, e)
      BY <1>1, <1>2, <1>5
    <2> HIDE DEF e
    <2>2. /\ out \in Seq(Nat) /\ Len(out) = e - a
          /\ \A j \in 1 .. e - a : out[j] = a + j - 1
      BY <1>2, <2>1, RangeIs
    <2>3. e = total + 1
      BY DEF e
    <2>4. e - a = total + 1 - a
      BY <1>2, <2>3
    <2>5. QED
      BY <2>2, <2>4
  <1> HIDE DEF out
  <1>7. DOMAIN out = 1 .. total + 1 - a
    BY <1>6, LenProperties
  <1>8. \A i \in DOMAIN out : out[i] = total - Len(out) + i
    BY <1>2, <1>6, <1>7
  <1>9. Len(lines) < Capacity => Len(out) = total
    BY <1>1, <1>2, <1>6
  <1>10. QED
    BY <1>8, <1>9 DEF out

-----------------------------------------------------------------------------
(* The invariant.                                                              *)

Assumptions ==
  /\ Deleter \in Writers /\ Viewers \cap Readers = {} /\ Capacity \in Nat \ {0}
  /\ NoBuffer \notin Buffers /\ MaxVersion \in Nat /\ MaxPieces \in Nat

LEMMA Assumed == Assumptions
  BY DeleterAssumption, ClientsAssumption, CapacityAssumption, NoBufferAssumption,
     BoundsAssumption DEF Assumptions

LEMMA InitInv == Init => Inv
  <1> SUFFICES ASSUME Init PROVE Inv
    OBVIOUS
  <1>1. <<>> \in Seq(Seq(Nat)) /\ <<>> \in Seq(Nat) /\ Len(<<>>) = 0
    BY EmptySeq
  <1>2. TypeOK
    BY <1>1, Assumed DEF Init, TypeOK, Off, LogOff, Fresh, Assumptions
  <1>3. Subscribed /\ References /\ ViewersTold /\ ReadersTold /\ OutputKept
    BY Assumed DEF Init, Subscribed, References, ViewersTold, ReadersTold, OutputKept, Off,
       LogOff, Fresh, Assumptions, Selecting, Holding, InUse, Refers, Heard
  <1>4. QED
    BY <1>2, <1>3 DEF Inv

\* What a step of the list stream leaves alone.
LEMMA LogSideKept ==
  ASSUME TypeOK, References, ReadersTold, OutputKept, UNCHANGED logVars,
         \A r \in Readers : r \in signal => r \in signal'
  PROVE  References' /\ ReadersTold' /\ OutputKept'
  BY DEF TypeOK, References, ReadersTold, OutputKept, logVars, logState, InUse, Refers, Heard

LEMMA CommitInv ==
  ASSUME Inv, NEW w \in Writers, Commit(w)
  PROVE  Inv'
  <1>1. /\ version' = version + 1 /\ version < MaxVersion
        /\ writer' = [writer EXCEPT ![w] = "publish"]
        /\ UNCHANGED <<subs, signal, view, logVars>>
    BY DEF Commit
  <1>2. TypeOK'
    BY <1>1, Assumed DEF Inv, TypeOK, logVars, logState, Assumptions
  <1>3. writer'[w] = "publish"
    BY <1>1 DEF Inv, TypeOK
  <1>4. Subscribed' /\ ViewersTold'
    BY <1>1, <1>3 DEF Inv, Subscribed, ViewersTold, Told, logVars, logState
  <1>5. References' /\ ReadersTold' /\ OutputKept'
    BY <1>1, LogSideKept DEF Inv
  <1>6. QED
    BY <1>2, <1>4, <1>5 DEF Inv

LEMMA PublishInv ==
  ASSUME Inv, NEW w \in Writers, Publish(w)
  PROVE  Inv'
  <1>1. /\ signal' = signal \cup (subs \cap Viewers)
        /\ writer' = [writer EXCEPT ![w] = IF w = Deleter THEN "drop" ELSE "idle"]
        /\ UNCHANGED <<version, subs, view, logVars>>
    BY DEF Publish
  <1>2. TypeOK'
    BY <1>1 DEF Inv, TypeOK, logVars, logState
  <1>3. Subscribed'
    BY <1>1 DEF Inv, Subscribed, logVars, logState
  <1>4. \A v \in Viewers : view[v].at # "off" => v \in signal'
    BY <1>1 DEF Inv, Subscribed
  <1>5. ViewersTold'
    BY <1>1, <1>4 DEF ViewersTold, Told
  <1>6. References' /\ ReadersTold' /\ OutputKept'
    BY <1>1, LogSideKept DEF Inv
  <1>7. QED
    BY <1>2, <1>3, <1>5, <1>6 DEF Inv

\* Typing of a step of the domain stream, which leaves the log side alone.
LEMMA ListSideTyped ==
  ASSUME TypeOK, UNCHANGED <<version, writer, logVars>>,
         subs' \subseteq Viewers \cup Readers, signal' \subseteq subs',
         view' \in [Viewers -> [at : {"off", "list", "routes", "wait"},
                               rows : 0 .. MaxVersion, routes : 0 .. MaxVersion]]
  PROVE  TypeOK'
  <1>1. /\ UNCHANGED <<version, writer, exists, logs, dropped>>
        /\ UNCHANGED <<buf, proc, written, reader>>
    BY DEF logVars, logState
  <1>2. /\ (version \in 0 .. MaxVersion)'
        /\ (writer \in [Writers -> {"idle", "publish", "drop", "close"}])'
    BY <1>1 DEF TypeOK
  <1>3. /\ (exists \in BOOLEAN)' /\ ({logs, dropped} \subseteq Buffers \cup {NoBuffer})'
        /\ (proc \in Buffers \cup {NoBuffer})' /\ (written \in 0 .. MaxPieces)'
    BY <1>1 DEF TypeOK
  <1>4. /\ (buf \in [Buffers -> [state : {"free", "open", "closed"},
                                lines : Seq(Seq(Nat)), partial : Seq(Nat)]])'
        /\ (\A b \in Buffers : Len(buf[b].lines) <= Capacity)'
    BY <1>1 DEF TypeOK
  <1>5. (reader \in [Readers -> [at : {"off", "open", "attach", "send", "wait", "get",
                                      "lookup", "lines"},
                                buffer : Buffers \cup {NoBuffer},
                                source : Buffers \cup {NoBuffer}, shown : Seq(Seq(Nat))]])'
    BY <1>1 DEF TypeOK
  <1>6. QED
    BY <1>2, <1>3, <1>4, <1>5 DEF TypeOK

LEMMA ViewerInv ==
  ASSUME Inv, NEW v \in Viewers,
         Subscribe(v) \/ List(v) \/ ListRoutes(v) \/ Take(v) \/ Disconnect(v)
  PROVE  Inv'
  <1>1. v \notin Readers
    BY Assumed DEF Assumptions
  <1>2. /\ version \in 0 .. MaxVersion
        /\ view \in [Viewers -> [at : {"off", "list", "routes", "wait"},
                                rows : 0 .. MaxVersion, routes : 0 .. MaxVersion]]
        /\ subs \subseteq Viewers \cup Readers /\ signal \subseteq subs
    BY DEF Inv, TypeOK
  <1>3. CASE Subscribe(v)
    <2>1. TypeOK' /\ Subscribed' /\ ViewersTold'
      <3>1. TypeOK'
        <4>1. UNCHANGED <<version, writer, logVars>>
          BY <1>3 DEF Subscribe
        <4>2. view' \in [Viewers -> [at : {"off", "list", "routes", "wait"},
                                   rows : 0 .. MaxVersion, routes : 0 .. MaxVersion]]
          BY <1>2, <1>3 DEF Subscribe
        <4>3. subs' \subseteq Viewers \cup Readers /\ signal' \subseteq subs'
          BY <1>1, <1>2, <1>3 DEF Subscribe
        <4>4. QED
          BY <4>1, <4>2, <4>3, ListSideTyped DEF Inv
      <3>2. Subscribed'
        BY <1>1, <1>3 DEF Inv, TypeOK, Subscribed, Subscribe, logVars, logState
      <3>3. ViewersTold'
        BY <1>1, <1>3 DEF Inv, TypeOK, ViewersTold, Told, Subscribe, logVars, logState
      <3>4. QED
        BY <3>1, <3>2, <3>3
    <2>2. References' /\ ReadersTold' /\ OutputKept'
      BY <1>3, LogSideKept DEF Inv, Subscribe
    <2>3. QED
      BY <2>1, <2>2 DEF Inv
  <1>4. CASE List(v)
    <2>1. TypeOK' /\ Subscribed' /\ ViewersTold'
      <3>1. TypeOK'
        <4>1. UNCHANGED <<version, writer, logVars>>
          BY <1>4 DEF List
        <4>2. view' \in [Viewers -> [at : {"off", "list", "routes", "wait"},
                                   rows : 0 .. MaxVersion, routes : 0 .. MaxVersion]]
          BY <1>2, <1>4 DEF List
        <4>3. subs' \subseteq Viewers \cup Readers /\ signal' \subseteq subs'
          BY <1>1, <1>2, <1>4 DEF List
        <4>4. QED
          BY <4>1, <4>2, <4>3, ListSideTyped DEF Inv
      <3>2. Subscribed'
        BY <1>1, <1>2, <1>4 DEF Inv, TypeOK, Subscribed, List, logVars, logState
      <3>3. ViewersTold'
        BY <1>1, <1>2, <1>4 DEF Inv, TypeOK, ViewersTold, Told, List, logVars, logState
      <3>4. QED
        BY <3>1, <3>2, <3>3
    <2>2. References' /\ ReadersTold' /\ OutputKept'
      BY <1>4, LogSideKept DEF Inv, List
    <2>3. QED
      BY <2>1, <2>2 DEF Inv
  <1>5. CASE ListRoutes(v)
    <2>1. TypeOK' /\ Subscribed' /\ ViewersTold'
      <3>1. TypeOK'
        <4>1. UNCHANGED <<version, writer, logVars>>
          BY <1>5 DEF ListRoutes
        <4>2. view' \in [Viewers -> [at : {"off", "list", "routes", "wait"},
                                   rows : 0 .. MaxVersion, routes : 0 .. MaxVersion]]
          BY <1>2, <1>5 DEF ListRoutes
        <4>3. subs' \subseteq Viewers \cup Readers /\ signal' \subseteq subs'
          BY <1>1, <1>2, <1>5 DEF ListRoutes
        <4>4. QED
          BY <4>1, <4>2, <4>3, ListSideTyped DEF Inv
      <3>2. Subscribed'
        BY <1>1, <1>2, <1>5 DEF Inv, TypeOK, Subscribed, ListRoutes, logVars, logState
      <3>3. ViewersTold'
        BY <1>1, <1>2, <1>5 DEF Inv, TypeOK, ViewersTold, Told, ListRoutes, logVars, logState
      <3>4. QED
        BY <3>1, <3>2, <3>3
    <2>2. References' /\ ReadersTold' /\ OutputKept'
      BY <1>5, LogSideKept DEF Inv, ListRoutes
    <2>3. QED
      BY <2>1, <2>2 DEF Inv
  <1>6. CASE Take(v)
    <2>1. TypeOK'
      <3>1. UNCHANGED <<version, writer, logVars>>
        BY <1>6 DEF Take
      <3>2. view' \in [Viewers -> [at : {"off", "list", "routes", "wait"},
                                 rows : 0 .. MaxVersion, routes : 0 .. MaxVersion]]
        BY <1>2, <1>6 DEF Take
      <3>3. subs' \subseteq Viewers \cup Readers /\ signal' \subseteq subs'
        BY <1>1, <1>2, <1>6 DEF Take
      <3>4. QED
        BY <3>1, <3>2, <3>3, ListSideTyped DEF Inv
    <2>2. Subscribed' /\ ViewersTold'
      <3>1. Subscribed'
        BY <1>1, <1>6 DEF Inv, TypeOK, Subscribed, Take, logVars, logState
      <3>2. ViewersTold'
        BY <1>1, <1>6 DEF Inv, TypeOK, ViewersTold, Told, Take, logVars, logState
      <3>3. QED
        BY <3>1, <3>2
    <2>3. \A r \in Readers : r \in signal => r \in signal'
      BY <1>1, <1>6 DEF Take
    <2>4. References' /\ ReadersTold' /\ OutputKept'
      BY <1>6, <2>3, LogSideKept DEF Inv, Take
    <2>5. QED
      BY <2>1, <2>2, <2>4 DEF Inv
  <1>7. CASE Disconnect(v)
    <2>1. TypeOK'
      <3>1. UNCHANGED <<version, writer, logVars>>
        BY <1>7 DEF Disconnect
      <3>2. view' \in [Viewers -> [at : {"off", "list", "routes", "wait"},
                                 rows : 0 .. MaxVersion, routes : 0 .. MaxVersion]]
        BY Assumed, <1>2, <1>7 DEF Disconnect, Off, Assumptions
      <3>3. subs' \subseteq Viewers \cup Readers /\ signal' \subseteq subs'
        BY <1>1, <1>2, <1>7 DEF Disconnect, Cancel
      <3>4. QED
        BY <3>1, <3>2, <3>3, ListSideTyped DEF Inv
    <2>2. Subscribed' /\ ViewersTold'
      <3>1. Subscribed'
        BY <1>1, <1>7 DEF Inv, TypeOK, Subscribed, Disconnect, Cancel, Off, logVars, logState
      <3>2. ViewersTold'
        BY <1>1, <1>7
        DEF Inv, TypeOK, ViewersTold, Told, Disconnect, Cancel, Off, logVars, logState
      <3>3. QED
        BY <3>1, <3>2
    <2>3. \A r \in Readers : r \in signal => r \in signal'
      BY <1>1, <1>7 DEF Disconnect, Cancel
    <2>4. References' /\ ReadersTold' /\ OutputKept'
      BY <1>7, <2>3, LogSideKept DEF Inv, Disconnect
    <2>5. QED
      BY <2>1, <2>2, <2>4 DEF Inv
  <1>8. QED
    BY <1>3, <1>4, <1>5, <1>6, <1>7

\* What a step of the detail stream leaves alone.
LEMMA ListSideKept ==
  ASSUME TypeOK, ViewersTold, UNCHANGED listVars,
         \A v \in Viewers : v \in signal => v \in signal'
  PROVE  ViewersTold'
  BY DEF ViewersTold, Told, listVars

\* logBuffer gives a buffer in use, and changes no line and no buffer that was in use.
BufferType == [state : {"free", "open", "closed"}, lines : Seq(Seq(Nat)), partial : Seq(Nat)]

LEMMA GotBuffer ==
  ASSUME Inv, NEW b \in Buffers, GetBuffer(b)
  PROVE  /\ buf' \in [Buffers -> BufferType]
         /\ \A c \in Buffers : /\ buf'[c].lines = buf[c].lines
                               /\ buf'[c].partial = buf[c].partial
                               /\ buf'[c].state = "free" => buf'[c] = Fresh
                               /\ InUse(c) => buf'[c] = buf[c] /\ (c = logs' => c = logs)
         /\ logs' = b /\ InUse(b)'
  <1>1. /\ buf \in [Buffers -> BufferType]
        /\ \A c \in Buffers : buf[c].state = "free" => buf[c] = Fresh
    BY DEF Inv, TypeOK, References, BufferType
  <1>2. CASE logs # NoBuffer
    <2>1. b = logs /\ buf' = buf /\ logs' = logs
      BY <1>2 DEF GetBuffer
    <2>2. InUse(b)
      BY <1>2, <2>1 DEF Inv, References
    <2>3. QED
      BY <1>1, <1>2, <2>1, <2>2 DEF InUse
  <1>3. CASE logs = NoBuffer
    <2>1. /\ buf[b].state = "free" /\ logs' = b
          /\ buf' = [buf EXCEPT ![b].state = "open"]
      BY <1>3 DEF GetBuffer
    <2>2. \A c \in Buffers : /\ c # b => buf'[c] = buf[c]
                             /\ buf'[c].lines = buf[c].lines
                             /\ buf'[c].partial = buf[c].partial
                             /\ c = b => buf'[c].state = "open"
      BY <1>1, <2>1 DEF BufferType
    <2>3. buf' \in [Buffers -> BufferType]
      BY <1>1, <2>1 DEF BufferType
    <2>4. QED
      BY <1>1, <1>3, <2>1, <2>2, <2>3 DEF InUse
  <1>4. QED
    BY <1>2, <1>3

\* A reader that does not move keeps its buffer, and hears no less.
LEMMA ReadersKept ==
  ASSUME Inv, NEW b \in Buffers, GetBuffer(b), NEW r \in Readers,
         reader'[r] = reader[r], r \in signal => r \in signal'
  PROVE  Refers(r)' /\ Heard(r)'
  <1>1. \A c \in Buffers : InUse(c) => InUse(c)'
    BY GotBuffer DEF InUse
  <1>2. Refers(r)
    BY DEF Inv, References
  <1>3. Refers(r)'
    BY <1>1, <1>2 DEF Refers, InUse
  <1>4. reader[r].at \in Holding /\ reader[r].buffer = logs' =>
          reader[r].buffer = logs /\ buf'[logs'].lines = buf[logs].lines /\ logs' = logs
    BY <1>2, GotBuffer DEF InUse, Refers
  <1>5. Heard(r)
    BY DEF Inv, ReadersTold
  <1>6. Heard(r)'
    BY <1>4, <1>5 DEF Heard, Holding, Selecting
  <1>7. QED
    BY <1>3, <1>6

LEMMA SpawnInv ==
  ASSUME Inv, NEW b \in Buffers, Spawn(b)
  PROVE  Inv'
  <1>1. /\ proc = NoBuffer /\ written = 0 /\ GetBuffer(b) /\ proc' = b
        /\ UNCHANGED <<listVars, subs, signal, exists, dropped, written, reader>>
    BY DEF Spawn
  <1>2. /\ buf' \in [Buffers -> BufferType]
        /\ \A c \in Buffers : /\ buf'[c].lines = buf[c].lines
                              /\ buf'[c].partial = buf[c].partial
                              /\ buf'[c].state = "free" => buf'[c] = Fresh
                              /\ InUse(c) => InUse(c)'
        /\ logs' = b /\ InUse(b)'
    BY <1>1, GotBuffer DEF InUse
  <1>3. TypeOK'
    BY <1>1, <1>2 DEF Inv, TypeOK, listVars, BufferType
  <1>4. Subscribed'
    BY <1>1 DEF Inv, Subscribed, listVars
  <1>5. References' /\ ReadersTold'
    <2>1. \A r \in Readers : Refers(r)' /\ Heard(r)'
      BY <1>1, ReadersKept
    <2>2. dropped' # NoBuffer => InUse(dropped)'
      BY <1>1, <1>2 DEF Inv, References, InUse
    <2>3. QED
      BY <1>1, <1>2, <2>1, <2>2 DEF References, ReadersTold
  <1>6. ViewersTold'
    BY <1>1, ListSideKept DEF Inv
  <1>7. OutputKept'
    <2>1. /\ written' = 0 /\ proc' = b
          /\ \A c \in Buffers : buf'[c].lines = <<>> /\ buf'[c].partial = <<>>
      BY <1>1, <1>2 DEF Inv, OutputKept
    <2>2. LastPieces(<<>>, <<>>, 0)
      BY DEF LastPieces, Consecutive, Follows
    <2>3. QED
      BY <2>1, <2>2 DEF OutputKept
  <1>8. QED
    BY <1>3, <1>4, <1>5, <1>6, <1>7 DEF Inv

LEMMA OpenBufferInv ==
  ASSUME Inv, NEW r \in Readers, NEW b \in Buffers, OpenBuffer(r, b)
  PROVE  Inv'
  <1>1. /\ reader[r].at = "open" /\ GetBuffer(b)
        /\ reader' = [reader EXCEPT ![r].at = "attach", ![r].buffer = b]
        /\ UNCHANGED <<listVars, subs, signal, exists, dropped, proc, written>>
    BY DEF OpenBuffer
  <1>2. /\ buf' \in [Buffers -> BufferType]
        /\ \A c \in Buffers : /\ buf'[c].lines = buf[c].lines
                              /\ buf'[c].partial = buf[c].partial
                              /\ buf'[c].state = "free" => buf'[c] = Fresh
                              /\ InUse(c) => InUse(c)'
        /\ logs' = b /\ InUse(b)'
    BY <1>1, GotBuffer DEF InUse
  <1>3. TypeOK'
    <2>1. reader' \in [Readers -> [at : {"off", "open", "attach", "send", "wait", "get",
                                         "lookup", "lines"},
                                   buffer : Buffers \cup {NoBuffer},
                                   source : Buffers \cup {NoBuffer}, shown : Seq(Seq(Nat))]]
      <3>1. reader \in [Readers -> [at : {"off", "open", "attach", "send", "wait", "get",
                                          "lookup", "lines"},
                                    buffer : Buffers \cup {NoBuffer},
                                    source : Buffers \cup {NoBuffer}, shown : Seq(Seq(Nat))]]
        BY DEF Inv, TypeOK
      <3>2. QED
        BY <1>1, <3>1
    <2>2. \A c \in Buffers : Len(buf[c].lines) <= Capacity
      BY DEF Inv, TypeOK
    <2>3. \A c \in Buffers : Len(buf'[c].lines) <= Capacity
      BY <1>2, <2>2
    <2>4. buf' \in [Buffers -> [state : {"free", "open", "closed"}, lines : Seq(Seq(Nat)),
                                partial : Seq(Nat)]]
      BY <1>2 DEF BufferType
    <2>5. QED
      BY <1>1, <1>2, <2>1, <2>3, <2>4 DEF Inv, TypeOK, listVars
  <1>4. \A q \in Readers :
          /\ q # r => reader'[q] = reader[q]
          /\ q = r => reader'[q].at = "attach" /\ reader'[q].buffer = b
    BY <1>1 DEF Inv, TypeOK
  <1>5. Subscribed'
    BY <1>1, <1>4 DEF Inv, Subscribed, listVars, Selecting
  <1>6. References' /\ ReadersTold'
    <2>1. \A q \in Readers \ {r} : Refers(q)' /\ Heard(q)'
      BY <1>1, <1>4, ReadersKept
    <2>2. Refers(r)' /\ Heard(r)'
      BY <1>2, <1>4 DEF Refers, Heard, InUse
    <2>3. \A c \in {dropped', proc'} : c # NoBuffer => buf'[c].state # "free" /\ c \in Buffers
      BY <1>1, <1>2 DEF Inv, References, InUse
    <2>4. QED
      BY <1>2, <2>1, <2>2, <2>3 DEF References, ReadersTold, InUse
  <1>7. ViewersTold'
    BY <1>1, ListSideKept DEF Inv
  <1>8. OutputKept'
    <2>1. proc # NoBuffer => buf'[proc] = buf[proc]
      BY <1>1, <1>2, GotBuffer DEF Inv, References, InUse
    <2>2. QED
      BY <1>1, <1>2, <2>1 DEF Inv, OutputKept
  <1>9. QED
    BY <1>3, <1>5, <1>6, <1>7, <1>8 DEF Inv

\* The steps of a reader after that leave the buffers alone.
ReaderStep(r) ==
  \/ SubscribeGet(r) \/ Attach(r) \/ Send(r) \/ TakeLog(r) \/ LogsGet(r) \/ LogsLookup(r)
  \/ LogsRead(r) \/ DisconnectLog(r)

LEMMA BuffersKept ==
  ASSUME Inv, NEW r \in Readers, ReaderStep(r)
  PROVE  /\ UNCHANGED <<listVars, logState>>
         /\ \A v \in Viewers : v \in signal => v \in signal'
         /\ \A q \in Readers \ {r} : /\ reader'[q] = reader[q]
                                     /\ (q \in subs' <=> q \in subs)
                                     /\ (q \in signal' <=> q \in signal)
         /\ subs' \subseteq subs \cup {r}
         /\ signal' \subseteq signal
         /\ signal' \subseteq subs'
         /\ \A v \in Viewers : v \in subs' <=> v \in subs
  <1>1. \A v \in Viewers : v # r
    BY Assumed DEF Assumptions
  <1>2. UNCHANGED <<listVars, logState>>
    BY DEF ReaderStep, SubscribeGet, Attach, Send, TakeLog, LogsGet, LogsLookup, LogsRead,
           DisconnectLog
  <1>3. \A q \in Readers \ {r} : reader'[q] = reader[q]
    BY DEF ReaderStep, SubscribeGet, Attach, Send, TakeLog, LogsGet, LogsLookup, LogsRead,
           DisconnectLog, Go, Inv, TypeOK
  <1>4. \/ UNCHANGED <<subs, signal>>
        \/ subs' = subs \cup {r} /\ signal' = signal
        \/ subs' = subs /\ signal' = signal \ {r}
        \/ subs' = subs \ {r} /\ signal' = signal \ {r}
    BY DEF ReaderStep, SubscribeGet, Attach, Send, TakeLog, LogsGet, LogsLookup, LogsRead,
           DisconnectLog, Cancel
  <1>5. signal \subseteq subs
    BY DEF Inv, TypeOK
  <1>6. QED
    BY <1>1, <1>2, <1>3, <1>4, <1>5

\* The reader itself, one step after the other.
ReaderOK(r) ==
  /\ reader[r] \in [at : {"off", "open", "attach", "send", "wait", "get", "lookup", "lines"},
                    buffer : Buffers \cup {NoBuffer}, source : Buffers \cup {NoBuffer},
                    shown : Seq(Seq(Nat))]
  /\ r \in subs <=> reader[r].at \in Selecting
  /\ Refers(r) /\ Heard(r)

LEMMA ReaderHas ==
  ASSUME Inv, NEW r \in Readers
  PROVE  ReaderOK(r)
  BY DEF Inv, TypeOK, Subscribed, References, ReadersTold, ReaderOK

LEMMA LogOffOK ==
  ASSUME NEW r \in Readers, reader'[r] = LogOff, r \notin subs'
  PROVE  ReaderOK(r)'
  BY Assumed, EmptySeq DEF LogOff, ReaderOK, Refers, Heard, Selecting, Holding, Assumptions

LEMMA ReaderStepOK ==
  ASSUME Inv, NEW r \in Readers, ReaderStep(r)
  PROVE  ReaderOK(r)'
  <1>1. /\ ReaderOK(r) /\ buf' = buf /\ logs' = logs
        /\ reader \in [Readers -> [at : {"off", "open", "attach", "send", "wait", "get",
                                         "lookup", "lines"},
                                   buffer : Buffers \cup {NoBuffer},
                                   source : Buffers \cup {NoBuffer}, shown : Seq(Seq(Nat))]]
        /\ \A b \in Buffers : buf[b].lines \in Seq(Seq(Nat))
        /\ NoBuffer \notin Buffers
    BY ReaderHas, BuffersKept, Assumed DEF logState, Inv, TypeOK, Assumptions
  <1>2. CASE SubscribeGet(r)
    BY <1>1, <1>2
    DEF SubscribeGet, Go, ReaderOK, Refers, Heard, Selecting, Holding, InUse
  <1>3. CASE Attach(r)
    <2>1. /\ reader[r].at = "attach" /\ subs' = subs \cup {r} /\ signal' = signal
          /\ reader' = [reader EXCEPT ![r].at = "send",
                                      ![r].shown = buf[reader[r].buffer].lines]
      BY <1>3 DEF Attach
    <2>2. /\ reader'[r].at = "send" /\ reader'[r].buffer = reader[r].buffer
          /\ reader'[r].source = reader[r].source
          /\ reader'[r].shown = buf[reader[r].buffer].lines
          /\ reader'[r] \in [at : {"send"}, buffer : Buffers \cup {NoBuffer},
                             source : Buffers \cup {NoBuffer}, shown : Seq(Seq(Nat))]
      BY <1>1, <2>1 DEF ReaderOK, Refers, Holding, InUse
    <2>3. QED
      BY <1>1, <2>1, <2>2 DEF ReaderOK, Refers, Heard, Selecting, Holding, InUse
  <1>4. CASE Send(r)
    BY <1>1, <1>4 DEF Send, Go, ReaderOK, Refers, Heard, Selecting, Holding, InUse
  <1>5. CASE TakeLog(r)
    BY <1>1, <1>5 DEF TakeLog, Go, ReaderOK, Refers, Heard, Selecting, Holding, InUse
  <1>6. CASE LogsGet(r)
    <2>1. CASE exists /\ Go(r, "lookup") /\ UNCHANGED <<subs, signal>>
      BY <1>1, <1>6, <2>1
      DEF LogsGet, Go, ReaderOK, Refers, Heard, Selecting, Holding, InUse
    <2>2. CASE reader' = [reader EXCEPT ![r] = LogOff] /\ Cancel(r)
      BY <1>1, <2>2, LogOffOK DEF Cancel
    <2>3. QED
      BY <1>6, <2>1, <2>2 DEF LogsGet
  <1>7. CASE LogsLookup(r)
    <2>1. /\ reader[r].at = "lookup" /\ subs' = subs /\ signal' = signal
          /\ reader' = [reader EXCEPT ![r].at = IF logs = NoBuffer THEN "send" ELSE "lines",
                                      ![r].shown = IF logs = NoBuffer THEN <<>> ELSE @,
                                      ![r].source = logs]
      BY <1>7 DEF LogsLookup
    <2>2. logs \in Buffers \cup {NoBuffer} /\ (logs # NoBuffer => InUse(logs))
      BY DEF Inv, TypeOK, References
    <2>3. <<>> \in Seq(Seq(Nat))
      BY EmptySeq
    <2>4. /\ reader'[r].at = (IF logs = NoBuffer THEN "send" ELSE "lines")
          /\ reader'[r].buffer = reader[r].buffer /\ reader'[r].source = logs
          /\ reader'[r].shown \in Seq(Seq(Nat))
          /\ reader'[r] \in [at : {"send", "lines"}, buffer : Buffers \cup {NoBuffer},
                             source : Buffers \cup {NoBuffer}, shown : Seq(Seq(Nat))]
      BY <1>1, <2>1, <2>2, <2>3
    <2>5. QED
      BY <1>1, <2>1, <2>2, <2>4 DEF ReaderOK, Refers, Heard, Selecting, Holding, InUse
  <1>8. CASE LogsRead(r)
    <2>1. /\ reader[r].at = "lines" /\ subs' = subs /\ signal' = signal
          /\ reader' = [reader EXCEPT ![r].at = "send",
                                      ![r].shown = buf[reader[r].source].lines,
                                      ![r].source = NoBuffer]
      BY <1>8 DEF LogsRead
    <2>2. /\ reader'[r].at = "send" /\ reader'[r].buffer = reader[r].buffer
          /\ reader'[r].source = NoBuffer
          /\ reader'[r].shown = buf[reader[r].source].lines
          /\ reader'[r] \in [at : {"send"}, buffer : Buffers \cup {NoBuffer},
                             source : Buffers \cup {NoBuffer}, shown : Seq(Seq(Nat))]
      BY <1>1, <2>1 DEF ReaderOK, Refers, InUse
    <2>3. QED
      BY <1>1, <2>1, <2>2 DEF ReaderOK, Refers, Heard, Selecting, Holding, InUse
  <1>9. CASE DisconnectLog(r)
    BY <1>1, <1>9, LogOffOK DEF DisconnectLog, Cancel
  <1>10. QED
    BY <1>2, <1>3, <1>4, <1>5, <1>6, <1>7, <1>8, <1>9 DEF ReaderStep

LEMMA ReaderStepInv ==
  ASSUME Inv, NEW r \in Readers, ReaderStep(r)
  PROVE  Inv'
  <1>1. /\ UNCHANGED <<listVars, logState>>
        /\ \A v \in Viewers : v \in signal => v \in signal'
        /\ \A q \in Readers \ {r} : /\ reader'[q] = reader[q]
                                    /\ (q \in subs' <=> q \in subs)
                                    /\ (q \in signal' <=> q \in signal)
        /\ subs' \subseteq subs \cup {r} /\ signal' \subseteq subs'
        /\ \A v \in Viewers : v \in subs' <=> v \in subs
    BY BuffersKept
  <1>2. ReaderOK(r)'
    BY ReaderStepOK
  <1>3. \A q \in Readers : ReaderOK(q)'
    <2>1. \A q \in Readers \ {r} : ReaderOK(q)
      BY ReaderHas
    <2>2. \A q \in Readers \ {r} : ReaderOK(q)'
      BY <1>1, <2>1 DEF ReaderOK, Refers, Heard, InUse, logState
    <2>3. QED
      BY <1>2, <2>2
  <1>4. reader' \in [Readers -> [at : {"off", "open", "attach", "send", "wait", "get",
                                       "lookup", "lines"},
                                 buffer : Buffers \cup {NoBuffer},
                                 source : Buffers \cup {NoBuffer}, shown : Seq(Seq(Nat))]]
    <2>1. DOMAIN reader' = Readers /\ reader' = [q \in Readers |-> reader'[q]]
      BY DEF Inv, TypeOK, ReaderStep, SubscribeGet, Attach, Send, TakeLog, LogsGet,
             LogsLookup, LogsRead, DisconnectLog, Go
    <2>2. QED
      BY <1>3, <2>1 DEF ReaderOK
  <1>5. TypeOK'
    BY <1>1, <1>4 DEF Inv, TypeOK, listVars, logState
  <1>6. Subscribed'
    BY <1>1, <1>3 DEF Inv, Subscribed, ReaderOK, listVars
  <1>7. References' /\ ReadersTold'
    BY <1>1, <1>3 DEF Inv, References, ReadersTold, ReaderOK, InUse, logState
  <1>8. ViewersTold' /\ OutputKept'
    BY <1>1, ListSideKept DEF Inv, OutputKept, logState
  <1>9. QED
    BY <1>5, <1>6, <1>7, <1>8 DEF Inv

LEMMA WriteInv ==
  ASSUME Inv, NEW n \in 1 .. 2, NEW ended \in BOOLEAN, Write(n, ended)
  PROVE  Inv'
  <1> DEFINE all  == Joined(proc, n)
             full == IF ended THEN all ELSE Front(all)
             rest == IF ended THEN <<>> ELSE Last(all)
             sum  == buf[proc].lines \o full
             kept == LastLines(sum)
  <1>1. /\ proc # NoBuffer /\ written + n <= MaxPieces /\ written' = written + n
        /\ UNCHANGED <<listVars, subs, exists, logs, dropped, reader>>
    BY DEF Write
  <1>2. /\ proc \in Buffers /\ buf[proc] \in BufferType /\ InUse(proc)
        /\ buf \in [Buffers -> BufferType]
        /\ Len(buf[proc].lines) <= Capacity /\ written \in Nat /\ MaxPieces \in Nat
        /\ n \in Nat \ {0}
    BY <1>1, Assumed DEF Inv, TypeOK, References, BufferType, Assumptions
  <1>3. written' \in 0 .. MaxPieces /\ written' # 0
    BY <1>1, <1>2
  <1>4. CASE /\ buf[proc].state = "open"
             /\ buf' = [buf EXCEPT ![proc].lines = kept, ![proc].partial = rest]
             /\ signal' = IF full = <<>> THEN signal ELSE signal \cup Attached(proc)
             /\ UNCHANGED proc
    <2>1. /\ full \in Seq(Seq(Nat)) /\ rest \in Seq(Nat)
          /\ LastPieces(kept, rest, written + n)
      <3>1. LastPieces(buf[proc].lines, buf[proc].partial, written)
        BY <1>1, <1>4 DEF Inv, OutputKept
      <3>2. buf[proc].lines \in Seq(Seq(Nat)) /\ buf[proc].partial \in Seq(Nat)
        BY <1>2 DEF BufferType
      <3>3. QED
        BY <1>2, <3>1, <3>2, WriteKeeps
    <2> HIDE DEF all, full, rest
    <2>2. /\ sum \in Seq(Seq(Nat)) /\ kept \in Seq(Seq(Nat)) /\ Len(kept) <= Capacity
          /\ full = <<>> => kept = buf[proc].lines
      <3>1. buf[proc].lines \in Seq(Seq(Nat))
        BY <1>2 DEF BufferType
      <3>2. sum \in Seq(Seq(Nat))
        BY <2>1, <3>1, ConcatProperties
      <3>3. full = <<>> => sum = buf[proc].lines
        BY <3>1, ConcatEmptySeq
      <3> HIDE DEF sum
      <3>4. QED
        BY <1>2, <3>1, <3>2, <3>3, LastLinesKept
    <2> HIDE DEF sum, kept
    <2>3. /\ buf' \in [Buffers -> BufferType]
          /\ \A b \in Buffers : buf'[b].state = buf[b].state
          /\ \A b \in Buffers : b # proc => buf'[b] = buf[b]
          /\ buf'[proc].lines = kept /\ buf'[proc].partial = rest
      BY <1>2, <1>4, <2>1, <2>2 DEF BufferType
    <2>4. signal \subseteq signal' /\ signal' \subseteq subs
      BY <1>4 DEF Inv, TypeOK, Attached
    <2>5. TypeOK'
      <3>1. \A b \in Buffers : Len(buf'[b].lines) <= Capacity
        BY <2>2, <2>3 DEF Inv, TypeOK
      <3>2. QED
        BY <1>1, <1>3, <1>4, <2>3, <2>4, <3>1 DEF Inv, TypeOK, listVars, BufferType
    <2>6. Subscribed'
      BY <1>1 DEF Inv, Subscribed, listVars
    <2>7. References'
      <3>1. \A b \in Buffers : InUse(b) => InUse(b)'
        BY <2>3 DEF InUse
      <3>2. \A r \in Readers : Refers(r)'
        BY <1>1, <3>1 DEF Inv, References, Refers, InUse
      <3>3. \A b \in Buffers : buf'[b].state = "free" => buf'[b] = Fresh
        BY <1>2, <2>3 DEF Inv, References, InUse
      <3>4. \A b \in {logs', dropped', proc'} :
              b # NoBuffer => b \in Buffers /\ buf'[b].state # "free"
        BY <1>1, <1>4, <2>3 DEF Inv, References, InUse
      <3>5. QED
        BY <3>2, <3>3, <3>4 DEF References, InUse
    <2>8. ViewersTold'
      BY <1>1, <2>4, ListSideKept DEF Inv
    <2>9. ReadersTold'
      <3> SUFFICES ASSUME NEW r \in Readers PROVE Heard(r)'
        BY DEF ReadersTold
      <3>1. Heard(r) /\ reader'[r] = reader[r] /\ logs' = logs
        BY <1>1 DEF Inv, ReadersTold
      <3>2. CASE logs # proc \/ kept = buf[proc].lines \/ reader[r].at \notin {"send", "wait"}
        <4>1. reader[r].buffer = logs /\ reader[r].at \in {"send", "wait"}
                => buf'[logs].lines = buf[logs].lines
          <5>1. reader[r].at \in {"send", "wait"} => reader[r].buffer \in Buffers
            BY DEF Inv, References, Refers, InUse, Holding, Selecting
          <5>2. QED
            BY <2>3, <3>2, <5>1
        <4>2. QED
          BY <2>4, <3>1, <4>1 DEF Heard
      <3>3. CASE logs = proc /\ full # <<>> /\ reader[r].at \in {"send", "wait"}
        <4>1. r \in subs
          BY <3>3 DEF Inv, Subscribed, Selecting
        <4>2. reader[r].buffer = logs => r \in signal'
          BY <1>4, <3>3, <4>1 DEF Attached
        <4>3. QED
          BY <3>1, <3>3, <4>2 DEF Heard
      <3>4. QED
        BY <2>2, <3>2, <3>3
    <2>10. OutputKept'
      BY <1>1, <1>3, <1>4, <2>1, <2>3 DEF OutputKept
    <2>11. QED
      BY <2>5, <2>6, <2>7, <2>8, <2>9, <2>10 DEF Inv
  <1>5. CASE proc' = NoBuffer /\ UNCHANGED <<buf, signal>>
    <2>1. TypeOK'
      BY <1>1, <1>3, <1>5 DEF Inv, TypeOK, listVars
    <2>2. Subscribed' /\ References' /\ ReadersTold' /\ OutputKept'
      BY <1>1, <1>3, <1>5
      DEF Inv, Subscribed, References, ReadersTold, OutputKept, Refers, Heard, InUse, listVars
    <2>3. ViewersTold'
      BY <1>1, <1>5, ListSideKept DEF Inv
    <2>4. QED
      BY <2>1, <2>2, <2>3 DEF Inv
  <1>6. QED
    BY <1>4, <1>5 DEF Write

LEMMA DeleteRowInv == ASSUME Inv, DeleteRow PROVE Inv'
  <1>1. /\ version' = version + 1 /\ version < MaxVersion
        /\ writer' = [writer EXCEPT ![Deleter] = "publish"] /\ exists' = FALSE
        /\ UNCHANGED <<subs, signal, view, logs, dropped, buf, proc, written, reader>>
    BY DEF DeleteRow
  <1>2. TypeOK'
    <2>1. version' \in 0 .. MaxVersion
      BY <1>1, Assumed DEF Inv, TypeOK, Assumptions
    <2>2. writer' \in [Writers -> {"idle", "publish", "drop", "close"}] /\ exists' \in BOOLEAN
      BY <1>1 DEF Inv, TypeOK
    <2>3. QED
      BY <1>1, <2>1, <2>2 DEF Inv, TypeOK
  <1>3. writer'[Deleter] = "publish" /\ Deleter \in Writers
    BY <1>1, Assumed DEF Inv, TypeOK, Assumptions
  <1>4. Subscribed' /\ ViewersTold'
    BY <1>1, <1>3 DEF Inv, Subscribed, ViewersTold, Told
  <1>5. References' /\ ReadersTold' /\ OutputKept'
    BY <1>1 DEF Inv, References, ReadersTold, OutputKept, Refers, Heard, InUse
  <1>6. QED
    BY <1>2, <1>4, <1>5 DEF Inv

LEMMA DropBufferInv == ASSUME Inv, DropBuffer PROVE Inv'
  <1>1. /\ writer[Deleter] = "drop" /\ logs' = NoBuffer /\ dropped' = logs
        /\ writer' = [writer EXCEPT ![Deleter] = "close"]
        /\ UNCHANGED <<version, subs, signal, view, exists, buf, proc, written, reader>>
    BY DEF DropBuffer
  <1>2. TypeOK'
    BY <1>1, Assumed DEF Inv, TypeOK, Assumptions
  <1>3. Subscribed' /\ References' /\ OutputKept'
    BY <1>1 DEF Inv, Subscribed, References, OutputKept, Refers, InUse
  <1>4. \A w \in Writers : writer[w] = "publish" => writer'[w] = "publish"
    BY <1>1 DEF Inv, TypeOK
  <1>5. ViewersTold'
    BY <1>1, <1>4 DEF Inv, ViewersTold, Told
  <1>6. ReadersTold'
    BY <1>1, Assumed
    DEF Inv, References, ReadersTold, Refers, Heard, InUse, Holding, Selecting, Assumptions
  <1>7. QED
    BY <1>2, <1>3, <1>5, <1>6 DEF Inv

LEMMA CloseBufferInv == ASSUME Inv, CloseBuffer PROVE Inv'
  <1>1. /\ writer[Deleter] = "close" /\ dropped' = NoBuffer
        /\ buf' = [b \in Buffers |-> IF b = dropped THEN [buf[b] EXCEPT !.state = "closed"]
                                                    ELSE buf[b]]
        /\ writer' = [writer EXCEPT ![Deleter] = "idle"]
        /\ UNCHANGED <<version, subs, signal, view, exists, logs, proc, written, reader>>
    BY DEF CloseBuffer
  <1>2. buf \in [Buffers -> BufferType]
    BY DEF Inv, TypeOK, BufferType
  <1>3. /\ buf' \in [Buffers -> BufferType]
        /\ \A b \in Buffers : /\ buf'[b].lines = buf[b].lines
                              /\ buf'[b].partial = buf[b].partial
                              /\ b = dropped => buf'[b].state = "closed"
                              /\ b # dropped => buf'[b] = buf[b]
    BY <1>1, <1>2 DEF BufferType
  <1>4. TypeOK'
    BY <1>1, <1>3, Assumed DEF Inv, TypeOK, Assumptions, BufferType
  <1>5. \A w \in Writers : writer[w] = "publish" => writer'[w] = "publish"
    BY <1>1 DEF Inv, TypeOK
  <1>6. Subscribed' /\ ViewersTold'
    BY <1>1, <1>5 DEF Inv, Subscribed, ViewersTold, Told
  <1>7. \A b \in Buffers : InUse(b) => InUse(b)'
    BY <1>3 DEF InUse
  <1>8. References'
    <2>1. \A r \in Readers : Refers(r)'
      BY <1>1, <1>7 DEF Inv, References, Refers, InUse
    <2>2. \A b \in {logs, proc} : b # NoBuffer => b \in Buffers /\ buf'[b].state # "free"
      BY <1>7 DEF Inv, References, InUse
    <2>3. \A b \in Buffers : buf'[b].state = "free" => buf'[b] = Fresh
      BY <1>3 DEF Inv, References
    <2>4. QED
      BY <1>1, <2>1, <2>2, <2>3 DEF References, InUse
  <1>9. ReadersTold'
    <2> SUFFICES ASSUME NEW r \in Readers PROVE Heard(r)'
      BY DEF ReadersTold
    <2>1. reader[r].at \in {"send", "wait"} => reader[r].buffer \in Buffers
      BY DEF Inv, References, Refers, InUse, Holding, Selecting
    <2>2. Heard(r)
      BY DEF Inv, ReadersTold
    <2>3. QED
      BY <1>1, <1>3, <2>1, <2>2 DEF Heard
  <1>10. OutputKept'
    <2>1. proc # NoBuffer => proc \in Buffers
      BY DEF Inv, References, InUse
    <2>2. QED
      BY <1>1, <1>3, <2>1 DEF Inv, OutputKept
  <1>11. QED
    BY <1>4, <1>6, <1>8, <1>9, <1>10 DEF Inv

LEMMA StepInv == Inv /\ [Next]_vars => Inv'
  <1> SUFFICES ASSUME Inv, [Next]_vars PROVE Inv'
    OBVIOUS
  <1>1. CASE \E w \in Writers : Commit(w) \/ Publish(w)
    BY <1>1, CommitInv, PublishInv
  <1>2. CASE \E v \in Viewers :
               Subscribe(v) \/ List(v) \/ ListRoutes(v) \/ Take(v) \/ Disconnect(v)
    BY <1>2, ViewerInv
  <1>3. CASE \E b \in Buffers : Spawn(b)
    BY <1>3, SpawnInv
  <1>4. CASE \E n \in 1 .. 2, ended \in BOOLEAN : Write(n, ended)
    BY <1>4, WriteInv
  <1>5. CASE \E r \in Readers : ReaderStep(r) \/ \E b \in Buffers : OpenBuffer(r, b)
    BY <1>5, ReaderStepInv, OpenBufferInv
  <1>6. CASE DeleteRow \/ DropBuffer \/ CloseBuffer
    BY <1>6, DeleteRowInv, DropBufferInv, CloseBufferInv
  <1>7. CASE UNCHANGED vars
    BY <1>7
    DEF vars, logVars, logState, Inv, TypeOK, Subscribed, References, ViewersTold, ReadersTold,
        OutputKept, Told, Refers, Heard, InUse
  <1>8. QED
    BY <1>1, <1>2, <1>3, <1>4, <1>5, <1>6, <1>7 DEF Next, ReaderStep

-----------------------------------------------------------------------------

\* A client that waits with something old has a signal or will be sent one (notify.go:30),
\* and an open buffer holds the last pieces written (logbuf.go:56), however clients,
\* mutations, output and a deletion interleave.
THEOREM Invariance == Spec => []Inv
  BY InitInv, StepInv, PTL DEF Spec

\* Only clients that are there are subscribed and hold signals, buffers never hold more
\* lines than their capacity (logbuf.go:57), and every reader reads a buffer that was made.
THEOREM TypeCorrect == Spec => []TypeOK
  <1>1. Inv => TypeOK
    BY DEF Inv
  <1>2. QED
    BY <1>1, Invariance, PTL

\* No client of the list stream waits with an old snapshot and no signal, however many
\* there are and whenever they read: they subscribe before they read (stream.go:28), and a
\* mutation is committed before it is published.
THEOREM ViewersMissNothing == Spec => []NoChangeMissed
  <1>1. Inv => NoChangeMissed
    BY DEF Inv, ViewersTold, Told, NoChangeMissed
  <1>2. QED
    BY <1>1, Invariance, PTL

\* No client of the detail stream waits with other lines than those of the domain's
\* buffer and no signal: the first lines are read with the subscription, under one
\* lock (logbuf.go:73).
THEOREM ReadersMissNothing == Spec => []NoLineMissed
  <1>1. Inv => NoLineMissed
    BY DEF Inv, ReadersTold, Heard, NoLineMissed
  <1>2. QED
    BY <1>1, Invariance, PTL

\* The buffer of a process holds the end of its output, whatever the pieces in which it is
\* written, and all of it until the capacity is reached.
THEOREM BufferIsTail == Spec => []LogIsTail
  <1>1. Inv => LogIsTail
    <2> SUFFICES ASSUME Inv, proc # NoBuffer, buf[proc].state = "open"
                 PROVE  LET out == Output(proc) IN
                        /\ \A i \in DOMAIN out : out[i] = written - Len(out) + i
                        /\ Len(buf[proc].lines) < Capacity => Len(out) = written
      BY DEF LogIsTail
    <2>1. /\ buf[proc].lines \in Seq(Seq(Nat)) /\ buf[proc].partial \in Seq(Nat)
          /\ written \in Nat /\ LastPieces(buf[proc].lines, buf[proc].partial, written)
      BY Assumed DEF Inv, TypeOK, OutputKept, Assumptions
    <2>2. QED
      BY <2>1, LastPiecesAreTail DEF Output
  <1>2. QED
    BY <1>1, Invariance, PTL

=============================================================================
